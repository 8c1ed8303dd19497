---------------------------- MODULE TermParsers ----------------------------
(***************************************************************************)
(* The parsers and renderers of csp-policy for the terms a caller brings   *)
(* from outside the program: hosts, schemes, digests, nonces, the names of *)
(* Trusted Types policies, reporting endpoints and the tokens of sandbox   *)
(* and webrtc.                                                             *)
(*                                                                         *)
(* A parser is an operator from a text to the set of what it accepts: the  *)
(* empty set when it refuses, one value when it accepts.  Which ParseError *)
(* a refusal carries is left out.  An optional part of a host source is a  *)
(* text, empty when absent, and a record set puts the parts together: it   *)
(* is empty as soon as one of them was refused.                            *)
(***************************************************************************)
EXTENDS TermText, Base64Lengths

When(accepted, value) == IF accepted THEN {value} ELSE {}

Absent == {<<>>}

SchemeByte == Alphanumeric \cup {"+", "-", "."}

HostByte == Alphanumeric \cup {"-", "."}

\* SchemeName::parse and Scheme::parse: one trailing colon is dropped.
ParseScheme(t) ==
    LET name == WithoutSuffix(t, ":")
    IN  When(name # <<>> /\ Head(name) \in Letters /\ In(name, SchemeByte), Lower(name))

\* HostName::parse: the root label after a trailing dot is the only empty one.
ParseHostName(t) ==
    LET labels == WithoutSuffix(t, ".")
    IN  When(/\ In(t, HostByte)
             /\ labels # <<>> /\ Head(labels) # "." /\ Last(labels) # "."
             /\ Places(labels, <<".", ".">>) = {},
             Lower(t))

\* parse_host_pattern: HostPattern::Any, Subdomains or Exact.
ParseHostPattern(t) ==
    IF t = <<"*">> THEN {t}
    ELSE IF IsPrefix(<<"*", ".">>, t)
    THEN {<<"*", ".">> \o name : name \in ParseHostName(From(t, 3))}
    ELSE ParseHostName(t)

\* A faulty parse_port: keeps the spelling of the number.
ParsePortVerbatim(t) ==
    When(t = <<"*">> \/ (t # <<>> /\ In(t, DOMAIN Numeral) /\ FitsIn16Bits(t)), t)

\* parse_port: PortPattern::Any, or the number without leading zeros.
ParsePort(t) ==
    IF t = <<"*">> THEN {t}
    ELSE When(t # <<>> /\ In(t, DOMAIN Numeral) /\ FitsIn16Bits(t), Stripped(t))

\* A faulty PathPart::parse: only looks for what ends a path.
ParsePathLoosely(t) == When(Head(t) = "/" /\ ToSet(t) \cap {"?", "#"} = {}, t)

\* PathPart::parse.
ParsePath(t) == When(Head(t) = "/" /\ In(t, PolicyByte \ {"?", "#"}), t)

HostSource(scheme, host, port, path) ==
    [kind : {"Host"}, scheme : scheme, host : host, port : port, path : path]

\* HostSource::parse: the first "://", then the first "/", then the last ":".
ParseHostSource(t) ==
    LET scheme    == FirstPlace(t, <<":", "/", "/">>)
        rest      == IF scheme = 0 THEN t ELSE From(t, scheme + 3)
        path      == FirstPlace(rest, <<"/">>)
        authority == IF path = 0 THEN rest ELSE Before(rest, path)
        port      == LastPlace(authority, <<":">>)
    IN  HostSource(
            IF scheme = 0 THEN Absent ELSE ParseScheme(Before(t, scheme)),
            ParseHostPattern(IF port = 0 THEN authority ELSE Before(authority, port)),
            IF port = 0 THEN Absent ELSE ParsePort(From(authority, port + 1)),
            IF path = 0 THEN Absent ELSE ParsePath(From(rest, path)))

-----------------------------------------------------------------------------
(***************************************************************************)
(* Digests and nonces.                                                     *)
(***************************************************************************)

\* base64.rs: encode, of so many bytes.
Encoded(bytes) == <<RunOf(ContentLen(bytes))>> \o [i \in 1..PaddingLen(bytes) |-> "="]

\* base64.rs: is_base64_char.
Base64Char == Alphanumeric \cup {"+", "/", "-", "_"}

Unpadded(t) == TrimmedEnd(t, "=")

\* base64.rs: first_invalid_base64_byte finds none.
IsBase64(t) == In(Unpadded(t), Base64Char) /\ Len(t) - Len(Unpadded(t)) <= 2

\* HashSource::new.
HashOf(algorithm, value) ==
    [kind : {"Hash"}, algorithm : {algorithm},
     value : When(/\ IsBase64(value)
                  /\ Length(value) \in {UnpaddedLen(DigestLen[algorithm]),
                                        PaddedLen(DigestLen[algorithm])},
                  value)]

\* HashSource::from_digest; sha256 is the case of 32 bytes.
HashFromDigest(algorithm, bytes) ==
    [kind : {"Hash"}, algorithm : {algorithm},
     value : When(bytes = DigestLen[algorithm], Encoded(bytes))]

\* HashAlgorithm::parse of what stands before the first "-".
AlgorithmOf(t) ==
    {algorithm \in HashAlgorithm :
        LET dash == FirstPlace(t, <<"-">>)
        IN  dash # 0 /\ Lower(Before(t, dash)) = <<algorithm>>}

\* HashSource::parse.
ParseHash(t) ==
    LET body == Unquote(t)
    IN  UNION {HashOf(algorithm, From(body, FirstPlace(body, <<"-">>) + 1)) :
                  algorithm \in AlgorithmOf(body)}

\* A faulty NonceSource::parse: counts the padding.
ParseNoncePadded(t) ==
    LET value == WithoutPrefix(Unquote(t), <<"nonce", "-">>)
    IN  [kind : {"Nonce"},
         value : When(IsBase64(value) /\ Length(value) >= MinNonceChars, value)]

\* NonceSource::parse: the prefix is stripped in lower case only.
ParseNonce(t) ==
    LET value == WithoutPrefix(Unquote(t), <<"nonce", "-">>)
    IN  [kind : {"Nonce"},
         value : When(IsBase64(value) /\ Length(Unpadded(value)) >= MinNonceChars, value)]

\* A faulty from_entropy: one byte is missing.
NonceFromFewBits(bytes) ==
    [kind : {"Nonce"}, value : When(bytes * 8 >= 120, Encoded(bytes))]

\* NonceSource::from_entropy: fewer than 128 bits do not compile.
NonceFromEntropy(bytes) ==
    [kind : {"Nonce"}, value : When(bytes * 8 >= 128, Encoded(bytes))]

-----------------------------------------------------------------------------
(***************************************************************************)
(* Source expressions.                                                     *)
(***************************************************************************)

KeywordText ==
    {<<"'", "self", "'">>, <<"'", "unsafe", "-", "inline", "'">>,
     <<"'", "unsafe", "-", "eval", "'">>, <<"'", "wasm", "-", "unsafe", "-", "eval", "'">>,
     <<"'", "unsafe", "-", "hashes", "'">>, <<"'", "strict", "-", "dynamic", "'">>,
     <<"'", "report", "-", "sample", "'">>,
     <<"'", "inline", "-", "speculation", "-", "rules", "'">>}

\* The keywords ignore case.
ParseKeyword(t) == [kind : {"Keyword"}, text : {Lower(t)} \cap KeywordText]

\* Source::parse_quoted: a keyword, or else a nonce, or else a digest; 'none' is none.
ParseQuoted(t) ==
    IF ParseKeyword(t) # {} THEN ParseKeyword(t)
    ELSE IF IsPrefix(<<"nonce", "-">>, Lower(Unquote(t))) THEN ParseNonce(t)
    ELSE ParseHash(t)

ParseSchemeSource(t) == [kind : {"Scheme"}, scheme : ParseScheme(t)]

\* Source::parse.
ParseSource(t) ==
    IF Quoted(t) THEN ParseQuoted(t)
    ELSE IF t # <<>> /\ Last(t) = ":" /\ "/" \notin ToSet(t) THEN ParseSchemeSource(t)
    ELSE ParseHostSource(t)

\* A faulty AncestorSource::parse: only keywords are looked at.
ParseAncestorLoosely(t) ==
    {source \in ParseSource(t) :
        source.kind = "Keyword" => source.text = <<"'", "self", "'">>}

\* AncestorSource::parse: 'self' is the only keyword.
ParseAncestor(t) ==
    {source \in ParseSource(t) :
        \/ source.kind \in {"Scheme", "Host"}
        \/ source.kind = "Keyword" /\ source.text = <<"'", "self", "'">>}

-----------------------------------------------------------------------------
(***************************************************************************)
(* The other terms.                                                        *)
(***************************************************************************)

\* A faulty is_name_byte: whatever a policy may carry.
AnyNameByte == PolicyByte

\* trusted_types.rs: is_name_byte, without "%".
NameByte == Alphanumeric \cup {"-", "#", "=", "_", "/", "@", "."}

\* TrustedTypePolicyName::parse.
ParsePolicyName(t) == [kind : {"Name"}, text : When(t # <<>> /\ In(t, NameByte), t)]

\* report.rs: validate, for ReportGroup and ReportUri.
ParseReport(t) == [kind : {"Report"}, text : When(t # <<>> /\ In(t, PolicyByte), t)]

\* One of the values a name is compared with, ignoring case.
Named(t, names) == [kind : {"Named"}, text : {Lower(t)} \cap names]

\* SandboxToken::as_str, without the "allow-" every token begins with.
Lifted ==
    {<<"downloads">>, <<"downloads", "-", "without", "-", "user", "-", "activation">>,
     <<"forms">>, <<"modals">>, <<"orientation", "-", "lock">>, <<"pointer", "-", "lock">>,
     <<"popups">>, <<"popups", "-", "to", "-", "escape", "-", "sandbox">>, <<"presentation">>,
     <<"same", "-", "origin">>, <<"scripts">>,
     <<"storage", "-", "access", "-", "by", "-", "user", "-", "activation">>,
     <<"top", "-", "navigation">>,
     <<"top", "-", "navigation", "-", "by", "-", "user", "-", "activation">>,
     <<"top", "-", "navigation", "-", "to", "-", "custom", "-", "protocols">>}

SandboxText == {<<"allow", "-">> \o lifted : lifted \in Lifted}

\* SandboxToken::parse.
ParseSandboxToken(t) == Named(t, SandboxText)

\* TrustedTypeSink::parse: with or without one layer of quotes.
ParseSink(t) == Named(<<"'">> \o Unquote(t) \o <<"'">>, {<<"'", "script", "'">>})

\* Webrtc::parse: any number of quotes.
ParseWebrtc(t) ==
    Named(<<"'">> \o Trimmed(t, "'") \o <<"'">>, {<<"'", "allow", "'">>, <<"'", "block", "'">>})

-----------------------------------------------------------------------------
(***************************************************************************)
(* Rendering: Display for Source and for the other terms.                  *)
(***************************************************************************)

HostText(source) ==
    (IF source.scheme = <<>> THEN <<>> ELSE source.scheme \o <<":", "/", "/">>)
        \o source.host
        \o (IF source.port = <<>> THEN <<>> ELSE <<":">> \o source.port)
        \o source.path

Display(term) ==
    CASE term.kind = "Scheme" -> term.scheme \o <<":">>
      [] term.kind = "Host"   -> HostText(term)
      [] term.kind = "Nonce"  -> <<"'", "nonce", "-">> \o term.value \o <<"'">>
      [] term.kind = "Hash"   -> <<"'", term.algorithm, "-">> \o term.value \o <<"'">>
      [] OTHER                -> term.text
=============================================================================
