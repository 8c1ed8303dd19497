-------------------------- MODULE MCConfiguration --------------------------
(***************************************************************************)
(* Texts for the parsers: every short sequence of the tokens, every host   *)
(* source put together from parts that are right or wrong, and every       *)
(* quoted expression put together from a prefix, a value and quotes.       *)
(***************************************************************************)
EXTENDS ConfigurationRequirements

CONSTANT MaxTokens

MCName == {"a", "https", "none"}

MCNumeral == [numeral \in {"0", "80", "65535", "65536"} |->
    CASE numeral = "0" -> 0 [] numeral = "80" -> 80
      [] numeral = "65535" -> 65535 [] numeral = "65536" -> 65536]

MCRun == {16, 20, 22, 23, 24, 42, 43, 44, 64, 86}

Sequences(tokens, n) == UNION {[1..length -> tokens] : length \in 0..n}

\* Every token with a part of its own in some grammar.
AnyTokens ==
    Sequences({":", "/", ".", "*", "-", "'", "?", "=", "+", "@", ";", Blank, "a", Upper("a"),
               "self", "script", "allow", "0", "80", "65536"}, 3)

HostTokens == Sequences({":", "/", ".", "*", "a", "80"}, MaxTokens)

SchemeParts ==
    {<<>>, <<"https", ":", "/", "/">>, <<Upper("https"), ":", "/", "/">>,
     <<"a", "+", "-", "80", ":", "/", "/">>, <<"80", ":", "/", "/">>,
     <<"a", ":", ":", "/", "/">>, <<"a", ":", "/">>}

HostParts ==
    {<<"a">>, <<Upper("a")>>, <<"*">>, <<"*", ".", "a">>, <<"*", "a">>, <<"a", ".">>,
     <<"a", ".", "-", "a">>, <<"a", ".", ".", "a">>, <<"a", ";", "a">>, <<"a", "_">>}

PortParts ==
    {<<>>, <<":">>, <<":", "*">>, <<":", "80">>, <<":", "0", "80">>, <<":", "0", "0">>,
     <<":", "65535">>, <<":", "65536">>, <<":", "80", "80", "80">>, <<":", "80", "a">>}

PathParts ==
    {<<>>, <<"/">>, <<"/", Upper("a"), ":", "80", "'">>, <<"/", "a", "?">>,
     <<"/", "a", ";", "a">>, <<"/", Blank>>, <<"/", "/", "*">>, <<"/", ":", "/", "/", "a">>}

HostTexts == {FlattenSeq(parts) : parts \in SchemeParts \X HostParts \X PortParts \X PathParts}

InUppercase(t) == [i \in DOMAIN t |-> IF t[i] \in Word THEN Upper(t[i]) ELSE t[i]]

Keywords == KeywordText \cup {<<"'", "none", "'">>, <<"'", "unsafe", "'">>}

\* Base64 of lengths on both sides of every limit, and values that are not base64.
Contents ==
    {<<RunOf(length)>> : length \in Run}
        \cup {<<RunOf(20), "-", "_">>, <<RunOf(20), "a">>, <<"+", RunOf(42)>>,
              <<RunOf(22), ";">>, <<RunOf(22), "=", "a">>, <<>>}

TermPrefixes ==
    {<<>>, <<"nonce", "-">>, <<Upper("nonce"), "-">>, <<"sha256", "-">>,
     <<Upper("sha256"), "-">>, <<"sha384", "-">>, <<"sha512", "-">>, <<"sha256">>, <<"a", "-">>}

Padding == {[i \in 1..length |-> "="] : length \in 0..3}

EncodedTexts ==
    {parts[1] \o FlattenSeq(<<parts[2], parts[3], parts[4]>>) \o parts[1] :
        parts \in {<<>>, <<"'">>} \X TermPrefixes \X Contents \X Padding}

Tokens == {t \in SandboxText : TRUE} \cup {<<"allow", "-">>, <<"allow", "-", "a">>}

BothCases(texts) == texts \cup {InUppercase(t) : t \in texts}

Values == {<<"self">>, <<"script">>, <<"allow">>, <<"block">>}

QuotedValues ==
    {parts[1] \o parts[2] \o parts[3] :
        parts \in Sequences({"'"}, 2) \X BothCases(Values) \X Sequences({"'"}, 2)}

\* The families of texts each parser is offered.
MCTexts ==
    [reader \in UNION Range(Readers) |->
        CASE reader = "Source::parse" ->
                <<AnyTokens, HostTokens, HostTexts, EncodedTexts, BothCases(Keywords)>>
          [] reader = "AncestorSource::parse" ->
                <<AnyTokens, BothCases(Keywords), EncodedTexts>>
          [] reader = "Source::host" -> <<HostTexts>>
          [] reader = "AncestorSource::host" -> <<{<<"a">>, <<"'", "self", "'">>}>>
          [] reader \in HashAlgorithm \cup {"Source::nonce"} -> <<EncodedTexts>>
          [] reader = "SandboxToken::parse" -> <<BothCases(Tokens)>>
          [] reader \in {"TrustedTypeSink::parse", "Webrtc::parse"} -> <<QuotedValues>>
          [] OTHER -> <<AnyTokens>>]

\* Spellings of a few sources and names, some of them the same source.
MCPaired ==
    {<<"a">>, <<Upper("a")>>, <<"https", ":">>, <<"a", ":", "0", "80">>, <<"a", ":", "80">>,
     <<"a", "/", "a">>, <<"a", "/", Upper("a")>>, <<"'", "self", "'">>,
     <<"'", Upper("self"), "'">>, <<"'", "none", "'">>, <<"*">>, <<"script">>, <<"a", ";">>}
=============================================================================
