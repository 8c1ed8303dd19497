--------------------------- MODULE Configuration ---------------------------
(***************************************************************************)
(* One directive of a policy filled from configuration: texts are offered  *)
(* to the parser the caller chose, what it accepts is added to the value   *)
(* of the directive, and the directive renders as a line of text.          *)
(*                                                                         *)
(* A source list, an ancestor list, sandbox, report-uri, the sinks and the *)
(* policy names drop repeats (push_unique); report-to and webrtc hold one  *)
(* value, and another one replaces it.                                     *)
(***************************************************************************)
EXTENDS TermParsers

CONSTANTS
    Texts,      \* the texts a parser may be offered: by its name, some sets of texts
    Paired,     \* those that may be offered with others
    MaxOffers,  \* bound on the texts offered one after another
    Digests,    \* lengths of the digests HashSource::from_digest is given
    Entropies   \* lengths of the arrays NonceSource::from_entropy is given

ASSUME BoundTypes == MaxOffers \in Nat /\ Digests \subseteq Nat /\ Entropies \subseteq Nat

\* What is encoded has a length the model knows.
ASSUME EncodedRuns == \A bytes \in Digests \cup Entropies : ContentLen(bytes) \in Run

VARIABLES
    directive,  \* the name of the directive
    entries,    \* its values, in the order they were added
    flags,      \* of TrustedTypes: whether it is Policies, and its two flags
    offered     \* what was offered so far: the parser and the text

vars == <<directive, entries, flags, offered>>

\* The parsers whose values the directive takes.
Readers ==
    [n \in {"img-src", "frame-ancestors", "sandbox", "report-to", "report-uri",
            "require-trusted-types-for", "trusted-types", "webrtc"} |->
        CASE n = "img-src"         -> {"Source::parse", "Source::host", "Source::scheme",
                                       "Source::nonce"} \cup HashAlgorithm
          [] n = "frame-ancestors" -> {"AncestorSource::parse", "AncestorSource::host"}
          [] n = "sandbox"         -> {"SandboxToken::parse"}
          [] n = "report-to"       -> {"ReportGroup::parse"}
          [] n = "report-uri"      -> {"ReportUri::parse"}
          [] n = "require-trusted-types-for" -> {"TrustedTypeSink::parse"}
          [] n = "trusted-types"   -> {"TrustedTypePolicyName::parse"}
          [] n = "webrtc"          -> {"Webrtc::parse"}]

ASSUME TextTypes ==
    /\ \A n \in DOMAIN Readers : \A reader \in Readers[n] :
          \A family \in DOMAIN Texts[reader] : Texts[reader][family] \subseteq Seq(Token)
    /\ Paired \subseteq Seq(Token)

\* What the parser accepts in the text; Source::hash is named by its algorithm.
Read(reader, t) ==
    CASE reader = "Source::parse"         -> ParseSource(t)
      [] reader \in {"Source::host", "AncestorSource::host"} -> ParseHostSource(t)
      [] reader = "Source::scheme"        -> ParseSchemeSource(t)
      [] reader = "Source::nonce"         -> ParseNonce(t)
      [] reader \in HashAlgorithm         -> HashOf(reader, t)
      [] reader = "AncestorSource::parse" -> ParseAncestor(t)
      [] reader = "SandboxToken::parse"   -> ParseSandboxToken(t)
      [] reader \in {"ReportGroup::parse", "ReportUri::parse"} -> ParseReport(t)
      [] reader = "TrustedTypeSink::parse"       -> ParseSink(t)
      [] reader = "TrustedTypePolicyName::parse" -> ParsePolicyName(t)
      [] reader = "Webrtc::parse"         -> ParseWebrtc(t)

HoldsOne(n) == n \in {"report-to", "webrtc"}

\* A faulty Add: a value may be listed twice.
AddAlways(n, values, value) == IF HoldsOne(n) THEN <<value>> ELSE Append(values, value)

\* push_unique, or the replacement of the one value.
Add(n, values, value) ==
    IF HoldsOne(n) THEN <<value>>
    ELSE IF value \in ToSet(values) THEN values
    ELSE Append(values, value)

Init ==
    /\ directive \in DOMAIN Readers
    /\ entries = <<>>
    /\ flags \in IF directive = "trusted-types" THEN {{}, {"policies"}} ELSE {{}}
    /\ offered = <<>>

Accept(value) ==
    /\ entries' = Add(directive, entries, value)
    /\ flags' = IF directive = "trusted-types" THEN flags \cup {"policies"} ELSE flags
    /\ UNCHANGED directive

\* The bounds: what may follow on a text, and how much.
MayAdd ==
    /\ \A i \in DOMAIN offered : offered[i].text \in Paired
    /\ Len(offered) < MaxOffers
    /\ Len(entries) < MaxOffers

\* A text that is accepted becomes an entry.
Offer(reader, t) ==
    /\ MayAdd
    /\ \E value \in Read(reader, t) : Accept(value)
    /\ offered' = Append(offered, [reader |-> reader, text |-> t])

\* A text that is refused changes nothing.
Refuse(reader, t) ==
    /\ MayAdd
    /\ Read(reader, t) = {}
    /\ offered' = Append(offered, [reader |-> reader, text |-> t])
    /\ UNCHANGED <<directive, entries, flags>>

\* Source::sha256 and HashSource::from_digest.
Digest(algorithm, bytes) ==
    /\ MayAdd /\ directive = "img-src"
    /\ \E value \in HashFromDigest(algorithm, bytes) : Accept(value)
    /\ UNCHANGED offered

\* NonceSource::from_entropy.
Mint(bytes) ==
    /\ MayAdd /\ directive = "img-src"
    /\ \E value \in NonceFromEntropy(bytes) : Accept(value)
    /\ UNCHANGED offered

\* TrustedTypes::any, and the field it sets.
Wildcard ==
    /\ directive = "trusted-types"
    /\ flags' = flags \cup {"policies", "wildcard"}
    /\ UNCHANGED <<directive, entries, offered>>

\* TrustedTypes::allowing_duplicates; of TrustedTypes::None it makes nothing else.
AllowingDuplicates ==
    /\ directive = "trusted-types"
    /\ "policies" \in flags
    /\ flags' = flags \cup {"allow-duplicates"}
    /\ UNCHANGED <<directive, entries, offered>>

\* The texts the reader may be offered next.
Offers(reader) == IF offered = <<>> THEN Texts[reader] ELSE <<Paired>>

Next ==
    \/ MayAdd /\ \E reader \in Readers[directive] :
          \E family \in DOMAIN Offers(reader) :
              \E t \in Offers(reader)[family] : Offer(reader, t) \/ Refuse(reader, t)
    \/ \E algorithm \in HashAlgorithm, bytes \in Digests : Digest(algorithm, bytes)
    \/ \E bytes \in Entropies : Mint(bytes)
    \/ Wildcard
    \/ AllowingDuplicates

Spec == Init /\ [][Next]_vars

-----------------------------------------------------------------------------
(***************************************************************************)
(* The directive as it is rendered.                                        *)
(***************************************************************************)

None == <<"'", "none", "'">>

Flag(flag, word) == IF flag \in flags THEN <<word>> ELSE <<>>

\* Display for TrustedTypes.
TrustedTypesWords ==
    Flag("wildcard", <<"*">>)
        \o [i \in DOMAIN entries |-> Display(entries[i])]
        \o Flag("allow-duplicates", <<"'", "allow", "-", "duplicates", "'">>)

\* The words of the value: an empty source list, ancestor list or list of policies is
\* spelt out, an empty list of any other kind is no word at all.
Words ==
    LET words == TrustedTypesWords
    IN  IF words = <<>> /\ directive \in {"img-src", "frame-ancestors", "trusted-types"}
        THEN <<None>>
        ELSE words

\* Display for Directive, with its name as one token and a blank before every word.
Written(name, words) ==
    LET line[k \in 0..Len(words)] ==
            IF k = 0 THEN <<name>> ELSE line[k - 1] \o <<Blank>> \o words[k]
    IN  line[Len(words)]

Line == Written(directive, Words)

\* report-to and webrtc exist once they have a value.
Renders == HoldsOne(directive) => entries # <<>>
=============================================================================
