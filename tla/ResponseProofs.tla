--------------------------- MODULE ResponseProofs ---------------------------
(***************************************************************************)
(* Proofs about what a response carries: the two halves of the rendered    *)
(* policy with a nonce between them are the policy with that nonce in      *)
(* script-src, and a browser reads back the directives that were built.    *)
(*                                                                         *)
(* The inductive invariant says what the builder does not remember: that   *)
(* none of its lists holds a nonce still to be minted, that what was built *)
(* is what the policy renders now, and that the last response is an answer *)
(* of it.                                                                  *)
(***************************************************************************)
EXTENDS ContractProofs

Script == "script-src"

\* No list of p holds a nonce that may still be minted.
Fresh(p) ==
    \A n \in SourceDirective : Contains(p, n) => Listed(p, n) \cap MintedNonces = {}

\* What Csp::build makes of the builder.
Built ==
    IF per_response_nonce THEN SplitAroundScriptSrc(EnsureSeeded(policy, Script))
    ELSE [kind |-> "Constant", text |-> ToHeaderValue(policy)]

\* The responses a rendered policy can give.
Answers(r) ==
    IF r.kind = "Constant"
    THEN {[csp |-> r.text, cache_control |-> "absent", nonce |-> {}]}
    ELSE IF r.kind = "PerResponse"
    THEN {[csp |-> r.head \o <<n>> \o r.tail, cache_control |-> "no-cache",
           nonce |-> {n}] : n \in MintedNonces}
    ELSE {}

RInv ==
    /\ policy \in WellFormed
    /\ Fresh(policy)
    /\ rendered \in {Unbuilt, Built}
    /\ response \in {NoResponse} \cup Answers(rendered)

-----------------------------------------------------------------------------
\* No list holds a minted nonce, and so none is in force anywhere.
LEMMA FreshForce ==
    ASSUME NEW p, Fresh(p), NEW n \in SourceDirective
    PROVE  InForce(p, n) \cap MintedNonces = {}
<1> DEFINE Good(m) == InForce(p, m) \cap MintedNonces = {}
<1>1. ASSUME NEW m \in SourceDirective, Contains(p, m) PROVE Good(m)
  BY <1>1 DEF Fresh, InForce
<1>2. ASSUME NEW m, ~Contains(p, m), m \in Roots PROVE Good(m)
  BY <1>2, ForceOfAbsent
<1>3. ASSUME NEW m, ~Contains(p, m), m \notin Roots, Good(Parent(m)) PROVE Good(m)
  BY <1>3, ForceOfAbsent
<1>4. /\ "default-src" \in SourceDirective /\ "default-src" \in Roots
      /\ \A m : Parent(m) \in SourceDirective
  BY DEF SourceDirective, Roots, Parent
<1> HIDE DEF Good
<1>5. Good("default-src")
  BY <1>1, <1>2, <1>4
<1>6. ASSUME NEW m \in SourceDirective, Parent(m) = "default-src" PROVE Good(m)
  BY <1>1, <1>2, <1>3, <1>5, <1>6
<1>7. Good(n)
  <2>1. CASE n \in Roots \/ Parent(n) = "default-src"
    BY <1>1, <1>2, <1>6, <2>1
  <2>2. CASE n \notin Roots /\ Parent(n) # "default-src"
    <3>1. Good(Parent(n))
      BY <1>4, <1>6, <2>2, ChainOf
    <3> QED BY <1>1, <1>3, <2>2, <3>1
  <2> QED BY <2>1, <2>2
<1> QED BY <1>7 DEF Good

\* Widening by what is no minted nonce keeps the lists fresh.
LEMMA WidenedIsFresh ==
    ASSUME NEW p, NEW q, NEW E, Fresh(p), Widened(p, q, E), E \cap MintedNonces = {}
    PROVE  Fresh(q)
<1>1. \A n \in SourceDirective : InForce(p, n) \cap MintedNonces = {}
  BY FreshForce
<1>2. \A n \in SourceDirective : InForce(q, n) \cap MintedNonces = {}
  BY <1>1 DEF Widened
<1> QED BY <1>2 DEF Fresh, InForce

\* So does changing one list into one that is fresh.
LEMMA ReplacedIsFresh ==
    ASSUME NEW p, NEW q, NEW n, Fresh(p), SameExcept(p, q, n),
           n \in SourceDirective /\ Contains(q, n) => Listed(q, n) \cap MintedNonces = {}
    PROVE  Fresh(q)
BY DEF Fresh, SameExcept, Listed

\* Keywords, hosts, schemes and digests are no nonces.
LEMMA NoMintedNonce ==
    (Keyword \cup Host \cup Scheme \cup Hash) \cap MintedNonces = {}
BY NoncesAreFresh, DistinctTerms

\* A policy is fresh if each of its source lists is.
LEMMA FreshByIndex ==
    ASSUME NEW p \in WellFormed,
           \A i \in 1..Len(p) : p[i].name \in SourceDirective
                                    => Elements(p[i].value.terms) \cap MintedNonces = {}
    PROVE  Fresh(p)
BY ListOfIsAList DEF Fresh, Listed, ListOf

\* What is made of keywords and schemes holds no minted nonce.
LEMMA OfIsFresh ==
    ASSUME NEW ss \in Seq(Source), Elements(ss) \subseteq Keyword \cup Scheme
    PROVE  Elements(Of(ss).terms) \cap MintedNonces = {}
BY OfType, NoMintedNonce

\* The constructors list no nonce (csp.rs, Csp::new and Csp::spa_wasm).
LEMMA ConstructedIsFresh ==
    ASSUME NEW c \in Start, NEW p, p = Constructed(c)
    PROVE  p \in WellFormed /\ Fresh(p)
<1>1. p \in WellFormed
  BY ConstructedIsFine, FineIsWellFormed
<1>2. CASE c = "new"
  <2>1. p = <<>>
    BY <1>2 DEF Constructed
  <2>2. Len(p) = 0
    BY <2>1
  <2> QED BY <1>1, <2>2, FreshByIndex
<1>3. CASE c = "spa_wasm"
  <2> DEFINE KS == Keyword \cup Scheme
             self == "'self'"
             wasm == "'wasm-unsafe-eval'"
             inline == "'unsafe-inline'"
             https == "https:"
             data == "data:"
             Good(list) == Elements(list.terms) \cap MintedNonces = {}
  <2>1. self \in KS /\ wasm \in KS /\ inline \in KS /\ https \in KS /\ data \in KS
    BY <1>3, InputTypes DEF Keyword
  <2>2. KS \subseteq Source
    BY DEF Source
  <2> HIDE DEF self, wasm, inline, https, data
  <2>3. /\ Good(Of(<<self>>)) /\ Good(Of(<<self, wasm>>)) /\ Good(Of(<<self, inline>>))
        /\ Good(Of(<<self, https, data>>)) /\ Good(Of(<<self, data>>))
    <3>1. <<self>> \in Seq(Source) /\ Elements(<<self>>) \subseteq KS
      BY <2>1, <2>2, SequenceOfOne
    <3>2. <<self, wasm>> \in Seq(Source) /\ Elements(<<self, wasm>>) \subseteq KS
      BY <2>1, <2>2, SequenceOfTwo
    <3>3. <<self, inline>> \in Seq(Source) /\ Elements(<<self, inline>>) \subseteq KS
      BY <2>1, <2>2, SequenceOfTwo
    <3>4. /\ <<self, https, data>> \in Seq(Source)
          /\ Elements(<<self, https, data>>) \subseteq KS
      BY <2>1, <2>2, SequenceOfThree
    <3>5. <<self, data>> \in Seq(Source) /\ Elements(<<self, data>>) \subseteq KS
      BY <2>1, <2>2, SequenceOfTwo
    <3> QED BY <3>1, <3>2, <3>3, <3>4, <3>5, OfIsFresh
  <2>4. Good(NoneList)
    BY DEF NoneList, Elements
  <2> HIDE DEF Good
  <2>5. /\ Len(p) = 10
        /\ p[1].value = Of(<<self>>) /\ p[2].value = Of(<<self, wasm>>)
        /\ p[3].value = Of(<<self, inline>>) /\ p[4].value = Of(<<self>>)
        /\ p[5].value = Of(<<self, https, data>>) /\ p[6].value = Of(<<self, data>>)
        /\ p[7].value = NoneList /\ p[8].value = NoneList /\ p[9].value = Of(<<self>>)
        /\ p[10].name = "frame-ancestors"
    BY <1>3 DEF Constructed, SpaWasm, Sources, self, wasm, inline, https, data
  <2>6. "frame-ancestors" \notin SourceDirective
    BY DEF SourceDirective
  <2>7. \A i \in 1..Len(p) : p[i].name \in SourceDirective => Good(p[i].value)
    BY <2>3, <2>4, <2>5, <2>6
  <2> QED BY <1>1, <2>7, FreshByIndex DEF Good
<1> QED BY <1>1, <1>2, <1>3, InputTypes

-----------------------------------------------------------------------------
\* Csp::directive and Csp::set store no nonce that may still be minted.
LEMMA SetIsFresh ==
    ASSUME policy \in WellFormed, Fresh(policy), NEW d \in GivenDirectives, SetDirective(d)
    PROVE  Fresh(policy')
<1>1. CASE policy' = policy
  BY <1>1
<1>2. CASE policy' = Set(policy, d)
  <2>1. d \in Directive
    BY InputTypes
  <2>2. /\ SameExcept(policy, policy', d.name) /\ Contains(policy', d.name)
        /\ ListOf(policy', d.name) = d.value
    BY <1>2, <2>1, SetView
  <2>3. Listed(policy', d.name) \cap MintedNonces = {}
    BY <2>2, NoncesAreFresh DEF Listed
  <2> QED BY <2>2, <2>3, ReplacedIsFresh
<1> QED BY <1>1, <1>2 DEF SetDirective

\* Csp::extend adds none.
LEMMA ExtendIsFresh ==
    ASSUME policy \in WellFormed, Fresh(policy), NEW g \in GivenSources, Extend(g[1], g[2])
    PROVE  Fresh(policy')
<1> DEFINE n == g[1]
           ss == Of(g[2]).terms
<1>1. CASE policy' = policy
  BY <1>1
<1>2. CASE policy' = ExtendSources(policy, n, ss)
  <2>1. n \in SourceDirective /\ g[2] \in Seq(Source)
    BY InputTypes
  <2>2. ss \in Seq(Source) /\ Elements(ss) = Elements(g[2])
    BY <2>1, OfType, TermsType
  <2>3. Elements(ss) \cap MintedNonces = {}
    BY <2>2, NoncesAreFresh
  <2> HIDE DEF ss, n
  <2>4. /\ SameExcept(policy, policy', n) /\ Contains(policy', n)
        /\ Listed(policy', n) = (IF Contains(policy, n) THEN Listed(policy, n) ELSE {})
                                    \cup Elements(ss)
    BY <1>2, <2>1, <2>2, ExtendSourcesView DEF n
  <2>5. Listed(policy', n) \cap MintedNonces = {}
    BY <2>1, <2>3, <2>4 DEF Fresh, n
  <2> QED BY <2>4, <2>5, ReplacedIsFresh
<1> QED BY <1>1, <1>2 DEF Extend

\* Taking away leaves none.
LEMMA RemoveIsFresh ==
    ASSUME policy \in WellFormed, Fresh(policy), NEW n, RemoveDirective(n)
    PROVE  Fresh(policy')
<1>1. SameExcept(policy, policy', n) /\ ~Contains(policy', n)
  BY RemoveView DEF RemoveDirective
<1> QED BY <1>1, ReplacedIsFresh

LEMMA RetainIsFresh ==
    ASSUME policy \in WellFormed, Fresh(policy), NEW n \in SourceDirective, NEW keep,
           RetainSources(n, keep)
    PROVE  Fresh(policy')
<1>1. policy' = RetainIn(policy, n, keep)
  BY DEF RetainSources
<1>2. CASE ~Contains(policy, n)
  BY <1>1, <1>2 DEF RetainIn
<1>3. CASE Contains(policy, n)
  <2>1. /\ SameExcept(policy, policy', n) /\ Contains(policy', n)
        /\ Listed(policy', n) = Listed(policy, n) \cap keep
    BY <1>1, <1>3, RetainView
  <2>2. Listed(policy', n) \cap MintedNonces = {}
    BY <1>3, <2>1 DEF Fresh
  <2> QED BY <2>1, <2>2, ReplacedIsFresh
<1> QED BY <1>2, <1>3

\* Seeding and extending script-src by what is no minted nonce adds none
\* (csp.rs, with_scan and push_script_source).
LEMMA WidenedScriptIsFresh ==
    ASSUME NEW p \in WellFormed, Fresh(p), NEW ss \in Seq(Source),
           Elements(ss) \cap MintedNonces = {},
           NEW q, q = ExtendUnrouted(p, Script, ss)
    PROVE  Fresh(q)
<1>1. Script \in SourceDirective
  BY DEF Script, SourceDirective
<1>2. /\ SameExcept(p, q, Script) /\ Contains(q, Script)
      /\ Listed(q, Script) = InForce(p, Script) \cup Elements(ss)
  BY <1>1, ExtendUnroutedView
<1>3. Widened(p, q, Elements(ss))
  BY <1>2, ForceAfter
<1> QED BY <1>3, WidenedIsFresh

LEMMA NamedIsFresh ==
    ASSUME policy \in WellFormed, Fresh(policy), NEW method, NEW s \in Keyword,
           PushScriptSource(method, s)
    PROVE  Fresh(policy')
<1>1. s \in Source /\ s \notin MintedNonces
  BY NoMintedNonce DEF Source
<1>2. <<s>> \in Seq(Source) /\ Elements(<<s>>) \cap MintedNonces = {}
  BY <1>1, SequenceOfOne
<1>3. policy' = ExtendUnrouted(policy, Script, <<s>>)
  BY DEF PushScriptSource, Script
<1> QED BY <1>2, <1>3, WidenedScriptIsFresh

LEMMA AdmitIsFresh ==
    ASSUME policy \in WellFormed, Fresh(policy), NEW table \in Table,
           policy' = Admitted(policy, table)
    PROVE  Fresh(policy')
<1>1. Widened(policy, policy', Host \cup Scheme)
  BY AdmittedWidens
<1>2. (Host \cup Scheme) \cap MintedNonces = {}
  BY NoMintedNonce
<1> QED BY <1>1, <1>2, WidenedIsFresh

\* No call puts a nonce into the policy that a response may still mint
\* (csp.rs, the comment on per_response_nonce; nonce.rs, Nonce::mint).
LEMMA NextIsFresh ==
    ASSUME policy \in WellFormed, Fresh(policy), Next
    PROVE  Fresh(policy')
<1>1. CASE \E d \in GivenDirectives : SetDirective(d)
  BY <1>1, SetIsFresh
<1>2. CASE \E g \in GivenSources : Extend(g[1], g[2])
  BY <1>2, ExtendIsFresh
<1>3. CASE \E n \in RemovedNames : RemoveDirective(n)
  BY <1>3, RemoveIsFresh
<1>4. CASE \E k \in Retained : RetainSources(k[1], k[2])
  <2>1. PICK k \in Retained : RetainSources(k[1], k[2])
    BY <1>4
  <2>2. k[1] \in SourceDirective
    BY InputTypes
  <2> QED BY <2>1, <2>2, RetainIsFresh
<1>5. CASE \E hashes \in Scans : WithScan(hashes)
  <2>1. PICK hashes \in Scans : WithScan(hashes)
    BY <1>5
  <2>2. hashes \in Seq(Source) /\ Elements(hashes) \cap MintedNonces = {}
    BY ScanTypes, NoMintedNonce
  <2>3. policy' = ExtendUnrouted(policy, Script, hashes)
    BY <2>1 DEF WithScan, Script
  <2> QED BY <2>2, <2>3, WidenedScriptIsFresh
<1>6. CASE AllowUnsafeEval \/ AllowUnsafeInlineScript \/ StrictDynamic
  <2>1. {"'unsafe-eval'", "'unsafe-inline'", "'strict-dynamic'"} \subseteq Keyword
    BY DEF Keyword
  <2> QED BY <1>6, <2>1, NamedIsFresh
          DEF AllowUnsafeEval, AllowUnsafeInlineScript, StrictDynamic
<1>7. CASE \E enabled \in BOOLEAN : PerResponseNonce(enabled)
  BY <1>7 DEF PerResponseNonce
<1>8. CASE \E preset \in PresetNames : Admit(preset)
  <2>1. PICK preset \in PresetNames : Admit(preset)
    BY <1>8
  <2>2. Origins[preset] \in Table
    BY PresetTypes DEF Table
  <2> QED BY <2>1, <2>2, AdmitIsFresh DEF Admit
<1>9. CASE \E service \in Services, origin \in OwnOrigins : AdmitOrigin(service, origin)
  BY <1>9, PresetTypes, OriginTableType, AdmitIsFresh DEF AdmitOrigin
<1>10. CASE Build
  BY <1>10 DEF Build
<1>11. CASE ConstantHeaders
  BY <1>11 DEF ConstantHeaders
<1>12. CASE \E n \in MintedNonces : PerResponseHeaders(n)
  BY <1>12 DEF PerResponseHeaders
<1> QED BY <1>1, <1>2, <1>3, <1>4, <1>5, <1>6, <1>7, <1>8, <1>9, <1>10, <1>11, <1>12
        DEF Next

-----------------------------------------------------------------------------
(***************************************************************************)
(* The two halves with a nonce between them.                               *)
(***************************************************************************)

\* Extending a list by one expression that is not in it appends it.
LEMMA PushOne ==
    ASSUME NEW list \in SourceList, NEW n \in Source, n \notin Elements(list.terms)
    PROVE  /\ PushEach(list, <<n>>) = SourcesList(Append(list.terms, n))
           /\ list.terms \in Seq(Source)
<1> DEFINE ss == <<n>>
           one == Push(list, n)
           Round(f) == [i \in 0..1 |-> IF i = 0 THEN list ELSE Push(f[i - 1], ss[i])]
           pushed == CHOOSE f : f = Round(f)
           g == [i \in 0..1 |-> IF i = 0 THEN list ELSE one]
<1>1. PushEach(list, ss) = pushed[1]
  BY DEF PushEach
<1>2. ss[1] = n
  OBVIOUS
<1> HIDE DEF ss
<1>3. g = Round(g)
  BY <1>2
<1>4. pushed = Round(pushed)
  BY <1>3
<1>5. pushed[1] = one
  <2>1. \A i \in 0..1 : pushed[i] = IF i = 0 THEN list ELSE Push(pushed[i - 1], ss[i])
    <3> HIDE DEF pushed
    <3> QED BY <1>4
  <2> HIDE DEF pushed
  <2>2. 0 \in 0..1 /\ 1 \in 0..1
    OBVIOUS
  <2>3. pushed[0] = list
    BY <2>1, <2>2
  <2>4. pushed[1] = Push(pushed[0], ss[1])
    BY <2>1, <2>2
  <2> QED BY <1>2, <2>3, <2>4
<1>6. list.terms \in Seq(Source)
  BY TermsType
<1>7. one = SourcesList(Append(list.terms, n))
  <2>1. CASE list.kind = "None"
    <3>1. list.terms = <<>> /\ one = SourcesList(<<n>>)
      BY <2>1 DEF SourceList, NoneList, Push
    <3> QED BY <3>1
  <2>2. CASE list.kind # "None"
    BY <2>2 DEF Push, PushUnique
  <2> QED BY <2>1, <2>2
<1> QED BY <1>1, <1>5, <1>6, <1>7 DEF ss

\* A list with an expression appended renders as the bare list, then the expression
\* (csp.rs, split_around_script_src: an empty script-src is a bare name).
LEMMA TokensOfAppended ==
    ASSUME NEW list \in SourceList, NEW n \in Source,
           NEW v, v = SourcesList(Append(list.terms, n))
    PROVE  LET bare == IF MatchesNothing(list) THEN <<Script>>
                       ELSE DirectiveTokens(Sources(Script, list))
           IN  DirectiveTokens(Sources(Script, v)) = bare \o <<n>>
<1> DEFINE terms == list.terms
           name == <<Script>>
           bare == IF MatchesNothing(list) THEN name
                   ELSE DirectiveTokens(Sources(Script, list))
<1>1. terms \in Seq(Source) /\ v.terms = Append(terms, n)
  BY TermsType DEF SourcesList
<1>2. Script \in SourceDirective
  BY DEF Script, SourceDirective
<1>3. DirectiveTokens(Sources(Script, v)) = name \o Append(terms, n)
  <2>1. v.terms # <<>>
    <3> HIDE DEF terms
    <3>1. Len(v.terms) = Len(terms) + 1 /\ Len(terms) \in Nat
      BY <1>1, AppendOf
    <3> QED BY <3>1
  <2>2. ListTokens(v) = v.terms
    BY <2>1 DEF ListTokens, MatchesNothing
  <2> QED BY <1>1, <1>2, <2>2 DEF DirectiveTokens, Sources
<1>4. bare = name \o terms
  <2>1. CASE MatchesNothing(list)
    <3>1. terms = <<>> /\ bare = name
      BY <2>1 DEF MatchesNothing
    <3>2. name \in Seq(DirectiveName)
      BY <1>2, NamesAreStrings, SequenceOfOne
    <3> HIDE DEF name, bare, terms
    <3> QED BY <3>1, <3>2, ConcatEmptySeq
  <2>2. CASE ~MatchesNothing(list)
    <3>1. ListTokens(list) = terms
      BY <2>2 DEF ListTokens
    <3> QED BY <1>2, <2>2, <3>1 DEF DirectiveTokens, Sources
  <2> QED BY <2>1, <2>2
<1>5. name \o Append(terms, n) = (name \o terms) \o <<n>>
  <2> DEFINE T == Source \cup DirectiveName
  <2>1. name \in Seq(T) /\ terms \in Seq(T) /\ n \in T
    <3>1. Script \in T /\ Source \subseteq T
      BY <1>2, NamesAreStrings
    <3> HIDE DEF T
    <3> QED BY <1>1, <3>1, SequenceOfOne, SeqMonotone
  <2> HIDE DEF T, name, terms
  <2>2. Append(terms, n) = terms \o <<n>>
    BY <2>1
  <2>3. <<n>> \in Seq(T)
    BY <2>1, SequenceOfOne
  <2> QED BY <2>1, <2>2, <2>3, ConcatAssociative
<1> HIDE DEF name, bare, terms
<1>6. DirectiveTokens(Sources(Script, v)) = bare \o <<n>>
  BY <1>3, <1>4, <1>5
<1> QED BY <1>6 DEF bare, name

\* Replacing one directive replaces its tokens in the rendered text.
LEMMA RenderedAround ==
    ASSUME NEW s \in Seq(Directive), NEW q \in Seq(Directive), Len(q) = Len(s),
           NEW at \in 1..Len(s), \A j \in 1..Len(s) : j # at => q[j] = s[j]
    PROVE  ToHeaderValue(q) =
             ((Rendered(s, 1, at - 1) \o (IF at > 1 THEN Separator ELSE <<>>))
                  \o DirectiveTokens(q[at]))
             \o Rendered(s, at + 1, Len(s))
<1> DEFINE T == HeaderToken
           m == Len(s)
           before == at - 1
           after == at + 1
<1>1. Separator \in Seq(T)
  BY SeparatorType
<1>2. \A j \in 1..m : DirectiveTokens(q[j]) \in Seq(T) /\ DirectiveTokens(s[j]) \in Seq(T)
  <2>1. \A j \in 1..m : q[j] \in Directive /\ s[j] \in Directive
    OBVIOUS
  <2> QED BY <2>1, TokensOfADirective
<1>3. /\ m \in Nat /\ at \in Nat /\ before \in Nat /\ after \in Nat /\ after # 0
      /\ 1 \in Nat /\ 1 # 0 /\ at # 0 /\ at \in 0..m /\ at >= 1
      /\ 1..before \subseteq (1..m) \ {at} /\ after..m \subseteq (1..m) \ {at}
      /\ 1..at \subseteq 1..m
  OBVIOUS
<1> HIDE DEF T, m, before, after
<1>4. Rendered(q, 1, m) = Rendered(q, 1, at) \o Rendered(q, after, m)
  <2>1. Rendered(q, 1, m) = Rendered(q, 1, at) \o Rendered(q, at + 1, m)
    BY SMTT(40), <1>1, <1>2, <1>3, RenderedSplits
  <2> QED BY <2>1 DEF after
<1>5. Rendered(q, 1, at) = (Rendered(q, 1, before) \o (IF at > 1 THEN Separator ELSE <<>>))
                               \o DirectiveTokens(q[at])
  <2>1. Rendered(q, 1, at) = Appended(q, 1, at, Rendered(q, 1, before))
    <3>1. Rendered(q, 1, at) = Appended(q, 1, at, Rendered(q, 1, at - 1))
      BY <1>1, <1>2, <1>3, RenderedUnfolds
    <3> QED BY <3>1 DEF before
  <2>2. ~(at < 1)
    BY <1>3
  <2> QED BY <2>1, <2>2 DEF Appended
<1>6. Rendered(q, 1, before) = Rendered(s, 1, before)
  <2>1. SameTokens(T, q, s, 1, before)
    BY <1>2, <1>3 DEF m, SameTokens
  <2>2. before \in Nat /\ 1 \in Nat /\ 1 # 0
    BY <1>3
  <2> QED BY <1>1, <2>1, <2>2, RenderedAgree
<1>7. Rendered(q, after, m) = Rendered(s, after, m)
  <2>1. SameTokens(T, q, s, after, m)
    BY <1>2, <1>3 DEF m, SameTokens
  <2>2. after \in Nat /\ after # 0 /\ m \in Nat
    BY <1>3
  <2> QED BY <1>1, <2>1, <2>2, RenderedAgree
<1>8. ToHeaderValue(q) = Rendered(q, 1, m)
  BY DEF ToHeaderValue, m
<1> QED BY <1>4, <1>5, <1>6, <1>7, <1>8 DEF before, after, m

\* The halves of the rendered policy with a nonce between them are the policy with that
\* nonce in script-src (csp.rs, split_around_script_src; Policy::headers).
LEMMA SpliceOf ==
    ASSUME NEW p \in WellFormed, NEW n \in Source, n \notin InForce(p, Script),
           NEW r, r = SplitAroundScriptSrc(EnsureSeeded(p, Script))
    PROVE  r.head \o <<n>> \o r.tail = ToHeaderValue(ExtendUnrouted(p, Script, <<n>>))
<1> DEFINE s == EnsureSeeded(p, Script)
           at == Position(s, Script)
           list == ListOf(s, Script)
           v == SourcesList(Append(list.terms, n))
           d == Sources(Script, v)
           q == ExtendUnrouted(p, Script, <<n>>)
           front == Rendered(s, 1, at - 1) \o (IF at > 1 THEN Separator ELSE <<>>)
           bare == IF MatchesNothing(s[at].value) THEN <<Script>> ELSE DirectiveTokens(s[at])
           tail == Rendered(s, at + 1, Len(s))
<1>1. Script \in SourceDirective
  BY DEF Script, SourceDirective
<1>2. s \in WellFormed /\ Contains(s, Script) /\ Listed(s, Script) = InForce(p, Script)
  BY <1>1, EnsureSeededView
<1>3. r.head = front \o bare /\ r.tail = tail
  BY DEF SplitAroundScriptSrc, Script
<1>4. q = ExtendSources(s, Script, <<n>>)
  BY DEF ExtendUnrouted
<1> HIDE DEF s
<1>5. list \in SourceList /\ at \in 1..Len(s) /\ s[at].name = Script /\ list = s[at].value
  BY <1>1, <1>2, ListOfIsAList DEF ListOf
<1>6. s \in Seq(Directive)
  BY <1>2, WellFormedTypes
<1>7. PushEach(list, <<n>>) = v /\ v \in SourceList
  <2>1. n \notin Elements(list.terms)
    BY <1>2 DEF Listed
  <2> HIDE DEF list
  <2>2. PushEach(list, <<n>>) = v
    BY <1>5, <2>1, PushOne
  <2>3. <<n>> \in Seq(Source)
    BY SequenceOfOne
  <2> QED BY <1>5, <2>2, <2>3, PushEachType
<1>8. q = [s EXCEPT ![at] = d]
  BY <1>2, <1>4, <1>7 DEF ExtendSources
<1>9. d \in Directive
  BY <1>1, <1>7, SourcesAreDirectives
<1>10. s[at] = Sources(Script, list)
  BY <1>1, <1>5, <1>6 DEF Directive, Sources
<1> HIDE DEF at, q, d
<1>11. /\ q \in Seq(Directive) /\ Len(q) = Len(s)
       /\ q[at] = d /\ \A j \in 1..Len(s) : j # at => q[j] = s[j]
  BY <1>5, <1>6, <1>8, <1>9, UpdateOf
<1>12. ToHeaderValue(q) = (front \o DirectiveTokens(d)) \o tail
  BY <1>5, <1>6, <1>11, RenderedAround
<1>13. DirectiveTokens(d) = bare \o <<n>>
  <2> HIDE DEF list, v
  <2>1. DirectiveTokens(Sources(Script, v))
           = (IF MatchesNothing(list) THEN <<Script>>
              ELSE DirectiveTokens(Sources(Script, list))) \o <<n>>
    <3>1. v = SourcesList(Append(list.terms, n))
      BY DEF v
    <3> QED BY <1>5, <3>1, TokensOfAppended
  <2> QED BY <1>5, <1>10, <2>1 DEF d
<1>14. /\ front \in Seq(HeaderToken) /\ bare \in Seq(HeaderToken)
       /\ <<n>> \in Seq(HeaderToken) /\ tail \in Seq(HeaderToken)
  <2>1. at - 1 \in 0..Len(s) /\ 1 \in Nat /\ 1 # 0 /\ at + 1 \in Nat /\ at + 1 # 0
        /\ Len(s) \in 0..Len(s)
    BY <1>5, <1>6
  <2>2. Rendered(s, 1, at - 1) \in Seq(HeaderToken) /\ tail \in Seq(HeaderToken)
    BY <1>6, <2>1, RenderedTokens
  <2>3. (IF at > 1 THEN Separator ELSE <<>>) \in Seq(HeaderToken)
    BY SeparatorType
  <2>4. front \in Seq(HeaderToken)
    BY <2>2, <2>3, ConcatProperties
  <2>5. Script \in HeaderToken /\ n \in HeaderToken
    BY <1>1, NamesAreStrings DEF HeaderToken
  <2>6. bare \in Seq(HeaderToken)
    <3>1. s[at] \in Directive
      BY <1>5, <1>6
    <3>2. <<Script>> \in Seq(HeaderToken)
      BY <2>5, SequenceOfOne
    <3> QED BY <3>1, <3>2, TokensOfADirective
  <2> QED BY <2>2, <2>4, <2>5, <2>6, SequenceOfOne
<1> HIDE DEF front, bare, tail
<1>15. (front \o bare) \o <<n>> = front \o (bare \o <<n>>)
  BY SMTT(40), <1>14, ConcatAssociative
<1> QED BY <1>3, <1>12, <1>13, <1>15 DEF q

-----------------------------------------------------------------------------
\* The invariant holds of a new builder.
LEMMA ResponseInit == Init => RInv
<1> SUFFICES ASSUME Init PROVE RInv
  OBVIOUS
<1>1. policy \in WellFormed /\ Fresh(policy)
  BY ConstructedIsFresh DEF Init
<1>2. rendered = Unbuilt /\ response = NoResponse
  BY DEF Init
<1> QED BY <1>1, <1>2 DEF RInv

\* A step that leaves alone what was built, and all it was built from, preserves it.
LEMMA BuilderUntouched ==
    ASSUME UNCHANGED <<policy, per_response_nonce>>
    PROVE  Built' = Built
<1> DEFINE Of1(p, b) == IF b THEN SplitAroundScriptSrc(EnsureSeeded(p, Script))
                        ELSE [kind |-> "Constant", text |-> ToHeaderValue(p)]
<1>1. Built = Of1(policy, per_response_nonce) /\ Built' = Of1(policy', per_response_nonce')
  BY DEF Built
<1> HIDE DEF Of1
<1> QED BY <1>1

\* Every step preserves it.
LEMMA ResponseNext ==
    ASSUME RInv, IInv', Next
    PROVE  RInv'
<1>0. policy' \in WellFormed /\ Fresh(policy')
  BY NextIsFresh, FineIsWellFormed DEF RInv, IInv, FinePolicy
<1>1. Unbuilt.kind = "Unbuilt" /\ Answers(Unbuilt) = {}
  BY DEF Unbuilt, Answers
<1>2. CASE Call
  <2>1. rendered = Unbuilt /\ rendered' = Unbuilt /\ response' = response
    BY <1>2 DEF Call, served
  <2>2. response' = NoResponse
    BY <1>1, <2>1 DEF RInv
  <2> QED BY <1>0, <2>1, <2>2 DEF RInv, NoResponse
<1>3. CASE Build
  <2>1. rendered = Unbuilt /\ response' = response /\ rendered' = Built
    BY <1>3 DEF Build, Built, Script
  <2>2. response' = NoResponse
    BY <1>1, <2>1 DEF RInv
  <2>3. Built' = Built
    BY <1>3, BuilderUntouched DEF Build
  <2> QED BY <1>0, <2>1, <2>2, <2>3 DEF RInv, NoResponse
<1>4. ASSUME rendered.kind # "Unbuilt", rendered' = rendered,
             UNCHANGED <<policy, per_response_nonce>>, response' \in Answers(rendered)
      PROVE  RInv'
  <2>1. Built' = Built /\ rendered = Built
    BY <1>1, <1>4, BuilderUntouched DEF RInv
  <2> QED BY <1>0, <1>4, <2>1 DEF RInv
<1>5. CASE ConstantHeaders
  BY <1>4, <1>5 DEF ConstantHeaders, Answers
<1>6. ASSUME NEW n \in MintedNonces, PerResponseHeaders(n) PROVE RInv'
  <2>1. response' \in Answers(rendered)
    BY <1>6 DEF PerResponseHeaders, Answers
  <2> QED BY <1>4, <1>6, <2>1 DEF PerResponseHeaders
<1>7. \/ Call \/ Build \/ ConstantHeaders \/ \E n \in MintedNonces : PerResponseHeaders(n)
  BY DEF Next, SetDirective, Extend, RemoveDirective, RetainSources, WithScan,
         AllowUnsafeEval, AllowUnsafeInlineScript, StrictDynamic, PushScriptSource,
         PerResponseNonce, Admit, AdmitOrigin
<1> QED BY <1>2, <1>3, <1>5, <1>6, <1>7

\* RInv is an invariant of the builder and of the policy it renders.
THEOREM ResponseInvariance == Spec => []RInv
<1>1. RInv /\ IInv' /\ [Next]_vars => RInv'
  <2>1. ASSUME RInv, UNCHANGED vars PROVE RInv'
    <3>1. UNCHANGED <<policy, per_response_nonce, rendered, response>>
      BY <2>1 DEF vars
    <3>2. Built' = Built
      BY <3>1, BuilderUntouched
    <3> QED BY <2>1, <3>1, <3>2 DEF RInv
  <2> QED BY <2>1, ResponseNext
<1> QED BY <1>1, ResponseInit, Invariance, PTL DEF Spec

\* A response answers what was built.
LEMMA AnswerOfBuilt ==
    ASSUME RInv, response # NoResponse
    PROVE  rendered = Built /\ response \in Answers(Built)
<1>1. Answers(Unbuilt) = {}
  BY DEF Unbuilt, Answers
<1>2. response \in Answers(rendered) /\ rendered \in {Unbuilt, Built}
  BY DEF RInv
<1> QED BY <1>1, <1>2

LEMMA AnswerOfSlot ==
    ASSUME RInv, response # NoResponse, per_response_nonce
    PROVE  \E n \in MintedNonces :
              /\ response.csp = Built.head \o <<n>> \o Built.tail
              /\ response.nonce = {n} /\ response.cache_control = "no-cache"
<1>1. Built.kind = "PerResponse"
  BY DEF Built, SplitAroundScriptSrc
<1>2. response \in {[csp |-> Built.head \o <<n>> \o Built.tail, cache_control |-> "no-cache",
                     nonce |-> {n}] : n \in MintedNonces}
  <2> DEFINE r == Built
  <2>1. r.kind = "PerResponse" /\ response \in Answers(r)
    BY <1>1, AnswerOfBuilt
  <2> HIDE DEF r
  <2>2. Answers(r) = {[csp |-> r.head \o <<n>> \o r.tail, cache_control |-> "no-cache",
                       nonce |-> {n}] : n \in MintedNonces}
    BY <2>1 DEF Answers
  <2> QED BY <2>1, <2>2 DEF r
<1> DEFINE text(n) == Built.head \o <<n>> \o Built.tail
<1>3. response \in {[csp |-> text(n), cache_control |-> "no-cache", nonce |-> {n}] :
                       n \in MintedNonces}
  BY <1>2
<1> HIDE DEF text
<1>4. \E n \in MintedNonces : /\ response.csp = text(n)
                              /\ response.nonce = {n} /\ response.cache_control = "no-cache"
  BY <1>3
<1> QED BY <1>4 DEF text

LEMMA AnswerOfConstant ==
    ASSUME RInv, response # NoResponse, ~per_response_nonce
    PROVE  response.csp = ToHeaderValue(policy)
<1>1. Built = [kind |-> "Constant", text |-> ToHeaderValue(policy)]
  BY DEF Built
<1>2. response \in Answers(Built)
  BY AnswerOfBuilt
<1> QED BY <1>1, <1>2 DEF Answers

\* What a response states, with or without a nonce of its own.
LEMMA StatedIs ==
    ASSUME RInv, response # NoResponse
    PROVE  /\ response.csp = ToHeaderValue(Stated)
           /\ Stated \in WellFormed
<1>1. CASE per_response_nonce
  <2>1. PICK n \in MintedNonces : /\ response.csp = Built.head \o <<n>> \o Built.tail
                                  /\ response.nonce = {n}
    BY <1>1, AnswerOfSlot
  <2>2. Stated = ExtendUnrouted(policy, Script, <<n>>)
    BY <1>1, <2>1 DEF Stated, Script
  <2>3. n \in Source /\ Script \in SourceDirective
    BY NoncesAreFresh DEF Source, Script, SourceDirective
  <2>4. n \notin InForce(policy, Script)
    BY <2>3, FreshForce DEF RInv
  <2>5. Built = SplitAroundScriptSrc(EnsureSeeded(policy, Script))
    BY <1>1 DEF Built
  <2>6. Built.head \o <<n>> \o Built.tail = ToHeaderValue(ExtendUnrouted(policy, Script, <<n>>))
    <3> DEFINE r == Built
    <3> HIDE DEF r
    <3>1. r = SplitAroundScriptSrc(EnsureSeeded(policy, Script))
      BY <2>5 DEF r
    <3>2. r.head \o <<n>> \o r.tail = ToHeaderValue(ExtendUnrouted(policy, Script, <<n>>))
      BY <2>3, <2>4, <3>1, SpliceOf DEF RInv
    <3> QED BY <3>2 DEF r
  <2>7. ExtendUnrouted(policy, Script, <<n>>) \in WellFormed
    <3>1. <<n>> \in Seq(Source)
      BY <2>3, SequenceOfOne
    <3> QED BY <2>3, <3>1, ExtendUnroutedView DEF RInv
  <2> QED BY <2>1, <2>2, <2>6, <2>7
<1>2. CASE ~per_response_nonce
  BY <1>2, AnswerOfConstant DEF Stated, RInv
<1> QED BY <1>1, <1>2

\* The header of every response is the rendered policy with the response's nonce in
\* script-src: splicing the two halves loses and adds nothing (csp.rs,
\* split_around_script_src and Policy::headers).
THEOREM SpliceAppends == Spec => []SpliceIsAppend
<1>1. RInv => SpliceIsAppend
  BY StatedIs DEF SpliceIsAppend
<1> QED BY <1>1, ResponseInvariance, PTL

-----------------------------------------------------------------------------
(***************************************************************************)
(* Reading the header back.  The i-th directive of a policy p stands in    *)
(* its header from Begin(p, i) to End(p, i): its name, then what its value *)
(* spells; a separator comes before every directive but the first.         *)
(***************************************************************************)

\* The tokens other than the separator.
Plain == Source \cup Word \cup DirectiveName \cup {"'none'"}

\* What the value of a directive spells.
Spelt(d) == IF d.name \in SourceDirective THEN ListTokens(d.value) ELSE d.value.terms

End(p, i) == Len(Rendered(p, 1, i))

Begin(p, i) == End(p, i - 1) + (IF i > 1 THEN 2 ELSE 1)

\* Two sequences one after the other, index by index.
LEMMA ConcatIndex ==
    ASSUME NEW T, NEW a \in Seq(T), NEW b \in Seq(T)
    PROVE  /\ a \o b \in Seq(T) /\ Len(a \o b) = Len(a) + Len(b)
           /\ \A k \in 1..Len(a) : (a \o b)[k] = a[k]
           /\ \A k \in 1..Len(b) : (a \o b)[Len(a) + k] = b[k]
<1> DEFINE c == a \o b
<1>1. /\ c \in Seq(T) /\ Len(c) = Len(a) + Len(b) /\ Len(a) \in Nat /\ Len(b) \in Nat
      /\ \A i \in 1..(Len(a) + Len(b)) : c[i] = IF i <= Len(a) THEN a[i] ELSE b[i - Len(a)]
  BY ConcatProperties
<1> HIDE DEF c
<1>2. \A k \in 1..Len(a) : c[k] = a[k]
  BY <1>1
<1>3. \A k \in 1..Len(b) : c[Len(a) + k] = b[k]
  <2> TAKE k \in 1..Len(b)
  <2>1. Len(a) + k \in 1..(Len(a) + Len(b)) /\ ~(Len(a) + k <= Len(a))
        /\ (Len(a) + k) - Len(a) = k
    BY <1>1
  <2> QED BY <1>1, <2>1
<1> QED BY <1>1, <1>2, <1>3 DEF c

\* No token but the separator is the separator.
LEMMA PlainTokens == Plain \subseteq HeaderToken /\ ";" \notin Plain
<1>1. ";" \notin Keyword /\ ";" \notin DirectiveName
  BY DEF Keyword, DirectiveName, SourceDirective
<1> QED BY <1>1, SeparatorIsNoTerm DEF Plain, HeaderToken, Source

\* A directive renders its name and what its value spells (directive.rs, Display).
LEMMA SpeltType ==
    ASSUME NEW d \in Directive
    PROVE  /\ DirectiveTokens(d) = <<d.name>> \o Spelt(d)
           /\ d.name \in Plain /\ Spelt(d) \in Seq(Plain)
<1>1. /\ d.name \in DirectiveName
      /\ d.name \in SourceDirective => d.value \in SourceList
      /\ d.name \notin SourceDirective => d.value \in TermsValue
  BY NamesAreStrings DEF Directive
<1>2. Source \subseteq Plain /\ Word \subseteq Plain /\ d.name \in Plain /\ "'none'" \in Plain
  BY <1>1 DEF Plain
<1>3. CASE d.name \in SourceDirective
  <2> DEFINE none == "'none'"
  <2>1. d.value.terms \in Seq(Plain)
    BY <1>1, <1>2, <1>3, TermsType, SeqMonotone
  <2>2. none \in Plain
    BY <1>2
  <2> HIDE DEF none
  <2>3. <<none>> \in Seq(Plain)
    BY <2>2, SequenceOfOne
  <2> QED BY <1>2, <1>3, <2>1, <2>3 DEF Spelt, ListTokens, DirectiveTokens, none
<1>4. CASE d.name \notin SourceDirective
  <2>1. d.value.terms \in Seq(Word)
    BY <1>1, <1>4 DEF TermsValue
  <2> QED BY <1>2, <1>4, <2>1, SeqMonotone DEF Spelt, DirectiveTokens
<1> QED BY <1>3, <1>4

\* A 'none' that is spelt out for an empty list is what the reader passes over.
LEMMA SpeltReads ==
    ASSUME NEW d \in Directive
    PROVE  WithoutNone(Spelt(d)) = WithoutNone(d.value.terms)
<1> DEFINE none == "'none'"
           T == {none}
           others(v) == Elements(v) \ {none}
<1>1. ASSUME NEW v \in Seq(T), Elements(v) \subseteq T PROVE WithoutNone(v) = <<>>
  <2> DEFINE kept == Kept(v, others(v))
  <2>1. kept \in Seq(T) /\ Elements(kept) = Elements(v) \cap others(v)
    <3> HIDE DEF others, T
    <3> QED BY KeptType
  <2>2. Elements(kept) = {}
    BY <1>1, <2>1
  <2> HIDE DEF kept
  <2>3. kept = <<>>
    BY <2>1, <2>2 DEF Elements
  <2> QED BY <2>3 DEF kept, WithoutNone
<1>2. CASE Spelt(d) = d.value.terms
  BY <1>2
<1>3. CASE Spelt(d) # d.value.terms
  <2>1. Spelt(d) = <<none>> /\ d.value.terms = <<>>
    BY <1>3 DEF Spelt, ListTokens, MatchesNothing
  <2>2. <<none>> \in Seq(T) /\ Elements(<<none>>) = T /\ <<>> \in Seq(T) /\ Elements(<<>>) = {}
    <3>1. none \in T
      OBVIOUS
    <3>2. <<none>> \in Seq(T) /\ Elements(<<none>>) = {none}
      <4> HIDE DEF none, T
      <4> QED BY <3>1, SequenceOfOne
    <3>3. <<>> \in Seq(T) /\ Elements(<<>>) = {}
      BY DEF Elements
    <3> QED BY <3>2, <3>3
  <2> HIDE DEF none, T
  <2>3. WithoutNone(<<none>>) = <<>> /\ WithoutNone(<<>>) = <<>>
    BY <1>1, <2>2
  <2> QED BY <2>1, <2>3
<1> QED BY <1>2, <1>3

\* The i-th directive of p, which spells spelt, stands where it should in h.
StandsIn(h, p, i, spelt) ==
    /\ h[Begin(p, i)] = p[i].name
    /\ \A k \in 1..Len(spelt) : h[Begin(p, i) + k] = spelt[k]
    /\ i > 1 => h[Begin(p, i) - 1] = ";"

\* A directive that is rendered last stands at the end of the text.
LEMMA PlacedLast ==
    ASSUME NEW p \in Seq(Directive), NEW i \in 1..Len(p),
           NEW r, r = Rendered(p, 1, i), NEW spelt, spelt = Spelt(p[i])
    PROVE  /\ r \in Seq(HeaderToken) /\ spelt \in Seq(Plain)
           /\ End(p, i - 1) \in Nat /\ End(p, i) = Len(r)
           /\ End(p, i) = Begin(p, i) + Len(spelt)
           /\ StandsIn(r, p, i, spelt)
<1> DEFINE H == HeaderToken
           q == Rendered(p, 1, i - 1)
           gap == IF i > 1 THEN Separator ELSE <<>>
           word == p[i].name
           last == DirectiveTokens(p[i])
           front == q \o gap
<1>0. p[i] \in Directive /\ i \in Nat /\ i \in 0..Len(p) /\ i - 1 \in 0..Len(p)
  OBVIOUS
<1>1. last = <<word>> \o spelt /\ word \in Plain /\ spelt \in Seq(Plain)
  BY <1>0, SpeltType
<1>2. q \in Seq(H) /\ r \in Seq(H)
  <2>1. 1 \in Nat /\ 1 # 0
    OBVIOUS
  <2> QED BY <1>0, <2>1, RenderedTokens
<1>3. gap \in Seq(H)
  BY SeparatorType
<1>4. r = front \o last
  <2>1. \A k \in 1..i : DirectiveTokens(p[k]) \in Seq(H)
    <3>1. \A k \in 1..i : p[k] \in Directive
      BY <1>0
    <3> QED BY <3>1, TokensOfADirective
  <2>2. 1 \in Nat /\ 1 # 0 /\ i >= 1 /\ ~(i < 1)
    BY <1>0
  <2>3. r = Appended(p, 1, i, q)
    BY <1>0, <2>1, <2>2, SeparatorType, RenderedUnfolds
  <2> QED BY <2>2, <2>3 DEF Appended
<1>5. /\ End(p, i) = Len(r) /\ End(p, i - 1) = Len(q)
      /\ Begin(p, i) = Len(q) + (IF i > 1 THEN 2 ELSE 1)
  BY DEF End, Begin
<1>6. Len(gap) = (IF i > 1 THEN 1 ELSE 0) /\ (i > 1 => gap[1] = ";")
  BY DEF Separator
<1>7. spelt \in Seq(H) /\ <<word>> \in Seq(H)
  <2>1. word \in H
    BY <1>1, PlainTokens
  <2>2. spelt \in Seq(H)
    BY <1>1, PlainTokens, SeqMonotone
  <2> HIDE DEF H, word
  <2> QED BY <2>1, <2>2, SequenceOfOne
<1> HIDE DEF H, q, gap, word, last
<1>8. /\ last \in Seq(H) /\ Len(last) = 1 + Len(spelt)
      /\ last[1] = word
      /\ \A k \in 1..Len(spelt) : last[1 + k] = spelt[k]
  <2> DEFINE name == <<word>>
  <2>1. Len(name) = 1 /\ name[1] = word /\ 1 \in 1..1 /\ name \in Seq(H)
    BY <1>7
  <2> HIDE DEF name
  <2>2. /\ name \o spelt \in Seq(H) /\ Len(name \o spelt) = Len(name) + Len(spelt)
        /\ \A k \in 1..Len(name) : (name \o spelt)[k] = name[k]
        /\ \A k \in 1..Len(spelt) : (name \o spelt)[Len(name) + k] = spelt[k]
    <3>1. name \in Seq(H) /\ spelt \in Seq(H)
      BY <2>1, <1>7
    <3> QED BY <3>1, ConcatIndex
  <2>3. last = name \o spelt
    BY <1>1 DEF name
  <2> QED BY <2>1, <2>2, <2>3
<1>9. /\ front \in Seq(H) /\ Len(front) = Len(q) + Len(gap)
      /\ \A k \in 1..Len(gap) : front[Len(q) + k] = gap[k]
  BY <1>2, <1>3, ConcatIndex
<1> HIDE DEF front
<1>10. /\ Len(r) = Len(front) + Len(last)
       /\ \A k \in 1..Len(front) : r[k] = front[k]
       /\ \A k \in 1..Len(last) : r[Len(front) + k] = last[k]
  <2>1. front \in Seq(H) /\ last \in Seq(H)
    BY <1>8, <1>9
  <2> QED BY <1>4, <2>1, ConcatIndex
<1> DEFINE b == Begin(p, i)
           e == Len(front)
           l == Len(spelt)
           m == Len(q)
<1>11. m \in Nat /\ l \in Nat /\ e \in Nat
  BY <1>2, <1>7, <1>9
<1>12. b = e + 1 /\ Len(last) = l + 1 /\ Len(r) = b + l /\ (i > 1 => e = m + 1 /\ b - 1 = e)
  <2> HIDE DEF b, e, l, m
  <2>1. e = m + (IF i > 1 THEN 1 ELSE 0) /\ b = m + (IF i > 1 THEN 2 ELSE 1)
    BY <1>5, <1>6, <1>9 DEF b, e, m
  <2>2. Len(last) = 1 + l /\ Len(r) = e + Len(last)
    BY <1>8, <1>10 DEF l, e
  <2> QED BY <1>11, <2>1, <2>2
<1> HIDE DEF b, e, l, m
<1>13. r[b] = word
  <2>1. 1 \in 1..Len(last) /\ b = e + 1
    BY <1>11, <1>12
  <2>2. r[e + 1] = last[1]
    BY <1>10, <2>1 DEF e
  <2> QED BY <1>8, <2>1, <2>2
<1>14. \A k \in 1..l : r[b + k] = spelt[k]
  <2> TAKE k \in 1..l
  <2>1. 1 + k \in 1..Len(last) /\ b + k = e + (1 + k)
    BY <1>11, <1>12
  <2>2. r[e + (1 + k)] = last[1 + k]
    BY <1>10, <2>1 DEF e
  <2> QED BY <1>8, <2>1, <2>2 DEF l
<1>15. ASSUME i > 1 PROVE r[b - 1] = ";"
  <2>1. /\ e = m + 1 /\ b - 1 = e
        /\ 1 \in 1..Len(gap)
        /\ e \in 1..e
    <3>1. e = m + 1 /\ b - 1 = e
      BY <1>12, <1>15
    <3>2. Len(gap) = 1
      BY <1>6, <1>15
    <3>3. e \in 1..e
      BY <1>11, <3>1
    <3> QED BY <3>1, <3>2, <3>3
  <2>2. front[m + 1] = gap[1]
    BY <1>9, <2>1 DEF m
  <2>3. r[e] = front[e]
    BY <1>10, <2>1 DEF e
  <2> QED BY <1>6, <1>15, <2>1, <2>2, <2>3
<1>16. End(p, i) = b + l /\ End(p, i - 1) \in Nat /\ End(p, i) = Len(r)
  BY <1>5, <1>11, <1>12 DEF m
<1>17. StandsIn(r, p, i, spelt)
  BY <1>13, <1>14, <1>15 DEF StandsIn, b, l, word
<1> QED BY <1>1, <1>2, <1>16, <1>17 DEF b, l, H

\* What stands in the front of a text stands in the text.
LEMMA StandsInFront ==
    ASSUME NEW p \in Seq(Directive), NEW i \in 1..Len(p), NEW spelt \in Seq(Plain),
           NEW r \in Seq(HeaderToken), StandsIn(r, p, i, spelt), End(p, i - 1) \in Nat,
           Len(r) = Begin(p, i) + Len(spelt),
           NEW h, \A k \in 1..Len(r) : h[k] = r[k]
    PROVE  StandsIn(h, p, i, spelt)
<1> DEFINE b == Begin(p, i)
           l == Len(spelt)
           e == Len(r)
           before == End(p, i - 1)
<1>1. /\ r[b] = p[i].name
      /\ \A k \in 1..l : r[b + k] = spelt[k]
      /\ i > 1 => r[b - 1] = ";"
  BY DEF StandsIn
<1>2. b = before + (IF i > 1 THEN 2 ELSE 1) /\ e = b + l
  BY DEF Begin
<1>3. l \in Nat /\ before \in Nat
  OBVIOUS
<1> HIDE DEF b, l, e, before
<1>4. b \in Nat /\ b >= 1 /\ e \in Nat
  BY <1>2, <1>3
<1>5. b \in 1..e
  BY <1>2, <1>3, <1>4
<1>6. i > 1 => b - 1 \in 1..e
  BY <1>2, <1>3
<1>7. \A k \in 1..l : b + k \in 1..e
  BY <1>2, <1>3, <1>4
<1>8. h[b] = p[i].name
  BY <1>1, <1>5 DEF e
<1>9. i > 1 => h[b - 1] = ";"
  BY <1>1, <1>6 DEF e
<1>10. \A k \in 1..l : h[b + k] = spelt[k]
  BY <1>1, <1>7 DEF e
<1> QED BY <1>8, <1>9, <1>10 DEF StandsIn, b, l

\* Where a directive stands in the header of its policy (Policy::to_header_value).
LEMMA Placed ==
    ASSUME NEW p \in Seq(Directive), NEW i \in 1..Len(p),
           NEW h, h = ToHeaderValue(p), NEW spelt, spelt = Spelt(p[i])
    PROVE  /\ h \in Seq(HeaderToken) /\ spelt \in Seq(Plain)
           /\ End(p, i - 1) \in Nat /\ End(p, i) \in Nat /\ End(p, i) <= Len(h)
           /\ End(p, i) = Begin(p, i) + Len(spelt)
           /\ StandsIn(h, p, i, spelt)
<1> DEFINE r == Rendered(p, 1, i)
           next == i + 1
           rest == Rendered(p, next, Len(p))
<1>1. /\ i \in 0..Len(p) /\ Len(p) \in Nat /\ Len(p) \in 0..Len(p)
      /\ next \in Nat /\ next # 0 /\ 1 \in Nat /\ 1 # 0
  OBVIOUS
<1>2. r = Rendered(p, 1, i)
  OBVIOUS
<1>3. rest \in Seq(HeaderToken)
  BY <1>1, RenderedTokens
<1>4. h = r \o rest
  <2>1. \A k \in 1..Len(p) : DirectiveTokens(p[k]) \in Seq(HeaderToken)
    <3>1. \A k \in 1..Len(p) : p[k] \in Directive
      OBVIOUS
    <3> QED BY <3>1, TokensOfADirective
  <2> QED BY <1>1, <2>1, SeparatorType, RenderedSplits DEF ToHeaderValue
<1> HIDE DEF r, rest
<1>5. /\ r \in Seq(HeaderToken) /\ spelt \in Seq(Plain)
      /\ End(p, i - 1) \in Nat /\ End(p, i) = Len(r)
      /\ End(p, i) = Begin(p, i) + Len(spelt)
      /\ StandsIn(r, p, i, spelt)
  BY <1>2, PlacedLast
<1>6. /\ h \in Seq(HeaderToken) /\ Len(h) = Len(r) + Len(rest)
      /\ \A k \in 1..Len(r) : h[k] = r[k]
  <2>1. r \in Seq(HeaderToken)
    BY <1>5
  <2>2. /\ r \o rest \in Seq(HeaderToken) /\ Len(r \o rest) = Len(r) + Len(rest)
        /\ \A k \in 1..Len(r) : (r \o rest)[k] = r[k]
    BY <1>3, <2>1, ConcatIndex
  <2> QED BY <1>4, <2>2
<1>7. StandsIn(h, p, i, spelt)
  <2>1. Len(r) = Begin(p, i) + Len(spelt)
    BY <1>5
  <2> QED BY <1>5, <1>6, <2>1, StandsInFront
<1>8. End(p, i) \in Nat /\ End(p, i) <= Len(h)
  <2>1. r \in Seq(HeaderToken) /\ End(p, i) = Len(r) /\ Len(h) = Len(r) + Len(rest)
    BY <1>5, <1>6
  <2>2. Len(r) \in Nat /\ Len(rest) \in Nat
    BY <1>3, <2>1, LenProperties
  <2> QED BY <2>1, <2>2
<1> QED BY <1>5, <1>6, <1>7, <1>8

\* No directive ends before the text begins, and the last one ends with it.
LEMMA EndsOfText ==
    ASSUME NEW p \in Seq(Directive), NEW h, h = ToHeaderValue(p)
    PROVE  End(p, 0) = 0 /\ End(p, Len(p)) = Len(h) /\ h \in Seq(HeaderToken)
<1>1. 0 \in 0..Len(p) /\ Len(p) \in 0..Len(p) /\ 1 \in Nat /\ 1 # 0
  OBVIOUS
<1>2. Rendered(p, 1, 0) = <<>>
  <2>1. \A k \in 1..0 : DirectiveTokens(p[k]) \in Seq(HeaderToken)
    OBVIOUS
  <2>2. 0 \in Nat /\ 0 < 1
    OBVIOUS
  <2> QED BY <1>1, <2>1, <2>2, SeparatorType, RenderedUnfolds
<1>3. h \in Seq(HeaderToken)
  BY <1>1, RenderedTokens DEF ToHeaderValue
<1>4. End(p, Len(p)) = Len(h)
  BY DEF End, ToHeaderValue
<1> QED BY <1>2, <1>3, <1>4 DEF End

\* Every token of the header is the separator before a directive or belongs to it.
LEMMA Covered ==
    ASSUME NEW p \in Seq(Directive), NEW h, h = ToHeaderValue(p), NEW j \in 1..Len(h)
    PROVE  \E i \in 1..Len(p) :
              \/ i > 1 /\ j = Begin(p, i) - 1
              \/ Begin(p, i) <= j /\ j <= End(p, i)
<1> DEFINE m == Len(p)
           S == {i \in 0..m : j <= End(p, i)}
<1>1. End(p, 0) = 0 /\ End(p, m) = Len(h) /\ h \in Seq(HeaderToken) /\ m \in Nat
  BY EndsOfText
<1>2. m \in S /\ S \in SUBSET Nat /\ j \in Nat /\ 1 <= j
  BY <1>1
<1>3. PICK i \in S : \A k \in S : i <= k
  <2> HIDE DEF S
  <2> QED BY <1>2, LeastNatural
<1>4. i \in 1..m
  BY <1>1, <1>2, <1>3
<1>5. End(p, i - 1) \in Nat /\ End(p, i) \in Nat
  BY <1>4, Placed
<1>6. End(p, i - 1) < j /\ j <= End(p, i)
  <2>1. i - 1 \in 0..m /\ ~(i <= i - 1)
    BY <1>4
  <2>2. i - 1 \notin S
    <3> HIDE DEF S
    <3> QED BY <1>3, <2>1
  <2>3. ~(j <= End(p, i - 1))
    BY <2>1, <2>2
  <2> QED BY <1>2, <1>3, <1>5, <2>3
<1>7. Begin(p, i) = End(p, i - 1) + (IF i > 1 THEN 2 ELSE 1)
  BY DEF Begin
<1> QED BY <1>2, <1>4, <1>5, <1>6, <1>7

\* Within a directive there is no separator.
LEMMA NoneWithin ==
    ASSUME NEW p \in Seq(Directive), NEW h, h = ToHeaderValue(p), NEW i \in 1..Len(p),
           NEW j \in Nat, Begin(p, i) <= j, j <= End(p, i)
    PROVE  h[j] # ";"
<1> DEFINE b == Begin(p, i)
           spelt == Spelt(p[i])
           l == Len(spelt)
<1>1. /\ spelt \in Seq(Plain) /\ End(p, i - 1) \in Nat
      /\ End(p, i) = b + l /\ h[b] = p[i].name
      /\ \A k \in 1..l : h[b + k] = spelt[k]
  <2>1. spelt = Spelt(p[i])
    OBVIOUS
  <2> HIDE DEF spelt
  <2>2. /\ spelt \in Seq(Plain) /\ End(p, i - 1) \in Nat
        /\ End(p, i) = Begin(p, i) + Len(spelt)
        /\ StandsIn(h, p, i, spelt)
    BY <2>1, Placed
  <2> QED BY <2>2 DEF StandsIn
<1>2. p[i].name \in Plain
  <2>1. p[i] \in Directive
    OBVIOUS
  <2> QED BY <2>1, SpeltType
<1>3. b \in Nat /\ l \in Nat
  BY <1>1 DEF Begin
<1> HIDE DEF b, spelt
<1>4. CASE j = b
  BY <1>1, <1>2, <1>4, PlainTokens
<1>5. CASE j # b
  <2> DEFINE k == j - b
  <2>1. k \in 1..l /\ b + k = j
    BY <1>1, <1>3, <1>5 DEF b
  <2> HIDE DEF k
  <2>2. h[j] = spelt[k]
    <3> HIDE DEF l
    <3> QED BY <1>1, <2>1
  <2>3. spelt[k] \in Plain
    BY <1>1, <2>1
  <2> QED BY <2>2, <2>3, PlainTokens
<1> QED BY <1>4, <1>5

\* Where a directive begins and ends, in plain arithmetic.
LEMMA Extent ==
    ASSUME NEW p \in Seq(Directive), NEW h, h = ToHeaderValue(p), NEW i \in 1..Len(p)
    PROVE  /\ Begin(p, i) \in Nat /\ End(p, i) \in Nat /\ Begin(p, i) >= 1
           /\ Begin(p, i) <= End(p, i) /\ End(p, i) <= Len(h)
           /\ i = 1 => Begin(p, i) = 1
           /\ i > 1 => Begin(p, i) - 1 \in 1..Len(h) /\ h[Begin(p, i) - 1] = ";"
                       /\ Begin(p, i) - 1 = End(p, i - 1) + 1
           /\ h[Begin(p, i)] = p[i].name
<1> DEFINE spelt == Spelt(p[i])
           before == End(p, i - 1)
           b == Begin(p, i)
           e == End(p, i)
           l == Len(spelt)
<1>1. spelt = Spelt(p[i])
  OBVIOUS
<1> HIDE DEF spelt
<1>2. /\ h \in Seq(HeaderToken) /\ spelt \in Seq(Plain)
      /\ before \in Nat /\ e \in Nat /\ e <= Len(h)
      /\ e = b + l /\ StandsIn(h, p, i, spelt)
  BY <1>1, Placed
<1>3. b = before + (IF i > 1 THEN 2 ELSE 1)
  BY DEF Begin
<1>4. i = 1 => before = 0
  BY EndsOfText
<1>5. h[b] = p[i].name /\ (i > 1 => h[b - 1] = ";")
  BY <1>2 DEF StandsIn
<1>6. Len(h) \in Nat /\ l \in Nat
  <2>1. h \in Seq(HeaderToken) /\ spelt \in Seq(Plain)
    BY <1>2
  <2> QED BY <2>1, LenProperties
<1>7. before \in Nat /\ e \in Nat /\ e <= Len(h) /\ e = b + l
  BY <1>2
<1> HIDE DEF before, b, e, l
<1>8. /\ b \in Nat /\ b >= 1 /\ b <= e /\ (i = 1 => b = 1)
      /\ i > 1 => b - 1 \in 1..Len(h) /\ b - 1 = before + 1
  BY <1>3, <1>4, <1>6, <1>7
<1> QED BY <1>5, <1>7, <1>8 DEF before, b, e

\* The segments of the header begin where the directives do.
LEMMA StartsOfHeader ==
    ASSUME NEW p \in Seq(Directive), NEW h, h = ToHeaderValue(p)
    PROVE  SegmentStarts(h) = {Begin(p, i) : i \in 1..Len(p)}
<1> DEFINE m == Len(p)
           Begins == {Begin(p, i) : i \in 1..m}
<1>1. End(p, 0) = 0 /\ End(p, m) = Len(h) /\ h \in Seq(HeaderToken) /\ m \in Nat
  BY EndsOfText
<1>2. CASE h = <<>>
  <2>1. m = 0
    <3>1. SUFFICES ASSUME m # 0 PROVE FALSE
      OBVIOUS
    <3>2. 1 \in 1..m /\ Len(h) = 0
      BY <1>1, <1>2, <3>1
    <3>3. Begin(p, 1) \in Nat /\ Begin(p, 1) >= 1 /\ Begin(p, 1) <= End(p, 1)
          /\ End(p, 1) <= Len(h) /\ End(p, 1) \in Nat
      BY <3>2, Extent
    <3> QED BY <3>2, <3>3
  <2> QED BY <1>2, <2>1 DEF SegmentStarts
<1>3. CASE h # <<>>
  <2>1. Len(h) >= 1 /\ m >= 1 /\ Len(h) \in Nat /\ DOMAIN h = 1..Len(h)
    <3>1. Len(h) \in Nat /\ Len(h) # 0 /\ DOMAIN h = 1..Len(h)
      BY <1>1, <1>3
    <3>2. m # 0
      BY <1>1, <3>1
    <3> QED BY <1>1, <3>1, <3>2
  <2>2. SegmentStarts(h) = {1} \cup {j + 1 : j \in {k \in DOMAIN h : h[k] = ";"}}
    BY <1>3 DEF SegmentStarts
  <2>3. ASSUME NEW i \in 1..m PROVE Begin(p, i) \in SegmentStarts(h)
    <3>1. CASE i = 1
      <4>1. Begin(p, i) = 1
        BY <3>1, Extent
      <4> QED BY <2>2, <4>1
    <3>2. CASE i # 1
      <4> DEFINE j == Begin(p, i) - 1
      <4>0. Begin(p, i) \in Nat
        BY Extent
      <4>1. i > 1 /\ Begin(p, i) \in Nat
        BY <3>2, <4>0
      <4>2. j \in 1..Len(h) /\ h[j] = ";"
        BY <4>1, Extent
      <4>3. j + 1 = Begin(p, i)
        BY <4>1
      <4> HIDE DEF j
      <4>4. j + 1 \in SegmentStarts(h)
        BY <2>1, <2>2, <4>2
      <4> QED BY <4>3, <4>4
    <3> QED BY <3>1, <3>2
  <2>4. 1 \in Begins
    <3>1. 1 \in 1..m
      BY <1>1, <2>1
    <3>2. Begin(p, 1) = 1
      BY <3>1, Extent
    <3> QED BY <3>1, <3>2
  <2>5. ASSUME NEW j \in 1..Len(h), h[j] = ";" PROVE j + 1 \in Begins
    <3>1. PICK i \in 1..m : \/ i > 1 /\ j = Begin(p, i) - 1
                            \/ Begin(p, i) <= j /\ j <= End(p, i)
      BY Covered
    <3>2. ~(Begin(p, i) <= j /\ j <= End(p, i))
      <4>1. SUFFICES ASSUME Begin(p, i) <= j, j <= End(p, i) PROVE FALSE
        OBVIOUS
      <4>2. j \in Nat
        OBVIOUS
      <4> QED BY <2>5, <4>1, <4>2, NoneWithin
    <3>3. j = Begin(p, i) - 1 /\ Begin(p, i) \in Nat
      BY <3>1, <3>2, Extent
    <3>4. j + 1 = Begin(p, i)
      BY <3>3
    <3> QED BY <3>4
  <2> HIDE DEF Begins
  <2>6. SegmentStarts(h) \subseteq Begins
    BY <2>1, <2>2, <2>4, <2>5
  <2>7. Begins \subseteq SegmentStarts(h)
    BY <2>3 DEF Begins
  <2> QED BY <2>6, <2>7 DEF Begins
<1> QED BY <1>2, <1>3

\* A segment that begins with a directive ends with it.
LEMMA EndOfSegment ==
    ASSUME NEW p \in Seq(Directive), NEW h, h = ToHeaderValue(p), NEW i \in 1..Len(p)
    PROVE  SegmentEnd(h, Begin(p, i)) = End(p, i)
<1> DEFINE m == Len(p)
           b == Begin(p, i)
           e == End(p, i)
           ends == {j \in DOMAIN h : j >= b /\ h[j] = ";"}
           next == i + 1
<1>1. End(p, m) = Len(h) /\ h \in Seq(HeaderToken) /\ m \in Nat
      /\ Len(h) \in Nat /\ DOMAIN h = 1..Len(h)
  <2>1. End(p, m) = Len(h) /\ h \in Seq(HeaderToken) /\ m \in Nat
    BY EndsOfText
  <2> QED BY <2>1
<1>2. b \in Nat /\ e \in Nat /\ b <= e /\ e <= Len(h)
  BY Extent
<1>3. ASSUME NEW j \in Nat, b <= j, h[j] = ";" PROVE e < j
  <2>1. ~(j <= e)
    BY <1>3, NoneWithin
  <2> HIDE DEF e
  <2> QED BY <1>2, <2>1
<1> HIDE DEF b, e
<1>6. \A j \in ends : j \in Nat /\ b <= j /\ e < j /\ j \in 1..Len(h)
  <2> TAKE j \in ends
  <2>1. j \in 1..Len(h) /\ j >= b /\ h[j] = ";"
    BY <1>1
  <2>2. j \in Nat
    <3>1. j \in 1..Len(h) /\ Len(h) \in Nat
      BY <1>1, <2>1
    <3> HIDE DEF ends
    <3> QED BY <3>1
  <2>3. b <= j
    <3> HIDE DEF ends
    <3> QED BY <1>2, <2>1, <2>2
  <2> QED BY <1>3, <2>1, <2>2, <2>3
<1>7. ASSUME NEW j \in 1..Len(h), h[j] = ";", j >= b PROVE j \in ends
  BY <1>1, <1>7
<1>4. CASE i = m
  <2>1. e = Len(h)
    BY <1>1, <1>4 DEF e
  <2>2. ends = {}
    <3>1. SUFFICES ASSUME NEW j \in ends PROVE FALSE
      OBVIOUS
    <3>2. e < j
      BY <1>6
    <3>3. j \in 1..Len(h)
      BY <1>6
    <3> HIDE DEF ends
    <3> QED BY <1>1, <2>1, <3>2, <3>3
  <2>3. SegmentEnd(h, b) = Len(h)
    BY <2>2 DEF SegmentEnd
  <2> QED BY <2>1, <2>3 DEF b, e
<1>5. CASE i # m
  <2>1. next \in 1..m /\ next > 1 /\ next - 1 = i
    BY <1>1, <1>5
  <2>2. Begin(p, next) - 1 \in 1..Len(h) /\ h[Begin(p, next) - 1] = ";"
        /\ Begin(p, next) - 1 = End(p, next - 1) + 1
    <3> HIDE DEF next
    <3> QED BY <2>1, Extent
  <2>3. e + 1 \in 1..Len(h) /\ h[e + 1] = ";"
    BY <2>1, <2>2 DEF e
  <2> DEFINE least == CHOOSE j \in ends : \A k \in ends : j <= k
  <2>4. e + 1 \in ends /\ \A k \in ends : e + 1 <= k
    <3>1. e + 1 \in ends
      <4>1. e + 1 >= b
        BY <1>2
      <4> QED BY <1>7, <2>3, <4>1
    <3>2. ASSUME NEW k \in ends PROVE e + 1 <= k
      <4>1. e < k /\ k \in Nat
        BY <1>6
      <4> HIDE DEF ends
      <4> QED BY <1>2, <4>1
    <3> QED BY <3>1, <3>2
  <2>5. least \in ends /\ \A k \in ends : least <= k
    <3> HIDE DEF ends
    <3> QED BY <2>4
  <2>6. least = e + 1
    <3>1. least <= e + 1 /\ e + 1 <= least
      <4> HIDE DEF least, ends
      <4> QED BY <2>4, <2>5
    <3>2. least \in Nat
      <4> HIDE DEF least
      <4> QED BY <1>6, <2>5
    <3> HIDE DEF least
    <3> QED BY <1>2, <3>1, <3>2
  <2>7. SegmentEnd(h, b) = least - 1
    <3>1. ends # {}
      BY <2>4
    <3> QED BY <3>1 DEF SegmentEnd
  <2> HIDE DEF least
  <2>8. SegmentEnd(h, b) = e
    BY <1>2, <2>6, <2>7
  <2> QED BY <2>8 DEF b, e
<1> QED BY <1>4, <1>5

\* A segment holds the name of its directive and the words that spell its value.
LEMMA WordsOfSegment ==
    ASSUME NEW p \in Seq(Directive), NEW h, h = ToHeaderValue(p), NEW i \in 1..Len(p)
    PROVE  SubSeq(h, Begin(p, i) + 1, End(p, i)) = Spelt(p[i])
<1> DEFINE spelt == Spelt(p[i])
           b == Begin(p, i)
           e == End(p, i)
           l == Len(spelt)
           words == SubSeq(h, b + 1, e)
<1>1. spelt = Spelt(p[i])
  OBVIOUS
<1> HIDE DEF spelt
<1>2. spelt \in Seq(Plain) /\ e = b + l /\ StandsIn(h, p, i, spelt)
  BY <1>1, Placed
<1>3. \A k \in 1..l : h[b + k] = spelt[k]
  BY <1>2 DEF StandsIn
<1>4. b \in Nat
  BY Extent
<1>5. spelt \in Seq(Plain) /\ e = b + l
  BY <1>2
<1>6. l \in Nat
  BY <1>5, LenProperties
<1> HIDE DEF b, e
<1>7. \A j \in (b + 1)..e : h[j] \in Plain
  <2> TAKE j \in (b + 1)..e
  <2> DEFINE k == j - b
  <2>1. k \in 1..l /\ b + k = j
    <3> HIDE DEF l
    <3> QED BY <1>4, <1>5, <1>6
  <2> HIDE DEF k
  <2>2. spelt[k] \in Plain
    BY <1>5, <2>1
  <2> QED BY <1>3, <2>1, <2>2
<1>8. /\ words \in Seq(Plain)
      /\ Len(words) = IF b + 1 <= e THEN e - (b + 1) + 1 ELSE 0
      /\ \A k \in 1..(e - (b + 1) + 1) : words[k] = h[(b + 1) + k - 1]
  <2>1. b + 1 \in Int /\ e \in Int
    <3> HIDE DEF l
    <3> QED BY <1>4, <1>5, <1>6
  <2> DEFINE from == b + 1
  <2> HIDE DEF from
  <2>2. /\ SubSeq(h, from, e) \in Seq(Plain)
        /\ Len(SubSeq(h, from, e)) = IF from <= e THEN e - from + 1 ELSE 0
        /\ \A k \in 1..(e - from + 1) : SubSeq(h, from, e)[k] = h[from + k - 1]
    BY <1>7, <2>1, SubSeqProperties DEF from
  <2> QED BY <2>2 DEF from
<1> HIDE DEF words
<1>9. Len(words) = l
  <2> HIDE DEF l
  <2>1. Len(words) = IF b + 1 <= e THEN e - (b + 1) + 1 ELSE 0
    BY <1>8
  <2>2. e = b + l
    BY <1>5
  <2> QED BY <1>4, <1>6, <2>1, <2>2
<1>10. \A k \in 1..l : words[k] = spelt[k]
  <2> TAKE k \in 1..l
  <2>1. k \in 1..(e - (b + 1) + 1) /\ (b + 1) + k - 1 = b + k
    <3>1. e = b + l
      BY <1>5
    <3> HIDE DEF l
    <3> QED BY <1>4, <1>6, <3>1
  <2>2. words[k] = h[(b + 1) + k - 1]
    BY <1>8, <2>1
  <2> QED BY <1>3, <2>1, <2>2
<1>11. words = spelt
  <2>1. words \in Seq(Plain)
    BY <1>8
  <2> QED BY <1>5, <1>9, <1>10, <2>1, SeqEqual
<1> QED BY <1>11 DEF words, spelt, b, e

\* A browser reads the header of a policy of unique names as the policy: the names are
\* those of its directives, and under each stand the words of its value, but for a 'none'.
LEMMA ReadsBack ==
    ASSUME NEW p \in Seq(Directive), HasUniqueNames(p), NEW h, h = ToHeaderValue(p)
    PROVE  /\ NamesRead(h) = {p[i].name : i \in DOMAIN p}
           /\ \A i \in DOMAIN p : /\ TermsRead(h, p[i].name) = WithoutNone(Spelt(p[i]))
                                  /\ TermsRead(h, p[i].name) = WithoutNone(p[i].value.terms)
<1> DEFINE m == Len(p)
<1>1. DOMAIN p = 1..m /\ \A i \in 1..m : p[i] \in Directive
  OBVIOUS
<1>2. SegmentStarts(h) = {Begin(p, i) : i \in 1..m}
  BY StartsOfHeader
<1>3. \A i \in 1..m : h[Begin(p, i)] = p[i].name /\ Begin(p, i) \in Nat
  BY Extent
<1>4. NamesRead(h) = {p[i].name : i \in DOMAIN p}
  BY <1>1, <1>2, <1>3 DEF NamesRead
<1>5. ASSUME NEW i \in 1..m
      PROVE  TermsRead(h, p[i].name) = WithoutNone(Spelt(p[i]))
  <2> DEFINE n == p[i].name
             starts == {j \in SegmentStarts(h) : h[j] = n}
             first == CHOOSE j \in starts : \A k \in starts : j <= k
             b == Begin(p, i)
  <2>1. starts = {b}
    <3>1. b \in starts
      BY <1>2, <1>3
    <3>2. ASSUME NEW j \in starts PROVE j = b
      <4>1. PICK k \in 1..m : j = Begin(p, k)
        BY <1>2
      <4>2. p[k].name = p[i].name
        BY <1>3, <3>2, <4>1
      <4>3. k = i
        BY <1>1, <4>2 DEF HasUniqueNames
      <4> QED BY <4>1, <4>3
    <3> HIDE DEF starts
    <3> QED BY <3>1, <3>2
  <2>2. b \in Nat
    BY <1>3
  <2>3. first = b
    <3>1. b \in starts /\ \A k \in starts : b <= k
      <4> HIDE DEF starts, b
      <4> QED BY <2>1, <2>2
    <3>2. first \in starts
      <4> HIDE DEF starts, b
      <4> QED BY <3>1
    <3> HIDE DEF starts, first, b
    <3> QED BY <2>1, <3>2
  <2>4. TermsRead(h, n) = WithoutNone(SubSeq(h, first + 1, SegmentEnd(h, first)))
    BY DEF TermsRead
  <2> HIDE DEF first
  <2>5. SegmentEnd(h, b) = End(p, i) /\ SubSeq(h, b + 1, End(p, i)) = Spelt(p[i])
    BY EndOfSegment, WordsOfSegment
  <2> QED BY <2>3, <2>4, <2>5
<1>6. \A i \in 1..m : WithoutNone(Spelt(p[i])) = WithoutNone(p[i].value.terms)
  BY <1>1, SpeltReads
<1> QED BY <1>1, <1>4, <1>5, <1>6

\* A browser reads the header of every response as the policy that was built, with the
\* response's nonce in script-src (csp.rs, Policy::headers; policy.rs, to_header_value).
THEOREM HeaderReads == Spec => []HeaderReadsAsThePolicy
<1>1. ASSUME RInv PROVE HeaderReadsAsThePolicy
  <2>1. SUFFICES ASSUME response # NoResponse
                 PROVE  /\ NamesRead(response.csp) = {Stated[i].name : i \in DOMAIN Stated}
                        /\ \A i \in DOMAIN Stated :
                             TermsRead(response.csp, Stated[i].name)
                                 = WithoutNone(Stated[i].value.terms)
    BY DEF HeaderReadsAsThePolicy
  <2>2. response.csp = ToHeaderValue(Stated) /\ Stated \in WellFormed
    BY <1>1, <2>1, StatedIs
  <2>3. Stated \in Seq(Directive) /\ HasUniqueNames(Stated)
    BY <2>2, WellFormedTypes
  <2> DEFINE p == Stated
             h == response.csp
  <2>4. p \in Seq(Directive) /\ HasUniqueNames(p) /\ h = ToHeaderValue(p)
    BY <2>2, <2>3
  <2> HIDE DEF p, h
  <2>5. /\ NamesRead(h) = {p[i].name : i \in DOMAIN p}
        /\ \A i \in DOMAIN p : TermsRead(h, p[i].name) = WithoutNone(p[i].value.terms)
    BY <2>4, ReadsBack
  <2> QED BY <2>5 DEF p, h
<1> QED BY <1>1, ResponseInvariance, PTL

\* The expressions a browser reads under script-src.
LEMMA ScriptWords ==
    ASSUME NEW p \in WellFormed, Contains(p, Script), NEW h, h = ToHeaderValue(p)
    PROVE  Elements(TermsRead(h, Script)) = Listed(p, Script) \ {"'none'"}
<1> DEFINE i == Position(p, Script)
           none == "'none'"
           v == ListOf(p, Script).terms
           keep == Elements(v) \ {none}
<1>1. Script \in SourceDirective
  BY DEF Script, SourceDirective
<1>2. ListOf(p, Script) \in SourceList /\ i \in 1..Len(p) /\ p[i].name = Script
  BY <1>1, ListOfIsAList
<1>3. v \in Seq(Source)
  BY <1>2, TermsType
<1>4. v = p[i].value.terms
  BY DEF ListOf
<1>5. p \in Seq(Directive) /\ HasUniqueNames(p) /\ DOMAIN p = 1..Len(p)
  <2>1. p \in Seq(Directive) /\ HasUniqueNames(p)
    BY WellFormedTypes
  <2> QED BY <2>1
<1> HIDE DEF i, v
<1>6. TermsRead(h, Script) = WithoutNone(v)
  <2>1. i \in DOMAIN p
    BY <1>2, <1>5
  <2>2. TermsRead(h, p[i].name) = WithoutNone(p[i].value.terms)
    BY <1>5, <2>1, ReadsBack
  <2> QED BY <1>2, <1>4, <2>2
<1>7. WithoutNone(v) = Kept(v, keep)
  BY DEF WithoutNone
<1> HIDE DEF keep
<1>8. Elements(Kept(v, keep)) = Elements(v) \cap keep
  BY <1>3, KeptType
<1>9. Listed(p, Script) = Elements(v)
  BY DEF Listed, v
<1> QED BY <1>6, <1>7, <1>8, <1>9 DEF keep

\* A script may stand inline with any digest or nonce.
LEMMA ScriptsAreInline == Hash \cup Nonce \subseteq InlineContent(Script)
BY DEF InlineContent, ScriptLoad, Script

\* A list with one nonce that may be minted allows scripts this one and no other, for
\* a nonce switches 'unsafe-inline' off.
LEMMA AllowsItsNonce ==
    ASSUME NEW ss \in SUBSET Source, NEW n \in MintedNonces, ss \cap MintedNonces = {n}
    PROVE  Allows(Script, ss) \cap MintedNonces = {n}
<1> DEFINE N == MintedNonces
           strict == Script \in ScriptLoad /\ "'strict-dynamic'" \in ss
           inline == /\ "'unsafe-inline'" \in ss
                     /\ ss \cap (Hash \cup Nonce) = {}
                     /\ ~strict
           urls == IF strict THEN {} ELSE ss \cap UrlExpression
           listed == ss \cap (InlineContent(Script) \cup Enabled(Script))
           wasm == IF "'unsafe-eval'" \in ss
                   THEN {"'wasm-unsafe-eval'"} \cap Enabled(Script) ELSE {}
           any == IF inline THEN InlineContent(Script) ELSE {}
<1>1. N \subseteq Nonce /\ n \in ss /\ n \in Nonce
  BY NoncesAreFresh
<1>2. any = {}
  BY <1>1
<1>3. wasm \cap N = {} /\ urls \cap N = {}
  <2>1. {"'wasm-unsafe-eval'"} \subseteq Keyword /\ {"'self'"} \subseteq Keyword
    BY DEF Keyword
  <2>2. UrlExpression \subseteq Keyword \cup Host \cup Scheme
    BY <2>1 DEF UrlExpression
  <2>3. wasm \subseteq Keyword /\ urls \subseteq Keyword \cup Host \cup Scheme
    BY <2>1, <2>2
  <2> HIDE DEF wasm, urls, N
  <2> QED BY <2>3, NoMintedNonce DEF N
<1>4. listed \cap N = {n}
  <2>1. Hash \cup Nonce \subseteq InlineContent(Script)
    BY ScriptsAreInline
  <2> QED BY <1>1, <2>1
<1>5. Allows(Script, ss) = urls \cup listed \cup wasm \cup any
  BY DEF Allows
<1> HIDE DEF urls, listed, wasm, any
<1> QED BY <1>2, <1>3, <1>4, <1>5

\* A response of a per-response policy lets its own nonce run a script and no nonce of
\* another response, and is not to be cached (csp.rs, Policy::headers).
THEOREM NonceIsItsOwn == Spec => []NonceIsPerResponse
<1>1. ASSUME RInv PROVE NonceIsPerResponse
  <2>1. SUFFICES ASSUME rendered.kind = "PerResponse", response # NoResponse
                 PROVE  /\ Allows(Script, Elements(TermsRead(response.csp, Script)))
                               \cap MintedNonces = response.nonce
                        /\ response.cache_control = "no-cache"
    BY DEF NonceIsPerResponse, Script
  <2>2. per_response_nonce
    <3>1. rendered = Built
      BY <1>1, <2>1, AnswerOfBuilt
    <3>2. ~per_response_nonce => rendered.kind = "Constant"
      BY <3>1 DEF Built
    <3> QED BY <2>1, <3>2
  <2>3. PICK n \in MintedNonces : response.nonce = {n} /\ response.cache_control = "no-cache"
    BY <1>1, <2>1, <2>2, AnswerOfSlot
  <2>4. Stated = ExtendUnrouted(policy, Script, <<n>>)
    BY <2>2, <2>3 DEF Stated, Script
  <2>5. n \in Source /\ Script \in SourceDirective /\ <<n>> \in Seq(Source)
        /\ Elements(<<n>>) = {n}
    <3>1. n \in Source /\ Script \in SourceDirective
      BY NoncesAreFresh DEF Source, Script, SourceDirective
    <3> QED BY <3>1, SequenceOfOne
  <2>6. response.csp = ToHeaderValue(Stated)
    BY <1>1, <2>1, StatedIs
  <2> DEFINE p == Stated
             h == response.csp
             ss == InForce(policy, Script) \cup {n}
  <2>7. p \in WellFormed /\ Contains(p, Script) /\ Listed(p, Script) = ss
    <3> HIDE DEF p
    <3>1. p = ExtendUnrouted(policy, Script, <<n>>)
      BY <2>4 DEF p
    <3>2. /\ p \in WellFormed /\ Contains(p, Script)
          /\ Listed(p, Script) = InForce(policy, Script) \cup Elements(<<n>>)
      BY <1>1, <2>5, <3>1, ExtendUnroutedView DEF RInv
    <3> QED BY <2>5, <3>2
  <2>8. ss \subseteq Source
    <3> HIDE DEF ss, p
    <3>1. ListOf(p, Script) \in SourceList
      BY <2>5, <2>7, ListOfIsAList
    <3>2. ListOf(p, Script).terms \in Seq(Source)
      BY <3>1, TermsType
    <3> QED BY <2>7, <3>2 DEF Listed, Elements
  <2>9. Elements(TermsRead(h, Script)) = ss
    <3>1. h = ToHeaderValue(p)
      BY <2>6
    <3> HIDE DEF h, p, ss
    <3>2. Elements(TermsRead(h, Script)) = ss \ {"'none'"}
      BY <2>7, <3>1, ScriptWords
    <3> QED BY <2>8, <3>2, NoneIsNoSource
  <2>10. ss \cap MintedNonces = {n}
    BY <1>1, <2>5, FreshForce DEF RInv
  <2> HIDE DEF ss
  <2>11. Allows(Script, ss) \cap MintedNonces = {n}
    BY <2>8, <2>10, AllowsItsNonce
  <2> QED BY <2>3, <2>9, <2>11
<1> QED BY <1>1, ResponseInvariance, PTL

-----------------------------------------------------------------------------
(***************************************************************************)
(* The policy a server makes of Csp::spa_wasm with the digests of a scan,  *)
(* Turnstile and connections of its own, and what a browser reads of it.   *)
(***************************************************************************)
SpaNames == {SpaWasm[i].name : i \in DOMAIN SpaWasm}

\* The directives whose lists none of these touches.
Untouched == {"default-src", "object-src", "base-uri", "form-action", "frame-ancestors"}

\* What lets inline scripts run.
Unlocks == Hash \cup Nonce \cup {"'unsafe-inline'", "'unsafe-eval'"}

\* p is such a policy, with the digests H and, if framed, Turnstile.
Configured(p, framed, H) ==
    /\ p \in WellFormed
    /\ \A m : Contains(p, m) <=> m \in SpaNames \/ (framed /\ m = "frame-src")
    /\ \A i \in DOMAIN SpaWasm : SpaWasm[i].name \in Untouched
            => ListOf(p, SpaWasm[i].name) = SpaWasm[i].value
    /\ Listed(p, Script) \cap Unlocks = H

\* The names of the constructor's directives, and where script-src stands.
LEMMA SpaVector ==
    /\ SpaNames = {"default-src", "script-src", "style-src", "connect-src", "img-src",
                   "font-src", "object-src", "base-uri", "form-action", "frame-ancestors"}
    /\ Len(SpaWasm) = 10 /\ DOMAIN SpaWasm = 1..10
    /\ SpaWasm[2].name = Script
    /\ SpaWasm[2].value = Of(<<"'self'", "'wasm-unsafe-eval'">>)
<1>1. Len(SpaWasm) = 10 /\ DOMAIN SpaWasm = 1..10
  BY DEF SpaWasm
<1>2. /\ SpaWasm[1].name = "default-src" /\ SpaWasm[2].name = "script-src"
      /\ SpaWasm[3].name = "style-src" /\ SpaWasm[4].name = "connect-src"
      /\ SpaWasm[5].name = "img-src" /\ SpaWasm[6].name = "font-src"
      /\ SpaWasm[7].name = "object-src" /\ SpaWasm[8].name = "base-uri"
      /\ SpaWasm[9].name = "form-action" /\ SpaWasm[10].name = "frame-ancestors"
  BY DEF SpaWasm, Sources
<1>3. SpaWasm[2].value = Of(<<"'self'", "'wasm-unsafe-eval'">>)
  BY DEF SpaWasm, Sources
<1> DEFINE v == SpaWasm
<1> HIDE DEF v
<1>4. SpaNames = {v[i].name : i \in 1..10}
  BY <1>1 DEF SpaNames, v
<1>5. /\ v[1].name = "default-src" /\ v[2].name = "script-src"
      /\ v[3].name = "style-src" /\ v[4].name = "connect-src"
      /\ v[5].name = "img-src" /\ v[6].name = "font-src"
      /\ v[7].name = "object-src" /\ v[8].name = "base-uri"
      /\ v[9].name = "form-action" /\ v[10].name = "frame-ancestors"
  BY <1>2 DEF v
<1>6. \A i \in 1..10 : i = 1 \/ i = 2 \/ i = 3 \/ i = 4 \/ i = 5 \/ i = 6 \/ i = 7 \/ i = 8
                        \/ i = 9 \/ i = 10
  OBVIOUS
<1>7. SpaNames = {"default-src", "script-src", "style-src", "connect-src", "img-src",
                  "font-src", "object-src", "base-uri", "form-action", "frame-ancestors"}
  BY <1>4, <1>5, <1>6
<1> QED BY <1>1, <1>2, <1>3, <1>7 DEF Script

\* The constructor's policy is one, without digests (csp.rs, Csp::spa_wasm).
LEMMA SpaIsConfigured ==
    ASSUME "spa_wasm" \in Start, NEW p, p = Constructed("spa_wasm")
    PROVE  Configured(p, FALSE, {})
<1>1. p \in WellFormed
  BY ConstructedIsFine, FineIsWellFormed
<1>2. p \in Seq(Directive) /\ HasUniqueNames(p)
  BY <1>1, WellFormedTypes
<1>3. p = SpaWasm
  BY DEF Constructed
<1>4. Len(p) = 10 /\ DOMAIN p = 1..10 /\ SpaNames = {p[i].name : i \in 1..Len(p)}
  BY <1>3, SpaVector DEF SpaNames
<1>5. \A i \in DOMAIN SpaWasm : ListOf(p, SpaWasm[i].name) = SpaWasm[i].value
  <2>1. \A i \in 1..Len(p) : ListOf(p, p[i].name) = p[i].value
    BY <1>2, ListOfIth
  <2> QED BY <1>3, <1>4, <2>1
<1>6. \A m : Contains(p, m) <=> m \in SpaNames
  <2>1. \A i \in 1..Len(p) : Contains(p, p[i].name)
    BY <1>2, ListOfIth
  <2>2. \A m : Contains(p, m) => \E i \in 1..Len(p) : p[i].name = m
    BY <1>4 DEF Contains, Position
  <2> QED BY <1>4, <2>1, <2>2
<1>7. Listed(p, Script) \cap Unlocks = {}
  <2> DEFINE self == "'self'"
             wasm == "'wasm-unsafe-eval'"
  <2>1. ListOf(p, Script) = Of(<<self, wasm>>)
    BY <1>5, SpaVector
  <2>2. self \in Source /\ wasm \in Source
    BY DEF Source, Keyword
  <2>3. {self, wasm} \cap Unlocks = {}
    BY DistinctTerms DEF Unlocks, Keyword
  <2> HIDE DEF self, wasm
  <2>4. <<self, wasm>> \in Seq(Source) /\ Elements(<<self, wasm>>) = {self, wasm}
    BY <2>2, SequenceOfTwo
  <2>5. Elements(Of(<<self, wasm>>).terms) = {self, wasm}
    BY <2>4, OfType
  <2> QED BY <2>1, <2>3, <2>5 DEF Listed
<1> QED BY <1>1, <1>5, <1>6, <1>7 DEF Configured

\* It stays one when what is listed under a name it has, other than an untouched one, is
\* given what unlocks nothing, or digests.
LEMMA ConfiguredStays ==
    ASSUME NEW p, NEW framed \in BOOLEAN, NEW H, Configured(p, framed, H),
           NEW n, n \notin Untouched,
           NEW q \in WellFormed, SameExcept(p, q, n), Contains(p, n), Contains(q, n),
           NEW new, n = Script => Listed(q, Script) \cap Unlocks = H \cup new,
           n # Script => new = {}
    PROVE  Configured(q, framed, H \cup new)
<1>1. /\ \A m : Contains(p, m) <=> m \in SpaNames \/ (framed /\ m = "frame-src")
      /\ \A i \in DOMAIN SpaWasm : SpaWasm[i].name \in Untouched
              => ListOf(p, SpaWasm[i].name) = SpaWasm[i].value
      /\ Listed(p, Script) \cap Unlocks = H
  BY DEF Configured
<1>2. \A m : Contains(q, m) <=> m \in SpaNames \/ (framed /\ m = "frame-src")
  BY <1>1 DEF SameExcept
<1>3. \A m : m # n /\ Contains(p, m) => ListOf(q, m) = ListOf(p, m)
  BY DEF SameExcept
<1>4. ASSUME NEW i \in DOMAIN SpaWasm, SpaWasm[i].name \in Untouched
      PROVE  ListOf(q, SpaWasm[i].name) = SpaWasm[i].value
  <2>1. SpaWasm[i].name \in SpaNames
    BY DEF SpaNames
  <2> QED BY <1>1, <1>3, <1>4, <2>1
<1>5. Listed(q, Script) \cap Unlocks = H \cup new
  <2>1. CASE n = Script
    BY <2>1
  <2>2. CASE n # Script
    <3>1. Script \in SpaNames
      BY SpaVector DEF Script
    <3>2. ListOf(q, Script) = ListOf(p, Script)
      BY <1>1, <1>3, <2>2, <3>1
    <3> QED BY <1>1, <2>2, <3>2 DEF Listed
  <2> QED BY <2>1, <2>2
<1> QED BY <1>2, <1>4, <1>5 DEF Configured

\* In particular when it is not script-src.
LEMMA ConfiguredElsewhere ==
    ASSUME NEW p, NEW framed \in BOOLEAN, NEW H, Configured(p, framed, H),
           NEW n, n \notin Untouched, n # Script,
           NEW q \in WellFormed, SameExcept(p, q, n), Contains(p, n), Contains(q, n)
    PROVE  Configured(q, framed, H)
<1> DEFINE none == {}
<1>1. none = {} /\ H \cup none = H
  OBVIOUS
<1> HIDE DEF none
<1>2. Configured(q, framed, H \cup none)
  BY <1>1, ConfiguredStays
<1> QED BY <1>1, <1>2

\* with_scan adds the digests.
LEMMA ConfiguredScan ==
    ASSUME NEW p, NEW framed \in BOOLEAN, NEW H, Configured(p, framed, H),
           NEW hashes \in Seq(Hash), NEW q, q = ExtendUnrouted(p, Script, hashes)
    PROVE  Configured(q, framed, H \cup Elements(hashes))
<1>1. p \in WellFormed /\ Contains(p, Script) /\ Listed(p, Script) \cap Unlocks = H
  BY SpaVector DEF Configured, Script
<1>2. Script \in SourceDirective /\ Script \notin Untouched /\ hashes \in Seq(Source)
  BY HashesAreSources DEF Script, SourceDirective, Untouched
<1>3. /\ q \in WellFormed /\ SameExcept(p, q, Script) /\ Contains(q, Script)
      /\ Listed(q, Script) = InForce(p, Script) \cup Elements(hashes)
  BY <1>1, <1>2, ExtendUnroutedView
<1>4. Elements(hashes) \subseteq Hash
  BY DEF Elements
<1>5. Listed(q, Script) \cap Unlocks = H \cup Elements(hashes)
  BY <1>1, <1>3, <1>4 DEF InForce, Unlocks
<1> QED BY <1>1, <1>2, <1>3, <1>5, ConfiguredStays

\* Origins for connect-src unlock nothing.
LEMMA ConfiguredExtend ==
    ASSUME NEW p, NEW framed \in BOOLEAN, NEW H, Configured(p, framed, H),
           NEW ss \in Seq(Source), NEW q, q = ExtendSources(p, "connect-src", ss)
    PROVE  Configured(q, framed, H)
<1> DEFINE n == "connect-src"
<1>1. /\ n \in SourceDirective /\ n \notin Untouched /\ n # Script /\ n \in SpaNames
  BY SpaVector DEF Script, SourceDirective, Untouched
<1>2. p \in WellFormed /\ Contains(p, n)
  BY <1>1 DEF Configured
<1>3. q = ExtendSources(p, n, ss)
  OBVIOUS
<1> HIDE DEF n
<1>4. q \in WellFormed /\ SameExcept(p, q, n) /\ Contains(q, n)
  BY <1>1, <1>2, <1>3, ExtendSourcesView
<1> QED BY <1>1, <1>2, <1>4, ConfiguredElsewhere

\* The origins of Turnstile unlock nothing, and open frame-src (cloudflare.rs, turnstile).
LEMMA ConfiguredTurnstile ==
    ASSUME NEW p, NEW H, Configured(p, FALSE, H),
           NEW q, q = Admitted(p, Origins["turnstile"])
    PROVE  Configured(q, TRUE, H)
<1> DEFINE table == Turnstile
           frame == "frame-src"
           none == {}
<1>1. p \in WellFormed /\ Contains(p, Script)
  BY SpaVector DEF Configured, Script
<1>2. Origins["turnstile"] = table /\ "turnstile" \in DOMAIN Origins
  BY DEF Origins
<1>3. table \in Table
  BY <1>2, PresetTypes DEF Table
<1>4. Len(table) = 2 /\ table[1].directive = Script /\ table[2].directive = frame
  BY DEF Turnstile, Entry, Script
<1>5. /\ frame \in SourceDirective /\ frame \notin Untouched /\ frame # Script
      /\ frame \notin SpaNames /\ Script \in SourceDirective /\ Script \notin Untouched
      /\ none = {}
  BY SpaVector DEF Script, SourceDirective, Untouched
<1> HIDE DEF table, frame, none
<1>6. PICK run : IsRun(run, p, table) /\ run[2] = q
  BY <1>1, <1>2, <1>3, <1>4, AdmittedUnfolds
<1>7. /\ run[1] = ExtendUnrouted(p, Script, table[1].sources)
      /\ run[2] = ExtendUnrouted(run[1], frame, table[2].sources)
  BY <1>4, <1>6 DEF IsRun
<1>8. /\ table[1].sources \in Seq(Source) /\ table[2].sources \in Seq(Source)
      /\ Elements(table[1].sources) \subseteq Host \cup Scheme
  <2>1. 1 \in 1..Len(table) /\ 2 \in 1..Len(table)
    BY <1>4
  <2> QED BY <1>3, <2>1, EntryType
<1>9. Configured(run[1], FALSE, H)
  <2> DEFINE r == run[1]
  <2> HIDE DEF r
  <2>1. /\ r \in WellFormed /\ SameExcept(p, r, Script) /\ Contains(r, Script)
        /\ Listed(r, Script) = InForce(p, Script) \cup Elements(table[1].sources)
    BY <1>1, <1>5, <1>7, <1>8, ExtendUnroutedView DEF r
  <2>2. (Host \cup Scheme) \cap Unlocks = {}
    BY DistinctTerms DEF Unlocks, Keyword
  <2>3. Listed(p, Script) \cap Unlocks = H
    BY DEF Configured
  <2>4. Listed(r, Script) \cap Unlocks = H \cup none
    BY <1>1, <1>5, <1>8, <2>1, <2>2, <2>3 DEF InForce
  <2>5. Configured(r, FALSE, H \cup none)
    BY <1>1, <1>5, <2>1, <2>4, ConfiguredStays
  <2> QED BY <1>5, <2>5 DEF r
<1>10. /\ q \in WellFormed /\ SameExcept(run[1], q, frame) /\ Contains(q, frame)
  <2> DEFINE r == run[1]
  <2>1. r \in WellFormed
    BY <1>9 DEF Configured
  <2> HIDE DEF r
  <2> QED BY <1>5, <1>6, <1>7, <1>8, <2>1, ExtendUnroutedView DEF r
<1> DEFINE r == run[1]
<1> HIDE DEF r
<1>11. /\ \A m : Contains(r, m) <=> m \in SpaNames
       /\ \A i \in DOMAIN SpaWasm : SpaWasm[i].name \in Untouched
              => ListOf(r, SpaWasm[i].name) = SpaWasm[i].value
       /\ Listed(r, Script) \cap Unlocks = H
  BY <1>9 DEF Configured, r
<1>12. \A m : m # frame => /\ Contains(q, m) <=> Contains(r, m)
                           /\ Contains(r, m) => ListOf(q, m) = ListOf(r, m)
  BY <1>10 DEF SameExcept, r
<1>13. \A m : Contains(q, m) <=> m \in SpaNames \/ m = frame
  BY <1>5, <1>10, <1>11, <1>12
<1>14. ASSUME NEW i \in DOMAIN SpaWasm, SpaWasm[i].name \in Untouched
       PROVE  ListOf(q, SpaWasm[i].name) = SpaWasm[i].value
  <2>1. SpaWasm[i].name \in SpaNames
    BY DEF SpaNames
  <2> QED BY <1>5, <1>11, <1>12, <1>14, <2>1
<1>15. Listed(q, Script) \cap Unlocks = H
  <2>1. Script \in SpaNames
    BY SpaVector DEF Script
  <2>2. ListOf(q, Script) = ListOf(r, Script)
    BY <1>5, <1>11, <1>12, <2>1
  <2> QED BY <1>11, <2>2 DEF Listed
<1> QED BY <1>10, <1>13, <1>14, <1>15 DEF Configured, frame

-----------------------------------------------------------------------------
\* A script-src that unlocks digests and nonces only runs these and nothing else inline.
LEMMA AllowsWhatUnlocks ==
    ASSUME NEW ss \in SUBSET Source, NEW K \in SUBSET (Hash \cup Nonce),
           ss \cap Unlocks = K
    PROVE  Allows(Script, ss) \cap (Hash \cup Nonce \cup {AnyInline, "'unsafe-eval'"}) = K
<1> DEFINE uses == Hash \cup Nonce \cup {AnyInline, "'unsafe-eval'"}
           strict == Script \in ScriptLoad /\ "'strict-dynamic'" \in ss
           inline == /\ "'unsafe-inline'" \in ss
                     /\ ss \cap (Hash \cup Nonce) = {}
                     /\ ~strict
           urls == IF strict THEN {} ELSE ss \cap UrlExpression
           listed == ss \cap (InlineContent(Script) \cup Enabled(Script))
           wasm == IF "'unsafe-eval'" \in ss
                   THEN {"'wasm-unsafe-eval'"} \cap Enabled(Script) ELSE {}
           any == IF inline THEN InlineContent(Script) ELSE {}
<1>1. {"'unsafe-inline'", "'unsafe-eval'"} \cap (Hash \cup Nonce) = {}
  BY DistinctTerms DEF Keyword
<1>2. "'unsafe-inline'" \notin ss /\ "'unsafe-eval'" \notin ss
  BY <1>1 DEF Unlocks
<1>3. any = {} /\ wasm = {}
  BY <1>2
<1>4. ss \cap (Hash \cup Nonce) = K
  BY <1>1 DEF Unlocks
<1>5. AnyInline \notin ss
  BY AnyInlineIsNoSource
<1>6. urls \cap uses = {}
  <2>1. UrlExpression \cap (Hash \cup Nonce) = {} /\ "'unsafe-eval'" \notin Host \cup Scheme
    BY DistinctTerms DEF UrlExpression, Keyword
  <2>2. "'unsafe-eval'" \notin UrlExpression
    BY <2>1 DEF UrlExpression
  <2>3. urls \subseteq ss /\ urls \subseteq UrlExpression
    OBVIOUS
  <2> HIDE DEF urls
  <2> QED BY <1>5, <2>1, <2>2, <2>3
<1>7. listed \cap uses = K
  <2>1. listed \cap (Hash \cup Nonce) = K
    <3>1. Hash \cup Nonce \subseteq InlineContent(Script)
      BY ScriptsAreInline
    <3> QED BY <1>4, <3>1
  <2>2. AnyInline \notin listed /\ "'unsafe-eval'" \notin listed
    BY <1>2, <1>5
  <2> HIDE DEF listed
  <2> QED BY <2>1, <2>2
<1>8. Allows(Script, ss) = urls \cup listed \cup wasm \cup any
  BY DEF Allows
<1> HIDE DEF urls, listed, wasm, any, uses
<1>9. Allows(Script, ss) \cap uses = K
  BY <1>3, <1>6, <1>7, <1>8
<1> QED BY <1>9 DEF uses

\* What a browser reads of the header of such a policy.
Reads(h, framed, K) ==
    /\ NamesRead(h) = SpaNames \cup (IF framed THEN {"frame-src"} ELSE {})
    /\ \A i \in DOMAIN SpaWasm : SpaWasm[i].name \in Untouched
            => TermsRead(h, SpaWasm[i].name) = WithoutNone(SpaWasm[i].value.terms)
    /\ LET runs == Allows(Script, Elements(TermsRead(h, Script)))
       IN  runs \cap (Hash \cup Nonce \cup {AnyInline, "'unsafe-eval'"}) = K

LEMMA ConfiguredReads ==
    ASSUME NEW p, NEW framed \in BOOLEAN, NEW K \in SUBSET (Hash \cup Nonce),
           Configured(p, framed, K), NEW h, h = ToHeaderValue(p)
    PROVE  Reads(h, framed, K)
<1>1. /\ p \in WellFormed
      /\ \A m : Contains(p, m) <=> m \in SpaNames \/ (framed /\ m = "frame-src")
      /\ \A i \in DOMAIN SpaWasm : SpaWasm[i].name \in Untouched
              => ListOf(p, SpaWasm[i].name) = SpaWasm[i].value
      /\ Listed(p, Script) \cap Unlocks = K
  BY DEF Configured
<1>2. p \in Seq(Directive) /\ HasUniqueNames(p)
  BY <1>1, WellFormedTypes
<1>3. /\ NamesRead(h) = {p[i].name : i \in DOMAIN p}
      /\ \A i \in DOMAIN p : TermsRead(h, p[i].name) = WithoutNone(p[i].value.terms)
  BY <1>2, ReadsBack
<1>4. \A m : Contains(p, m) => /\ Position(p, m) \in DOMAIN p
                               /\ p[Position(p, m)].name = m
  BY <1>2, PositionFinds
<1>5. \A i \in DOMAIN p : Contains(p, p[i].name)
  BY <1>2, ListOfIth
<1>6. NamesRead(h) = SpaNames \cup (IF framed THEN {"frame-src"} ELSE {})
  <2>1. \A m : m \in NamesRead(h) <=> Contains(p, m)
    BY <1>3, <1>4, <1>5
  <2> QED BY <1>1, <2>1
<1>7. ASSUME NEW m, Contains(p, m) PROVE TermsRead(h, m) = WithoutNone(ListOf(p, m).terms)
  BY <1>3, <1>4, <1>7 DEF ListOf
<1>8. ASSUME NEW i \in DOMAIN SpaWasm, SpaWasm[i].name \in Untouched
      PROVE  TermsRead(h, SpaWasm[i].name) = WithoutNone(SpaWasm[i].value.terms)
  <2>1. SpaWasm[i].name \in SpaNames
    BY DEF SpaNames
  <2> QED BY <1>1, <1>7, <1>8, <2>1
<1> DEFINE ss == Elements(TermsRead(h, Script))
<1>9. ss \in SUBSET Source /\ ss \cap Unlocks = K
  <2>1. Contains(p, Script) /\ Script \in SourceDirective
    BY <1>1, SpaVector DEF Script, SourceDirective
  <2>2. ss = Listed(p, Script) \ {"'none'"}
    BY <1>1, <2>1, ScriptWords
  <2>3. Listed(p, Script) \subseteq Source
    <3>1. ListOf(p, Script).terms \in Seq(Source)
      BY <1>1, <2>1, ListOfIsAList, TermsType
    <3> QED BY <3>1 DEF Listed, Elements
  <2> HIDE DEF ss
  <2> QED BY <1>1, <2>2, <2>3, NoneIsNoSource
<1> HIDE DEF ss
<1>10. Allows(Script, ss) \cap (Hash \cup Nonce \cup {AnyInline, "'unsafe-eval'"}) = K
  BY <1>9, AllowsWhatUnlocks
<1> QED BY <1>6, <1>8, <1>10 DEF Reads, ss

\* A response of a server with such a policy adds its nonce to the digests, if any.
LEMMA ConfiguredAnswer ==
    ASSUME RInv, response # NoResponse, per_response_nonce \in BOOLEAN,
           NEW framed \in BOOLEAN, NEW H \in SUBSET Hash, Configured(policy, framed, H)
    PROVE  /\ Reads(response.csp, framed, H \cup response.nonce)
           /\ response.cache_control = "no-cache" <=> per_response_nonce
<1>1. response.csp = ToHeaderValue(Stated)
  BY StatedIs
<1>2. CASE per_response_nonce
  <2>1. PICK n \in MintedNonces : response.nonce = {n} /\ response.cache_control = "no-cache"
    BY <1>2, AnswerOfSlot
  <2> DEFINE q == Stated
  <2>2. q = ExtendUnrouted(policy, Script, <<n>>)
    BY <1>2, <2>1 DEF Stated, Script
  <2> HIDE DEF q
  <2>3. n \in Nonce /\ n \in Source /\ Script \in SourceDirective /\ Script \notin Untouched
    BY NoncesAreFresh DEF Source, Script, SourceDirective, Untouched
  <2>4. <<n>> \in Seq(Source) /\ Elements(<<n>>) = {n}
    BY <2>3, SequenceOfOne
  <2>5. policy \in WellFormed /\ Contains(policy, Script)
        /\ Listed(policy, Script) \cap Unlocks = H
    BY SpaVector DEF Configured, Script
  <2>6. /\ q \in WellFormed /\ SameExcept(policy, q, Script) /\ Contains(q, Script)
        /\ Listed(q, Script) = InForce(policy, Script) \cup Elements(<<n>>)
    BY <2>2, <2>3, <2>4, <2>5, ExtendUnroutedView
  <2>7. Listed(q, Script) \cap Unlocks = H \cup {n}
    BY <2>3, <2>4, <2>5, <2>6 DEF InForce, Unlocks
  <2>8. Configured(q, framed, H \cup {n})
    BY <2>3, <2>5, <2>6, <2>7, ConfiguredStays
  <2>9. Reads(response.csp, framed, H \cup {n})
    BY <1>1, <2>3, <2>8, ConfiguredReads DEF q
  <2> QED BY <1>2, <2>1, <2>9
<1>3. CASE ~per_response_nonce
  <2>1. response \in Answers(Built)
    BY AnswerOfBuilt
  <2>2. response.nonce = {} /\ response.cache_control = "absent"
    BY <1>3, <2>1 DEF Built, Answers
  <2>3. Reads(response.csp, framed, H)
    BY <1>1, <1>3, ConfiguredReads DEF Stated
  <2> QED BY <1>3, <2>2, <2>3
<1> QED BY <1>2, <1>3
=============================================================================
