--------------------------- MODULE ContractProofs ---------------------------
(***************************************************************************)
(* Proof that the builder's vector of directives implements the contract   *)
(* of PolicyContract.                                                      *)
(*                                                                         *)
(* A policy is read by name.  The lemmas first say what each operation on  *)
(* the vector does to the list of every name; then that the fallback of    *)
(* the code is a tree, so that the list in force for a name is its own or  *)
(* the one in force for its parent; and from the two, what creating and    *)
(* extending a directive does to the list in force for every other one.    *)
(*                                                                         *)
(* The second half says what that is to a browser that walks the fallback  *)
(* chains of the code: it permits what the list in force allows, so that a *)
(* preset only ever widens, a scan adds its hashes, and presets compose.   *)
(***************************************************************************)
EXTENDS CspBuilderProofs, CspBuilderRefines

\* The policies of the right shape, each name once, whatever they list.
WellFormed == Fine(TRUE, TRUE)

\* The directives of p and q agree, but for those named n.
SameExcept(p, q, n) ==
    \A m : m # n => /\ Contains(q, m) <=> Contains(p, m)
                    /\ Contains(p, m) => ListOf(q, m) = ListOf(p, m)

\* The expressions (or words) p lists under n.
Listed(p, n) == Elements(ListOf(p, n).terms)

-----------------------------------------------------------------------------
\* A fine policy is well formed.
LEMMA FineIsWellFormed ==
    ASSUME NEW eval, NEW rep, NEW p \in Fine(eval, rep)
    PROVE  p \in WellFormed
BY FineGrows DEF WellFormed

\* What well-formedness says of the vector.
LEMMA WellFormedTypes ==
    ASSUME NEW p \in WellFormed
    PROVE  /\ p \in Seq(Directive) /\ HasUniqueNames(p)
           /\ p \in Policies(Lists(TRUE, TRUE), Words(TRUE))
BY FineTypes DEF WellFormed, Fine

\* The value stored under the name of the i-th directive is that of the i-th.
LEMMA ListOfIth ==
    ASSUME NEW T, NEW p \in Seq(T), HasUniqueNames(p), NEW i \in 1..Len(p)
    PROVE  Contains(p, p[i].name) /\ ListOf(p, p[i].name) = p[i].value
BY PositionIsUnique DEF ListOf

\* Replacing the directive of a name in place.
LEMMA ReplaceView ==
    ASSUME NEW T, NEW p \in Seq(T), HasUniqueNames(p), NEW i \in 1..Len(p),
           NEW d \in T, d.name = p[i].name,
           NEW q \in Seq(T), Len(q) = Len(p),
           q[i] = d, \A j \in 1..Len(p) : j # i => q[j] = p[j]
    PROVE  /\ SameExcept(p, q, d.name)
           /\ Contains(q, d.name) /\ ListOf(q, d.name) = d.value
<1>1. DOMAIN q = 1..Len(p) /\ DOMAIN p = 1..Len(p)
  OBVIOUS
<1>2. \A j \in 1..Len(p) : q[j].name = p[j].name
  OBVIOUS
<1>3. HasUniqueNames(q)
  BY <1>1, <1>2 DEF HasUniqueNames
<1>4. Contains(q, d.name) /\ ListOf(q, d.name) = d.value
  BY <1>3, ListOfIth
<1>5. ASSUME NEW m, m # d.name
      PROVE  /\ Contains(q, m) <=> Contains(p, m)
             /\ Contains(p, m) => ListOf(q, m) = ListOf(p, m)
  <2>1. Contains(q, m) <=> Contains(p, m)
    BY <1>2, PositionFinds
  <2>2. ASSUME Contains(p, m) PROVE ListOf(q, m) = ListOf(p, m)
    <3>1. PICK j \in 1..Len(p) : p[j].name = m
      BY <2>2, PositionFinds
    <3>2. j # i /\ q[j] = p[j] /\ j \in 1..Len(q)
      BY <1>5, <3>1
    <3>3. ListOf(p, m) = p[j].value
      BY <3>1, ListOfIth
    <3>4. ListOf(q, m) = q[j].value
      BY <1>3, <3>1, <3>2, ListOfIth
    <3> QED BY <3>2, <3>3, <3>4
  <2> QED BY <2>1, <2>2
<1> QED BY <1>4, <1>5 DEF SameExcept

\* Adding a directive of a new name at the end.
LEMMA AppendView ==
    ASSUME NEW T, NEW p \in Seq(T), HasUniqueNames(p), NEW d \in T,
           ~Contains(p, d.name),
           NEW q \in Seq(T), Len(q) = Len(p) + 1,
           q[Len(p) + 1] = d, \A j \in 1..Len(p) : q[j] = p[j]
    PROVE  /\ SameExcept(p, q, d.name)
           /\ Contains(q, d.name) /\ ListOf(q, d.name) = d.value
<1>1. /\ DOMAIN q = 1..Len(q) /\ DOMAIN p = 1..Len(p) /\ Len(p) \in Nat
      /\ Len(p) + 1 \in 1..Len(q)
  OBVIOUS
<1>2. \A j \in 1..Len(p) : p[j].name # d.name
  BY PositionFinds
<1>3. HasUniqueNames(q)
  BY <1>1, <1>2 DEF HasUniqueNames
<1>4. Contains(q, d.name) /\ ListOf(q, d.name) = d.value
  BY <1>1, <1>3, ListOfIth
<1>5. ASSUME NEW m, m # d.name
      PROVE  /\ Contains(q, m) <=> Contains(p, m)
             /\ Contains(p, m) => ListOf(q, m) = ListOf(p, m)
  <2>1. ASSUME NEW j \in 1..Len(q), q[j].name = m PROVE j \in 1..Len(p) /\ p[j].name = m
    BY <1>1, <1>5, <2>1
  <2>2. \A j \in 1..Len(p) : j \in 1..Len(q) /\ q[j] = p[j]
    BY <1>1
  <2>3. Contains(q, m) => Contains(p, m)
    BY <2>1, PositionFinds
  <2>4. ASSUME Contains(p, m) PROVE Contains(q, m) /\ ListOf(q, m) = ListOf(p, m)
    <3>1. PICK j \in 1..Len(p) : p[j].name = m
      BY <2>4, PositionFinds
    <3>2. j \in 1..Len(q) /\ q[j] = p[j]
      BY <2>2
    <3>3. ListOf(p, m) = p[j].value
      BY <3>1, ListOfIth
    <3>4. Contains(q, m) /\ ListOf(q, m) = q[j].value
      BY <1>3, <3>1, <3>2, ListOfIth
    <3> QED BY <3>2, <3>3, <3>4
  <2> QED BY <2>3, <2>4
<1> QED BY <1>4, <1>5 DEF SameExcept

\* An update in place of a sequence, index by index.
LEMMA UpdateOf ==
    ASSUME NEW T, NEW p \in Seq(T), NEW i \in 1..Len(p), NEW d \in T,
           NEW q, q = [p EXCEPT ![i] = d]
    PROVE  /\ q \in Seq(T) /\ Len(q) = Len(p)
           /\ q[i] = d /\ \A j \in 1..Len(p) : j # i => q[j] = p[j]
OBVIOUS

\* An appended sequence, index by index.
LEMMA AppendOf ==
    ASSUME NEW T, NEW p \in Seq(T), NEW d \in T, NEW q, q = Append(p, d)
    PROVE  /\ q \in Seq(T) /\ Len(q) = Len(p) + 1
           /\ q[Len(p) + 1] = d /\ \A j \in 1..Len(p) : q[j] = p[j]
OBVIOUS

\* Policy::set, read by name.
LEMMA SetView ==
    ASSUME NEW p \in WellFormed, NEW d \in Directive, NEW q, q = Set(p, d)
    PROVE  /\ q \in WellFormed
           /\ SameExcept(p, q, d.name)
           /\ Contains(q, d.name) /\ ListOf(q, d.name) = d.value
<1>1. p \in Seq(Directive) /\ HasUniqueNames(p)
  BY WellFormedTypes
<1>2. q \in WellFormed
  <2>1. d \in Over(Lists(TRUE, TRUE), Words(TRUE))
    BY DEF Directive, Over, Lists, Words
  <2> QED BY <2>1, SetStays, WellFormedTypes DEF WellFormed, Fine
<1>3. CASE Contains(p, d.name)
  <2> DEFINE i == Position(p, d.name)
  <2>1. i \in 1..Len(p) /\ d.name = p[i].name
    BY <1>1, <1>3, PositionFinds
  <2>2. q = [p EXCEPT ![i] = d]
    BY <1>3 DEF Set
  <2> HIDE DEF i
  <2>3. /\ q \in Seq(Directive) /\ Len(q) = Len(p)
        /\ q[i] = d /\ \A j \in 1..Len(p) : j # i => q[j] = p[j]
    BY <1>1, <2>1, <2>2, UpdateOf
  <2> QED BY <1>1, <1>2, <2>1, <2>3, ReplaceView
<1>4. CASE ~Contains(p, d.name)
  <2>1. q = Append(p, d)
    BY <1>4 DEF Set
  <2>2. /\ q \in Seq(Directive) /\ Len(q) = Len(p) + 1
        /\ q[Len(p) + 1] = d /\ \A j \in 1..Len(p) : q[j] = p[j]
    BY <1>1, <2>1, AppendOf
  <2> QED BY <1>1, <1>2, <1>4, <2>2, AppendView
<1> QED BY <1>3, <1>4

\* A source-list directive is a directive.
LEMMA SourcesAreDirectives ==
    ASSUME NEW n \in SourceDirective, NEW list \in SourceList
    PROVE  /\ Sources(n, list) \in Directive
           /\ Sources(n, list).name = n /\ Sources(n, list).value = list
BY DEF Sources, Directive

\* The list of a source-list directive is a source list.
LEMMA ListOfIsAList ==
    ASSUME NEW p \in WellFormed, NEW n \in SourceDirective, Contains(p, n)
    PROVE  /\ ListOf(p, n) \in SourceList
           /\ Position(p, n) \in 1..Len(p) /\ p[Position(p, n)].name = n
<1> DEFINE L == Lists(TRUE, TRUE)
           W == Words(TRUE)
<1>1. p \in Policies(L, W)
  BY WellFormedTypes
<1>2. L \subseteq SourceList
  BY DEF Lists
<1> HIDE DEF L, W
<1>3. /\ ListOf(p, n) \in L
      /\ Position(p, n) \in 1..Len(p) /\ p[Position(p, n)].name = n
  BY <1>1, ListOfType
<1> QED BY <1>2, <1>3

\* Policy::extend_sources, read by name.
LEMMA ExtendSourcesView ==
    ASSUME NEW p \in WellFormed, NEW n \in SourceDirective, NEW ss \in Seq(Source),
           NEW q, q = ExtendSources(p, n, ss)
    PROVE  /\ q \in WellFormed
           /\ SameExcept(p, q, n)
           /\ Contains(q, n)
           /\ Listed(q, n) = (IF Contains(p, n) THEN Listed(p, n) ELSE {})
                                 \cup Elements(ss)
<1>1. p \in Seq(Directive) /\ HasUniqueNames(p)
  BY WellFormedTypes
<1>2. q \in WellFormed
  BY ExtendSourcesIsFine DEF WellFormed
<1>3. CASE Contains(p, n)
  <2> DEFINE i == Position(p, n)
             list == PushEach(ListOf(p, n), ss)
             d == Sources(n, list)
  <2>1. ListOf(p, n) \in SourceList /\ i \in 1..Len(p) /\ p[i].name = n
    BY <1>3, ListOfIsAList
  <2>2. list \in SourceList /\ Elements(list.terms) = Listed(p, n) \cup Elements(ss)
    BY <2>1, PushEachType DEF Listed
  <2>3. q = [p EXCEPT ![i] = d]
    BY <1>3 DEF ExtendSources
  <2> HIDE DEF i, list
  <2>4. d \in Directive /\ d.name = n /\ d.value = list
    BY <2>2, SourcesAreDirectives
  <2> HIDE DEF d
  <2>5. /\ q \in Seq(Directive) /\ Len(q) = Len(p)
        /\ q[i] = d /\ \A j \in 1..Len(p) : j # i => q[j] = p[j]
    BY <1>1, <2>1, <2>3, <2>4, UpdateOf
  <2>6. SameExcept(p, q, n) /\ Contains(q, n) /\ ListOf(q, n) = list
    BY <1>1, <2>1, <2>4, <2>5, ReplaceView
  <2> QED BY <1>2, <1>3, <2>2, <2>6 DEF Listed
<1>4. CASE ~Contains(p, n)
  <2> DEFINE d == Sources(n, Of(ss))
  <2>1. Of(ss) \in SourceList /\ Elements(Of(ss).terms) = Elements(ss)
    BY OfType
  <2>2. d \in Directive /\ d.name = n /\ d.value = Of(ss)
    BY <2>1, SourcesAreDirectives
  <2>3. q = Append(p, d)
    BY <1>4 DEF ExtendSources
  <2> HIDE DEF d
  <2>4. /\ q \in Seq(Directive) /\ Len(q) = Len(p) + 1
        /\ q[Len(p) + 1] = d /\ \A j \in 1..Len(p) : q[j] = p[j]
    BY <1>1, <2>2, <2>3, AppendOf
  <2>5. SameExcept(p, q, n) /\ Contains(q, n) /\ ListOf(q, n) = Of(ss)
    BY <1>1, <1>4, <2>2, <2>4, AppendView
  <2> QED BY <1>2, <1>4, <2>1, <2>5 DEF Listed
<1> QED BY <1>3, <1>4

\* Csp::retain_sources on a policy, read by name.
LEMMA RetainView ==
    ASSUME NEW p \in WellFormed, NEW n \in SourceDirective, NEW keep, Contains(p, n),
           NEW q, q = RetainIn(p, n, keep)
    PROVE  /\ SameExcept(p, q, n)
           /\ Contains(q, n)
           /\ Listed(q, n) = Listed(p, n) \cap keep
<1> DEFINE i == Position(p, n)
           list == Retain(ListOf(p, n), keep)
           d == Sources(n, list)
<1>1. p \in Seq(Directive) /\ HasUniqueNames(p)
  BY WellFormedTypes
<1>2. ListOf(p, n) \in SourceList /\ i \in 1..Len(p) /\ p[i].name = n
  BY ListOfIsAList
<1>3. list \in SourceList /\ Elements(list.terms) = Listed(p, n) \cap keep
  BY <1>2, RetainType DEF Listed
<1>4. q = [p EXCEPT ![i] = d]
  BY DEF RetainIn
<1> HIDE DEF i, list
<1>5. d \in Directive /\ d.name = n /\ d.value = list
  BY <1>3, SourcesAreDirectives
<1> HIDE DEF d
<1>6. /\ q \in Seq(Directive) /\ Len(q) = Len(p)
      /\ q[i] = d /\ \A j \in 1..Len(p) : j # i => q[j] = p[j]
  BY <1>1, <1>2, <1>4, <1>5, UpdateOf
<1>7. SameExcept(p, q, n) /\ Contains(q, n) /\ ListOf(q, n) = list
  BY <1>1, <1>2, <1>5, <1>6, ReplaceView
<1> QED BY <1>3, <1>7 DEF Listed

\* Policy::remove, read by name.
LEMMA RemoveView ==
    ASSUME NEW p \in WellFormed, NEW n, NEW q, q = Remove(p, n)
    PROVE  SameExcept(p, q, n) /\ ~Contains(q, n)
<1>1. p \in Seq(Directive) /\ HasUniqueNames(p)
  BY WellFormedTypes
<1>2. CASE Contains(p, n)
  <2> DEFINE at == Position(p, n)
             from(j) == IF j < at THEN j ELSE j + 1
             to(j) == IF j < at THEN j ELSE j - 1
  <2>1. /\ at \in 1..Len(p) /\ p[at].name = n /\ Len(p) \in Nat /\ DOMAIN p = 1..Len(p)
        /\ q \in Seq(Directive) /\ DOMAIN q = 1..(Len(p) - 1)
        /\ \A j \in 1..(Len(p) - 1) : q[j] = IF j < at THEN p[j] ELSE p[j + 1]
    <3>1. at \in 1..Len(p) /\ p[at].name = n
      BY <1>1, <1>2, PositionFinds
    <3>2. Len(p) \in Nat /\ DOMAIN p = 1..Len(p)
      BY <1>1
    <3> QED BY <1>1, <1>2, <3>1, <3>2, RemoveShifts
  <2>2. HasUniqueNames(q)
    BY RemoveStays, WellFormedTypes DEF Policies
  <2> HIDE DEF at
  <2>3. DOMAIN q = 1..Len(q)
    <3>1. q \in Seq(Directive)
      BY <2>1
    <3> HIDE DEF from, to
    <3> QED BY <3>1
  <2>4. \A j \in DOMAIN q : from(j) \in 1..Len(p) /\ from(j) # at /\ q[j] = p[from(j)]
    BY <2>1
  <2>5. \A k \in 1..Len(p) : k # at => to(k) \in DOMAIN q /\ q[to(k)] = p[k]
    BY <2>1
  <2> HIDE DEF from, to
  <2>6. \A k \in 1..Len(p) : p[k].name = n => k = at
    BY <1>1, <2>1 DEF HasUniqueNames
  <2>7. ~Contains(q, n)
    BY <2>1, <2>3, <2>4, <2>6, PositionFinds
  <2>8. ASSUME NEW m, m # n
        PROVE  /\ Contains(q, m) <=> Contains(p, m)
               /\ Contains(p, m) => ListOf(q, m) = ListOf(p, m)
    <3>1. ASSUME Contains(q, m) PROVE Contains(p, m)
      <4>1. PICK j \in 1..Len(q) : q[j].name = m
        BY <2>1, <3>1, PositionFinds
      <4>2. from(j) \in 1..Len(p) /\ p[from(j)].name = m
        BY <2>3, <2>4, <4>1
      <4> QED BY <1>1, <4>2, PositionFinds
    <3>2. ASSUME Contains(p, m) PROVE Contains(q, m) /\ ListOf(q, m) = ListOf(p, m)
      <4>1. PICK k \in 1..Len(p) : p[k].name = m
        BY <1>1, <3>2, PositionFinds
      <4>2. to(k) \in 1..Len(q) /\ q[to(k)] = p[k]
        BY <2>1, <2>3, <2>5, <2>8, <4>1
      <4> QED BY <1>1, <2>1, <2>2, <4>1, <4>2, ListOfIth
    <3> QED BY <3>1, <3>2
  <2> QED BY <2>7, <2>8 DEF SameExcept
<1>3. CASE ~Contains(p, n)
  <2>1. q = p
    BY <1>3 DEF Remove, Contains
  <2> QED BY <1>3, <2>1 DEF SameExcept
<1> QED BY <1>2, <1>3

-----------------------------------------------------------------------------
(***************************************************************************)
(* The fallback is a tree: the chain of a directive is its parent followed *)
(* by the chain of the parent.                                             *)
(***************************************************************************)
Roots == {"default-src", "base-uri", "form-action"}

Parent(n) ==
    IF n \in {"script-src-attr", "script-src-elem"} THEN "script-src"
    ELSE IF n \in {"style-src-attr", "style-src-elem"} THEN "style-src"
    ELSE IF n \in {"frame-src", "worker-src"} THEN "child-src"
    ELSE "default-src"

\* The expressions in force for n: its own list, or what it inherits.
InForce(p, n) ==
    IF Contains(p, n) THEN Listed(p, n) ELSE Elements(Inherited(p, n).terms)

\* The chain of a directive, by its place in the tree (csp.rs, fallback_chain).
LEMMA ChainOf ==
    ASSUME NEW n
    PROVE  /\ n \in Roots => FallbackChain(n) = <<>>
           /\ n \notin Roots /\ Parent(n) = "default-src"
                => FallbackChain(n) = <<"default-src">>
           /\ n \notin Roots /\ Parent(n) # "default-src"
                => /\ FallbackChain(n) = <<Parent(n), "default-src">>
                   /\ Parent(n) \notin Roots /\ Parent(Parent(n)) = "default-src"
<1>1. CASE n \in Roots
  BY <1>1 DEF Roots, FallbackChain
<1>2. CASE n \in {"script-src-attr", "script-src-elem"}
  BY <1>2 DEF Roots, FallbackChain, Parent
<1>3. CASE n \in {"style-src-attr", "style-src-elem"}
  BY <1>3 DEF Roots, FallbackChain, Parent
<1>4. CASE n \in {"frame-src", "worker-src"}
  BY <1>4 DEF Roots, FallbackChain, Parent
<1>5. CASE n \notin Roots \cup {"script-src-attr", "script-src-elem", "style-src-attr",
                                "style-src-elem", "frame-src", "worker-src"}
  BY <1>5 DEF Roots, FallbackChain, Parent
<1> QED BY <1>1, <1>2, <1>3, <1>4, <1>5

\* The first name of a chain that a policy sets.
LEMMA FirstSet ==
    ASSUME NEW T, NEW chain \in Seq(T), NEW p, NEW k \in 1..Len(chain),
           Contains(p, chain[k]), \A j \in 1..(k - 1) : ~Contains(p, chain[j])
    PROVE  LET set == {i \in DOMAIN chain : Contains(p, chain[i])}
           IN  set # {} /\ (CHOOSE i \in set : \A j \in set : i <= j) = k
<1> DEFINE set == {i \in DOMAIN chain : Contains(p, chain[i])}
           least == CHOOSE i \in set : \A j \in set : i <= j
<1>1. k \in set /\ set \in SUBSET Nat
  OBVIOUS
<1>2. \A j \in set : k <= j
  OBVIOUS
<1> HIDE DEF set
<1>3. least \in set /\ \A j \in set : least <= j
  BY <1>1, <1>2
<1> HIDE DEF least
<1>4. least = k
  BY <1>1, <1>2, <1>3
<1> QED BY <1>1, <1>4 DEF set, least

\* What a directive inherits, by the length of its chain (csp.rs, ensure_seeded).
LEMMA InheritedOfNone ==
    ASSUME NEW p, NEW n, FallbackChain(n) = <<>>
    PROVE  Inherited(p, n) = SourcesList(<<>>)
BY DEF Inherited

LEMMA InheritedOfOne ==
    ASSUME NEW p, NEW n, NEW a, FallbackChain(n) = <<a>>
    PROVE  Inherited(p, n) = IF Contains(p, a) THEN ListOf(p, a) ELSE SourcesList(<<>>)
<1> DEFINE chain == FallbackChain(n)
           set == {i \in DOMAIN chain : Contains(p, chain[i])}
           first == CHOOSE i \in set : \A j \in set : i <= j
<1>1. Inherited(p, n) = IF set = {} THEN SourcesList(<<>>) ELSE ListOf(p, chain[first])
  BY DEF Inherited
<1>2. DOMAIN chain = 1..1 /\ chain[1] = a /\ chain \in Seq({a}) /\ Len(chain) = 1
  OBVIOUS
<1>3. CASE Contains(p, a)
  <2>1. set # {} /\ first = 1
    <3> HIDE DEF chain
    <3>1. \A j \in 1..(1 - 1) : ~Contains(p, chain[j])
      OBVIOUS
    <3> QED BY <1>2, <1>3, <3>1, FirstSet
  <2> HIDE DEF set, first, chain
  <2> QED BY <1>1, <1>2, <1>3, <2>1
<1>4. CASE ~Contains(p, a)
  <2>1. set = {}
    <3> HIDE DEF chain
    <3> QED BY <1>2, <1>4
  <2> HIDE DEF set, first, chain
  <2> QED BY <1>1, <1>4, <2>1
<1> QED BY <1>3, <1>4

LEMMA InheritedOfTwo ==
    ASSUME NEW p, NEW n, NEW a, NEW b, FallbackChain(n) = <<a, b>>
    PROVE  Inherited(p, n) = IF Contains(p, a) THEN ListOf(p, a)
                             ELSE IF Contains(p, b) THEN ListOf(p, b)
                             ELSE SourcesList(<<>>)
<1> DEFINE chain == FallbackChain(n)
           set == {i \in DOMAIN chain : Contains(p, chain[i])}
           first == CHOOSE i \in set : \A j \in set : i <= j
<1>1. Inherited(p, n) = IF set = {} THEN SourcesList(<<>>) ELSE ListOf(p, chain[first])
  BY DEF Inherited
<1>2. /\ DOMAIN chain = 1..2 /\ chain[1] = a /\ chain[2] = b
      /\ chain \in Seq({a, b}) /\ Len(chain) = 2
  OBVIOUS
<1>3. CASE Contains(p, a)
  <2>1. set # {} /\ first = 1
    <3> HIDE DEF chain
    <3>1. \A j \in 1..(1 - 1) : ~Contains(p, chain[j])
      OBVIOUS
    <3> QED BY <1>2, <1>3, <3>1, FirstSet
  <2> HIDE DEF set, first, chain
  <2> QED BY <1>1, <1>2, <1>3, <2>1
<1>4. CASE ~Contains(p, a) /\ Contains(p, b)
  <2>1. set # {} /\ first = 2
    <3> HIDE DEF chain
    <3>1. \A j \in 1..(2 - 1) : ~Contains(p, chain[j])
      BY <1>2, <1>4
    <3> QED BY <1>2, <1>4, <3>1, FirstSet
  <2> HIDE DEF set, first, chain
  <2> QED BY <1>1, <1>2, <1>4, <2>1
<1>5. CASE ~Contains(p, a) /\ ~Contains(p, b)
  <2>1. set = {}
    <3> HIDE DEF chain
    <3> QED BY <1>2, <1>5
  <2> HIDE DEF set, first, chain
  <2> QED BY <1>1, <1>5, <2>1
<1> QED BY <1>3, <1>4, <1>5

\* What is in force for an absent directive is what is in force for its parent.
LEMMA ForceOfAbsent ==
    ASSUME NEW p, NEW n, ~Contains(p, n)
    PROVE  InForce(p, n) = IF n \in Roots THEN {} ELSE InForce(p, Parent(n))
<1>1. Elements(SourcesList(<<>>).terms) = {}
  BY DEF SourcesList, Elements
<1>2. InForce(p, n) = Elements(Inherited(p, n).terms)
  BY DEF InForce
<1>3. CASE n \in Roots
  BY <1>1, <1>2, <1>3, ChainOf, InheritedOfNone
<1>4. CASE n \notin Roots /\ Parent(n) = "default-src"
  <2> DEFINE d == "default-src"
  <2>1. FallbackChain(d) = <<>> /\ FallbackChain(n) = <<d>>
    BY <1>4, ChainOf DEF Roots
  <2>2. Parent(n) = d
    BY <1>4
  <2> HIDE DEF d
  <2>3. Inherited(p, n) = IF Contains(p, d) THEN ListOf(p, d) ELSE SourcesList(<<>>)
    BY <2>1, InheritedOfOne
  <2>4. Inherited(p, d) = SourcesList(<<>>)
    BY <2>1, InheritedOfNone
  <2> QED BY <1>2, <1>4, <2>2, <2>3, <2>4 DEF InForce, Listed
<1>5. CASE n \notin Roots /\ Parent(n) # "default-src"
  <2> DEFINE d == "default-src"
             m == Parent(n)
  <2>1. FallbackChain(n) = <<m, d>> /\ FallbackChain(m) = <<d>>
    BY <1>5, ChainOf
  <2> HIDE DEF d, m
  <2>2. Inherited(p, n) = IF Contains(p, m) THEN ListOf(p, m)
                          ELSE IF Contains(p, d) THEN ListOf(p, d)
                          ELSE SourcesList(<<>>)
    BY <2>1, InheritedOfTwo
  <2>3. Inherited(p, m) = IF Contains(p, d) THEN ListOf(p, d) ELSE SourcesList(<<>>)
    BY <2>1, InheritedOfOne
  <2> QED BY <1>2, <1>5, <2>2, <2>3 DEF InForce, Listed, m
<1> QED BY <1>3, <1>4, <1>5

-----------------------------------------------------------------------------
\* What is inherited is a source list.
LEMMA InheritedIsAList ==
    ASSUME NEW p \in WellFormed, NEW n
    PROVE  Inherited(p, n) \in SourceList
BY InheritedIsFine DEF WellFormed, Lists

\* Csp::ensure_seeded, read by name: what was in force for n is now its own list.
LEMMA EnsureSeededView ==
    ASSUME NEW p \in WellFormed, NEW n \in SourceDirective,
           NEW q, q = EnsureSeeded(p, n)
    PROVE  /\ q \in WellFormed
           /\ SameExcept(p, q, n)
           /\ Contains(q, n) /\ Listed(q, n) = InForce(p, n)
<1>1. CASE Contains(p, n)
  <2>1. q = p
    BY <1>1 DEF EnsureSeeded
  <2> QED BY <1>1, <2>1 DEF SameExcept, InForce
<1>2. CASE ~Contains(p, n)
  <2> DEFINE list == Inherited(p, n)
             d == Sources(n, list)
  <2>1. list \in SourceList
    BY InheritedIsAList
  <2>2. q = Set(p, d)
    BY <1>2 DEF EnsureSeeded
  <2>3. InForce(p, n) = Elements(list.terms)
    BY <1>2 DEF InForce
  <2> HIDE DEF list
  <2>4. d \in Directive /\ d.name = n /\ d.value = list
    BY <2>1, SourcesAreDirectives
  <2> HIDE DEF d
  <2>5. /\ q \in WellFormed /\ SameExcept(p, q, d.name)
        /\ Contains(q, d.name) /\ ListOf(q, d.name) = d.value
    BY <2>2, <2>4, SetView
  <2> QED BY <2>3, <2>4, <2>5 DEF Listed
<1> QED BY <1>1, <1>2

\* Csp::extend_unrouted, read by name: the expressions join what was in force for n.
LEMMA ExtendUnroutedView ==
    ASSUME NEW p \in WellFormed, NEW n \in SourceDirective, NEW ss \in Seq(Source),
           NEW q, q = ExtendUnrouted(p, n, ss)
    PROVE  /\ q \in WellFormed
           /\ SameExcept(p, q, n)
           /\ Contains(q, n) /\ Listed(q, n) = InForce(p, n) \cup Elements(ss)
<1> DEFINE r == EnsureSeeded(p, n)
<1>1. /\ r \in WellFormed /\ SameExcept(p, r, n)
      /\ Contains(r, n) /\ Listed(r, n) = InForce(p, n)
  BY EnsureSeededView
<1>2. q = ExtendSources(r, n, ss)
  BY DEF ExtendUnrouted
<1> HIDE DEF r
<1>3. /\ q \in WellFormed /\ SameExcept(r, q, n) /\ Contains(q, n)
      /\ Listed(q, n) = Listed(r, n) \cup Elements(ss)
  BY <1>1, <1>2, ExtendSourcesView
<1>4. SameExcept(p, q, n)
  BY <1>1, <1>3 DEF SameExcept
<1> QED BY <1>1, <1>3, <1>4

\* From p to q nothing in force is lost, and nothing outside E is added to it.
Widened(p, q, E) ==
    \A m : /\ Contains(p, m) => Contains(q, m)
           /\ InForce(p, m) \subseteq InForce(q, m)
           /\ InForce(q, m) \subseteq InForce(p, m) \cup E

\* Widening once more is widening.
LEMMA WidenedChains ==
    ASSUME NEW p, NEW q, NEW r, NEW E, Widened(p, q, E), Widened(q, r, E)
    PROVE  Widened(p, r, E)
BY DEF Widened

\* Starting a directive from what was in force for it, and adding to it, widens what
\* is in force for every other: also for those that fell back past it until then.
LEMMA ForceAfter ==
    ASSUME NEW p, NEW q, NEW n, NEW E, SameExcept(p, q, n), Contains(q, n),
           InForce(p, n) \subseteq Listed(q, n), Listed(q, n) \subseteq InForce(p, n) \cup E
    PROVE  Widened(p, q, E)
<1> DEFINE Between(m) == /\ InForce(p, m) \subseteq InForce(q, m)
                         /\ InForce(q, m) \subseteq InForce(p, m) \cup E
<1>1. Between(n)
  BY DEF InForce
<1>2. ASSUME NEW m, m # n, Contains(p, m) PROVE Between(m)
  BY <1>2 DEF SameExcept, InForce, Listed
<1>3. ASSUME NEW m, m # n, ~Contains(p, m), m \in Roots PROVE Between(m)
  <2>1. ~Contains(q, m)
    BY <1>3 DEF SameExcept
  <2> QED BY <1>3, <2>1, ForceOfAbsent
<1>4. ASSUME NEW m, m # n, ~Contains(p, m), m \notin Roots, Between(Parent(m))
      PROVE  Between(m)
  <2>1. ~Contains(q, m)
    BY <1>4 DEF SameExcept
  <2> QED BY <1>4, <2>1, ForceOfAbsent
<1> HIDE DEF Between
<1>5. Between("default-src")
  BY <1>1, <1>2, <1>3 DEF Roots
<1>6. ASSUME NEW m, Parent(m) = "default-src" PROVE Between(m)
  BY <1>1, <1>2, <1>3, <1>4, <1>5, <1>6
<1>7. ASSUME NEW m PROVE Between(m)
  <2>1. CASE m \in Roots \/ Parent(m) = "default-src"
    BY <1>1, <1>2, <1>3, <1>6, <2>1
  <2>2. CASE m \notin Roots /\ Parent(m) # "default-src"
    <3>1. Between(Parent(m))
      BY <1>6, <2>2, ChainOf
    <3> QED BY <1>1, <1>2, <1>4, <2>2, <3>1
  <2> QED BY <2>1, <2>2
<1>8. \A m : Contains(p, m) => Contains(q, m)
  BY DEF SameExcept
<1> QED BY <1>7, <1>8 DEF Widened, Between

\* Every intermediate policy of admitting a table.
IsRun(run, p, table) ==
    /\ run \in [0..Len(table) -> WellFormed]
    /\ run[0] = p
    /\ \A i \in 1..Len(table) :
          run[i] = ExtendUnrouted(run[i - 1], table[i].directive, table[i].sources)

\* An entry of a table names a directive and lists hosts and schemes.
LEMMA EntryType ==
    ASSUME NEW table \in Table, NEW i \in 1..Len(table)
    PROVE  /\ table[i].directive \in SourceDirective
           /\ table[i].sources \in Seq(Host \cup Scheme)
           /\ table[i].sources \in Seq(Source)
           /\ Elements(table[i].sources) \subseteq Host \cup Scheme
<1> DEFINE Entries == [directive : SourceDirective, sources : Seq(Host \cup Scheme)]
<1>1. table \in Seq(Entries)
  BY DEF Table
<1>2. table[i] \in Entries
  <2> HIDE DEF Entries
  <2> QED BY <1>1
<1>3. /\ table[i].directive \in SourceDirective
      /\ table[i].sources \in Seq(Host \cup Scheme)
  BY <1>2
<1> HIDE DEF Entries
<1>4. table[i].sources \in Seq(Source)
  BY <1>3, UrlsAreSources
<1>5. Elements(table[i].sources) \subseteq Host \cup Scheme
  BY <1>3 DEF Elements
<1> QED BY <1>3, <1>4, <1>5

\* Admitting a table is one extend_unrouted per entry (presets/mod.rs, admit).
LEMMA AdmittedUnfolds ==
    ASSUME NEW p \in WellFormed, NEW table \in Table
    PROVE  \E run : IsRun(run, p, table) /\ run[Len(table)] = Admitted(p, table)
<1> DEFINE n == Len(table)
           next(q, i) == ExtendUnrouted(q, table[i].directive, table[i].sources)
           Round(f) == [i \in 0..n |-> IF i = 0 THEN p ELSE next(f[i - 1], i)]
           admitted == CHOOSE f : f = Round(f)
           step == [x \in WellFormed \X (1..n) |-> next(x[1], x[2])]
<1>1. Admitted(p, table) = admitted[n]
  BY DEF Admitted
<1>2. n \in Nat
  BY DEF Table
<1>3. ASSUME NEW q \in WellFormed, NEW i \in 1..n PROVE next(q, i) \in WellFormed
  BY EntryType, ExtendUnroutedView
<1> HIDE DEF n, next
<1>4. PICK g : IsRecord(WellFormed, n, p, step, g)
  <2>1. IsRound(WellFormed, n, step)
    BY <1>3 DEF IsRound
  <2> HIDE DEF step
  <2> QED BY <1>2, <2>1, IterationExists
<1>5. ASSUME NEW i \in 1..n PROVE g[i] = next(g[i - 1], i)
  <2>1. g[i - 1] \in WellFormed /\ g[i] = step[<<g[i - 1], i>>]
    <3> HIDE DEF step
    <3> QED BY <1>2, <1>4 DEF IsRecord
  <2>2. <<g[i - 1], i>> \in WellFormed \X (1..n)
    BY <2>1
  <2> QED BY <2>1, <2>2
<1>6. g = Round(g)
  <2>1. \A i \in 0..n : g[i] = IF i = 0 THEN p ELSE next(g[i - 1], i)
    BY <1>2, <1>4, <1>5 DEF IsRecord
  <2> QED BY <1>4, <2>1 DEF IsRecord
<1>7. admitted = Round(admitted)
  BY <1>6
<1>8. \A i \in 0..n : admitted[i] = IF i = 0 THEN p ELSE next(admitted[i - 1], i)
  <2> HIDE DEF admitted
  <2> QED BY <1>7
<1> HIDE DEF admitted
<1> DEFINE S == {i \in 0..n : admitted[i] = g[i]}
<1>9. \A i \in 0..n : i \in S
  <2>1. 0 \in S
    BY <1>2, <1>4, <1>8 DEF IsRecord
  <2>2. ASSUME NEW i \in 1..n, i - 1 \in S PROVE i \in S
    BY <1>2, <1>5, <1>8, <2>2
  <2> HIDE DEF S
  <2> QED BY <1>2, <2>1, <2>2, InductionUpTo
<1>10. admitted[n] = g[n]
  BY <1>2, <1>9
<1>11. IsRun(g, p, table)
  BY <1>4, <1>5 DEF IsRun, IsRecord, n, next
<1> QED BY <1>1, <1>10, <1>11 DEF n, next

\* A preset only widens what is in force, and only by hosts and schemes.
LEMMA AdmittedWidens ==
    ASSUME NEW p \in WellFormed, NEW table \in Table
    PROVE  /\ Admitted(p, table) \in WellFormed
           /\ Widened(p, Admitted(p, table), Host \cup Scheme)
<1> DEFINE n == Len(table)
           E == Host \cup Scheme
<1>1. PICK run : IsRun(run, p, table) /\ run[n] = Admitted(p, table)
  BY AdmittedUnfolds
<1>2. n \in Nat
  BY DEF Table
<1> DEFINE S == {i \in 0..n : Widened(p, run[i], E)}
<1>3. 0 \in S
  BY <1>1, <1>2 DEF IsRun, Widened
<1>4. ASSUME NEW i \in 1..n, i - 1 \in S PROVE i \in S
  <2> DEFINE q == run[i - 1]
             r == run[i]
             m == table[i].directive
             ss == table[i].sources
  <2>1. q \in WellFormed /\ r = ExtendUnrouted(q, m, ss)
    BY <1>1, <1>2 DEF IsRun
  <2>2. m \in SourceDirective /\ ss \in Seq(Source) /\ Elements(ss) \subseteq E
    BY EntryType
  <2>3. Widened(p, q, E)
    BY <1>4
  <2> HIDE DEF q, r, m, ss, E
  <2>4. /\ SameExcept(q, r, m)
        /\ Contains(r, m) /\ Listed(r, m) = InForce(q, m) \cup Elements(ss)
    BY <2>1, <2>2, ExtendUnroutedView
  <2>5. Widened(q, r, E)
    BY <2>2, <2>4, ForceAfter
  <2>6. Widened(p, r, E)
    BY <2>3, <2>5, WidenedChains
  <2> QED BY <1>2, <2>6 DEF r
<1>5. \A i \in 0..n : i \in S
  <2> HIDE DEF S
  <2> QED BY <1>2, <1>3, <1>4, InductionUpTo
<1>6. Widened(p, run[n], E)
  <2> HIDE DEF E, n
  <2>1. n \in S
    BY <1>2, <1>5
  <2> QED BY <2>1
<1>7. run[n] \in WellFormed
  <2>1. run \in [0..n -> WellFormed] /\ n \in 0..n
    BY <1>1, <1>2 DEF IsRun
  <2> QED BY <2>1
<1> QED BY <1>1, <1>6, <1>7

\* A scan's digests are sources, and keywords of none.
LEMMA ScanTypes ==
    ASSUME NEW hashes \in Scans
    PROVE  /\ hashes \in Seq(Source)
           /\ Elements(hashes) \subseteq Hash /\ Elements(hashes) \cap Keyword = {}
<1>1. hashes \in Seq(Hash)
  BY InputTypes
<1>2. Elements(hashes) \subseteq Hash
  BY <1>1 DEF Elements
<1> QED BY <1>1, <1>2, HashesAreSources, DistinctTerms

-----------------------------------------------------------------------------
(***************************************************************************)
(* The refinement.                                                         *)
(***************************************************************************)
NamesOf(p) == {p[i].name : i \in DOMAIN p}

\* The mapping of CspBuilderRefines, of any policy.
ListsOf(p) == [n \in NamesOf(p) |-> Listed(p, n)]

\* The mapping knows the names the policy contains.
LEMMA NamesOfView ==
    ASSUME NEW p \in WellFormed, NEW n
    PROVE  n \in NamesOf(p) <=> Contains(p, n)
<1>1. p \in Seq(Directive)
  BY WellFormedTypes
<1>2. DOMAIN p = 1..Len(p)
  BY <1>1
<1> QED BY <1>1, <1>2, PositionFinds DEF NamesOf

\* The mapping is that of the module.
LEMMA Mapping ==
    /\ ListsOf(policy) = [n \in {policy[i].name : i \in DOMAIN policy} |->
                              Elements(ListOf(policy, n).terms)]
    /\ ListsOf(policy') = [n \in {policy'[i].name : i \in DOMAIN policy'} |->
                              Elements(ListOf(policy', n).terms)]
BY DEF ListsOf, NamesOf, Listed

\* The contract's list in force is the code's.
LEMMA ContractForce ==
    ASSUME policy \in WellFormed, NEW n
    PROVE  Contract!InForce(n) = InForce(policy, n)
<1> DEFINE lists == ListsOf(policy)
           D == "default-src"
           near == Contract!Nearest(n)
           last == Contract!Last(n)
<1>1. Contract!InForce(n) =
        IF n \in DOMAIN lists THEN lists[n]
        ELSE IF near \cap DOMAIN lists # {} THEN UNION {lists[m] : m \in near}
        ELSE UNION {lists[m] : m \in last \cap DOMAIN lists}
  BY Mapping DEF Contract!InForce
<1>2. /\ near = IF n \in Roots THEN {} ELSE {Parent(n)}
      /\ last = IF n \in Roots THEN {} ELSE {D}
  <2>1. last = IF n \in Roots THEN {} ELSE {D}
    BY DEF Contract!Last, Roots
  <2>2. CASE n \in Roots
    BY <2>1, <2>2 DEF Contract!Nearest, Roots
  <2>3. CASE n \in {"script-src-attr", "script-src-elem"}
    BY <2>1, <2>3 DEF Contract!Nearest, Roots, Parent
  <2>4. CASE n \in {"style-src-attr", "style-src-elem"}
    BY <2>1, <2>4 DEF Contract!Nearest, Roots, Parent
  <2>5. CASE n \in {"frame-src", "worker-src"}
    BY <2>1, <2>5 DEF Contract!Nearest, Roots, Parent
  <2>6. CASE n \notin Roots \cup {"script-src-attr", "script-src-elem", "style-src-attr",
                                  "style-src-elem", "frame-src", "worker-src"}
    BY <2>1, <2>6 DEF Contract!Nearest, Roots, Parent
  <2> QED BY <2>2, <2>3, <2>4, <2>5, <2>6
<1>3. \A m : m \in DOMAIN lists <=> Contains(policy, m)
  BY NamesOfView DEF ListsOf
<1>4. \A m : Contains(policy, m) => lists[m] = InForce(policy, m)
  BY <1>3 DEF ListsOf, InForce
<1>5. D \in Roots /\ (n \notin Roots /\ Parent(n) # D => Parent(n) \notin Roots
                                                        /\ Parent(Parent(n)) = D)
  BY ChainOf DEF Roots
<1> HIDE DEF lists, near, last, D
<1>6. CASE Contains(policy, n)
  BY <1>1, <1>3, <1>4, <1>6
<1>7. CASE ~Contains(policy, n) /\ n \in Roots
  <2>1. Contract!InForce(n) = {}
    BY <1>1, <1>2, <1>3, <1>7
  <2> QED BY <1>7, <2>1, ForceOfAbsent
<1>8. CASE ~Contains(policy, n) /\ n \notin Roots /\ Contains(policy, Parent(n))
  <2>1. Contract!InForce(n) = lists[Parent(n)]
    BY <1>1, <1>2, <1>3, <1>8
  <2> QED BY <1>4, <1>8, <2>1, ForceOfAbsent
<1>9. CASE ~Contains(policy, n) /\ n \notin Roots /\ ~Contains(policy, Parent(n))
  <2>1. Contract!InForce(n) = UNION {lists[m] : m \in {D} \cap DOMAIN lists}
    BY <1>1, <1>2, <1>3, <1>9
  <2>2. InForce(policy, n) = InForce(policy, D)
    BY <1>5, <1>9, ForceOfAbsent
  <2>3. CASE Contains(policy, D)
    BY <1>3, <1>4, <2>1, <2>2, <2>3
  <2>4. CASE ~Contains(policy, D)
    <3>1. InForce(policy, D) = {}
      BY <1>5, <2>4, ForceOfAbsent
    <3> QED BY <1>3, <2>1, <2>2, <2>4, <3>1
  <2> QED BY <2>3, <2>4
<1> QED BY <1>6, <1>7, <1>8, <1>9

\* A step that changes one name's list is a step at this name.
LEMMA OnlyAtOne ==
    ASSUME policy \in WellFormed, policy' \in WellFormed, NEW n,
           SameExcept(policy, policy', n), UNCHANGED per_response_nonce
    PROVE  Contract!OnlyAt(n)
<1> DEFINE old == ListsOf(policy)
           new == ListsOf(policy')
<1>1. Contract!OnlyAt(n) <=>
        /\ DOMAIN new \ {n} = DOMAIN old \ {n}
        /\ \A m \in DOMAIN old \ {n} : new[m] = old[m]
        /\ UNCHANGED per_response_nonce
  BY Mapping DEF Contract!OnlyAt
<1>2. \A m : /\ m \in DOMAIN new <=> Contains(policy', m)
             /\ m \in DOMAIN old <=> Contains(policy, m)
  BY NamesOfView DEF ListsOf
<1>3. \A m : /\ m \in DOMAIN new => new[m] = Listed(policy', m)
             /\ m \in DOMAIN old => old[m] = Listed(policy, m)
  BY DEF ListsOf
<1> HIDE DEF old, new
<1> QED BY <1>1, <1>2, <1>3 DEF SameExcept, Listed

\* The mapping, read by name.
LEMMA ListsAt ==
    ASSUME NEW p \in WellFormed
    PROVE  \A n : /\ n \in DOMAIN ListsOf(p) <=> Contains(p, n)
                  /\ Contains(p, n) => ListsOf(p)[n] = Listed(p, n)
BY NamesOfView DEF ListsOf

\* The vocabulary of the contract is that of the builder.
LEMMA SameVocabulary ==
    /\ Contract!SourceDirective = SourceDirective
    /\ Contract!DirectiveName = DirectiveName
    /\ \A n : Contract!Routed(n) = RoutedIn(n)
BY DEF Contract!SourceDirective, SourceDirective, Contract!DirectiveName, DirectiveName,
       Contract!Routed, RoutedIn

\* A step is one of the contract, or one it does not see.
ContractStep ==
    Contract!Next \/ UNCHANGED <<ListsOf(policy), per_response_nonce>>

\* A step that leaves the policy and the nonce slot alone is not seen.
LEMMA UnseenStep ==
    ASSUME UNCHANGED <<policy, per_response_nonce>>
    PROVE  ContractStep
BY DEF ContractStep, ListsOf, NamesOf

\* Setting a list without routed expressions (csp.rs, Csp::set).
LEMMA ReplaceStep ==
    ASSUME policy \in WellFormed, NEW d \in GivenDirectives, SetDirective(d)
    PROVE  ContractStep
<1> DEFINE n == d.name
           new == ListsOf(policy')
<1>1. d \in Directive /\ per_response_nonce' = per_response_nonce
  BY InputTypes DEF SetDirective
<1>2. CASE d.name \in SourceDirective /\ ~CheckRouting(d.name, d.value.terms)
  BY <1>1, <1>2, UnseenStep DEF SetDirective
<1>3. CASE ~(d.name \in SourceDirective /\ ~CheckRouting(d.name, d.value.terms))
  <2>1. policy' = Set(policy, d)
    BY <1>3 DEF SetDirective
  <2>2. n \in DirectiveName
    BY <1>1, NamesAreStrings DEF Directive
  <2>3. n \in SourceDirective => Elements(d.value.terms) \cap Contract!Routed(n) = {}
    BY <1>3, SameVocabulary DEF CheckRouting
  <2> HIDE DEF n
  <2>4. /\ policy' \in WellFormed /\ SameExcept(policy, policy', n)
        /\ Contains(policy', n) /\ Listed(policy', n) = Elements(d.value.terms)
    BY <1>1, <2>1, SetView DEF n, Listed
  <2>5. n \in DOMAIN new /\ new[n] = Elements(d.value.terms)
    BY <2>4, ListsAt
  <2>6. Contract!OnlyAt(n)
    BY <1>1, <2>4, OnlyAtOne
  <2> HIDE DEF new
  <2>7. Contract!Replace(n)
    BY <2>3, <2>5, <2>6, Mapping, SameVocabulary DEF Contract!Replace, new
  <2> QED BY <2>2, <2>7, SameVocabulary DEF ContractStep, Contract!Next
<1> QED BY <1>2, <1>3

\* Extending a list by expressions that are not routed (csp.rs, Csp::extend).
LEMMA GrowStep ==
    ASSUME policy \in WellFormed, NEW n \in SourceDirective, NEW ss \in Seq(Source),
           Extend(n, ss)
    PROVE  ContractStep
<1> DEFINE old == ListsOf(policy)
           new == ListsOf(policy')
           terms == Of(ss).terms
<1>1. per_response_nonce' = per_response_nonce
  BY DEF Extend
<1>2. CASE ~CheckRouting(n, ss)
  BY <1>1, <1>2, UnseenStep DEF Extend
<1>3. CASE CheckRouting(n, ss)
  <2>1. policy' = ExtendSources(policy, n, terms)
    BY <1>3 DEF Extend
  <2>2. terms \in Seq(Source) /\ Elements(terms) = Elements(ss)
    BY OfType, TermsType
  <2> HIDE DEF terms
  <2>3. /\ policy' \in WellFormed /\ SameExcept(policy, policy', n) /\ Contains(policy', n)
        /\ Listed(policy', n) = (IF Contains(policy, n) THEN Listed(policy, n) ELSE {})
                                    \cup Elements(ss)
    BY <2>1, <2>2, ExtendSourcesView
  <2>4. /\ n \in DOMAIN new
        /\ new[n] = (IF n \in DOMAIN old THEN old[n] ELSE {}) \cup Elements(ss)
    BY <2>3, ListsAt
  <2>5. Contract!OnlyAt(n)
    BY <1>1, <2>3, OnlyAtOne
  <2>6. Elements(ss) \cap Contract!Routed(n) = {}
    BY <1>3, SameVocabulary DEF CheckRouting
  <2> HIDE DEF new, old
  <2>7. Contract!Grow(n)
    BY <2>4, <2>5, <2>6, Mapping DEF Contract!Grow, new, old
  <2>8. n \in Contract!DirectiveName
    BY SameVocabulary DEF DirectiveName
  <2> QED BY <2>7, <2>8 DEF ContractStep, Contract!Next
<1> QED BY <1>2, <1>3

\* Removing a directive (csp.rs, Csp::remove).
LEMMA DropStep ==
    ASSUME policy \in WellFormed, policy' \in WellFormed, NEW n \in DirectiveName,
           RemoveDirective(n)
    PROVE  ContractStep
<1>1. policy' = Remove(policy, n) /\ per_response_nonce' = per_response_nonce
  BY DEF RemoveDirective
<1>2. SameExcept(policy, policy', n) /\ ~Contains(policy', n)
  BY <1>1, RemoveView
<1>3. n \notin DOMAIN ListsOf(policy')
  BY <1>2, ListsAt
<1>4. Contract!OnlyAt(n)
  BY <1>1, <1>2, OnlyAtOne
<1>5. Contract!Drop(n)
  BY <1>3, <1>4, Mapping DEF Contract!Drop
<1> QED BY <1>5, SameVocabulary DEF ContractStep, Contract!Next

\* Retaining a part of a list (csp.rs, Csp::retain_sources, Csp::remove_source).
LEMMA NarrowStep ==
    ASSUME policy \in WellFormed, policy' \in WellFormed, NEW n \in SourceDirective,
           NEW keep, RetainSources(n, keep)
    PROVE  ContractStep
<1> DEFINE old == ListsOf(policy)
           new == ListsOf(policy')
<1>1. policy' = RetainIn(policy, n, keep) /\ per_response_nonce' = per_response_nonce
  BY DEF RetainSources
<1>2. CASE ~Contains(policy, n)
  BY <1>1, <1>2, UnseenStep DEF RetainIn
<1>3. CASE Contains(policy, n)
  <2>1. /\ SameExcept(policy, policy', n) /\ Contains(policy', n)
        /\ Listed(policy', n) = Listed(policy, n) \cap keep
    BY <1>1, <1>3, RetainView
  <2>2. n \in DOMAIN old /\ n \in DOMAIN new /\ new[n] \subseteq old[n]
    BY <1>3, <2>1, ListsAt
  <2>3. Contract!OnlyAt(n)
    BY <1>1, <2>1, OnlyAtOne
  <2> HIDE DEF old, new
  <2>4. Contract!Narrow(n)
    BY <2>2, <2>3, Mapping DEF Contract!Narrow, new, old
  <2>5. n \in Contract!DirectiveName
    BY SameVocabulary DEF DirectiveName
  <2> QED BY <2>4, <2>5 DEF ContractStep, Contract!Next
<1> QED BY <1>2, <1>3

\* Widening by what is no keyword: a scan or a preset.
LEMMA WidenStep ==
    ASSUME policy \in WellFormed, policy' \in WellFormed, NEW E, E \cap Keyword = {},
           Widened(policy, policy', E), per_response_nonce' = per_response_nonce
    PROVE  ContractStep
<1> DEFINE old == ListsOf(policy)
           new == ListsOf(policy')
<1>1. DOMAIN old \subseteq DOMAIN new
  BY ListsAt DEF Widened
<1>2. ASSUME NEW n \in DOMAIN new
      PROVE  /\ Contract!InForce(n) \subseteq new[n]
             /\ new[n] \cap Contract!Routed(n) \subseteq Contract!InForce(n)
  <2>1. Contract!InForce(n) = InForce(policy, n)
    BY ContractForce
  <2>2. new[n] = InForce(policy', n)
    BY <1>2, ListsAt DEF InForce
  <2>3. Contract!Routed(n) \subseteq Keyword
    BY SameVocabulary DEF RoutedIn, Keyword
  <2> HIDE DEF new
  <2> QED BY <2>1, <2>2, <2>3 DEF Widened
<1> HIDE DEF old, new
<1>3. Contract!Widen
  BY <1>1, <1>2, Mapping DEF Contract!Widen, new, old
<1> QED BY <1>3 DEF ContractStep, Contract!Next

\* A method that names its expression (csp.rs, Csp::push_script_source).
LEMMA NameStep ==
    ASSUME policy \in WellFormed, NEW method, NEW s \in RoutedIn("script-src"),
           PushScriptSource(method, s)
    PROVE  ContractStep
<1> DEFINE n == "script-src"
           new == ListsOf(policy')
           one == <<s>>
<1>1. policy' = ExtendUnrouted(policy, n, one) /\ per_response_nonce' = per_response_nonce
  BY DEF PushScriptSource
<1>2. n \in SourceDirective
  BY DEF SourceDirective
<1>3. s \in Source
  BY DEF RoutedIn, Source, Keyword
<1>4. one \in Seq(Source) /\ Elements(one) = {s}
  BY <1>3, SequenceOfOne
<1>5. s \in Contract!Routed(n)
  BY SameVocabulary
<1> HIDE DEF one
<1>6. /\ policy' \in WellFormed /\ SameExcept(policy, policy', n) /\ Contains(policy', n)
      /\ Listed(policy', n) = InForce(policy, n) \cup {s}
  BY <1>1, <1>2, <1>4, ExtendUnroutedView
<1>7. n \in DOMAIN new /\ new[n] = Contract!InForce(n) \cup {s}
  BY <1>6, ListsAt, ContractForce
<1>8. Contract!OnlyAt(n)
  BY <1>1, <1>6, OnlyAtOne
<1> HIDE DEF new
<1>9. Contract!Name(s)
  BY <1>7, <1>8, Mapping DEF Contract!Name, new
<1> QED BY <1>5, <1>9 DEF ContractStep, Contract!Next

\* Reserving the nonce slot, or not (csp.rs, Csp::per_response_nonce).
LEMMA ReserveStep ==
    ASSUME NEW enabled \in BOOLEAN, PerResponseNonce(enabled)
    PROVE  ContractStep
<1>1. policy' = policy /\ per_response_nonce' \in BOOLEAN
  BY DEF PerResponseNonce
<1>2. Contract!Reserve
  BY <1>1 DEF Contract!Reserve
<1> QED BY <1>2 DEF ContractStep, Contract!Next

\* No constructor lists an expression that has a method of its own (csp.rs, Csp::spa_wasm).
LEMMA ConstructedIsUnrouted ==
    ASSUME NEW c \in Start, NEW p, p = Constructed(c), NEW n \in SourceDirective,
           Contains(p, n)
    PROVE  Listed(p, n) \cap RoutedIn(n) = {}
<1> DEFINE L == Lists(FALSE, FALSE)
           script == "script-src"
<1>1. p \in Fine(FALSE, FALSE)
  BY ConstructedIsFine
<1>2. p \in Seq(Directive) /\ HasUniqueNames(p) /\ p \in Policies(L, Words(FALSE))
  BY <1>1, FineTypes DEF Fine
<1>3. UnsafeEval \notin Listed(p, n)
  <2>1. L \subseteq SourceList /\ \A list \in L : UnsafeEval \notin Elements(list.terms)
    BY DEF Lists
  <2> HIDE DEF L
  <2>2. ListOf(p, n) \in L
    BY <1>2, ListOfType
  <2> QED BY <2>1, <2>2 DEF Listed
<1>4. CASE n # script
  BY <1>3, <1>4 DEF RoutedIn, UnsafeEval
<1>5. CASE n = script /\ c = "new"
  <2>1. p = <<>>
    BY <1>5 DEF Constructed
  <2>2. ~Contains(p, n)
    BY <2>1 DEF Contains, Position
  <2> QED BY <2>2
<1>6. CASE n = script /\ c = "spa_wasm"
  <2> DEFINE self == "'self'"
             wasm == "'wasm-unsafe-eval'"
             ss == <<self, wasm>>
  <2>1. Len(p) = 10 /\ p[2] = Sources(script, Of(ss))
    BY <1>6 DEF Constructed, SpaWasm
  <2>2. self \in Source /\ wasm \in Source
    BY DEF Source, Keyword
  <2>3. self \notin RoutedIn(n) /\ wasm \notin RoutedIn(n)
    BY DEF RoutedIn
  <2> HIDE DEF self, wasm
  <2>4. ss \in Seq(Source) /\ Elements(ss) = {self, wasm}
    BY <2>2, SequenceOfTwo
  <2> HIDE DEF ss
  <2>5. Elements(Of(ss).terms) = {self, wasm}
    BY <2>4, OfType
  <2>6. p[2].name = script /\ p[2].value = Of(ss)
    BY <2>1 DEF Sources
  <2>7. 2 \in 1..Len(p)
    BY <2>1
  <2> HIDE DEF script
  <2>8. ListOf(p, n) = Of(ss)
    BY <1>2, <1>6, <2>6, <2>7, ListOfIth
  <2> QED BY <2>3, <2>5, <2>8 DEF Listed
<1> QED BY <1>4, <1>5, <1>6, InputTypes

LEMMA ContractInit == Init => Contract!Init
<1> SUFFICES ASSUME Init PROVE Contract!Init
  OBVIOUS
<1> DEFINE lists == ListsOf(policy)
<1>1. PICK c \in Start : policy = Constructed(c)
  BY DEF Init
<1>2. policy \in WellFormed
  BY <1>1, ConstructedIsFine, FineIsWellFormed
<1>3. DOMAIN lists \subseteq DirectiveName
  <2>1. policy \in Seq(Directive)
    BY <1>2, WellFormedTypes
  <2>2. \A i \in DOMAIN policy : policy[i] \in Directive
    BY <2>1
  <2>3. \A d \in Directive : d.name \in DirectiveName
    BY NamesAreStrings DEF Directive
  <2> QED BY <2>2, <2>3 DEF ListsOf, NamesOf
<1>4. \A n \in DOMAIN lists \cap SourceDirective : lists[n] \cap RoutedIn(n) = {}
  BY <1>1, <1>2, ListsAt, ConstructedIsUnrouted
<1>5. per_response_nonce = FALSE
  BY DEF Init
<1> HIDE DEF lists
<1> QED BY <1>3, <1>4, <1>5, SameVocabulary, Mapping DEF Contract!Init, lists

\* Every step of the builder is one its contract allows.
LEMMA ContractNext ==
    ASSUME IInv, IInv', Next
    PROVE  ContractStep
<1>0. policy \in WellFormed /\ policy' \in WellFormed
  BY FineIsWellFormed DEF IInv, FinePolicy
<1>1. CASE \E d \in GivenDirectives : SetDirective(d)
  BY <1>0, <1>1, ReplaceStep
<1>2. CASE \E g \in GivenSources : Extend(g[1], g[2])
  <2>1. PICK g \in GivenSources : Extend(g[1], g[2])
    BY <1>2
  <2>2. g[1] \in SourceDirective /\ g[2] \in Seq(Source)
    BY InputTypes
  <2> QED BY <1>0, <2>1, <2>2, GrowStep
<1>3. CASE \E n \in RemovedNames : RemoveDirective(n)
  BY <1>0, <1>3, InputTypes, DropStep
<1>4. CASE \E k \in Retained : RetainSources(k[1], k[2])
  <2>1. PICK k \in Retained : RetainSources(k[1], k[2])
    BY <1>4
  <2>2. k[1] \in SourceDirective
    BY InputTypes
  <2> QED BY <1>0, <2>1, <2>2, NarrowStep
<1>5. CASE \E hashes \in Scans : WithScan(hashes)
  <2>1. PICK hashes \in Scans : WithScan(hashes)
    BY <1>5
  <2> DEFINE script == "script-src"
             E == Elements(hashes)
  <2>2. /\ policy' = ExtendUnrouted(policy, script, hashes)
        /\ per_response_nonce' = per_response_nonce
    BY <2>1 DEF WithScan
  <2>3. script \in SourceDirective
    BY DEF SourceDirective
  <2>4. hashes \in Seq(Source) /\ E \cap Keyword = {}
    BY ScanTypes
  <2> HIDE DEF script
  <2>5. /\ SameExcept(policy, policy', script) /\ Contains(policy', script)
        /\ Listed(policy', script) = InForce(policy, script) \cup E
    BY <1>0, <2>2, <2>3, <2>4, ExtendUnroutedView
  <2> HIDE DEF E
  <2>6. Widened(policy, policy', E)
    BY <2>5, ForceAfter
  <2> QED BY <1>0, <2>2, <2>4, <2>6, WidenStep
<1>6. CASE AllowUnsafeEval
  <2>1. "'unsafe-eval'" \in RoutedIn("script-src")
    BY DEF RoutedIn
  <2> QED BY <1>0, <1>6, <2>1, NameStep DEF AllowUnsafeEval
<1>7. CASE AllowUnsafeInlineScript
  <2>1. "'unsafe-inline'" \in RoutedIn("script-src")
    BY DEF RoutedIn
  <2> QED BY <1>0, <1>7, <2>1, NameStep DEF AllowUnsafeInlineScript
<1>8. CASE StrictDynamic
  <2>1. "'strict-dynamic'" \in RoutedIn("script-src")
    BY DEF RoutedIn
  <2> QED BY <1>0, <1>8, <2>1, NameStep DEF StrictDynamic
<1>9. CASE \E enabled \in BOOLEAN : PerResponseNonce(enabled)
  BY <1>9, ReserveStep
<1>10. ASSUME NEW table \in Table, policy' = Admitted(policy, table),
              UNCHANGED per_response_nonce
       PROVE  ContractStep
  <2> DEFINE E == Host \cup Scheme
  <2>1. E \cap Keyword = {}
    BY DistinctTerms
  <2>2. Widened(policy, policy', E)
    BY <1>0, <1>10, AdmittedWidens
  <2> HIDE DEF E
  <2> QED BY <1>0, <1>10, <2>1, <2>2, WidenStep
<1>11. CASE \E preset \in PresetNames : Admit(preset)
  <2>1. PICK preset \in PresetNames : Admit(preset)
    BY <1>11
  <2>2. Origins[preset] \in Table
    BY PresetTypes DEF Table
  <2> QED BY <1>10, <2>1, <2>2 DEF Admit
<1>12. CASE \E service \in Services, origin \in OwnOrigins : AdmitOrigin(service, origin)
  BY <1>10, <1>12, PresetTypes, OriginTableType DEF AdmitOrigin
<1>13. CASE Build
  BY <1>13, UnseenStep DEF Build
<1>14. CASE ConstantHeaders
  BY <1>14, UnseenStep DEF ConstantHeaders
<1>15. CASE \E n \in MintedNonces : PerResponseHeaders(n)
  BY <1>15, UnseenStep DEF PerResponseHeaders
<1> QED BY <1>1, <1>2, <1>3, <1>4, <1>5, <1>6, <1>7, <1>8, <1>9, <1>11, <1>12, <1>13,
           <1>14, <1>15 DEF Next

\* The builder implements its contract: read by name, every sequence of calls is one
\* the contract allows (csp.rs, all of impl Csp).
THEOREM BuilderKeepsContract == Spec => KeepsContract
<1> DEFINE lists == [n \in {policy[i].name : i \in DOMAIN policy} |->
                        Elements(ListOf(policy, n).terms)]
<1>1. Init => Contract!Init
  BY ContractInit
<1>2. IInv /\ IInv' /\ [Next]_vars => [Contract!Next]_<<lists, per_response_nonce>>
  <2>1. ASSUME IInv, IInv', Next PROVE ContractStep
    BY <2>1, ContractNext
  <2>2. ASSUME UNCHANGED vars PROVE ContractStep
    BY <2>2, UnseenStep DEF vars
  <2>3. ContractStep => [Contract!Next]_<<lists, per_response_nonce>>
    BY DEF ContractStep, ListsOf, NamesOf, Listed
  <2> QED BY <2>1, <2>2, <2>3
<1> QED BY <1>1, <1>2, Invariance, PTL DEF Spec, KeepsContract, Contract!Spec

-----------------------------------------------------------------------------
(***************************************************************************)
(* What a browser permits under the list in force.                         *)
(***************************************************************************)

\* The directive that governs a load is its own, or the first one set in its chain.
LEMMA GoverningIs ==
    ASSUME NEW p, NEW n \in SourceDirective, NEW chain \in Seq(SourceDirective)
    PROVE  /\ Contains(p, n) => Governing(p, n, chain) = n
           /\ \A k \in 1..Len(chain) :
                (/\ ~Contains(p, n) /\ Contains(p, chain[k])
                 /\ \A j \in 1..(k - 1) : ~Contains(p, chain[j]))
                   => Governing(p, n, chain) = chain[k]
           /\ (~Contains(p, n) /\ \A k \in 1..Len(chain) : ~Contains(p, chain[k]))
                => Governing(p, n, chain) = ""
<1> DEFINE candidates == <<n>> \o chain
           set == {i \in DOMAIN candidates : Contains(p, candidates[i])}
           first == CHOOSE i \in set : \A j \in set : i <= j
<1>1. Governing(p, n, chain) = IF set = {} THEN "" ELSE candidates[first]
  BY DEF Governing
<1>2. /\ candidates \in Seq(SourceDirective) /\ DOMAIN candidates = 1..(Len(chain) + 1)
      /\ Len(candidates) = Len(chain) + 1 /\ Len(chain) \in Nat
      /\ candidates[1] = n
      /\ \A k \in 1..Len(chain) : candidates[k + 1] = chain[k]
  <2> DEFINE one == <<n>>
  <2>1. one \in Seq(SourceDirective) /\ Len(one) = 1 /\ one[1] = n
    BY SequenceOfOne
  <2> HIDE DEF one
  <2>2. /\ one \o chain \in Seq(SourceDirective)
        /\ Len(one \o chain) = Len(one) + Len(chain)
        /\ \A j \in 1..(Len(one) + Len(chain)) : (one \o chain)[j] =
              IF j <= Len(one) THEN one[j] ELSE chain[j - Len(one)]
    BY <2>1, ConcatProperties
  <2>3. candidates = one \o chain /\ Len(chain) \in Nat
    BY DEF one
  <2> HIDE DEF candidates
  <2> QED BY <2>1, <2>2, <2>3
<1> HIDE DEF candidates
<1>3. ASSUME NEW k \in 1..Len(candidates), Contains(p, candidates[k]),
             \A j \in 1..(k - 1) : ~Contains(p, candidates[j])
      PROVE  Governing(p, n, chain) = candidates[k]
  <2>1. set # {} /\ first = k
    BY <1>2, <1>3, FirstSet
  <2> HIDE DEF set, first
  <2> QED BY <1>1, <2>1
<1>4. ASSUME Contains(p, n) PROVE Governing(p, n, chain) = n
  <2>1. 1 \in 1..Len(candidates) /\ \A j \in 1..(1 - 1) : ~Contains(p, candidates[j])
    BY <1>2
  <2> QED BY <1>2, <1>3, <1>4, <2>1
<1>5. ASSUME ~Contains(p, n), NEW k \in 1..Len(chain), Contains(p, chain[k]),
             \A j \in 1..(k - 1) : ~Contains(p, chain[j])
      PROVE  Governing(p, n, chain) = chain[k]
  <2>1. k + 1 \in 1..Len(candidates) /\ candidates[k + 1] = chain[k]
    BY <1>2
  <2>2. ASSUME NEW j \in 1..((k + 1) - 1) PROVE ~Contains(p, candidates[j])
    <3>1. CASE j = 1
      BY <1>2, <1>5, <3>1
    <3>2. CASE j # 1
      <4>1. j - 1 \in 1..(k - 1) /\ j - 1 \in 1..Len(chain) /\ (j - 1) + 1 = j
        BY <1>2, <3>2
      <4>2. candidates[j] = chain[j - 1]
        BY <1>2, <4>1
      <4> QED BY <1>5, <4>1, <4>2
    <3> QED BY <3>1, <3>2
  <2> QED BY <1>3, <1>5, <2>1, <2>2
<1>6. ASSUME ~Contains(p, n), \A k \in 1..Len(chain) : ~Contains(p, chain[k])
      PROVE  Governing(p, n, chain) = ""
  <2>1. ASSUME NEW i \in 1..(Len(chain) + 1) PROVE ~Contains(p, candidates[i])
    <3>1. CASE i = 1
      BY <1>2, <1>6, <3>1
    <3>2. CASE i # 1
      <4>1. i - 1 \in 1..Len(chain) /\ (i - 1) + 1 = i
        BY <1>2, <3>2
      <4>2. candidates[i] = chain[i - 1]
        BY <1>2, <4>1
      <4> QED BY <1>6, <4>1, <4>2
    <3> QED BY <3>1, <3>2
  <2>2. set = {}
    BY <1>2, <2>1
  <2> QED BY <1>1, <2>2
<1> QED BY <1>4, <1>5, <1>6

\* A load is restricted exactly if its directive or one of its chain is set, and is then
\* governed by the list in force.
LEMMA RestrictedByForce ==
    ASSUME NEW p, NEW n \in SourceDirective
    PROVE  LET chain == FallbackChain(n)
               g == Governing(p, n, ChainOfTheCode(n))
           IN  /\ Restricted(p, n) <=>
                     Contains(p, n) \/ \E k \in 1..Len(chain) : Contains(p, chain[k])
               /\ Restricted(p, n) => Listed(p, g) = InForce(p, n)
<1> DEFINE chain == FallbackChain(n)
           g == Governing(p, n, ChainOfTheCode(n))
           set == {i \in DOMAIN chain : Contains(p, chain[i])}
           first == CHOOSE i \in set : \A j \in set : i <= j
<1>1. ChainOfTheCode(n) = chain
  BY DEF ChainOfTheCode, FallbackChain
<1>2. Inherited(p, n) = IF set = {} THEN SourcesList(<<>>) ELSE ListOf(p, chain[first])
  BY DEF Inherited
<1>3. chain \in Seq(SourceDirective)
  BY FallbackChainType
<1> HIDE DEF chain
<1>4. g = Governing(p, n, chain)
  BY <1>1
<1> HIDE DEF g
<1>5. Restricted(p, n) <=> g # ""
  BY DEF Restricted, g
<1>6. \A m \in SourceDirective : m # ""
  BY DEF SourceDirective
<1>7. CASE Contains(p, n)
  <2>1. g = n
    BY <1>3, <1>4, <1>7, GoverningIs
  <2> QED BY <1>5, <1>6, <1>7, <2>1 DEF InForce, g, chain
<1>8. CASE ~Contains(p, n) /\ \E k \in 1..Len(chain) : Contains(p, chain[k])
  <2>1. set \in SUBSET Nat /\ set # {} /\ DOMAIN chain = 1..Len(chain)
    BY <1>3, <1>8
  <2>2. PICK k \in set : \A j \in set : k <= j
    <3> HIDE DEF set
    <3> QED BY <2>1, LeastNatural
  <2>3. /\ k \in 1..Len(chain) /\ Contains(p, chain[k])
        /\ \A j \in 1..(k - 1) : ~Contains(p, chain[j])
    BY <2>1, <2>2
  <2>4. g = chain[k]
    BY ZenonT(60), <1>3, <1>4, <1>8, <2>3, GoverningIs
  <2>5. first = k
    BY <1>3, <2>3, FirstSet
  <2>6. chain[k] \in SourceDirective
    BY <1>3, <2>3
  <2> HIDE DEF set, first
  <2>7. InForce(p, n) = Listed(p, g)
    BY <1>2, <1>8, <2>1, <2>4, <2>5 DEF InForce, Listed
  <2> QED BY <1>5, <1>6, <1>8, <2>4, <2>6, <2>7 DEF g, chain
<1>9. CASE ~Contains(p, n) /\ ~\E k \in 1..Len(chain) : Contains(p, chain[k])
  <2>1. g = ""
    BY <1>3, <1>4, <1>9, GoverningIs
  <2> QED BY <1>5, <1>9, <2>1 DEF g, chain
<1> QED BY <1>7, <1>8, <1>9

\* What a restricted load is permitted is what the list in force allows.
LEMMA PermittedByForce ==
    ASSUME NEW p, NEW n \in SourceDirective, Restricted(p, n)
    PROVE  Permitted(p, n) = Allows(n, InForce(p, n))
<1> DEFINE g == Governing(p, n, ChainOfTheCode(n))
<1>1. g # "" /\ Listed(p, g) = InForce(p, n)
  BY RestrictedByForce DEF Restricted
<1>2. Permitted(p, n) = IF g = "" THEN Everything(n)
                        ELSE Allows(n, Elements(ListOf(p, g).terms))
  BY DEF Permitted, PermittedUnder
<1> HIDE DEF g
<1> QED BY <1>1, <1>2 DEF Listed

\* A restricted load stays restricted where every directive stays set.
LEMMA RestrictedStays ==
    ASSUME NEW p, NEW q, NEW n \in SourceDirective, Restricted(p, n),
           \A m : Contains(p, m) => Contains(q, m)
    PROVE  Restricted(q, n)
BY RestrictedByForce

\* Adding expressions that are no keywords takes nothing away but what 'unsafe-inline'
\* gave; and not that either, unless one of them is a digest or a nonce.
LEMMA AllowsGrows ==
    ASSUME NEW n, NEW ss, NEW tt, NEW E, ss \subseteq tt, tt \subseteq ss \cup E,
           E \cap Keyword = {}
    PROVE  /\ Allows(n, ss \ {"'unsafe-inline'"}) \subseteq Allows(n, tt)
           /\ E \cap (Hash \cup Nonce) = {} => Allows(n, ss) \subseteq Allows(n, tt)
<1>1. \A k \in Keyword : k \in tt <=> k \in ss
  OBVIOUS
<1>2. /\ "'unsafe-inline'" \in Keyword /\ "'strict-dynamic'" \in Keyword
      /\ "'unsafe-eval'" \in Keyword /\ "'strict-dynamic'" # "'unsafe-inline'"
      /\ "'unsafe-eval'" # "'unsafe-inline'"
  BY DEF Keyword
<1> DEFINE inline == "'unsafe-inline'"
           dynamic == "'strict-dynamic'"
           eval == "'unsafe-eval'"
           wasm == {"'wasm-unsafe-eval'"} \cap Enabled(n)
           own == InlineContent(n) \cup Enabled(n)
           any == InlineContent(n)
           Strict(v) == n \in ScriptLoad /\ dynamic \in v
           Inline(v) == inline \in v /\ v \cap (Hash \cup Nonce) = {} /\ ~Strict(v)
           A(v) == (IF Strict(v) THEN {} ELSE v \cap UrlExpression)
                       \cup (v \cap own)
                       \cup (IF eval \in v THEN wasm ELSE {})
                       \cup (IF Inline(v) THEN any ELSE {})
<1>3. \A v : Allows(n, v) = A(v)
  BY DEF Allows
<1>4. /\ inline \in Keyword /\ dynamic \in Keyword /\ eval \in Keyword
      /\ dynamic # inline /\ eval # inline
  BY <1>2
<1> HIDE DEF inline, dynamic, eval, wasm, own, any
<1>5. Strict(tt) <=> Strict(ss)
  BY <1>1, <1>4
<1>6. Strict(ss \ {inline}) <=> Strict(ss)
  BY <1>4
<1>7. ~Inline(ss \ {inline})
  OBVIOUS
<1>8. eval \in ss \ {inline} => eval \in tt
  OBVIOUS
<1>9. E \cap (Hash \cup Nonce) = {} => (Inline(ss) => Inline(tt))
  BY <1>5
<1> HIDE DEF Strict, Inline
<1>10. A(ss \ {inline}) \subseteq A(tt)
  BY <1>5, <1>6, <1>7, <1>8
<1>11. E \cap (Hash \cup Nonce) = {} => A(ss) \subseteq A(tt)
  BY <1>5, <1>9
<1> HIDE DEF A
<1> QED BY <1>3, <1>10, <1>11 DEF inline

\* Widening by hosts and schemes takes nothing away from a restricted load.
LEMMA WidenedPermits ==
    ASSUME NEW p, NEW q, Widened(p, q, Host \cup Scheme),
           NEW n \in SourceDirective, Restricted(p, n)
    PROVE  Permitted(p, n) \subseteq Permitted(q, n)
<1>1. Restricted(q, n)
  BY RestrictedStays DEF Widened
<1>2. /\ InForce(p, n) \subseteq InForce(q, n)
      /\ InForce(q, n) \subseteq InForce(p, n) \cup (Host \cup Scheme)
  BY DEF Widened
<1>3. (Host \cup Scheme) \cap Keyword = {} /\ (Host \cup Scheme) \cap (Hash \cup Nonce) = {}
  BY DistinctTerms
<1>4. Allows(n, InForce(p, n)) \subseteq Allows(n, InForce(q, n))
  BY <1>2, <1>3, AllowsGrows
<1> QED BY <1>1, <1>4, PermittedByForce

\* A preset only ever widens: a load that was restricted is permitted afterwards all it
\* was permitted before, although the preset creates directives that cut other loads
\* off their fallback (presets/mod.rs, admit; csp.rs, ensure_seeded).
THEOREM PresetsOnlyWiden == Spec => PresetsWidenRestricted
<1>1. ASSUME IInv, PresetStep, NEW n \in SourceDirective, Restricted(policy, n)
      PROVE  Permitted(policy, n) \subseteq Permitted(policy', n)
  <2>1. policy \in WellFormed
    BY <1>1, FineIsWellFormed DEF IInv, FinePolicy
  <2>2. PICK table \in Table : policy' = Admitted(policy, table)
    <3>1. CASE \E preset \in PresetNames : Admit(preset)
      BY <3>1, PresetTypes DEF Admit, Table
    <3>2. CASE \E service \in Services, origin \in OwnOrigins : AdmitOrigin(service, origin)
      BY <3>2, PresetTypes, OriginTableType DEF AdmitOrigin
    <3> QED BY <1>1, <3>1, <3>2 DEF PresetStep
  <2>3. Widened(policy, policy', Host \cup Scheme)
    BY <2>1, <2>2, AdmittedWidens
  <2> QED BY <1>1, <2>3, WidenedPermits
<1>2. IInv => PresetsWidenRestrictedStep
  BY <1>1 DEF PresetsWidenRestrictedStep
<1>3. IInv => [PresetsWidenRestrictedStep]_vars
  BY <1>2
<1> QED BY <1>3, Invariance, PTL DEF PresetsWidenRestricted

\* Adding a scan's hashes runs every scanned script that script-src governs, and costs a
\* restricted load nothing but what 'unsafe-inline' gave it (csp.rs, Csp::with_scan).
THEOREM ScansAdd == Spec => ScanAddsItsHashes
<1> DEFINE script == "script-src"
<1>1. ASSUME IInv, NEW hashes \in Scans, WithScan(hashes)
      PROVE  /\ \A n \in ScriptLoad :
                    Governing(policy', n, ChainOfTheCode(n)) = script
                        => Elements(hashes) \subseteq Permitted(policy', n)
             /\ \A n \in SourceDirective : Restricted(policy, n)
                    => PermittedByList(policy, n) \subseteq Permitted(policy', n)
  <2>1. policy \in WellFormed
    BY <1>1, FineIsWellFormed DEF IInv, FinePolicy
  <2>2. policy' = ExtendUnrouted(policy, script, hashes)
    BY <1>1 DEF WithScan
  <2>3. script \in SourceDirective /\ script # "" /\ ScriptLoad \subseteq SourceDirective
    BY DEF SourceDirective, ScriptLoad
  <2>4. /\ hashes \in Seq(Source)
        /\ Elements(hashes) \subseteq Hash /\ Elements(hashes) \cap Keyword = {}
    BY ScanTypes
  <2> HIDE DEF script
  <2>5. /\ SameExcept(policy, policy', script) /\ Contains(policy', script)
        /\ Listed(policy', script) = InForce(policy, script) \cup Elements(hashes)
    BY <2>1, <2>2, <2>3, <2>4, ExtendUnroutedView
  <2>6. Widened(policy, policy', Elements(hashes))
    BY <2>5, ForceAfter
  <2>7. ASSUME NEW n \in ScriptLoad,
               Governing(policy', n, ChainOfTheCode(n)) = script
        PROVE  Elements(hashes) \subseteq Permitted(policy', n)
    <3>1. n \in SourceDirective
      BY <2>3
    <3>2. Restricted(policy', n)
      BY <2>3, <2>7 DEF Restricted
    <3>3. Listed(policy', script) = InForce(policy', n)
      BY <2>7, <3>1, <3>2, RestrictedByForce
    <3>4. Permitted(policy', n) = Allows(n, Listed(policy', script))
      BY <3>1, <3>2, <3>3, PermittedByForce
    <3>5. Listed(policy', script) \cap Hash \subseteq Allows(n, Listed(policy', script))
      BY <2>7 DEF Allows, InlineContent
    <3> QED BY <2>4, <2>5, <3>4, <3>5
  <2>8. ASSUME NEW n \in SourceDirective, Restricted(policy, n)
        PROVE  PermittedByList(policy, n) \subseteq Permitted(policy', n)
    <3>1. Restricted(policy', n)
      BY <2>6, <2>8, RestrictedStays DEF Widened
    <3>2. PermittedByList(policy, n) = Allows(n, InForce(policy, n) \ {"'unsafe-inline'"})
      BY <2>8, RestrictedByForce DEF PermittedByList, Listed
    <3>3. /\ InForce(policy, n) \subseteq InForce(policy', n)
          /\ InForce(policy', n) \subseteq InForce(policy, n) \cup Elements(hashes)
      BY <2>6 DEF Widened
    <3>4. Allows(n, InForce(policy, n) \ {"'unsafe-inline'"})
              \subseteq Allows(n, InForce(policy', n))
      BY <2>4, <3>3, AllowsGrows
    <3> QED BY <3>1, <3>2, <3>4, PermittedByForce
  <2> QED BY <2>7, <2>8
<1>2. IInv => ScanAddsItsHashesStep
  BY <1>1 DEF ScanAddsItsHashesStep
<1>3. IInv => [ScanAddsItsHashesStep]_vars
  BY <1>2
<1> QED BY <1>3, Invariance, PTL DEF ScanAddsItsHashes

-----------------------------------------------------------------------------
(***************************************************************************)
(* Presets compose.  No table names a directive that another one falls     *)
(* back to, so that what a table adds does not depend on what was admitted *)
(* before.                                                                 *)
(***************************************************************************)
PresetDirective ==
    {"script-src", "frame-src", "connect-src", "img-src", "style-src", "font-src",
     "worker-src"}

\* The directives the first k entries of a table name, and what they add to each.
Touched(table, k) == {table[i].directive : i \in 1..k}

Adds(table, k) ==
    UNION {{table[i].directive} \X Elements(table[i].sources) : i \in 1..k}

\* The tables the lemmas are about.
Typed(table) ==
    table \in Table /\ \A i \in 1..Len(table) : table[i].directive \in PresetDirective

\* The tables of the crate name these directives only (presets/*.rs).
LEMMA OriginsAreTyped ==
    ASSUME NEW preset \in DOMAIN Origins
    PROVE  Typed(Origins[preset])
<1> DEFINE InPlace(t) == \A i \in DOMAIN t : t[i].directive \in PresetDirective
<1>1. InPlace(Turnstile) /\ InPlace(WebAnalytics) /\ InPlace(FathomCloud)
  BY DEF Turnstile, WebAnalytics, FathomCloud, Entry, PresetDirective
<1>2. InPlace(TagManager) /\ InPlace(Analytics) /\ InPlace(Fonts)
  BY DEF TagManager, Analytics, Fonts, Entry, PresetDirective
<1>3. InPlace(Recaptcha) /\ InPlace(PlausibleCloud) /\ InPlace(Loader)
  BY DEF Recaptcha, PlausibleCloud, Loader, Entry, PresetDirective
<1>4. InPlace(SessionReplay) /\ InPlace(StripeElements)
  BY DEF SessionReplay, StripeElements, Entry, PresetDirective
<1>5. InPlace(Checkout)
  BY <1>4 DEF StripeElements, Checkout, Entry, PresetDirective
<1> HIDE DEF InPlace
<1>6. InPlace(Origins[preset])
  BY <1>1, <1>2, <1>3, <1>4, <1>5 DEF Origins
<1>7. Origins[preset] \in Table
  BY PresetTypes DEF Table
<1>8. DOMAIN Origins[preset] = 1..Len(Origins[preset])
  BY <1>7 DEF Table
<1> QED BY <1>6, <1>7, <1>8 DEF Typed, InPlace

\* So do those with an origin of the caller's.
LEMMA OriginTablesAreTyped ==
    ASSUME NEW service \in DOMAIN OriginDirectives, NEW origin \in OwnOrigins
    PROVE  Typed(OriginTable(service, origin))
<1> DEFINE dirs == OriginDirectives[service]
           table == OriginTable(service, origin)
<1>1. \A i \in DOMAIN dirs : dirs[i] \in PresetDirective
  BY DEF OriginDirectives, FathomDirectives, MatomoDirectives, PlausibleDirectives,
         IngestDirectives, PresetDirective
<1>2. \A i \in DOMAIN table : i \in DOMAIN dirs /\ table[i].directive = dirs[i]
  BY DEF OriginTable, Entry
<1>3. table \in Table
  BY OriginTableType
<1> HIDE DEF table
<1>4. DOMAIN table = 1..Len(table)
  BY <1>3 DEF Table
<1> QED BY <1>1, <1>2, <1>3, <1>4 DEF Typed, table

\* The directives of presets, and those they fall back to.
Flat == PresetDirective \cup {"child-src", "default-src"}

LEMMA FlatIsFlat ==
    ASSUME NEW m \in Flat, m \notin Roots
    PROVE  Parent(m) \in Flat /\ Parent(m) \notin PresetDirective
BY DEF Flat, PresetDirective, Roots, Parent

\* From p to q, in a directive of N the sources of its own that F gives join what is in
\* force, and the others stay as they are.
Joined(p, q, N, F) ==
    /\ \A m : Contains(q, m) <=> Contains(p, m) \/ m \in N
    /\ \A m : Contains(p, m) \/ m \in Flat =>
          InForce(q, m) = InForce(p, m) \cup {x \in Source : <<m, x>> \in F}

\* Creating one preset directive and adding to it changes what is in force for it alone.
LEMMA JoinedByOne ==
    ASSUME NEW p \in WellFormed, NEW n \in PresetDirective, NEW ss \in Seq(Source),
           NEW q, q = ExtendUnrouted(p, n, ss)
    PROVE  q \in WellFormed /\ Joined(p, q, {n}, {n} \X Elements(ss))
<1> DEFINE Own(m) == {x \in Source : <<m, x>> \in {n} \X Elements(ss)}
           Same(m) == InForce(q, m) = InForce(p, m) \cup Own(m)
<1>1. n \in SourceDirective
  BY DEF PresetDirective, SourceDirective
<1>2. /\ q \in WellFormed /\ SameExcept(p, q, n)
      /\ Contains(q, n) /\ Listed(q, n) = InForce(p, n) \cup Elements(ss)
  BY <1>1, ExtendUnroutedView
<1>3. Elements(ss) \subseteq Source
  BY DEF Elements
<1>4. Own(n) = Elements(ss) /\ \A m : m # n => Own(m) = {}
  BY <1>3
<1> HIDE DEF Own
<1>5. Same(n)
  BY <1>2, <1>4 DEF InForce
<1>6. ASSUME NEW m, m # n, Contains(p, m) PROVE Same(m)
  BY <1>2, <1>4, <1>6 DEF SameExcept, InForce, Listed
<1>7. ASSUME NEW m \in Flat, m \notin PresetDirective PROVE Same(m)
  <2>1. m # n
    BY <1>7
  <2>2. CASE Contains(p, m)
    BY <1>6, <2>1, <2>2
  <2>3. CASE ~Contains(p, m) /\ m \in Roots
    <3>1. ~Contains(q, m)
      BY <1>2, <2>1, <2>3 DEF SameExcept
    <3> QED BY <1>4, <2>1, <2>3, <3>1, ForceOfAbsent
  <2>4. CASE ~Contains(p, m) /\ m \notin Roots
    <3> DEFINE d == "default-src"
    <3>1. ~Contains(q, m)
      BY <1>2, <2>1, <2>4 DEF SameExcept
    <3>2. Parent(m) = d /\ d \in Roots /\ d # n
      BY <1>7, <2>4 DEF Flat, Roots, Parent, PresetDirective
    <3> HIDE DEF d
    <3>3. InForce(q, d) = InForce(p, d)
      <4>1. CASE Contains(p, d)
        BY <1>4, <1>6, <3>2, <4>1
      <4>2. CASE ~Contains(p, d)
        <5>1. ~Contains(q, d)
          BY <1>2, <3>2, <4>2 DEF SameExcept
        <5> QED BY <3>2, <4>2, <5>1, ForceOfAbsent
      <4> QED BY <4>1, <4>2
    <3>4. InForce(q, m) = InForce(q, d) /\ InForce(p, m) = InForce(p, d)
      BY <2>4, <3>1, <3>2, ForceOfAbsent
    <3> QED BY <1>4, <2>1, <3>3, <3>4
  <2> QED BY <2>2, <2>3, <2>4
<1>8. ASSUME NEW m \in Flat PROVE Same(m)
  <2>1. CASE m = n \/ m \notin PresetDirective \/ Contains(p, m)
    BY <1>5, <1>6, <1>7, <2>1
  <2>2. CASE m # n /\ m \in PresetDirective /\ ~Contains(p, m)
    <3>1. ~Contains(q, m)
      BY <1>2, <2>2 DEF SameExcept
    <3>2. m \notin Roots
      BY <2>2 DEF PresetDirective, Roots
    <3>3. Parent(m) \in Flat /\ Parent(m) \notin PresetDirective
      BY <3>2, FlatIsFlat
    <3>4. InForce(q, Parent(m)) = InForce(p, Parent(m)) /\ Own(m) = {}
      BY <1>4, <1>7, <2>2, <3>3
    <3> QED BY <2>2, <3>1, <3>2, <3>4, ForceOfAbsent
  <2> QED BY <2>1, <2>2
<1>9. \A m : Contains(q, m) <=> Contains(p, m) \/ m \in {n}
  BY <1>2 DEF SameExcept
<1>10. \A m : Contains(p, m) \/ m \in Flat => Same(m)
  BY <1>5, <1>6, <1>8
<1> QED BY <1>2, <1>9, <1>10 DEF Joined, Own

\* Joining once more is joining.
LEMMA JoinedChains ==
    ASSUME NEW p, NEW q, NEW r, NEW N1, NEW F1, NEW N2, NEW F2,
           Joined(p, q, N1, F1), Joined(q, r, N2, F2)
    PROVE  Joined(p, r, N1 \cup N2, F1 \cup F2)
BY DEF Joined

\* Admitting a table joins its entries (presets/mod.rs, admit).
LEMMA AdmittedJoins ==
    ASSUME NEW p \in WellFormed, NEW table, Typed(table)
    PROVE  /\ Admitted(p, table) \in WellFormed
           /\ Joined(p, Admitted(p, table), Touched(table, Len(table)),
                     Adds(table, Len(table)))
<1> DEFINE n == Len(table)
<1>0. table \in Table /\ n \in Nat /\ \A i \in 1..n : table[i].directive \in PresetDirective
  BY DEF Typed, Table
<1>1. PICK run : IsRun(run, p, table) /\ run[n] = Admitted(p, table)
  BY <1>0, AdmittedUnfolds
<1> DEFINE Good(i) == Joined(p, run[i], Touched(table, i), Adds(table, i))
           S == {i \in 0..n : Good(i)}
<1>2. 0 \in S
  <2>1. Touched(table, 0) = {} /\ Adds(table, 0) = {}
    BY DEF Touched, Adds
  <2>2. run[0] = p
    BY <1>1 DEF IsRun
  <2>3. Joined(p, p, {}, {})
    BY DEF Joined
  <2>4. Good(0)
    BY <2>1, <2>2, <2>3
  <2> HIDE DEF Good
  <2> QED BY <1>0, <2>4
<1>3. ASSUME NEW i \in 1..n, i - 1 \in S PROVE i \in S
  <2> DEFINE q == run[i - 1]
             r == run[i]
             m == table[i].directive
             ss == table[i].sources
  <2>1. q \in WellFormed /\ r = ExtendUnrouted(q, m, ss)
    BY <1>0, <1>1 DEF IsRun
  <2>2. m \in PresetDirective /\ ss \in Seq(Source)
    BY <1>0, EntryType
  <2>3. Good(i - 1)
    BY <1>3
  <2>4. /\ Touched(table, i) = Touched(table, i - 1) \cup {m}
        /\ Adds(table, i) = Adds(table, i - 1) \cup ({m} \X Elements(ss))
    <3>1. 1..i = 1..(i - 1) \cup {i}
      BY <1>0
    <3> QED BY <3>1 DEF Touched, Adds
  <2>5. Joined(p, q, Touched(table, i - 1), Adds(table, i - 1))
    BY <2>3
  <2> HIDE DEF q, r, m, ss, Good
  <2>6. Joined(q, r, {m}, {m} \X Elements(ss))
    BY <2>1, <2>2, JoinedByOne
  <2>7. Joined(p, r, Touched(table, i), Adds(table, i))
    BY <2>4, <2>5, <2>6, JoinedChains
  <2> QED BY <1>0, <2>7 DEF r, Good
<1>4. \A i \in 0..n : i \in S
  <2> HIDE DEF S
  <2> QED BY <1>0, <1>2, <1>3, InductionUpTo
<1>5. Good(n)
  <2> HIDE DEF Good, n
  <2>1. n \in S
    BY <1>0, <1>4
  <2> QED BY <2>1
<1>6. run[n] \in WellFormed
  <2>1. run \in [0..n -> WellFormed] /\ n \in 0..n
    BY <1>0, <1>1 DEF IsRun
  <2> QED BY <2>1
<1> QED BY <1>1, <1>5, <1>6

\* Two well-formed policies that contain the same names and list the same under each.
LEMMA SameListsByName ==
    ASSUME NEW p \in WellFormed, NEW q \in WellFormed,
           \A m : Contains(p, m) <=> Contains(q, m),
           \A m : Contains(p, m) => Listed(p, m) = Listed(q, m)
    PROVE  SameLists(p, q)
<1>1. NamesOf(p) = NamesOf(q)
  <2>1. \A m : m \in NamesOf(p) <=> m \in NamesOf(q)
    BY NamesOfView
  <2>2. NamesOf(p) \subseteq NamesOf(q) /\ NamesOf(q) \subseteq NamesOf(p)
    BY <2>1
  <2> QED BY <2>2
<1>2. ASSUME NEW i \in DOMAIN p
      PROVE  Elements(p[i].value.terms) = Elements(ListOf(q, p[i].name).terms)
  <2>1. p \in Seq(Directive) /\ HasUniqueNames(p)
    BY WellFormedTypes
  <2>2. i \in 1..Len(p)
    BY <2>1
  <2>3. Contains(p, p[i].name) /\ ListOf(p, p[i].name) = p[i].value
    BY <2>1, <2>2, ListOfIth
  <2> QED BY <2>3 DEF Listed
<1> QED BY <1>1, <1>2 DEF SameLists, NamesOf

\* Two tables give the same lists in both orders.
LEMMA TablesCommute ==
    ASSUME NEW p \in WellFormed, NEW a, Typed(a), NEW b, Typed(b)
    PROVE  SameLists(Admitted(Admitted(p, a), b), Admitted(Admitted(p, b), a))
<1> DEFINE Na == Touched(a, Len(a))
           Fa == Adds(a, Len(a))
           Nb == Touched(b, Len(b))
           Fb == Adds(b, Len(b))
           pa == Admitted(p, a)
           pb == Admitted(p, b)
           ab == Admitted(pa, b)
           ba == Admitted(pb, a)
<1>1. pa \in WellFormed /\ Joined(p, pa, Na, Fa) /\ pb \in WellFormed /\ Joined(p, pb, Nb, Fb)
  BY AdmittedJoins
<1>2. Na \subseteq Flat /\ Nb \subseteq Flat
  BY DEF Typed, Touched, Flat
<1> HIDE DEF Na, Fa, Nb, Fb, pa, pb
<1>3. ab \in WellFormed /\ Joined(pa, ab, Nb, Fb)
  BY <1>1, AdmittedJoins DEF Nb, Fb
<1>4. ba \in WellFormed /\ Joined(pb, ba, Na, Fa)
  BY <1>1, AdmittedJoins DEF Na, Fa
<1> HIDE DEF ab, ba
<1>5. Joined(p, ab, Na \cup Nb, Fa \cup Fb)
  BY <1>1, <1>3, JoinedChains
<1>6. Joined(p, ba, Na \cup Nb, Fa \cup Fb)
  <2>1. Joined(p, ba, Nb \cup Na, Fb \cup Fa)
    BY <1>1, <1>4, JoinedChains
  <2>2. Nb \cup Na = Na \cup Nb /\ Fb \cup Fa = Fa \cup Fb
    OBVIOUS
  <2> QED BY <2>1, <2>2
<1>7. \A m : Contains(ab, m) <=> Contains(ba, m)
  BY <1>5, <1>6 DEF Joined
<1>8. ASSUME NEW m, Contains(ab, m) PROVE Listed(ab, m) = Listed(ba, m)
  <2>1. Contains(p, m) \/ m \in Flat
    BY <1>2, <1>5, <1>8 DEF Joined
  <2>2. InForce(ab, m) = InForce(ba, m)
    BY <1>5, <1>6, <2>1 DEF Joined
  <2> QED BY <1>7, <1>8, <2>2 DEF InForce
<1>9. SameLists(ab, ba)
  BY <1>3, <1>4, <1>7, <1>8, SameListsByName
<1> QED BY <1>9 DEF ab, ba, pa, pb

\* Pushing what a list holds leaves the list as it is (SourceList::push): a list that
\* holds an expression is not 'none'.
LEMMA PushAgain ==
    ASSUME NEW list \in SourceList, NEW s \in Elements(list.terms)
    PROVE  Push(list, s) = list
<1>1. list # NoneList
  BY DEF NoneList, Elements
<1>2. list \in [kind : {"Sources"}, terms : Seq(Source)]
  BY <1>1 DEF SourceList
<1>3. Push(list, s) = SourcesList(list.terms)
  BY <1>2 DEF Push, PushUnique
<1> QED BY <1>2, <1>3 DEF SourcesList

LEMMA PushEachAgain ==
    ASSUME NEW list \in SourceList, NEW ss \in Seq(Source),
           Elements(ss) \subseteq Elements(list.terms)
    PROVE  PushEach(list, ss) = list
<1> DEFINE n == Len(ss)
           Round(f) == [i \in 0..n |-> IF i = 0 THEN list ELSE Push(f[i - 1], ss[i])]
           pushed == CHOOSE f : f = Round(f)
           g == [i \in 0..n |-> list]
           S == {i \in 0..n : pushed[i] = list}
<1>1. n \in Nat /\ PushEach(list, ss) = pushed[n]
  BY DEF PushEach
<1>2. \A i \in 1..n : Push(list, ss[i]) = list
  <2>1. \A i \in 1..n : ss[i] \in Elements(ss)
    BY DEF Elements
  <2> QED BY <2>1, PushAgain
<1> HIDE DEF n
<1>3. g = Round(g)
  BY <1>1, <1>2
<1>4. pushed = Round(pushed)
  BY <1>3
<1>5. \A i \in 0..n : pushed[i] = IF i = 0 THEN list ELSE Push(pushed[i - 1], ss[i])
  <2> HIDE DEF pushed
  <2> QED BY <1>4
<1> HIDE DEF pushed
<1>6. 0 \in S /\ \A i \in 1..n : i - 1 \in S => i \in S
  BY <1>1, <1>2, <1>5
<1>7. \A i \in 0..n : i \in S
  <2> HIDE DEF S
  <2> QED BY <1>1, <1>6, InductionUpTo
<1>8. pushed[n] = list
  BY <1>1, <1>7
<1> QED BY <1>1, <1>8

\* Adding to a directive what it lists changes nothing (csp.rs, extend_unrouted).
LEMMA ExtendAgain ==
    ASSUME NEW p \in WellFormed, NEW n \in SourceDirective, NEW ss \in Seq(Source),
           Contains(p, n), Elements(ss) \subseteq Listed(p, n)
    PROVE  ExtendUnrouted(p, n, ss) = p
<1> DEFINE i == Position(p, n)
           list == ListOf(p, n)
           L == Lists(TRUE, TRUE)
           W == Words(TRUE)
<1>1. list \in SourceList /\ i \in 1..Len(p) /\ p[i].name = n /\ list = p[i].value
  BY ListOfIsAList DEF ListOf
<1>2. p \in Seq(Directive)
  BY WellFormedTypes
<1>3. ExtendUnrouted(p, n, ss) = [p EXCEPT ![i] = Sources(n, PushEach(list, ss))]
  BY DEF ExtendUnrouted, EnsureSeeded, ExtendSources
<1>4. PushEach(list, ss) = list
  BY <1>1, PushEachAgain DEF Listed
<1> HIDE DEF i, list
<1>5. p[i] \in Directive
  BY <1>1, <1>2
<1>6. Sources(n, list) = p[i]
  BY <1>1, <1>5 DEF Sources, Directive
<1>7. [p EXCEPT ![i] = p[i]] = p
  BY <1>1, <1>2
<1> QED BY <1>3, <1>4, <1>6, <1>7

\* A table admitted twice changes nothing more, not even the order.
LEMMA AdmittedAgain ==
    ASSUME NEW p \in WellFormed, NEW table, Typed(table)
    PROVE  Admitted(Admitted(p, table), table) = Admitted(p, table)
<1> DEFINE n == Len(table)
           once == Admitted(p, table)
<1>0. table \in Table /\ n \in Nat /\ \A i \in 1..n : table[i].directive \in PresetDirective
  BY DEF Typed, Table
<1>1. once \in WellFormed /\ Joined(p, once, Touched(table, n), Adds(table, n))
  BY AdmittedJoins
<1> HIDE DEF once
<1>2. ASSUME NEW i \in 1..n
      PROVE  ExtendUnrouted(once, table[i].directive, table[i].sources) = once
  <2> DEFINE m == table[i].directive
             ss == table[i].sources
  <2>1. m \in PresetDirective /\ m \in SourceDirective /\ ss \in Seq(Source)
    BY <1>0, EntryType
  <2>2. m \in Touched(table, n) /\ {m} \X Elements(ss) \subseteq Adds(table, n)
    BY DEF Touched, Adds
  <2> HIDE DEF m, ss, n
  <2>3. Contains(once, m)
    BY <1>1, <2>2 DEF Joined
  <2>4. Elements(ss) \subseteq Source
    BY <2>1 DEF Elements
  <2>5. InForce(once, m) = InForce(p, m) \cup {x \in Source : <<m, x>> \in Adds(table, n)}
    BY <1>1, <2>1 DEF Joined, Flat
  <2>6. \A x \in Elements(ss) : <<m, x>> \in {m} \X Elements(ss)
    OBVIOUS
  <2>7. Elements(ss) \subseteq Listed(once, m)
    BY <2>2, <2>3, <2>4, <2>5, <2>6 DEF InForce
  <2>8. ExtendUnrouted(once, m, ss) = once
    BY <1>1, <2>1, <2>3, <2>7, ExtendAgain
  <2> QED BY <2>8 DEF m, ss
<1>3. PICK run : IsRun(run, once, table) /\ run[n] = Admitted(once, table)
  BY <1>0, <1>1, AdmittedUnfolds
<1> DEFINE S == {i \in 0..n : run[i] = once}
<1>4. 0 \in S /\ \A i \in 1..n : i - 1 \in S => i \in S
  <2>1. 0 \in S
    BY <1>0, <1>3 DEF IsRun
  <2>2. \A i \in 1..n : run[i] = ExtendUnrouted(run[i - 1], table[i].directive, table[i].sources)
    BY <1>3 DEF IsRun
  <2>3. ASSUME NEW i \in 1..n, i - 1 \in S PROVE i \in S
    <3>1. run[i - 1] = once /\ i \in 0..n
      BY <1>0, <2>3
    <3>2. run[i] = once
      BY <1>2, <2>2, <3>1
    <3> QED BY <3>1, <3>2
  <2> QED BY <2>1, <2>3
<1>5. \A i \in 0..n : i \in S
  <2> HIDE DEF S
  <2> QED BY <1>0, <1>4, InductionUpTo
<1>6. run[n] = once
  BY <1>0, <1>5
<1> QED BY <1>3, <1>6 DEF once

\* On every policy the builder can hold, presets are idempotent, and any two of them give
\* the same lists in both orders (presets/mod.rs, "compose in any order").
THEOREM PresetsComposeAlways == Spec => []PresetsCompose
<1>1. \A table \in Tables : Typed(table)
  BY OriginsAreTyped, OriginTablesAreTyped DEF Tables
<1>2. ASSUME policy \in WellFormed PROVE PresetsCompose
  BY <1>1, <1>2, AdmittedAgain, TablesCommute DEF PresetsCompose
<1>3. IInv => PresetsCompose
  BY <1>2, FineIsWellFormed DEF IInv, FinePolicy
<1> QED BY <1>3, Invariance, PTL
=============================================================================
