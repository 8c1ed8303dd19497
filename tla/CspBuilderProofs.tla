-------------------------- MODULE CspBuilderProofs --------------------------
(***************************************************************************)
(* Proofs that the requirements on the builder's bookkeeping hold for      *)
(* every set of hosts, digests and directives, and any number of calls.    *)
(*                                                                         *)
(* The inductive invariant names the lists the builder can hold: without   *)
(* an 'unsafe-eval' unless its method was called, and without a repeated   *)
(* expression unless a list that repeats one was handed in.  Every way of  *)
(* making a list from lists and expressions stays among them.              *)
(***************************************************************************)
EXTENDS CspRequirements, IterationTheorems, SequenceTheorems

-----------------------------------------------------------------------------
(***************************************************************************)
(* What the operations on source lists return, for every list, and what    *)
(* those on policies preserve, for every policy.  The lists and words a    *)
(* policy may hold are parameters, L and W: a claim about every list of a  *)
(* policy is the claim that the operations stay inside Policies(L, W).     *)
(***************************************************************************)
\* Appending one element adds it, and repeats nothing that was absent.
LEMMA AppendElements ==
    ASSUME NEW T, NEW v \in Seq(T), NEW s \in T
    PROVE  /\ Append(v, s) \in Seq(T)
           /\ Elements(Append(v, s)) = Elements(v) \cup {s}
           /\ (HasNoRepeats(v) /\ s \notin Elements(v)) => HasNoRepeats(Append(v, s))
<1>1. Append(v, s) \in Seq(T) /\ DOMAIN Append(v, s) = 1..(Len(v) + 1)
  OBVIOUS
<1>2. Elements(Append(v, s)) = Elements(v) \cup {s}
  <2>1. ASSUME NEW e \in Elements(v) PROVE e \in Elements(Append(v, s))
    BY DEF Elements
  <2>2. s \in Elements(Append(v, s))
    <3>1. Append(v, s)[Len(v) + 1] = s /\ Len(v) + 1 \in DOMAIN Append(v, s)
      OBVIOUS
    <3> QED BY <3>1 DEF Elements
  <2>3. ASSUME NEW e \in Elements(Append(v, s)) PROVE e \in Elements(v) \cup {s}
    BY DEF Elements
  <2> QED BY <2>1, <2>2, <2>3
<1>3. ASSUME HasNoRepeats(v), s \notin Elements(v) PROVE HasNoRepeats(Append(v, s))
  BY <1>3, <1>1 DEF HasNoRepeats, Elements
<1> QED BY <1>1, <1>2, <1>3

\* Pushing adds exactly the pushed expression and repeats none (SourceList::push).
LEMMA PushType ==
    ASSUME NEW list \in SourceList, NEW s \in Source
    PROVE  /\ Push(list, s) \in SourceList
           /\ Elements(Push(list, s).terms) = Elements(list.terms) \cup {s}
           /\ HasNoRepeats(list.terms) => HasNoRepeats(Push(list, s).terms)
<1>1. CASE list.kind = "None"
  <2>1. list = NoneList /\ Elements(list.terms) = {}
    BY <1>1 DEF SourceList, NoneList, Elements
  <2>2. Push(list, s) = SourcesList(<<s>>)
    BY <1>1 DEF Push
  <2>3. Elements(<<s>>) = {s} /\ HasNoRepeats(<<s>>) /\ <<s>> \in Seq(Source)
    BY DEF Elements, HasNoRepeats
  <2> QED BY <2>1, <2>2, <2>3 DEF SourcesList, SourceList
<1>2. CASE list.kind # "None"
  <2>1. list.terms \in Seq(Source)
    BY <1>2 DEF SourceList, NoneList
  <2>2. Push(list, s) = SourcesList(PushUnique(list.terms, s))
    BY <1>2 DEF Push
  <2>3. /\ PushUnique(list.terms, s) \in Seq(Source)
        /\ Elements(PushUnique(list.terms, s)) = Elements(list.terms) \cup {s}
        /\ HasNoRepeats(list.terms) => HasNoRepeats(PushUnique(list.terms, s))
    BY <2>1, AppendElements DEF PushUnique
  <2> QED BY <2>2, <2>3 DEF SourcesList, SourceList
<1> QED BY <1>1, <1>2

\* Pushing several expressions adds exactly these and repeats none.
LEMMA PushEachType ==
    ASSUME NEW list \in SourceList, NEW ss \in Seq(Source)
    PROVE  /\ PushEach(list, ss) \in SourceList
           /\ Elements(PushEach(list, ss).terms) = Elements(list.terms) \cup Elements(ss)
           /\ HasNoRepeats(list.terms) => HasNoRepeats(PushEach(list, ss).terms)
<1> DEFINE n == Len(ss)
           Round(f) == [i \in 0..n |-> IF i = 0 THEN list ELSE Push(f[i - 1], ss[i])]
           pushed == CHOOSE f : f = Round(f)
           step == [x \in SourceList \X (1..n) |-> Push(x[1], ss[x[2]])]
           Upto(i) == {ss[j] : j \in 1..i}
           Good(i) == /\ pushed[i] \in SourceList
                      /\ Elements(pushed[i].terms) = Elements(list.terms) \cup Upto(i)
                      /\ HasNoRepeats(list.terms) => HasNoRepeats(pushed[i].terms)
<1>0. n \in Nat
  OBVIOUS
<1>1. PushEach(list, ss) = pushed[n]
  BY DEF PushEach
<1>2. \E g : g = Round(g)
  <2>1. IsRound(SourceList, n, step)
    BY PushType DEF IsRound
  <2>2. PICK g : IsRecord(SourceList, n, list, step, g)
    BY <1>0, <2>1, IterationExists
  <2>3. \A i \in 0..n : g[i] = IF i = 0 THEN list ELSE Push(g[i - 1], ss[i])
    BY <2>2 DEF IsRecord
  <2>4. g = Round(g)
    BY <2>2, <2>3 DEF IsRecord
  <2> QED BY <2>4
<1>3. pushed = Round(pushed)
  BY <1>2
<1>4. \A i \in 0..n : pushed[i] = IF i = 0 THEN list ELSE Push(pushed[i - 1], ss[i])
  <2> HIDE DEF pushed
  <2> QED BY <1>3
<1> HIDE DEF pushed
<1>5. Good(0)
  BY <1>4 DEF Elements
<1>6. ASSUME NEW i \in 1..n, Good(i - 1) PROVE Good(i)
  <2>1. pushed[i] = Push(pushed[i - 1], ss[i]) /\ ss[i] \in Source
    BY <1>4
  <2>2. Upto(i) = Upto(i - 1) \cup {ss[i]}
    OBVIOUS
  <2>3. pushed[i - 1] \in SourceList
    BY <1>6
  <2>4. /\ pushed[i] \in SourceList
        /\ Elements(pushed[i].terms) = Elements(pushed[i - 1].terms) \cup {ss[i]}
        /\ HasNoRepeats(pushed[i - 1].terms) => HasNoRepeats(pushed[i].terms)
    BY <2>1, <2>3, PushType
  <2> HIDE DEF Upto
  <2> QED BY <2>2, <2>4, <1>6
<1>7. Good(n)
  <2> DEFINE S == {i \in 0..n : Good(i)}
  <2> HIDE DEF Good
  <2>1. 0 \in S /\ \A i \in 1..n : i - 1 \in S => i \in S
    BY <1>5, <1>6
  <2>2. \A i \in 0..n : i \in S
    <3> HIDE DEF S
    <3> QED BY <1>0, <2>1, InductionUpTo
  <2> QED BY <1>0, <2>2
<1>8. Upto(n) = Elements(ss)
  BY DEF Elements
<1> QED BY <1>1, <1>7, <1>8

\* A list made from expressions holds exactly these, each once (SourceList::of).
LEMMA OfType ==
    ASSUME NEW ss \in Seq(Source)
    PROVE  /\ Of(ss) \in SourceList
           /\ Elements(Of(ss).terms) = Elements(ss)
           /\ HasNoRepeats(Of(ss).terms)
<1> DEFINE empty == SourcesList(<<>>)
<1>1. empty \in SourceList /\ Elements(empty.terms) = {} /\ HasNoRepeats(empty.terms)
  BY DEF SourcesList, SourceList, Elements, HasNoRepeats
<1>2. Of(ss) = PushEach(empty, ss)
  BY DEF Of
<1> HIDE DEF empty
<1>3. /\ PushEach(empty, ss) \in SourceList
      /\ Elements(PushEach(empty, ss).terms) = Elements(empty.terms) \cup Elements(ss)
      /\ HasNoRepeats(PushEach(empty, ss).terms)
  BY <1>1, PushEachType
<1> QED BY <1>1, <1>2, <1>3

\* The terms of a list are sources, also when the list is 'none'.
LEMMA TermsType ==
    ASSUME NEW list \in SourceList
    PROVE  list.terms \in Seq(Source)
<1>1. CASE list = NoneList
  BY <1>1 DEF NoneList
<1>2. CASE list # NoneList
  BY <1>2 DEF SourceList
<1> QED BY <1>1, <1>2

\* Of a sequence exactly the wanted part is kept, without repeats.
LEMMA KeptType ==
    ASSUME NEW T, NEW v \in Seq(T), NEW keep
    PROVE  /\ Kept(v, keep) \in Seq(T)
           /\ Elements(Kept(v, keep)) = Elements(v) \cap keep
           /\ HasNoRepeats(v) => HasNoRepeats(Kept(v, keep))
<1> DEFINE n == Len(v)
           Round(f) == [i \in 0..n |->
                           IF i = 0 THEN <<>>
                           ELSE IF v[i] \in keep THEN Append(f[i - 1], v[i])
                           ELSE f[i - 1]]
           kept == CHOOSE f : f = Round(f)
           step == [x \in Seq(T) \X (1..n) |->
                       IF v[x[2]] \in keep THEN Append(x[1], v[x[2]]) ELSE x[1]]
           Upto(i) == {v[j] : j \in 1..i}
           Good(i) == /\ kept[i] \in Seq(T)
                      /\ Elements(kept[i]) = Upto(i) \cap keep
                      /\ HasNoRepeats(v) => HasNoRepeats(kept[i])
<1>0. n \in Nat /\ \A i \in 1..n : v[i] \in T
  OBVIOUS
<1>1. Kept(v, keep) = kept[n]
  BY DEF Kept
<1>2. \E g : g = Round(g)
  <2>1. IsRound(Seq(T), n, step)
    BY <1>0 DEF IsRound
  <2>2. <<>> \in Seq(T)
    OBVIOUS
  <2>3. PICK g : IsRecord(Seq(T), n, <<>>, step, g)
    BY <1>0, <2>1, <2>2, IterationExists
  <2>4. \A i \in 0..n : g[i] = IF i = 0 THEN <<>>
                               ELSE IF v[i] \in keep THEN Append(g[i - 1], v[i])
                               ELSE g[i - 1]
    <3>1. g[0] = <<>>
      BY <2>3 DEF IsRecord
    <3>2. ASSUME NEW i \in 1..n
          PROVE  g[i] = IF v[i] \in keep THEN Append(g[i - 1], v[i]) ELSE g[i - 1]
      <4>1. g[i - 1] \in Seq(T) /\ g[i] = step[<<g[i - 1], i>>]
        <5> DEFINE Texts == Seq(T)
        <5>1. g \in [0..n -> Texts] /\ i - 1 \in 0..n
          BY <2>3, <1>0 DEF IsRecord
        <5>2. g[i] = step[<<g[i - 1], i>>]
          <6> HIDE DEF step, n, Texts
          <6> QED BY <2>3 DEF IsRecord
        <5> HIDE DEF Texts, n, step
        <5>3. g[i - 1] \in Texts
          BY <5>1
        <5> QED BY <5>2, <5>3 DEF Texts
      <4>2. <<g[i - 1], i>> \in Seq(T) \X (1..n)
        BY <4>1
      <4> QED BY <4>1, <4>2
    <3> QED BY <1>0, <3>1, <3>2
  <2>5. g = Round(g)
    BY <2>3, <2>4 DEF IsRecord
  <2> QED BY <2>5
<1>3. kept = Round(kept)
  BY <1>2
<1>4. \A i \in 0..n : kept[i] = IF i = 0 THEN <<>>
                                ELSE IF v[i] \in keep THEN Append(kept[i - 1], v[i])
                                ELSE kept[i - 1]
  <2> HIDE DEF kept
  <2> QED BY <1>3
<1> HIDE DEF kept
<1>5. Good(0)
  <2>1. kept[0] = <<>> /\ Upto(0) = {}
    BY <1>0, <1>4
  <2>2. Elements(<<>>) = {} /\ HasNoRepeats(<<>>)
    BY DEF Elements, HasNoRepeats
  <2> QED BY <2>1, <2>2
<1>6. ASSUME NEW i \in 1..n, Good(i - 1) PROVE Good(i)
  <2>1. Upto(i) = Upto(i - 1) \cup {v[i]} /\ v[i] \in T /\ i \in 0..n /\ i # 0
    BY <1>0
  <2>2. CASE v[i] \in keep
    <3>1. kept[i] = Append(kept[i - 1], v[i])
      BY <1>4, <2>1, <2>2
    <3>2. /\ kept[i] \in Seq(T)
          /\ Elements(kept[i]) = Elements(kept[i - 1]) \cup {v[i]}
          /\ (HasNoRepeats(kept[i - 1]) /\ v[i] \notin Elements(kept[i - 1]))
                => HasNoRepeats(kept[i])
      BY SMTT(40), <1>6, <2>1, <3>1, AppendElements
    <3>3. HasNoRepeats(v) => v[i] \notin Upto(i - 1)
      BY <1>0 DEF HasNoRepeats
    <3> HIDE DEF Upto
    <3> QED BY <1>6, <2>1, <2>2, <3>2, <3>3
  <2>3. CASE v[i] \notin keep
    <3>1. kept[i] = kept[i - 1]
      BY <1>4, <2>1, <2>3
    <3> HIDE DEF Upto
    <3> QED BY <1>6, <2>1, <2>3, <3>1
  <2> QED BY <2>2, <2>3
<1>7. Good(n)
  <2> DEFINE S == {i \in 0..n : Good(i)}
  <2> HIDE DEF Good
  <2>1. 0 \in S /\ \A i \in 1..n : i - 1 \in S => i \in S
    BY <1>5, <1>6
  <2>2. \A i \in 0..n : i \in S
    <3> HIDE DEF S
    <3> QED BY <1>0, <2>1, InductionUpTo
  <2> QED BY <1>0, <2>2
<1>8. Upto(n) = Elements(v)
  BY <1>0 DEF Elements
<1> QED BY <1>1, <1>7, <1>8

\* Retaining keeps exactly the wanted part, without repeats (SourceList::retain).
LEMMA RetainType ==
    ASSUME NEW list \in SourceList, NEW keep
    PROVE  /\ Retain(list, keep) \in SourceList
           /\ Elements(Retain(list, keep).terms) = Elements(list.terms) \cap keep
           /\ HasNoRepeats(list.terms) => HasNoRepeats(Retain(list, keep).terms)
<1> DEFINE v == list.terms
           kept == Kept(v, keep)
<1>1. v \in Seq(Source)
  BY TermsType
<1>2. /\ kept \in Seq(Source) /\ Elements(kept) = Elements(v) \cap keep
      /\ HasNoRepeats(v) => HasNoRepeats(kept)
  BY <1>1, KeptType
<1>3. Retain(list, keep) = [list EXCEPT !.terms = kept]
  BY DEF Retain
<1> HIDE DEF kept
<1>4. Retain(list, keep) \in SourceList /\ Retain(list, keep).terms = kept
  <2>1. CASE list = NoneList
    <3>1. Elements(kept) = {}
      BY <1>2, <2>1 DEF NoneList, Elements
    <3>2. kept = <<>>
      BY <1>2, <3>1 DEF Elements
    <3> QED BY <1>3, <2>1, <3>2 DEF SourceList, NoneList
  <2>2. CASE list # NoneList
    BY <1>2, <1>3, <2>2 DEF SourceList
  <2> QED BY <2>1, <2>2
<1> QED BY <1>2, <1>4

-----------------------------------------------------------------------------

Over(L, W) ==
    [name : SourceDirective, value : L]
        \cup [name : DirectiveName \ SourceDirective, value : W]

Policies(L, W) == {p \in Seq(Over(L, W)) : HasUniqueNames(p)}

\* Every directive of p is still where it was in q, whatever its value.
NamesKept(p, q) ==
    \A i \in DOMAIN p : i \in DOMAIN q /\ q[i].name = p[i].name

\* Directives with a source list are directives.
LEMMA NamesAreStrings == SourceDirective \subseteq DirectiveName
BY DEF DirectiveName

\* Position finds a directive of the name whenever there is one (Policy::position).
LEMMA PositionFinds ==
    ASSUME NEW T, NEW p \in Seq(T), NEW n
    PROVE  /\ Contains(p, n) <=> \E i \in 1..Len(p) : p[i].name = n
           /\ Position(p, n) \in 0..Len(p)
           /\ Contains(p, n) =>
                /\ Position(p, n) \in 1..Len(p)
                /\ p[Position(p, n)].name = n
<1>0. Len(p) \in Nat /\ DOMAIN p = 1..Len(p)
  OBVIOUS
<1>1. CASE \E i \in DOMAIN p : p[i].name = n
  <2> DEFINE At == {i \in DOMAIN p : p[i].name = n}
             First(i) == p[i].name = n /\ \A j \in 1..(i - 1) : p[j].name # n
  <2>1. At \in SUBSET Nat /\ At # {}
    BY <1>0, <1>1
  <2>2. PICK m \in At : \A k \in At : m <= k
    <3> HIDE DEF At
    <3> QED BY <2>1, LeastNatural
  <2>3. m \in DOMAIN p /\ First(m)
    BY <1>0, <2>2
  <2>4. Position(p, n) = CHOOSE i \in DOMAIN p : First(i)
    BY <1>1 DEF Position
  <2>5. Position(p, n) \in DOMAIN p /\ First(Position(p, n))
    <3> HIDE DEF First
    <3> QED BY <2>3, <2>4
  <2> QED BY <1>0, <1>1, <2>5 DEF Contains
<1>2. CASE ~\E i \in DOMAIN p : p[i].name = n
  <2>1. Position(p, n) = 0
    BY <1>2 DEF Position
  <2> QED BY <1>0, <1>2, <2>1 DEF Contains
<1> QED BY <1>1, <1>2

\* Where a name occurs once, its position is where it occurs.
LEMMA PositionIsUnique ==
    ASSUME NEW T, NEW p \in Seq(T), HasUniqueNames(p), NEW i \in 1..Len(p)
    PROVE  Contains(p, p[i].name) /\ Position(p, p[i].name) = i
<1>1. Contains(p, p[i].name)
  BY PositionFinds
<1>2. Position(p, p[i].name) \in 1..Len(p) /\ p[Position(p, p[i].name)].name = p[i].name
  BY <1>1, PositionFinds
<1> QED BY <1>1, <1>2 DEF HasUniqueNames

\* Replacing the value of a directive in place.
LEMMA ReplaceStays ==
    ASSUME NEW L, NEW W, NEW p \in Policies(L, W), NEW i \in 1..Len(p),
           NEW d \in Over(L, W), d.name = p[i].name
    PROVE  /\ [p EXCEPT ![i] = d] \in Policies(L, W)
           /\ NamesKept(p, [p EXCEPT ![i] = d])
<1>1. p \in Seq(Over(L, W)) /\ HasUniqueNames(p)
  BY DEF Policies
<1> DEFINE q == [p EXCEPT ![i] = d]
<1>2. q \in Seq(Over(L, W)) /\ DOMAIN q = DOMAIN p
  <2> HIDE DEF Over
  <2> QED BY <1>1
<1>3. \A j \in DOMAIN p : q[j].name = p[j].name
  <2> HIDE DEF Over
  <2> QED BY <1>1
<1>4. HasUniqueNames(q)
  <2> HIDE DEF q
  <2> QED BY <1>1, <1>2, <1>3 DEF HasUniqueNames
<1> HIDE DEF q
<1>5. q \in Policies(L, W) /\ NamesKept(p, q)
  BY <1>2, <1>3, <1>4 DEF Policies, NamesKept
<1> QED BY <1>5 DEF q

\* Adding a directive of a new name at the end.
LEMMA AppendStays ==
    ASSUME NEW L, NEW W, NEW p \in Policies(L, W), NEW d \in Over(L, W),
           ~Contains(p, d.name)
    PROVE  /\ Append(p, d) \in Policies(L, W)
           /\ NamesKept(p, Append(p, d))
           /\ Contains(Append(p, d), d.name)
<1>1. p \in Seq(Over(L, W)) /\ HasUniqueNames(p)
  BY DEF Policies
<1>2. \A i \in 1..Len(p) : p[i].name # d.name
  BY <1>1, PositionFinds
<1> DEFINE q == Append(p, d)
<1>3. /\ q \in Seq(Over(L, W)) /\ Len(p) \in Nat /\ Len(q) = Len(p) + 1
      /\ DOMAIN p = 1..Len(p) /\ DOMAIN q = 1..(Len(p) + 1)
      /\ \A i \in 1..Len(p) : q[i] = p[i]
      /\ q[Len(p) + 1] = d
  BY <1>1
<1> HIDE DEF q
<1>4. HasUniqueNames(q)
  BY <1>1, <1>2, <1>3 DEF HasUniqueNames
<1>5. Contains(q, d.name)
  <2>1. Len(p) + 1 \in 1..Len(q)
    BY <1>3
  <2> QED BY <1>3, <2>1, PositionFinds
<1>6. q \in Policies(L, W) /\ NamesKept(p, q)
  BY <1>3, <1>4 DEF Policies, NamesKept
<1> QED BY <1>5, <1>6 DEF q

\* Policy::set keeps the names of a policy unique and in place.
LEMMA SetStays ==
    ASSUME NEW L, NEW W, NEW p \in Policies(L, W), NEW d \in Over(L, W)
    PROVE  /\ Set(p, d) \in Policies(L, W)
           /\ NamesKept(p, Set(p, d))
           /\ Contains(Set(p, d), d.name)
<1>1. p \in Seq(Over(L, W))
  BY DEF Policies
<1>2. CASE Contains(p, d.name)
  <2> DEFINE i == Position(p, d.name)
  <2>1. i \in 1..Len(p) /\ p[i].name = d.name
    BY <1>1, <1>2, PositionFinds
  <2> HIDE DEF i
  <2> DEFINE q == [p EXCEPT ![i] = d]
  <2>2. q \in Policies(L, W) /\ NamesKept(p, q)
    BY <2>1, ReplaceStays
  <2>3. Contains(q, d.name)
    <3>1. q \in Seq(Over(L, W)) /\ i \in 1..Len(q)
      BY <2>1, <2>2, <1>1 DEF Policies
    <3>2. q[i].name = d.name
      BY <2>1, <1>1
    <3> HIDE DEF q
    <3> QED BY <3>1, <3>2, PositionFinds
  <2>4. Set(p, d) = q
    BY <1>2 DEF Set, i
  <2> QED BY <2>2, <2>3, <2>4
<1>3. CASE ~Contains(p, d.name)
  BY <1>3, AppendStays DEF Set
<1> QED BY <1>2, <1>3

\* The list of a source-list directive is one of L.
LEMMA ListOfType ==
    ASSUME NEW L, NEW W, NEW p \in Policies(L, W), NEW n \in SourceDirective,
           Contains(p, n)
    PROVE  /\ Position(p, n) \in 1..Len(p)
           /\ p[Position(p, n)].name = n
           /\ ListOf(p, n) \in L
<1>1. p \in Seq(Over(L, W))
  BY DEF Policies
<1> DEFINE i == Position(p, n)
<1>2. i \in 1..Len(p) /\ p[i].name = n
  BY <1>1, PositionFinds
<1>3. p[i] \in Over(L, W)
  <2> HIDE DEF Over, i
  <2> QED BY <1>1, <1>2
<1>4. p[i].value \in L
  <2> HIDE DEF i
  <2> QED BY <1>2, <1>3 DEF Over
<1> QED BY <1>2, <1>4 DEF ListOf

\* A source-list directive is one of the directives over a set of lists.
LEMMA SourcesType ==
    ASSUME NEW L, NEW W, NEW n \in SourceDirective, NEW list \in L
    PROVE  Sources(n, list) \in Over(L, W) /\ Sources(n, list).name = n
BY DEF Sources, Over

\* Policy::extend_sources keeps the names unique and in place, and makes no list
\* but those pushing makes.
LEMMA ExtendStays ==
    ASSUME NEW L, NEW W, NEW p \in Policies(L, W), NEW n \in SourceDirective, NEW ss,
           SourcesList(<<>>) \in L, \A list \in L : PushEach(list, ss) \in L
    PROVE  /\ ExtendSources(p, n, ss) \in Policies(L, W)
           /\ NamesKept(p, ExtendSources(p, n, ss))
<1>1. CASE Contains(p, n)
  <2> DEFINE i == Position(p, n)
             d == Sources(n, PushEach(ListOf(p, n), ss))
  <2>1. i \in 1..Len(p) /\ p[i].name = n /\ ListOf(p, n) \in L
    BY <1>1, ListOfType
  <2>2. d \in Over(L, W) /\ d.name = n
    BY <2>1, SourcesType
  <2>3. ExtendSources(p, n, ss) = [p EXCEPT ![i] = d]
    BY <1>1 DEF ExtendSources
  <2> HIDE DEF i, d
  <2>4. [p EXCEPT ![i] = d] \in Policies(L, W) /\ NamesKept(p, [p EXCEPT ![i] = d])
    BY <2>1, <2>2, ReplaceStays
  <2> QED BY <2>3, <2>4
<1>2. CASE ~Contains(p, n)
  <2> DEFINE d == Sources(n, Of(ss))
  <2>1. d \in Over(L, W) /\ d.name = n
    BY SourcesType DEF Of
  <2>2. ExtendSources(p, n, ss) = Append(p, d)
    BY <1>2 DEF ExtendSources
  <2> HIDE DEF d
  <2> QED BY <1>2, <2>1, <2>2, AppendStays
<1> QED BY <1>1, <1>2

\* Retaining a part of one list keeps the names unique and in place.
LEMMA RetainStays ==
    ASSUME NEW L, NEW W, NEW p \in Policies(L, W), NEW n \in SourceDirective, NEW keep,
           \A list \in L : Retain(list, keep) \in L
    PROVE  /\ RetainIn(p, n, keep) \in Policies(L, W)
           /\ NamesKept(p, RetainIn(p, n, keep))
<1>1. CASE Contains(p, n)
  <2> DEFINE i == Position(p, n)
             d == Sources(n, Retain(ListOf(p, n), keep))
  <2>1. i \in 1..Len(p) /\ p[i].name = n /\ ListOf(p, n) \in L
    BY <1>1, ListOfType
  <2>2. d \in Over(L, W) /\ d.name = n
    BY <2>1, SourcesType
  <2>3. RetainIn(p, n, keep) = [p EXCEPT ![i] = d]
    BY <1>1 DEF RetainIn
  <2> HIDE DEF i, d
  <2>4. [p EXCEPT ![i] = d] \in Policies(L, W) /\ NamesKept(p, [p EXCEPT ![i] = d])
    BY <2>1, <2>2, ReplaceStays
  <2> QED BY <2>3, <2>4
<1>2. CASE ~Contains(p, n)
  BY <1>2 DEF RetainIn, NamesKept
<1> QED BY <1>1, <1>2

\* Removal closes the gap: what was after it moves up by one.
LEMMA RemoveShifts ==
    ASSUME NEW T, NEW p \in Seq(T), NEW n, Contains(p, n)
    PROVE  /\ Position(p, n) \in 1..Len(p)
           /\ Remove(p, n) \in Seq(T)
           /\ DOMAIN Remove(p, n) = 1..(Len(p) - 1)
           /\ \A j \in 1..(Len(p) - 1) :
                Remove(p, n)[j] = IF j < Position(p, n) THEN p[j] ELSE p[j + 1]
<1> DEFINE i == Position(p, n)
           front == SubSeq(p, 1, i - 1)
           back == SubSeq(p, i + 1, Len(p))
<1>1. i \in 1..Len(p) /\ Len(p) \in Nat
  BY PositionFinds
<1>2. Remove(p, n) = front \o back
  <2>1. i # 0
    BY <1>1
  <2> QED BY <2>1 DEF Remove
<1> HIDE DEF i
<1>3. front \in Seq(T) /\ Len(front) = i - 1 /\ \A j \in 1..(i - 1) : front[j] = p[j]
  BY <1>1
<1>4. /\ back \in Seq(T) /\ Len(back) = Len(p) - i
      /\ \A j \in 1..(Len(p) - i) : back[j] = p[i + j]
  BY <1>1
<1> HIDE DEF front, back
<1>5. /\ front \o back \in Seq(T)
      /\ Len(front \o back) = Len(p) - 1
      /\ \A j \in 1..(Len(p) - 1) :
            (front \o back)[j] = IF j < i THEN front[j] ELSE back[j - (i - 1)]
  <2>1. /\ front \o back \in Seq(T)
        /\ Len(front \o back) = Len(front) + Len(back)
        /\ \A j \in 1..(Len(front) + Len(back)) : (front \o back)[j] =
              IF j <= Len(front) THEN front[j] ELSE back[j - Len(front)]
    BY <1>3, <1>4, ConcatProperties
  <2> QED BY <1>1, <1>3, <1>4, <2>1
<1>6. ASSUME NEW j \in 1..(Len(p) - 1)
      PROVE  (front \o back)[j] = IF j < i THEN p[j] ELSE p[j + 1]
  <2>1. CASE j < i
    <3>1. j \in 1..(i - 1)
      BY <1>1, <2>1
    <3> QED BY <2>1, <3>1, <1>3, <1>5
  <2>2. CASE ~(j < i)
    <3>1. j - (i - 1) \in 1..(Len(p) - i) /\ i + (j - (i - 1)) = j + 1
      BY <1>1, <2>2
    <3>2. back[j - (i - 1)] = p[j + 1]
      BY <3>1, <1>4
    <3> QED BY <2>2, <3>2, <1>5
  <2> QED BY <2>1, <2>2
<1>7. DOMAIN (front \o back) = 1..(Len(p) - 1)
  BY <1>5
<1> QED BY <1>1, <1>2, <1>5, <1>6, <1>7 DEF i

\* Policy::remove keeps the names unique and makes no list.
LEMMA RemoveStays ==
    ASSUME NEW L, NEW W, NEW p \in Policies(L, W), NEW n
    PROVE  Remove(p, n) \in Policies(L, W)
<1>1. p \in Seq(Over(L, W)) /\ HasUniqueNames(p)
  BY DEF Policies
<1>2. CASE Contains(p, n)
  <2> DEFINE q == Remove(p, n)
             i == Position(p, n)
  <2>1. /\ i \in 1..Len(p)
        /\ q \in Seq(Over(L, W)) /\ DOMAIN q = 1..(Len(p) - 1)
        /\ \A j \in 1..(Len(p) - 1) : q[j] = IF j < i THEN p[j] ELSE p[j + 1]
    BY <1>1, <1>2, RemoveShifts
  <2>2. DOMAIN p = 1..Len(p) /\ Len(p) \in Nat
    BY <1>1
  <2> HIDE DEF q, i
  <2>3. ASSUME NEW a \in DOMAIN q, NEW b \in DOMAIN q, q[a].name = q[b].name
        PROVE  a = b
    <3> DEFINE from(j) == IF j < i THEN j ELSE j + 1
    <3>1. \A j \in DOMAIN q : from(j) \in DOMAIN p /\ q[j] = p[from(j)]
      BY <2>1, <2>2
    <3>2. from(a) = from(b)
      <4> HIDE DEF from
      <4> QED BY <1>1, <2>3, <3>1 DEF HasUniqueNames
    <3> QED BY <2>1, <3>2
  <2>4. HasUniqueNames(q)
    BY <2>3 DEF HasUniqueNames
  <2> QED BY <2>1, <2>4 DEF Policies, q
<1>3. CASE ~Contains(p, n)
  <2>1. Remove(p, n) = p
    BY <1>3 DEF Remove, Contains
  <2> QED BY <2>1
<1> QED BY <1>2, <1>3

\* Names kept is kept along a run of calls.
LEMMA NamesKeptChains ==
    ASSUME NEW p, NEW q, NEW r, NamesKept(p, q), NamesKept(q, r)
    PROVE  NamesKept(p, r)
BY DEF NamesKept

-----------------------------------------------------------------------------
\* The directives of q that p already had stand first, in the order p had them in.
OrderKeptFrom(p, q) ==
    \A i, j \in DOMAIN q :
        (i < j /\ Contains(p, q[j].name))
            => /\ Contains(p, q[i].name)
               /\ Position(p, q[i].name) < Position(p, q[j].name)

\* Directives that stay at their index keep their order.
LEMMA NamesKeptOrder ==
    ASSUME NEW T, NEW p \in Seq(T), NEW q \in Seq(T),
           HasUniqueNames(p), HasUniqueNames(q), NamesKept(p, q)
    PROVE  OrderKeptFrom(p, q)
<1> SUFFICES ASSUME NEW i \in DOMAIN q, NEW j \in DOMAIN q,
                    i < j, Contains(p, q[j].name)
             PROVE  /\ Contains(p, q[i].name)
                    /\ Position(p, q[i].name) < Position(p, q[j].name)
  BY DEF OrderKeptFrom
<1>1. DOMAIN p = 1..Len(p) /\ DOMAIN q = 1..Len(q) /\ Len(p) \in Nat /\ Len(q) \in Nat
  OBVIOUS
<1>2. PICK k \in 1..Len(p) : p[k].name = q[j].name
  BY PositionFinds
<1>3. k = j
  BY <1>1, <1>2 DEF NamesKept, HasUniqueNames
<1>4. i \in 1..Len(p) /\ q[i].name = p[i].name /\ q[j].name = p[j].name
  BY <1>1, <1>2, <1>3 DEF NamesKept
<1>5. /\ Contains(p, p[i].name) /\ Position(p, p[i].name) = i
      /\ Position(p, p[j].name) = j
  BY <1>2, <1>3, <1>4, PositionIsUnique
<1> QED BY <1>4, <1>5

\* Policy::remove keeps the order of the directives that remain.
LEMMA RemoveOrder ==
    ASSUME NEW T, NEW p \in Seq(T), HasUniqueNames(p), NEW n
    PROVE  OrderKeptFrom(p, Remove(p, n))
<1>1. DOMAIN p = 1..Len(p) /\ Len(p) \in Nat
  OBVIOUS
<1>2. CASE Contains(p, n)
  <2> DEFINE q == Remove(p, n)
             at == Position(p, n)
             from(j) == IF j < at THEN j ELSE j + 1
  <2>1. /\ at \in 1..Len(p) /\ DOMAIN q = 1..(Len(p) - 1)
        /\ \A j \in 1..(Len(p) - 1) : q[j] = IF j < at THEN p[j] ELSE p[j + 1]
    BY <1>2, RemoveShifts
  <2> HIDE DEF q, at
  <2>2. \A j \in DOMAIN q : from(j) \in 1..Len(p) /\ q[j] = p[from(j)]
    BY <1>1, <2>1
  <2>3. \A i, j \in DOMAIN q : i < j => from(i) < from(j)
    BY <1>1, <2>1
  <2> HIDE DEF from
  <2>4. \A j \in DOMAIN q : Contains(p, q[j].name) /\ Position(p, q[j].name) = from(j)
    BY <2>2, PositionIsUnique
  <2>5. OrderKeptFrom(p, q)
    BY <2>3, <2>4 DEF OrderKeptFrom
  <2> QED BY <2>5 DEF q
<1>3. CASE ~Contains(p, n)
  <2>1. Remove(p, n) = p
    BY <1>3 DEF Remove, Contains
  <2>2. OrderKeptFrom(p, p)
    BY <1>1, PositionIsUnique DEF OrderKeptFrom
  <2> QED BY <2>1, <2>2
<1> QED BY <1>2, <1>3

-----------------------------------------------------------------------------
(***************************************************************************)
(* Rendering.                                                              *)
(***************************************************************************)

\* What rendering one more directive appends.
Appended(p, from, i, s) ==
    IF i < from THEN <<>>
    ELSE s \o (IF i > 1 THEN Separator ELSE <<>>) \o DirectiveTokens(p[i])

\* The texts of rendering the directives from..i, for every i up to a bound.
IsRendering(Token, p, from, to, text) ==
    /\ text \in [0..to -> Seq(Token)]
    /\ text[0] = <<>>
    /\ \A i \in 1..to : text[i] = Appended(p, from, i, text[i - 1])

\* Two renderings agree as far as both go, if the directives do.
LEMMA RenderingsAgree ==
    ASSUME NEW Token, NEW p, NEW q, NEW from \in Nat, NEW to \in Nat, NEW k \in 0..to,
           NEW f, IsRendering(Token, p, from, to, f),
           NEW g, IsRendering(Token, q, from, k, g),
           \A i \in 1..k : from <= i => DirectiveTokens(p[i]) = DirectiveTokens(q[i])
    PROVE  f[k] = g[k]
<1> DEFINE S == {i \in 0..k : f[i] = g[i]}
<1>1. 0 \in S
  BY DEF IsRendering
<1>2. ASSUME NEW i \in 1..k, i - 1 \in S PROVE i \in S
  <2>1. f[i - 1] = g[i - 1] /\ i \in 1..to
    BY <1>2
  <2>2. f[i] = Appended(p, from, i, f[i - 1]) /\ g[i] = Appended(q, from, i, g[i - 1])
    BY <2>1 DEF IsRendering
  <2>3. f[i] = g[i]
    BY <2>1, <2>2 DEF Appended
  <2> QED BY <2>3
<1>3. \A i \in 0..k : i \in S
  <2> HIDE DEF S
  <2> QED BY <1>1, <1>2, InductionUpTo
<1> QED BY <1>3

\* Rendering a stretch of a policy has such texts, and is the last of them.
LEMMA RenderedRun ==
    ASSUME NEW Token, Separator \in Seq(Token), NEW p, NEW from \in Nat, from # 0, NEW to \in Nat,
           \A k \in from..to : DirectiveTokens(p[k]) \in Seq(Token)
    PROVE  \E text : IsRendering(Token, p, from, to, text) /\ text[to] = Rendered(p, from, to)
<1> DEFINE Round(f) == [i \in 0..to |-> Appended(p, from, i, f[i - 1])]
           text == CHOOSE f : f = Round(f)
           step == [x \in Seq(Token) \X (1..to) |-> Appended(p, from, x[2], x[1])]
<1>1. Rendered(p, from, to) = text[to]
  BY DEF Rendered, Appended
<1>2. ASSUME NEW s \in Seq(Token), NEW i \in 1..to
      PROVE  Appended(p, from, i, s) \in Seq(Token)
  <2> DEFINE separator == IF i > 1 THEN Separator ELSE <<>>
  <2>1. CASE i < from
    <3>1. Appended(p, from, i, s) = <<>>
      BY <2>1 DEF Appended
    <3>2. <<>> \in Seq(Token)
      OBVIOUS
    <3> QED BY <3>1, <3>2
  <2>2. CASE ~(i < from)
    <3>0. i \in from..to
      BY <2>2
    <3>1. DirectiveTokens(p[i]) \in Seq(Token)
      BY <3>0
    <3>2. separator \in Seq(Token)
      OBVIOUS
    <3>3. Appended(p, from, i, s) = s \o separator \o DirectiveTokens(p[i])
      BY <2>2 DEF Appended
    <3> HIDE DEF separator
    <3>4. s \o separator \o DirectiveTokens(p[i]) \in Seq(Token)
      BY <3>1, <3>2, ConcatProperties
    <3> QED BY <3>3, <3>4
  <2> QED BY <2>1, <2>2
<1>3. \A s : Appended(p, from, 0, s) = <<>>
  BY DEF Appended
<1>4. PICK g : IsRecord(Seq(Token), to, <<>>, step, g)
  <2>1. IsRound(Seq(Token), to, step)
    BY <1>2 DEF IsRound
  <2>2. <<>> \in Seq(Token)
    OBVIOUS
  <2> HIDE DEF step
  <2> QED BY <2>1, <2>2, IterationExists
<1>5. ASSUME NEW i \in 1..to PROVE g[i] = Appended(p, from, i, g[i - 1])
  <2>1. g[i - 1] \in Seq(Token) /\ g[i] = step[<<g[i - 1], i>>]
    <3> HIDE DEF step
    <3> QED BY <1>4 DEF IsRecord
  <2>2. <<g[i - 1], i>> \in Seq(Token) \X (1..to)
    BY <2>1
  <2> QED BY <2>1, <2>2
<1>6. g = Round(g)
  <2>1. \A i \in 0..to : g[i] = Appended(p, from, i, g[i - 1])
    BY <1>3, <1>4, <1>5 DEF IsRecord
  <2> QED BY <1>4, <2>1 DEF IsRecord
<1>7. text = Round(text)
  BY <1>6
<1>8. \A i \in 0..to : text[i] = Appended(p, from, i, text[i - 1])
  <2> HIDE DEF text
  <2> QED BY <1>7
<1> HIDE DEF text
<1> DEFINE S == {i \in 0..to : text[i] = g[i]}
<1>9. 0 \in S
  BY <1>3, <1>4, <1>8 DEF IsRecord
<1>10. ASSUME NEW i \in 1..to, i - 1 \in S PROVE i \in S
  <2>1. text[i - 1] = g[i - 1] /\ i \in 0..to
    BY <1>10
  <2>2. text[i] = Appended(p, from, i, text[i - 1]) /\ g[i] = Appended(p, from, i, g[i - 1])
    BY <1>5, <1>8, <2>1
  <2> QED BY <2>1, <2>2
<1>11. \A i \in 0..to : i \in S
  <2> HIDE DEF S
  <2> QED BY <1>9, <1>10, InductionUpTo
<1>12. text[to] = g[to]
  BY <1>11
<1>13. IsRendering(Token, p, from, to, g)
  BY <1>4, <1>5 DEF IsRecord, IsRendering
<1> QED BY <1>1, <1>12, <1>13

\* Rendering one directive at a time (Policy::to_header_value, and the writer of
\* csp.rs, split_around_script_src).
LEMMA RenderedUnfolds ==
    ASSUME NEW Token, Separator \in Seq(Token), NEW p, NEW from \in Nat, from # 0, NEW to \in Nat,
           \A k \in from..to : DirectiveTokens(p[k]) \in Seq(Token)
    PROVE  /\ Rendered(p, from, to) \in Seq(Token)
           /\ to < from => Rendered(p, from, to) = <<>>
           /\ to >= from => Rendered(p, from, to) = Appended(p, from, to, Rendered(p, from, to - 1))
<1>1. PICK f : IsRendering(Token, p, from, to, f) /\ f[to] = Rendered(p, from, to)
  BY RenderedRun
<1>2. Rendered(p, from, to) \in Seq(Token)
  BY <1>1 DEF IsRendering
<1>3. ASSUME to < from PROVE Rendered(p, from, to) = <<>>
  <2>1. to = 0 \/ to \in 1..to
    OBVIOUS
  <2> QED BY <1>1, <1>3, <2>1 DEF IsRendering, Appended
<1>4. ASSUME to >= from
      PROVE  Rendered(p, from, to) = Appended(p, from, to, Rendered(p, from, to - 1))
  <2>1. to - 1 \in Nat /\ to - 1 \in 0..to /\ to \in 1..to
    BY <1>4
  <2>2. \A k \in from..(to - 1) : DirectiveTokens(p[k]) \in Seq(Token)
    BY <2>1
  <2> DEFINE last == to - 1
  <2> HIDE DEF last
  <2>3. PICK g : IsRendering(Token, p, from, last, g) /\ g[last] = Rendered(p, from, last)
    BY ZenonT(60), <2>1, <2>2, RenderedRun DEF last
  <2>4. f[last] = g[last]
    BY <1>1, <2>1, <2>3, RenderingsAgree DEF last
  <2>5. f[to] = Appended(p, from, to, f[to - 1])
    BY <1>1, <2>1 DEF IsRendering
  <2> QED BY <1>1, <2>3, <2>4, <2>5 DEF last
<1> QED BY <1>2, <1>3, <1>4

\* The directives of a stretch of p and q render the same tokens.
SameTokens(Token, p, q, from, to) ==
    \A k \in from..to : /\ DirectiveTokens(p[k]) \in Seq(Token)
                        /\ DirectiveTokens(p[k]) = DirectiveTokens(q[k])

\* Rendering looks at the directives of its stretch only.
LEMMA RenderedAgree ==
    ASSUME NEW Token, Separator \in Seq(Token), NEW p, NEW q,
           NEW from \in Nat, from # 0, NEW to \in Nat,
           SameTokens(Token, p, q, from, to)
    PROVE  Rendered(p, from, to) = Rendered(q, from, to)
<1>0. \A k \in from..to : /\ DirectiveTokens(p[k]) \in Seq(Token)
                          /\ DirectiveTokens(p[k]) = DirectiveTokens(q[k])
  BY DEF SameTokens
<1>1. PICK f : IsRendering(Token, p, from, to, f) /\ f[to] = Rendered(p, from, to)
  BY <1>0, RenderedRun
<1>2. \A k \in from..to : DirectiveTokens(q[k]) \in Seq(Token)
  BY <1>0
<1>3. PICK g : IsRendering(Token, q, from, to, g) /\ g[to] = Rendered(q, from, to)
  BY <1>2, RenderedRun
<1>4. to \in 0..to /\ \A i \in 1..to : from <= i => i \in from..to
  OBVIOUS
<1>5. f[to] = g[to]
  BY <1>0, <1>1, <1>3, <1>4, RenderingsAgree
<1> QED BY <1>1, <1>3, <1>5

\* A policy is rendered in two parts as it is in one (csp.rs, split_around_script_src).
LEMMA RenderedSplits ==
    ASSUME NEW Token, Separator \in Seq(Token), NEW p, NEW to \in Nat, NEW k \in 0..to,
           \A i \in 1..to : DirectiveTokens(p[i]) \in Seq(Token)
    PROVE  Rendered(p, 1, to) = Rendered(p, 1, k) \o Rendered(p, k + 1, to)
<1> DEFINE front == Rendered(p, 1, k)
           whole(i) == Rendered(p, 1, i)
           back(i) == Rendered(p, k + 1, i)
           Good(i) == i < k \/ whole(i) = front \o back(i)
           S == {i \in 0..to : Good(i)}
<1>1. ASSUME NEW i \in 0..to
      PROVE  /\ whole(i) \in Seq(Token) /\ back(i) \in Seq(Token)
             /\ i > k => whole(i) = Appended(p, 1, i, whole(i - 1))
             /\ i > k => back(i) = Appended(p, k + 1, i, back(i - 1))
             /\ i <= k => back(i) = <<>>
  <2>1. whole(i) \in Seq(Token) /\ (i >= 1 => whole(i) = Appended(p, 1, i, whole(i - 1)))
    <3>1. \A j \in 1..i : DirectiveTokens(p[j]) \in Seq(Token)
      OBVIOUS
    <3>2. 1 \in Nat /\ 1 # 0 /\ i \in Nat
      OBVIOUS
    <3> QED BY ZenonT(60), <3>1, <3>2, RenderedUnfolds
  <2>2. /\ back(i) \in Seq(Token)
        /\ i < k + 1 => back(i) = <<>>
        /\ i >= k + 1 => back(i) = Appended(p, k + 1, i, back(i - 1))
    <3> DEFINE next == k + 1
    <3>1. next \in Nat /\ next # 0 /\ i \in Nat
      OBVIOUS
    <3>2. \A j \in next..i : DirectiveTokens(p[j]) \in Seq(Token)
      OBVIOUS
    <3> HIDE DEF next
    <3>3. /\ Rendered(p, next, i) \in Seq(Token)
          /\ i < next => Rendered(p, next, i) = <<>>
          /\ i >= next => Rendered(p, next, i) = Appended(p, next, i, Rendered(p, next, i - 1))
      BY ZenonT(60), <3>1, <3>2, RenderedUnfolds
    <3> QED BY <3>3 DEF next
  <2> HIDE DEF whole, back
  <2> QED BY <2>1, <2>2
<1>2. front = whole(k) /\ front \in Seq(Token)
  BY <1>1
<1> HIDE DEF front, whole, back
<1>3. Good(k)
  <2>1. back(k) = <<>>
    BY <1>1
  <2> QED BY <1>2, <2>1, ConcatEmptySeq
<1>4. ASSUME NEW i \in 1..to, i - 1 \in S PROVE i \in S
  <2>1. CASE i < k
    BY <2>1
  <2>2. CASE i = k
    BY <1>3, <2>2
  <2>3. CASE i > k
    <3> DEFINE before == whole(i - 1)
               after == back(i - 1)
               gap == IF i > 1 THEN Separator ELSE <<>>
               last == DirectiveTokens(p[i])
    <3>1. before = front \o after
      BY <1>4, <2>3
    <3>2. before \in Seq(Token) /\ after \in Seq(Token)
      BY <1>1
    <3>3. gap \in Seq(Token) /\ last \in Seq(Token)
      OBVIOUS
    <3>4. i \in 0..to /\ ~(i < 1) /\ ~(i < k + 1)
      BY <2>3
    <3>5. whole(i) = Appended(p, 1, i, before) /\ back(i) = Appended(p, k + 1, i, after)
      BY <1>1, <2>3, <3>4
    <3>6. whole(i) = (before \o gap) \o last /\ back(i) = (after \o gap) \o last
      <4> HIDE DEF before, after
      <4> QED BY <3>4, <3>5 DEF Appended
    <3> HIDE DEF before, after, gap, last
    <3>7. ((front \o after) \o gap) \o last = front \o ((after \o gap) \o last)
      <4>1. /\ front \in Seq(Token) /\ after \in Seq(Token)
            /\ gap \in Seq(Token) /\ last \in Seq(Token)
        BY <1>2, <3>2, <3>3
      <4> DEFINE inner == after \o gap
      <4>2. inner \in Seq(Token)
        BY <4>1, ConcatProperties
      <4>3. (front \o after) \o gap = front \o inner
        BY SMTT(40), <4>1, ConcatAssociative
      <4> HIDE DEF inner
      <4>4. (front \o inner) \o last = front \o (inner \o last)
        BY SMTT(40), <4>1, <4>2, ConcatAssociative
      <4> QED BY <4>3, <4>4 DEF inner
    <3>8. whole(i) = front \o back(i)
      BY <3>1, <3>6, <3>7
    <3> QED BY <3>8
  <2> QED BY <2>1, <2>2, <2>3
<1>5. 0 \in S
  <2>1. CASE k = 0
    BY <1>3, <2>1
  <2>2. CASE k # 0
    BY <2>2
  <2> QED BY <2>1, <2>2
<1>6. \A i \in 0..to : i \in S
  <2> HIDE DEF S
  <2> QED BY <1>4, <1>5, InductionUpTo
<1>7. Good(to)
  BY <1>6
<1>8. whole(to) = front \o back(to)
  BY <1>7
<1> QED BY <1>8 DEF whole, back, front

-----------------------------------------------------------------------------
(***************************************************************************)
(* The lists the builder can hold, call by call.                           *)
(***************************************************************************)
UnsafeEval == "'unsafe-eval'"

Lists(eval, rep) ==
    {list \in SourceList : /\ eval \/ UnsafeEval \notin Elements(list.terms)
                           /\ rep \/ HasNoRepeats(list.terms)}

Words(rep) == {v \in TermsValue : rep \/ HasNoRepeats(v.terms)}

Fine(eval, rep) == Policies(Lists(eval, rep), Words(rep))

EvalNamed == "allow_unsafe_eval" \in named

FinePolicy == policy \in Fine(EvalNamed, handed)

IInv == TypeOK /\ FinePolicy

-----------------------------------------------------------------------------
\* The two lists without expressions are fine under any account of the calls.
LEMMA EmptyIsFine ==
    ASSUME NEW eval, NEW rep
    PROVE  SourcesList(<<>>) \in Lists(eval, rep) /\ NoneList \in Lists(eval, rep)
<1>1. SourcesList(<<>>).terms = <<>> /\ NoneList.terms = <<>>
  BY DEF SourcesList, NoneList
<1>2. Elements(<<>>) = {} /\ HasNoRepeats(<<>>)
  BY DEF Elements, HasNoRepeats
<1>3. SourcesList(<<>>) \in SourceList /\ NoneList \in SourceList
  BY DEF SourcesList, SourceList
<1> QED BY <1>1, <1>2, <1>3 DEF Lists

\* Pushing expressions that are accounted for keeps a list fine.
LEMMA PushEachIsFine ==
    ASSUME NEW eval, NEW rep, NEW ss \in Seq(Source),
           eval \/ UnsafeEval \notin Elements(ss),
           NEW list \in Lists(eval, rep)
    PROVE  PushEach(list, ss) \in Lists(eval, rep)
<1>1. list \in SourceList /\ (eval \/ UnsafeEval \notin Elements(list.terms))
                          /\ (rep \/ HasNoRepeats(list.terms))
  BY DEF Lists
<1>2. /\ PushEach(list, ss) \in SourceList
      /\ Elements(PushEach(list, ss).terms) = Elements(list.terms) \cup Elements(ss)
      /\ HasNoRepeats(list.terms) => HasNoRepeats(PushEach(list, ss).terms)
  BY <1>1, PushEachType
<1> QED BY <1>1, <1>2 DEF Lists

\* A list made from expressions that are accounted for is fine.
LEMMA OfIsFine ==
    ASSUME NEW eval, NEW rep, NEW ss \in Seq(Source),
           eval \/ UnsafeEval \notin Elements(ss)
    PROVE  Of(ss) \in Lists(eval, rep)
BY OfType DEF Lists

\* A part of a fine list is fine.
LEMMA RetainIsFine ==
    ASSUME NEW eval, NEW rep, NEW keep, NEW list \in Lists(eval, rep)
    PROVE  Retain(list, keep) \in Lists(eval, rep)
<1>1. list \in SourceList /\ (eval \/ UnsafeEval \notin Elements(list.terms))
                          /\ (rep \/ HasNoRepeats(list.terms))
  BY DEF Lists
<1>2. /\ Retain(list, keep) \in SourceList
      /\ Elements(Retain(list, keep).terms) = Elements(list.terms) \cap keep
      /\ HasNoRepeats(list.terms) => HasNoRepeats(Retain(list, keep).terms)
  BY <1>1, RetainType
<1> QED BY <1>1, <1>2 DEF Lists

\* A fine policy has directives of the right shape, each name once.
LEMMA FineTypes ==
    ASSUME NEW eval, NEW rep, NEW p \in Fine(eval, rep)
    PROVE  p \in Seq(Directive) /\ HasUniqueNames(p)
<1>1. Over(Lists(eval, rep), Words(rep)) \subseteq Directive
  BY DEF Over, Directive, Lists, Words
<1>2. p \in Seq(Over(Lists(eval, rep), Words(rep))) /\ HasUniqueNames(p)
  BY DEF Fine, Policies
<1> HIDE DEF Over
<1>3. \A i \in 1..Len(p) : p[i] \in Directive
  BY <1>1, <1>2
<1> QED BY <1>2, <1>3

\* More calls only make more lists possible.
LEMMA FineGrows ==
    ASSUME NEW e1, NEW r1, NEW e2, NEW r2, e1 => e2, r1 => r2,
           NEW p \in Fine(e1, r1)
    PROVE  p \in Fine(e2, r2)
<1>1. Lists(e1, r1) \subseteq Lists(e2, r2) /\ Words(r1) \subseteq Words(r2)
  BY DEF Lists, Words
<1>2. Over(Lists(e1, r1), Words(r1)) \subseteq Over(Lists(e2, r2), Words(r2))
  BY <1>1 DEF Over
<1>3. p \in Seq(Over(Lists(e1, r1), Words(r1))) /\ HasUniqueNames(p)
  BY DEF Fine, Policies
<1>4. \A i \in 1..Len(p) : p[i] \in Over(Lists(e2, r2), Words(r2))
  BY <1>2, <1>3
<1>5. p \in Seq(Over(Lists(e2, r2), Words(r2)))
  BY <1>3, <1>4
<1> QED BY <1>3, <1>5 DEF Fine, Policies

-----------------------------------------------------------------------------
\* A fallback chain names source-list directives.
LEMMA FallbackChainType ==
    ASSUME NEW n
    PROVE  FallbackChain(n) \in Seq(SourceDirective)
<1>1. /\ "default-src" \in SourceDirective /\ "script-src" \in SourceDirective
      /\ "style-src" \in SourceDirective /\ "child-src" \in SourceDirective
  BY DEF SourceDirective
<1> DEFINE D == SourceDirective
<1>2. /\ <<>> \in Seq(D) /\ <<"default-src">> \in Seq(D)
      /\ <<"script-src", "default-src">> \in Seq(D)
      /\ <<"style-src", "default-src">> \in Seq(D)
      /\ <<"child-src", "default-src">> \in Seq(D)
  <2> HIDE DEF D
  <2> QED BY <1>1 DEF D
<1>3. \/ FallbackChain(n) = <<>> \/ FallbackChain(n) = <<"default-src">>
      \/ FallbackChain(n) = <<"script-src", "default-src">>
      \/ FallbackChain(n) = <<"style-src", "default-src">>
      \/ FallbackChain(n) = <<"child-src", "default-src">>
  BY DEF FallbackChain
<1> QED BY <1>2, <1>3

\* What an absent directive inherits is a fine list (csp.rs, ensure_seeded).
LEMMA InheritedIsFine ==
    ASSUME NEW eval, NEW rep, NEW p \in Fine(eval, rep), NEW n
    PROVE  Inherited(p, n) \in Lists(eval, rep)
<1> DEFINE chain == FallbackChain(n)
           set == {i \in DOMAIN chain : Contains(p, chain[i])}
           nearest == CHOOSE i \in set : \A j \in set : i <= j
<1>1. CASE set = {}
  BY <1>1, EmptyIsFine DEF Inherited
<1>2. CASE set # {}
  <2>1. set \in SUBSET Nat
    BY FallbackChainType
  <2>2. nearest \in set
    <3> HIDE DEF set
    <3> QED BY <1>2, <2>1, LeastNatural
  <2>3. Inherited(p, n) = ListOf(p, chain[nearest])
    BY <1>2 DEF Inherited
  <2>4. chain[nearest] \in SourceDirective /\ Contains(p, chain[nearest])
    <3>1. chain \in Seq(SourceDirective) /\ nearest \in DOMAIN chain
      BY <2>2, FallbackChainType
    <3> HIDE DEF nearest, chain
    <3>2. chain[nearest] \in SourceDirective
      BY <3>1
    <3> QED BY <2>2, <3>2
  <2> HIDE DEF nearest, chain
  <2>5. p \in Policies(Lists(eval, rep), Words(rep))
    BY DEF Fine
  <2> QED BY <2>3, <2>4, <2>5, ListOfType
<1> QED BY <1>1, <1>2

\* Seeding a directive keeps a policy fine and its directives in place.
LEMMA EnsureSeededIsFine ==
    ASSUME NEW eval, NEW rep, NEW p \in Fine(eval, rep), NEW n \in SourceDirective
    PROVE  /\ EnsureSeeded(p, n) \in Fine(eval, rep)
           /\ NamesKept(p, EnsureSeeded(p, n))
           /\ Contains(EnsureSeeded(p, n), n)
<1>1. CASE Contains(p, n)
  BY <1>1 DEF EnsureSeeded, NamesKept
<1>2. CASE ~Contains(p, n)
  <2> DEFINE d == Sources(n, Inherited(p, n))
  <2>1. d \in Over(Lists(eval, rep), Words(rep)) /\ d.name = n
    BY InheritedIsFine, SourcesType
  <2>2. EnsureSeeded(p, n) = Set(p, d)
    BY <1>2 DEF EnsureSeeded
  <2> HIDE DEF d
  <2>3. /\ Set(p, d) \in Fine(eval, rep)
        /\ NamesKept(p, Set(p, d))
        /\ Contains(Set(p, d), d.name)
    BY <2>1, SetStays DEF Fine
  <2> QED BY <2>1, <2>2, <2>3
<1> QED BY <1>1, <1>2

\* Extending a directive keeps a policy fine and its directives in place.
LEMMA ExtendSourcesIsFine ==
    ASSUME NEW eval, NEW rep, NEW p \in Fine(eval, rep), NEW n \in SourceDirective,
           NEW ss \in Seq(Source), eval \/ UnsafeEval \notin Elements(ss)
    PROVE  /\ ExtendSources(p, n, ss) \in Fine(eval, rep)
           /\ NamesKept(p, ExtendSources(p, n, ss))
<1>1. \A list \in Lists(eval, rep) : PushEach(list, ss) \in Lists(eval, rep)
  BY PushEachIsFine
<1>2. SourcesList(<<>>) \in Lists(eval, rep)
  BY EmptyIsFine
<1> QED BY <1>1, <1>2, ExtendStays DEF Fine

\* Seeding and extending keep a policy fine and its directives in place
\* (csp.rs, extend_unrouted).
LEMMA ExtendUnroutedIsFine ==
    ASSUME NEW eval, NEW rep, NEW p \in Fine(eval, rep), NEW n \in SourceDirective,
           NEW ss \in Seq(Source), eval \/ UnsafeEval \notin Elements(ss)
    PROVE  /\ ExtendUnrouted(p, n, ss) \in Fine(eval, rep)
           /\ NamesKept(p, ExtendUnrouted(p, n, ss))
<1> DEFINE q == EnsureSeeded(p, n)
           r == ExtendSources(q, n, ss)
<1>1. q \in Fine(eval, rep) /\ NamesKept(p, q)
  BY EnsureSeededIsFine
<1> HIDE DEF q
<1>2. r \in Fine(eval, rep) /\ NamesKept(q, r)
  BY <1>1, ExtendSourcesIsFine
<1>3. r = ExtendUnrouted(p, n, ss)
  BY DEF ExtendUnrouted, q
<1> HIDE DEF r
<1> QED BY <1>1, <1>2, <1>3, NamesKeptChains

-----------------------------------------------------------------------------
\* The tables of the presets list hosts and schemes only.
Table == Seq([directive : SourceDirective, sources : Seq(Host \cup Scheme)])

\* Hosts and schemes are sources, and none of them is 'unsafe-eval'.
LEMMA UrlsAreSources ==
    ASSUME NEW ss \in Seq(Host \cup Scheme)
    PROVE  ss \in Seq(Source) /\ UnsafeEval \notin Elements(ss)
<1>1. UnsafeEval \in Keyword
  BY DEF UnsafeEval, Keyword
<1>2. Host \cup Scheme \subseteq Source /\ UnsafeEval \notin Host \cup Scheme
  BY <1>1, DistinctTerms DEF Source
<1>3. \A i \in 1..Len(ss) : ss[i] \in Host \cup Scheme
  OBVIOUS
<1>4. ss \in Seq(Source)
  BY <1>2, <1>3
<1> QED BY <1>2, <1>3, <1>4 DEF Elements

\* Admitting a preset's table, entry by entry, keeps a policy fine and its
\* directives in place (presets/mod.rs, admit).
LEMMA AdmittedIsFine ==
    ASSUME NEW eval, NEW rep, NEW p \in Fine(eval, rep), NEW table \in Table
    PROVE  Admitted(p, table) \in Fine(eval, rep) /\ NamesKept(p, Admitted(p, table))
<1> DEFINE n == Len(table)
           next(q, i) == ExtendUnrouted(q, table[i].directive, table[i].sources)
           Round(f) == [i \in 0..n |-> IF i = 0 THEN p ELSE next(f[i - 1], i)]
           admitted == CHOOSE f : f = Round(f)
           T == {q \in Fine(eval, rep) : NamesKept(p, q)}
           step == [x \in T \X (1..n) |-> next(x[1], x[2])]
<1>1. Admitted(p, table) = admitted[n]
  BY DEF Admitted
<1>2. n \in Nat
  BY DEF Table
<1>3. ASSUME NEW q \in T, NEW i \in 1..n PROVE next(q, i) \in T
  <2>1. table[i] \in [directive : SourceDirective, sources : Seq(Host \cup Scheme)]
    <3> DEFINE Entries == [directive : SourceDirective, sources : Seq(Host \cup Scheme)]
    <3>1. table \in Seq(Entries)
      BY DEF Table
    <3> HIDE DEF Entries
    <3>2. table[i] \in Entries
      BY <3>1
    <3> QED BY <3>2 DEF Entries
  <2>2. table[i].directive \in SourceDirective /\ table[i].sources \in Seq(Host \cup Scheme)
    BY <2>1
  <2>3. table[i].sources \in Seq(Source) /\ UnsafeEval \notin Elements(table[i].sources)
    BY <2>2, UrlsAreSources
  <2>4. next(q, i) \in Fine(eval, rep) /\ NamesKept(q, next(q, i))
    BY <2>2, <2>3, ExtendUnroutedIsFine
  <2> HIDE DEF next
  <2>5. NamesKept(p, next(q, i))
    BY <2>4, NamesKeptChains
  <2> QED BY <2>4, <2>5
<1>4. p \in T
  BY DEF NamesKept
<1> HIDE DEF n, next, T
<1>5. \E g : g = Round(g) /\ g[n] \in T
  <2>1. IsRound(T, n, step)
    BY <1>3 DEF IsRound
  <2>2. PICK g : IsRecord(T, n, p, step, g)
    BY <1>2, <1>4, <2>1, IterationExists
  <2>3. ASSUME NEW i \in 0..n PROVE g[i] = IF i = 0 THEN p ELSE next(g[i - 1], i)
    <3>1. CASE i = 0
      BY <2>2, <3>1 DEF IsRecord
    <3>2. CASE i # 0
      <4>1. i \in 1..n /\ g[i - 1] \in T /\ g[i] = step[<<g[i - 1], i>>]
        <5> HIDE DEF step
        <5> QED BY <1>2, <2>2, <3>2 DEF IsRecord
      <4>2. <<g[i - 1], i>> \in T \X (1..n)
        BY <4>1
      <4> QED BY <3>2, <4>1, <4>2
    <3> QED BY <3>1, <3>2
  <2>4. g = Round(g) /\ g[n] \in T
    BY <1>2, <2>2, <2>3 DEF IsRecord
  <2> QED BY <2>4
<1>6. admitted = Round(admitted)
  BY <1>5
<1>7. \A i \in 0..n : admitted[i] = IF i = 0 THEN p ELSE next(admitted[i - 1], i)
  <2> HIDE DEF admitted
  <2> QED BY <1>6
<1> HIDE DEF admitted
<1> DEFINE S == {i \in 0..n : admitted[i] \in T}
<1>8. 0 \in S
  BY <1>2, <1>4, <1>7
<1>9. ASSUME NEW i \in 1..n, i - 1 \in S PROVE i \in S
  BY <1>2, <1>3, <1>7, <1>9
<1>10. \A i \in 0..n : i \in S
  <2> HIDE DEF S
  <2> QED BY <1>2, <1>8, <1>9, InductionUpTo
<1>11. admitted[n] \in T
  BY <1>2, <1>10
<1>12. admitted[n] \in Fine(eval, rep) /\ NamesKept(p, admitted[n])
  BY <1>11 DEF T
<1> QED BY <1>1, <1>12 DEF n, next

-----------------------------------------------------------------------------
\* The type and the elements of a sequence of one.
LEMMA SequenceOfOne ==
    ASSUME NEW T, NEW a \in T
    PROVE  <<a>> \in Seq(T) /\ Elements(<<a>>) = {a}
BY DEF Elements

\* The type and the elements of a sequence of two.
LEMMA SequenceOfTwo ==
    ASSUME NEW T, NEW a \in T, NEW b \in T
    PROVE  <<a, b>> \in Seq(T) /\ Elements(<<a, b>>) = {a, b}
BY DEF Elements

\* The type and the elements of a sequence of three.
LEMMA SequenceOfThree ==
    ASSUME NEW T, NEW a \in T, NEW b \in T, NEW c \in T
    PROVE  <<a, b, c>> \in Seq(T) /\ Elements(<<a, b, c>>) = {a, b, c}
BY DEF Elements

\* The constructors make policies without 'unsafe-eval' and without repeats.
LEMMA ConstructedIsFine ==
    ASSUME NEW c \in Start
    PROVE  Constructed(c) \in Fine(FALSE, FALSE)
<1>1. CASE c = "new"
  <2>1. Constructed(c) = <<>>
    BY <1>1 DEF Constructed
  <2>2. <<>> \in Seq(Over(Lists(FALSE, FALSE), Words(FALSE))) /\ HasUniqueNames(<<>>)
    BY DEF HasUniqueNames
  <2> QED BY <2>1, <2>2 DEF Fine, Policies
<1>2. CASE c = "spa_wasm"
  <2> DEFINE L == Lists(FALSE, FALSE)
             W == Words(FALSE)
             self == "'self'"
             wasm == "'wasm-unsafe-eval'"
             inline == "'unsafe-inline'"
             https == "https:"
             data == "data:"
             none == "'none'"
             ancestors == [kind |-> "Terms", terms |-> <<none>>]
  <2>1. /\ self \in Source /\ wasm \in Source /\ inline \in Source
        /\ https \in Source /\ data \in Source /\ none \in Word
    BY <1>2, InputTypes DEF Source, Keyword
  <2>2. /\ UnsafeEval # self /\ UnsafeEval # wasm /\ UnsafeEval # inline
        /\ UnsafeEval # https /\ UnsafeEval # data
    BY DEF UnsafeEval
  <2> HIDE DEF self, wasm, inline, https, data, none
  <2>3. /\ Of(<<self>>) \in L /\ Of(<<self, wasm>>) \in L /\ Of(<<self, inline>>) \in L
        /\ Of(<<self, https, data>>) \in L /\ Of(<<self, data>>) \in L
        /\ NoneList \in L
    <3>1. <<self>> \in Seq(Source) /\ UnsafeEval \notin Elements(<<self>>)
      BY <2>1, <2>2, SequenceOfOne
    <3>2. <<self, wasm>> \in Seq(Source) /\ UnsafeEval \notin Elements(<<self, wasm>>)
      BY <2>1, <2>2, SequenceOfTwo
    <3>3. <<self, inline>> \in Seq(Source) /\ UnsafeEval \notin Elements(<<self, inline>>)
      BY <2>1, <2>2, SequenceOfTwo
    <3>4. /\ <<self, https, data>> \in Seq(Source)
          /\ UnsafeEval \notin Elements(<<self, https, data>>)
      BY <2>1, <2>2, SequenceOfThree
    <3>5. <<self, data>> \in Seq(Source) /\ UnsafeEval \notin Elements(<<self, data>>)
      BY <2>1, <2>2, SequenceOfTwo
    <3> QED BY <3>1, <3>2, <3>3, <3>4, <3>5, OfIsFine, EmptyIsFine
  <2>4. ancestors \in W
    <3>1. <<none>> \in Seq(Word) /\ HasNoRepeats(<<none>>)
      BY <2>1 DEF HasNoRepeats
    <3> QED BY <3>1 DEF Words, TermsValue
  <2> HIDE DEF L, W, ancestors
  <2> DEFINE p == << Sources("default-src", Of(<<self>>)),
                     Sources("script-src", Of(<<self, wasm>>)),
                     Sources("style-src", Of(<<self, inline>>)),
                     Sources("connect-src", Of(<<self>>)),
                     Sources("img-src", Of(<<self, https, data>>)),
                     Sources("font-src", Of(<<self, data>>)),
                     Sources("object-src", NoneList),
                     Sources("base-uri", NoneList),
                     Sources("form-action", Of(<<self>>)),
                     [name |-> "frame-ancestors", value |-> ancestors] >>
  <2>5. Constructed(c) = p
    BY <1>2 DEF Constructed, SpaWasm, self, wasm, inline, https, data, none, ancestors
  <2>6. \A i \in 1..10 : p[i] \in Over(L, W)
    <3>1. /\ "default-src" \in SourceDirective /\ "script-src" \in SourceDirective
          /\ "style-src" \in SourceDirective /\ "connect-src" \in SourceDirective
          /\ "img-src" \in SourceDirective /\ "font-src" \in SourceDirective
          /\ "object-src" \in SourceDirective /\ "base-uri" \in SourceDirective
          /\ "form-action" \in SourceDirective
          /\ "frame-ancestors" \in DirectiveName \ SourceDirective
      BY DEF SourceDirective, DirectiveName
    <3> QED BY <2>3, <2>4, <3>1 DEF Over, Sources
  <2>7. p = [i \in 1..10 |-> p[i]]
    OBVIOUS
  <2>8. HasUniqueNames(p)
    BY DEF HasUniqueNames, Sources
  <2> HIDE DEF p
  <2>9. p \in Seq(Over(L, W))
    BY <2>6, <2>7
  <2> QED BY <2>5, <2>8, <2>9 DEF Fine, Policies, L, W
<1> QED BY <1>1, <1>2, InputTypes

-----------------------------------------------------------------------------
\* A sequence over a set is one over every larger set.
LEMMA SeqMonotone ==
    ASSUME NEW A, NEW B, A \subseteq B, NEW s \in Seq(A)
    PROVE  s \in Seq(B)
<1>1. \A i \in 1..Len(s) : s[i] \in B
  OBVIOUS
<1> QED BY <1>1

\* A directive renders tokens (directive.rs, Display).
LEMMA TokensOfADirective ==
    ASSUME NEW d \in Directive
    PROVE  DirectiveTokens(d) \in Seq(HeaderToken)
<1> DEFINE none == "'none'"
           value == IF d.name \in SourceDirective THEN ListTokens(d.value) ELSE d.value.terms
<1>1. /\ d.name \in DirectiveName
      /\ d.name \in SourceDirective => d.value \in SourceList
      /\ d.name \notin SourceDirective => d.value \in TermsValue
  BY NamesAreStrings DEF Directive
<1>2. d.name \in HeaderToken /\ none \in HeaderToken
  BY <1>1 DEF HeaderToken
<1>3. Source \subseteq HeaderToken /\ Word \subseteq HeaderToken
  BY DEF HeaderToken
<1> HIDE DEF none
<1>4. value \in Seq(HeaderToken)
  <2>1. CASE d.name \in SourceDirective
    <3>1. d.value.terms \in Seq(HeaderToken)
      BY <1>1, <1>3, <2>1, TermsType, SeqMonotone
    <3>2. <<none>> \in Seq(HeaderToken)
      BY <1>2, SequenceOfOne
    <3> QED BY <2>1, <3>1, <3>2 DEF ListTokens, none
  <2>2. CASE d.name \notin SourceDirective
    <3>1. d.value.terms \in Seq(Word)
      BY <1>1, <2>2 DEF TermsValue
    <3> QED BY <1>3, <2>2, <3>1, SeqMonotone
  <2> QED BY <2>1, <2>2
<1>5. <<d.name>> \in Seq(HeaderToken)
  BY <1>2, SequenceOfOne
<1> HIDE DEF value
<1>6. <<d.name>> \o value \in Seq(HeaderToken)
  BY <1>4, <1>5, ConcatProperties
<1> QED BY <1>6 DEF DirectiveTokens, value

\* The separator is a token.
LEMMA SeparatorType == Separator \in Seq(HeaderToken)
<1>1. ";" \in HeaderToken
  BY DEF HeaderToken
<1> QED BY <1>1, SequenceOfOne DEF Separator

\* Any stretch of a policy renders tokens.
LEMMA RenderedTokens ==
    ASSUME NEW p \in Seq(Directive), NEW from \in Nat, from # 0, NEW to \in 0..Len(p)
    PROVE  Rendered(p, from, to) \in Seq(HeaderToken)
<1>1. \A k \in from..to : DirectiveTokens(p[k]) \in Seq(HeaderToken)
  <2>1. \A k \in from..to : p[k] \in Directive
    OBVIOUS
  <2> QED BY <2>1, TokensOfADirective
<1>2. to \in Nat
  OBVIOUS
<1> QED BY <1>1, <1>2, SeparatorType, RenderedUnfolds

\* Both halves around script-src are tokens (csp.rs, split_around_script_src).
LEMMA SplitTokens ==
    ASSUME NEW p \in Seq(Directive), Contains(p, "script-src")
    PROVE  /\ SplitAroundScriptSrc(p).kind = "PerResponse"
           /\ SplitAroundScriptSrc(p).head \in Seq(HeaderToken)
           /\ SplitAroundScriptSrc(p).tail \in Seq(HeaderToken)
<1> DEFINE script == "script-src"
           at == Position(p, script)
           before == Rendered(p, 1, at - 1)
           gap == IF at > 1 THEN Separator ELSE <<>>
           last == IF MatchesNothing(p[at].value) THEN <<script>>
                   ELSE DirectiveTokens(p[at])
           tail == Rendered(p, at + 1, Len(p))
<1>1. at \in 1..Len(p) /\ Len(p) \in Nat
  BY PositionFinds
<1>2. script \in HeaderToken
  BY NamesAreStrings DEF HeaderToken, SourceDirective
<1>3. SplitAroundScriptSrc(p) =
        [kind |-> "PerResponse", head |-> before \o gap \o last, tail |-> tail]
  BY DEF SplitAroundScriptSrc
<1> HIDE DEF script, at
<1>4. before \in Seq(HeaderToken)
  BY <1>1, RenderedTokens
<1>5. tail \in Seq(HeaderToken)
  <2>1. at + 1 \in Nat /\ at + 1 # 0 /\ Len(p) \in 0..Len(p)
    BY <1>1
  <2> QED BY <2>1, RenderedTokens
<1>6. gap \in Seq(HeaderToken)
  BY SeparatorType
<1>7. last \in Seq(HeaderToken)
  <2>1. p[at] \in Directive
    BY <1>1
  <2>2. <<script>> \in Seq(HeaderToken)
    BY <1>2, SequenceOfOne
  <2> QED BY <2>1, <2>2, TokensOfADirective
<1> HIDE DEF before, gap, last, tail
<1>8. before \o gap \o last \in Seq(HeaderToken)
  BY <1>4, <1>6, <1>7, ConcatProperties
<1> QED BY <1>3, <1>5, <1>8

-----------------------------------------------------------------------------
\* A step between fine policies that keeps directives in place keeps their order.
LEMMA OrderFromNames ==
    ASSUME NEW e1, NEW r1, NEW e2, NEW r2, NEW p \in Fine(e1, r1), NEW q \in Fine(e2, r2),
           NamesKept(p, q)
    PROVE  OrderKeptFrom(p, q)
BY FineTypes, NamesKeptOrder

\* What check_routing lets through lists no 'unsafe-eval'.
LEMMA RoutingRefusesEval ==
    ASSUME NEW n, NEW ss, CheckRouting(n, ss)
    PROVE  UnsafeEval \notin Elements(ss)
BY DEF CheckRouting, RoutedIn, UnsafeEval

\* Digests are sources, and none of them is 'unsafe-eval'.
LEMMA HashesAreSources ==
    ASSUME NEW hashes \in Seq(Hash)
    PROVE  hashes \in Seq(Source) /\ UnsafeEval \notin Elements(hashes)
<1>1. UnsafeEval \in Keyword
  BY DEF UnsafeEval, Keyword
<1>2. Hash \subseteq Source /\ UnsafeEval \notin Hash
  BY <1>1, DistinctTerms DEF Source
<1>3. hashes \in Seq(Source)
  BY <1>2, SeqMonotone
<1> QED BY <1>2, <1>3 DEF Elements

\* The table of a preset with an origin of the caller's is a preset's table.
LEMMA OriginTableType ==
    ASSUME NEW service \in DOMAIN OriginDirectives, NEW origin \in OwnOrigins
    PROVE  OriginTable(service, origin) \in Table
<1> DEFINE dirs == OriginDirectives[service]
           Entries == [directive : SourceDirective, sources : Seq(Host \cup Scheme)]
<1>1. /\ "script-src" \in SourceDirective /\ "connect-src" \in SourceDirective
      /\ "img-src" \in SourceDirective
  BY DEF SourceDirective
<1>2. dirs \in Seq(SourceDirective)
  <2>1. \/ dirs = <<"script-src", "connect-src", "img-src">>
        \/ dirs = <<"script-src", "connect-src">>
        \/ dirs = <<"connect-src">>
    BY PresetTypes DEF OriginDirectives, FathomDirectives, MatomoDirectives,
                       PlausibleDirectives, IngestDirectives
  <2>2. <<"script-src", "connect-src", "img-src">> \in Seq(SourceDirective)
    BY <1>1, SequenceOfThree
  <2>3. <<"script-src", "connect-src">> \in Seq(SourceDirective)
    BY <1>1, SequenceOfTwo
  <2>4. <<"connect-src">> \in Seq(SourceDirective)
    BY <1>1, SequenceOfOne
  <2> HIDE DEF dirs
  <2> QED BY <2>1, <2>2, <2>3, <2>4
<1>3. <<origin>> \in Seq(Host \cup Scheme)
  BY PresetTypes, SequenceOfOne
<1> HIDE DEF dirs
<1>4. \A i \in 1..Len(dirs) : Entry(dirs[i], <<origin>>) \in Entries
  BY <1>2, <1>3 DEF Entry
<1>5. OriginTable(service, origin) = [i \in 1..Len(dirs) |-> Entry(dirs[i], <<origin>>)]
  BY <1>2 DEF OriginTable, dirs
<1> HIDE DEF Entries
<1>6. OriginTable(service, origin) \in Seq(Entries)
  BY <1>2, <1>4, <1>5
<1> QED BY <1>6 DEF Table, Entries

-----------------------------------------------------------------------------
\* The invariant holds of a new builder.
LEMMA InitInvariant == Init => IInv
<1> SUFFICES ASSUME Init PROVE IInv
  OBVIOUS
<1>1. PICK c \in Start : policy = Constructed(c)
  BY DEF Init
<1>2. policy \in Fine(FALSE, FALSE)
  BY <1>1, ConstructedIsFine
<1>3. FinePolicy
  BY <1>2, FineGrows DEF FinePolicy
<1>4. policy \in Seq(Directive)
  BY <1>2, FineTypes
<1>5. response \in [csp : Seq(HeaderToken), cache_control : {"absent", "no-cache"},
                    nonce : SUBSET MintedNonces]
  <2>1. <<>> \in Seq(HeaderToken)
    OBVIOUS
  <2> QED BY <2>1 DEF Init, NoResponse
<1>6. TypeOK
  <2>1. /\ per_response_nonce \in BOOLEAN /\ rendered = Unbuilt /\ minted = {}
        /\ named = {} /\ handed \in BOOLEAN
    BY DEF Init
  <2>2. calls \in 0..MaxCalls
    BY InputTypes DEF Init
  <2> QED BY <1>4, <1>5, <2>1, <2>2 DEF TypeOK
<1> QED BY <1>3, <1>6 DEF IInv

\* What one builder call does to the policy.
PolicyStep ==
    /\ policy' \in Fine(EvalNamed', handed')
    /\ OrderKeptFrom(policy, policy')

\* Csp::directive and Csp::set keep the policy fine and in order.
LEMMA SetDirectiveStep ==
    ASSUME FinePolicy, NEW d \in GivenDirectives, SetDirective(d)
    PROVE  PolicyStep
<1> DEFINE e == EvalNamed
<1>1. EvalNamed' = e
  BY DEF SetDirective, EvalNamed
<1>2. policy \in Fine(e, handed)
  BY DEF FinePolicy
<1>3. CASE d.name \in SourceDirective /\ ~CheckRouting(d.name, d.value.terms)
  <2>1. policy' = policy /\ handed' = handed
    BY <1>3 DEF SetDirective
  <2>2. NamesKept(policy, policy')
    BY <2>1 DEF NamesKept
  <2> HIDE DEF e
  <2> QED BY <1>1, <1>2, <2>1, <2>2, OrderFromNames DEF PolicyStep
<1>4. CASE ~(d.name \in SourceDirective /\ ~CheckRouting(d.name, d.value.terms))
  <2>1. policy' = Set(policy, d) /\ handed' = (handed \/ ~HasNoRepeats(d.value.terms))
    BY <1>4 DEF SetDirective
  <2> HIDE DEF e
  <2>2. d \in Over(Lists(e, handed'), Words(handed'))
    <3>1. d \in Directive
      BY InputTypes
    <3>2. CASE d.name \in SourceDirective
      <4>1. UnsafeEval \notin Elements(d.value.terms)
        BY <1>4, <3>2, RoutingRefusesEval
      <4>2. d \in [name : SourceDirective, value : SourceList]
        BY <3>1, <3>2 DEF Directive
      <4> QED BY <2>1, <4>1, <4>2 DEF Over, Lists
    <3>3. CASE d.name \notin SourceDirective
      <4>1. d \in [name : DirectiveName \ SourceDirective, value : TermsValue]
        BY <3>1, <3>3 DEF Directive
      <4> QED BY <2>1, <4>1 DEF Over, Words
    <3> QED BY <3>2, <3>3
  <2>3. policy \in Fine(e, handed')
    BY <1>2, <2>1, FineGrows
  <2>4. policy' \in Fine(e, handed') /\ NamesKept(policy, policy')
    BY <2>1, <2>2, <2>3, SetStays DEF Fine
  <2> QED BY <1>1, <2>3, <2>4, OrderFromNames DEF PolicyStep
<1> QED BY <1>3, <1>4

\* Csp::extend keeps the policy fine and in order.
LEMMA ExtendStep ==
    ASSUME FinePolicy, NEW n \in SourceDirective, NEW ss \in Seq(Source), Extend(n, ss)
    PROVE  PolicyStep
<1> DEFINE e == EvalNamed
<1>1. EvalNamed' = e /\ handed' = handed
  BY DEF Extend, EvalNamed
<1>2. policy \in Fine(e, handed)
  BY DEF FinePolicy
<1>3. CASE CheckRouting(n, ss)
  <2>1. policy' = ExtendSources(policy, n, Of(ss).terms)
    BY <1>3 DEF Extend
  <2>2. Of(ss).terms \in Seq(Source) /\ UnsafeEval \notin Elements(Of(ss).terms)
    BY <1>3, OfType, TermsType, RoutingRefusesEval
  <2> HIDE DEF e
  <2>3. policy' \in Fine(e, handed) /\ NamesKept(policy, policy')
    BY <1>2, <2>1, <2>2, ExtendSourcesIsFine
  <2> QED BY <1>1, <1>2, <2>3, OrderFromNames DEF PolicyStep
<1>4. CASE ~CheckRouting(n, ss)
  <2>1. policy' = policy
    BY <1>4 DEF Extend
  <2>2. NamesKept(policy, policy')
    BY <2>1 DEF NamesKept
  <2> HIDE DEF e
  <2> QED BY <1>1, <1>2, <2>1, <2>2, OrderFromNames DEF PolicyStep
<1> QED BY <1>3, <1>4

\* Csp::remove keeps the policy fine and in order.
LEMMA RemoveStep ==
    ASSUME FinePolicy, NEW n, RemoveDirective(n)
    PROVE  PolicyStep
<1> DEFINE e == EvalNamed
<1>1. EvalNamed' = e /\ handed' = handed /\ policy' = Remove(policy, n)
  BY DEF RemoveDirective, EvalNamed
<1>2. policy \in Fine(e, handed)
  BY DEF FinePolicy
<1> HIDE DEF e
<1>3. policy' \in Fine(e, handed)
  BY <1>1, <1>2, RemoveStays DEF Fine
<1>4. OrderKeptFrom(policy, policy')
  BY <1>1, <1>2, FineTypes, RemoveOrder
<1> QED BY <1>1, <1>3, <1>4 DEF PolicyStep

\* Csp::retain_sources keeps the policy fine and in order.
LEMMA RetainStep ==
    ASSUME FinePolicy, NEW n \in SourceDirective, NEW keep, RetainSources(n, keep)
    PROVE  PolicyStep
<1> DEFINE e == EvalNamed
<1>1. EvalNamed' = e /\ handed' = handed /\ policy' = RetainIn(policy, n, keep)
  BY DEF RetainSources, EvalNamed
<1>2. policy \in Fine(e, handed)
  BY DEF FinePolicy
<1> HIDE DEF e
<1>3. policy' \in Fine(e, handed) /\ NamesKept(policy, policy')
  BY <1>1, <1>2, RetainIsFine, RetainStays DEF Fine
<1> QED BY <1>1, <1>2, <1>3, OrderFromNames DEF PolicyStep

\* Csp::with_scan keeps the policy fine and in order.
LEMMA ScanStep ==
    ASSUME FinePolicy, NEW hashes \in Scans, WithScan(hashes)
    PROVE  PolicyStep
<1> DEFINE e == EvalNamed
<1>1. /\ EvalNamed' = e /\ handed' = handed
      /\ policy' = ExtendUnrouted(policy, "script-src", hashes)
  BY DEF WithScan, EvalNamed
<1>2. policy \in Fine(e, handed)
  BY DEF FinePolicy
<1>3. hashes \in Seq(Source) /\ UnsafeEval \notin Elements(hashes)
  BY InputTypes, HashesAreSources
<1>4. "script-src" \in SourceDirective
  BY DEF SourceDirective
<1> HIDE DEF e
<1>5. policy' \in Fine(e, handed) /\ NamesKept(policy, policy')
  BY <1>1, <1>2, <1>3, <1>4, ExtendUnroutedIsFine
<1> QED BY <1>1, <1>2, <1>5, OrderFromNames DEF PolicyStep

\* The methods that name an expression keep the policy fine and in order.
LEMMA NamedStep ==
    ASSUME FinePolicy, NEW method, NEW s \in Source, PushScriptSource(method, s),
           s = UnsafeEval => method = "allow_unsafe_eval"
    PROVE  PolicyStep
<1> DEFINE e == EvalNamed'
<1>1. /\ EvalNamed => e
      /\ s = UnsafeEval => e
      /\ handed' = handed
      /\ policy' = ExtendUnrouted(policy, "script-src", <<s>>)
  BY DEF PushScriptSource, EvalNamed
<1>2. policy \in Fine(e, handed)
  <2> HIDE DEF e
  <2> QED BY <1>1, FineGrows DEF FinePolicy
<1>3. <<s>> \in Seq(Source) /\ (e \/ UnsafeEval \notin Elements(<<s>>))
  <2> HIDE DEF e
  <2> QED BY <1>1, SequenceOfOne
<1>4. "script-src" \in SourceDirective
  BY DEF SourceDirective
<1> HIDE DEF e
<1>5. policy' \in Fine(e, handed) /\ NamesKept(policy, policy')
  BY <1>1, <1>2, <1>3, <1>4, ExtendUnroutedIsFine
<1> QED BY <1>1, <1>2, <1>5, OrderFromNames DEF PolicyStep, e

\* A preset keeps the policy fine and in order.
LEMMA AdmitStep ==
    ASSUME FinePolicy, NEW table \in Table, policy' = Admitted(policy, table),
           UNCHANGED <<named, handed>>
    PROVE  PolicyStep
<1> DEFINE e == EvalNamed
<1>1. EvalNamed' = e /\ handed' = handed
  BY DEF EvalNamed
<1>2. policy \in Fine(e, handed)
  BY DEF FinePolicy
<1> HIDE DEF e
<1>3. policy' \in Fine(e, handed) /\ NamesKept(policy, policy')
  BY <1>2, AdmittedIsFine
<1> QED BY <1>1, <1>2, <1>3, OrderFromNames DEF PolicyStep

\* A step that leaves the policy alone keeps it fine and in order.
LEMMA UnchangedStep ==
    ASSUME FinePolicy, UNCHANGED <<policy, named, handed>>
    PROVE  PolicyStep
<1> DEFINE e == EvalNamed
<1>1. EvalNamed' = e /\ handed' = handed /\ policy' = policy
  BY DEF EvalNamed
<1>2. policy \in Fine(e, handed) /\ NamesKept(policy, policy)
  BY DEF FinePolicy, NamesKept
<1> HIDE DEF e
<1> QED BY <1>1, <1>2, OrderFromNames DEF PolicyStep

\* No step, of any kind, makes a list that is not fine or moves a directive.
LEMMA NextPolicy ==
    ASSUME IInv, Next
    PROVE  PolicyStep
<1>0. FinePolicy
  BY DEF IInv
<1>1. CASE \E d \in GivenDirectives : SetDirective(d)
  BY <1>0, <1>1, SetDirectiveStep
<1>2. CASE \E g \in GivenSources : Extend(g[1], g[2])
  <2>1. PICK g \in GivenSources : Extend(g[1], g[2])
    BY <1>2
  <2>2. g[1] \in SourceDirective /\ g[2] \in Seq(Source)
    BY InputTypes
  <2> QED BY <1>0, <2>1, <2>2, ExtendStep
<1>3. CASE \E n \in RemovedNames : RemoveDirective(n)
  BY <1>0, <1>3, RemoveStep
<1>4. CASE \E k \in Retained : RetainSources(k[1], k[2])
  <2>1. PICK k \in Retained : RetainSources(k[1], k[2])
    BY <1>4
  <2>2. k[1] \in SourceDirective
    BY InputTypes
  <2> QED BY <1>0, <2>1, <2>2, RetainStep
<1>5. CASE \E hashes \in Scans : WithScan(hashes)
  BY <1>0, <1>5, ScanStep
<1>6. CASE AllowUnsafeEval
  <2>1. UnsafeEval \in Source
    BY DEF UnsafeEval, Source, Keyword
  <2>2. PushScriptSource("allow_unsafe_eval", UnsafeEval)
    BY <1>6 DEF AllowUnsafeEval, UnsafeEval
  <2> QED BY <1>0, <2>1, <2>2, NamedStep
<1>7. CASE AllowUnsafeInlineScript
  <2>1. "'unsafe-inline'" \in Source /\ "'unsafe-inline'" # UnsafeEval
    BY DEF UnsafeEval, Source, Keyword
  <2> QED BY <1>0, <1>7, <2>1, NamedStep DEF AllowUnsafeInlineScript
<1>8. CASE StrictDynamic
  <2>1. "'strict-dynamic'" \in Source /\ "'strict-dynamic'" # UnsafeEval
    BY DEF UnsafeEval, Source, Keyword
  <2> QED BY <1>0, <1>8, <2>1, NamedStep DEF StrictDynamic
<1>9. CASE \E enabled \in BOOLEAN : PerResponseNonce(enabled)
  BY <1>0, <1>9, UnchangedStep DEF PerResponseNonce
<1>10. CASE \E preset \in PresetNames : Admit(preset)
  <2>1. PICK preset \in PresetNames : Admit(preset)
    BY <1>10
  <2>2. Origins[preset] \in Table
    BY PresetTypes DEF Table
  <2> QED BY <1>0, <2>1, <2>2, AdmitStep DEF Admit
<1>11. CASE \E service \in Services, origin \in OwnOrigins : AdmitOrigin(service, origin)
  BY <1>0, <1>11, PresetTypes, OriginTableType, AdmitStep DEF AdmitOrigin
<1>12. CASE Build
  BY <1>0, <1>12, UnchangedStep DEF Build
<1>13. CASE ConstantHeaders
  BY <1>0, <1>13, UnchangedStep DEF ConstantHeaders
<1>14. CASE \E n \in MintedNonces : PerResponseHeaders(n)
  BY <1>0, <1>14, UnchangedStep DEF PerResponseHeaders
<1> QED BY <1>1, <1>2, <1>3, <1>4, <1>5, <1>6, <1>7, <1>8, <1>9, <1>10, <1>11,
           <1>12, <1>13, <1>14 DEF Next

Rendering ==
    \/ rendered = Unbuilt
    \/ rendered.kind = "Constant" /\ rendered.text \in Seq(HeaderToken)
    \/ /\ rendered.kind = "PerResponse"
       /\ rendered.head \in Seq(HeaderToken) /\ rendered.tail \in Seq(HeaderToken)

Responses == [csp : Seq(HeaderToken), cache_control : {"absent", "no-cache"},
              nonce : SUBSET MintedNonces]

\* What Csp::build renders are tokens.
LEMMA BuildStep ==
    ASSUME IInv, Build
    PROVE  Rendering'
<1>1. policy \in Fine(EvalNamed, handed) /\ policy \in Seq(Directive)
  BY FineTypes DEF IInv, FinePolicy
<1>2. CASE per_response_nonce
  <2> DEFINE script == "script-src"
             p == EnsureSeeded(policy, script)
  <2>1. script \in SourceDirective
    BY DEF SourceDirective
  <2>2. p \in Seq(Directive) /\ Contains(p, script)
    <3> HIDE DEF script
    <3> QED BY <1>1, <2>1, EnsureSeededIsFine, FineTypes
  <2>3. rendered' = SplitAroundScriptSrc(p)
    BY <1>2 DEF Build
  <2> HIDE DEF p
  <2> QED BY <2>2, <2>3, SplitTokens DEF Rendering
<1>3. CASE ~per_response_nonce
  <2>1. rendered' = [kind |-> "Constant", text |-> ToHeaderValue(policy)]
    BY <1>3 DEF Build
  <2>2. ToHeaderValue(policy) \in Seq(HeaderToken)
    <3>1. 1 \in Nat /\ 1 # 0 /\ Len(policy) \in 0..Len(policy)
      BY <1>1
    <3> QED BY <1>1, <3>1, RenderedTokens DEF ToHeaderValue
  <2> QED BY <2>1, <2>2 DEF Rendering
<1> QED BY <1>2, <1>3

\* Every step of the builder preserves the types.
LEMMA NextTypes ==
    ASSUME IInv, Next
    PROVE  TypeOK'
<1>0. TypeOK /\ Rendering /\ response \in Responses
  BY DEF IInv, TypeOK, Rendering, Responses
<1>1. policy' \in Seq(Directive)
  BY NextPolicy, FineTypes DEF PolicyStep
<1>2. CASE /\ Call
           /\ per_response_nonce' \in BOOLEAN /\ handed' \in BOOLEAN
           /\ named' \subseteq {"allow_unsafe_eval", "allow_unsafe_inline_script",
                                "strict_dynamic"}
  <2>1. calls' \in 0..MaxCalls
    BY <1>0, <1>2, InputTypes DEF Call, TypeOK
  <2>2. UNCHANGED <<rendered, response, minted>>
    BY <1>2 DEF Call, served
  <2> QED BY <1>0, <1>1, <1>2, <2>1, <2>2 DEF TypeOK
<1>3. CASE Build
  BY <1>0, <1>1, <1>3, BuildStep DEF Build, TypeOK, Rendering
<1>4. CASE ConstantHeaders
  <2>1. rendered.text \in Seq(HeaderToken)
    BY <1>0, <1>4 DEF ConstantHeaders, Rendering, Unbuilt
  <2>2. response' \in Responses
    BY <1>4, <2>1 DEF ConstantHeaders, Responses
  <2> QED BY <1>0, <1>1, <1>4, <2>2 DEF ConstantHeaders, TypeOK, Responses
<1>5. ASSUME NEW n \in MintedNonces, PerResponseHeaders(n) PROVE TypeOK'
  <2>1. rendered.head \in Seq(HeaderToken) /\ rendered.tail \in Seq(HeaderToken)
    BY <1>0, <1>5 DEF PerResponseHeaders, Rendering, Unbuilt
  <2>2. <<n>> \in Seq(HeaderToken)
    <3>1. n \in HeaderToken
      BY NoncesAreFresh DEF HeaderToken, Source
    <3> QED BY <3>1, SequenceOfOne
  <2>3. rendered.head \o <<n>> \o rendered.tail \in Seq(HeaderToken)
    BY <2>1, <2>2, ConcatProperties
  <2>4. response' \in Responses /\ minted' \subseteq MintedNonces
    BY <1>0, <1>5, <2>3 DEF PerResponseHeaders, Responses, TypeOK
  <2> QED BY <1>0, <1>1, <1>5, <2>4 DEF PerResponseHeaders, TypeOK, Responses
<1>6. \/ /\ Call
         /\ per_response_nonce' \in BOOLEAN /\ handed' \in BOOLEAN
         /\ named' \subseteq {"allow_unsafe_eval", "allow_unsafe_inline_script",
                              "strict_dynamic"}
      \/ Build \/ ConstantHeaders \/ \E n \in MintedNonces : PerResponseHeaders(n)
  BY <1>0 DEF Next, TypeOK, SetDirective, Extend, RemoveDirective, RetainSources,
              WithScan, AllowUnsafeEval, AllowUnsafeInlineScript, StrictDynamic,
              PushScriptSource, PerResponseNonce, Admit, AdmitOrigin
<1> QED BY <1>2, <1>3, <1>4, <1>5, <1>6

\* Every step of the builder preserves the invariant.
LEMMA NextInvariant == IInv /\ [Next]_vars => IInv'
<1>1. ASSUME IInv, Next PROVE IInv'
  BY <1>1, NextPolicy, NextTypes DEF IInv, FinePolicy, PolicyStep
<1>2. ASSUME IInv, UNCHANGED vars PROVE IInv'
  BY <1>2 DEF vars, IInv, TypeOK, FinePolicy, EvalNamed
<1> QED BY <1>1, <1>2

\* IInv is an invariant of the builder: no sequence of calls leaves the policies
\* whose lists are accounted for by the calls made.
THEOREM Invariance == Spec => []IInv
BY InitInvariant, NextInvariant, PTL DEF Spec

-----------------------------------------------------------------------------
\* What a policy of the inductive invariant satisfies, list by list.
LEMMA FineLists ==
    ASSUME NEW eval, NEW rep, NEW p \in Fine(eval, rep), NEW i \in DOMAIN p
    PROVE  /\ rep \/ HasNoRepeats(p[i].value.terms)
           /\ p[i].name \in SourceDirective =>
                eval \/ UnsafeEval \notin Elements(p[i].value.terms)
<1>1. p \in Seq(Over(Lists(eval, rep), Words(rep)))
  BY DEF Fine, Policies
<1>2. p[i] \in Over(Lists(eval, rep), Words(rep))
  <2> DEFINE O == Over(Lists(eval, rep), Words(rep))
  <2>1. p \in Seq(O)
    BY <1>1
  <2> HIDE DEF O
  <2>2. p[i] \in O
    BY <2>1
  <2> QED BY <2>2 DEF O
<1>3. CASE p[i] \in [name : SourceDirective, value : Lists(eval, rep)]
  BY <1>3 DEF Lists
<1>4. CASE p[i] \in [name : DirectiveName \ SourceDirective, value : Words(rep)]
  BY <1>4 DEF Words
<1> QED BY <1>2, <1>3, <1>4 DEF Over

\* Whatever is called, the builder holds directives of the right shape and
\* renders tokens (csp.rs, Csp and Policy).
THEOREM TypeCorrect == Spec => []TypeOK
<1>1. IInv => TypeOK
  BY DEF IInv
<1> QED BY <1>1, Invariance, PTL

\* Whatever is called, no directive name occurs twice in the policy
\* (policy.rs, the comment on Policy).
THEOREM NamesAreUnique == Spec => []UniqueNames
<1>1. IInv => UniqueNames
  BY FineTypes DEF IInv, FinePolicy, UniqueNames
<1> QED BY <1>1, Invariance, PTL

\* No call makes a list repeat an expression, unless a list that repeats one
\* was handed in whole (source.rs, SourceList::push; csp.rs, ensure_seeded).
THEOREM SourcesAreUnique == Spec => []UniqueSources
<1>1. IInv => UniqueSources
  BY FineLists DEF IInv, FinePolicy, UniqueSources
<1> QED BY <1>1, Invariance, PTL

\* 'unsafe-eval' is in a list only after allow_unsafe_eval was called: neither
\* data handed in, nor a fallback, nor a preset brings it (csp.rs, check_routing).
THEOREM EvalIsNamed == Spec => []EvalOnlyByName
<1>1. IInv => EvalOnlyByName
  <2>1. SUFFICES ASSUME policy \in Fine(EvalNamed, handed), NEW i \in DOMAIN policy,
                        policy[i].name \in SourceDirective,
                        UnsafeEval \in Elements(policy[i].value.terms)
                 PROVE  EvalNamed
    BY DEF IInv, FinePolicy, EvalOnlyByName, EvalNamed, UnsafeEval
  <2> QED BY <2>1, FineLists
<1> QED BY <1>1, Invariance, PTL

\* No call moves a directive: every step leaves the directives it finds in
\* their order, and what it adds comes after them (csp.rs, Csp::directive).
THEOREM OrderIsKept == Spec => OrderKept
<1>1. ASSUME IInv, Next PROVE OrderKeptStep
  BY <1>1, NextPolicy DEF PolicyStep, OrderKeptFrom, OrderKeptStep
<1>2. IInv /\ [Next]_vars => [OrderKeptStep]_vars
  BY <1>1
<1> QED BY <1>2, Invariance, PTL DEF Spec, OrderKept
=============================================================================
