------------------------- MODULE IterationTheorems -------------------------
(***************************************************************************)
(* Loops.  The loops of the code are recursive functions on 0..n, of the   *)
(* number of rounds done.  TLA+ gives such a definition its meaning by     *)
(* CHOOSE, so that it satisfies its own equation only once a function that *)
(* does is shown to exist; and a claim about every round is proved by      *)
(* taking the first one at which it fails.                                 *)
(***************************************************************************)
EXTENDS Naturals, FiniteSetTheorems, WellFoundedInduction, TLAPS

\* A non-empty set of naturals has a least element: the intervals 1..k, for the
\* elements k of the set, are finite sets, and strict inclusion of finite sets
\* is well-founded.
LEMMA LeastNatural ==
    ASSUME NEW S \in SUBSET Nat, S # {}
    PROVE  \E m \in S : \A k \in S : m <= k
<1> DEFINE F == {1..k : k \in S}
<1>1. IsWellFoundedOn(StrictSubsetOrdering(Nat), FiniteSubsetsOf(Nat))
  BY FS_StrictSubsetOrderingWellFounded
<1>2. F \subseteq FiniteSubsetsOf(Nat) /\ F # {}
  <2>1. \A k \in Nat : 1..k \in FiniteSubsetsOf(Nat)
    BY FS_Interval DEF FiniteSubsetsOf
  <2> QED BY <2>1
<1>3. PICK x \in F : \A y \in F : ~(<<y, x>> \in StrictSubsetOrdering(Nat))
  <2> HIDE DEF F
  <2> QED BY <1>1, <1>2, WFMin
<1>4. PICK m \in S : x = 1..m
  OBVIOUS
<1>5. ASSUME NEW k \in S, k < m PROVE FALSE
  <2>1. 1..k \in F
    OBVIOUS
  <2>2. 1..k \subseteq 1..m /\ 1..k # 1..m /\ 1..m \subseteq Nat
    <3>1. m \in 1..m /\ m \notin 1..k
      BY <1>5
    <3> QED BY <1>5, <3>1
  <2> QED BY <2>1, <2>2, <1>3, <1>4 DEF StrictSubsetOrdering
<1> QED BY <1>5

\* Induction up to a bound, for a set of indices that holds 0 and is closed under
\* successor below the bound.
LEMMA InductionUpTo ==
    ASSUME NEW n \in Nat, NEW S, 0 \in S,
           \A i \in 1..n : i - 1 \in S => i \in S
    PROVE  \A i \in 0..n : i \in S
<1> DEFINE Fails == {i \in 0..n : i \notin S}
<1>1. SUFFICES ASSUME Fails # {} PROVE FALSE
  OBVIOUS
<1>2. PICK m \in Fails : \A k \in Fails : m <= k
  <2>1. Fails \in SUBSET Nat
    OBVIOUS
  <2> HIDE DEF Fails
  <2> QED BY <1>1, <2>1, LeastNatural
<1>3. m # 0 /\ m \in 1..n
  OBVIOUS
<1>4. m - 1 \in S
  BY <1>2, <1>3
<1> QED BY <1>3, <1>4

\* A round of a loop of n rounds over states of T takes the state before it and
\* its number to the state after it; the record of the loop holds all its states.
IsRound(T, n, round) == round \in [T \X (1..n) -> T]

IsRecord(T, n, base, round, g) ==
    /\ g \in [0..n -> T]
    /\ g[0] = base
    /\ \A i \in 1..n : g[i] = round[<<g[i - 1], i>>]

\* A loop of n rounds has a record of every intermediate value: the recursive
\* functions that model the code's loops are defined.
LEMMA IterationExists ==
    ASSUME NEW T, NEW n \in Nat, NEW base \in T, NEW round, IsRound(T, n, round)
    PROVE  \E g : IsRecord(T, n, base, round, g)
<1> DEFINE Reached == {k \in 0..n : \E g : IsRecord(T, k, base, round, g)}
<1>1. 0 \in Reached
  <2>1. IsRecord(T, 0, base, round, [i \in 0..0 |-> base])
    BY DEF IsRecord
  <2> QED BY <2>1
<1>2. ASSUME NEW k \in 1..n, k - 1 \in Reached PROVE k \in Reached
  <2>1. PICK g : IsRecord(T, k - 1, base, round, g)
    BY <1>2
  <2> DEFINE h == [i \in 0..k |-> IF i = k THEN round[<<g[k - 1], k>>] ELSE g[i]]
  <2>2. round[<<g[k - 1], k>>] \in T
    BY <2>1 DEF IsRecord, IsRound
  <2>3. h \in [0..k -> T]
    BY <2>1, <2>2 DEF IsRecord
  <2>4. h[0] = base
    BY <2>1 DEF IsRecord
  <2>5. ASSUME NEW i \in 1..k PROVE h[i] = round[<<h[i - 1], i>>]
    <3>1. h[i - 1] = g[i - 1]
      OBVIOUS
    <3>2. CASE i = k
      BY <3>1, <3>2
    <3>3. CASE i # k
      <4>1. i \in 1..(k - 1) /\ h[i] = g[i]
        BY <3>3
      <4> QED BY <3>1, <4>1, <2>1 DEF IsRecord
    <3> QED BY <3>2, <3>3
  <2>6. IsRecord(T, k, base, round, h)
    <3> HIDE DEF h
    <3> QED BY <2>3, <2>4, <2>5 DEF IsRecord
  <2> QED BY <2>6
<1>3. \A i \in 0..n : i \in Reached
  <2> HIDE DEF Reached
  <2> QED BY <1>1, <1>2, InductionUpTo
<1> QED BY <1>3
=============================================================================
