------------------------ MODULE ConfigurationProofs ------------------------
(***************************************************************************)
(* Proofs that a directive filled from configuration holds what its texts  *)
(* mean and renders as a line that reads back, for all texts and any       *)
(* number of them.                                                         *)
(*                                                                         *)
(* The inductive invariant says of each entry that it fits the directive:  *)
(* the parser of the directive reads back what the entry renders as.  Of   *)
(* the entries together it says that none repeats another and that they    *)
(* are what the parsers accepted in the texts, with what was generated.    *)
(***************************************************************************)
EXTENDS ConfigurationRequirements, TermProofs, FiniteSetTheorems

-----------------------------------------------------------------------------
(***************************************************************************)
(* The line and its pieces.                                                *)
(***************************************************************************)
LEMMA BlankIs == Blank \notin PolicyByte /\ ";" \notin PolicyByte /\ "," \notin PolicyByte
<1>1. Blank \in Separators /\ ";" \in Separators /\ "," \in Separators
  BY DEF Separators
<1>2. Blank \notin Punctuation /\ ";" \notin Punctuation /\ "," \notin Punctuation
  BY DEF Punctuation, Blank
<1> QED BY <1>1, <1>2, DistinctTokens DEF PolicyByte

\* A blank before every word.
Joined(t, word) == t \o <<Blank>> \o word

\* The record of Written.
AreLines(name, words, f) ==
    /\ f[0] = <<name>>
    /\ \A k \in 1..Len(words) : f[k] = Joined(f[k - 1], words[k])

LEMMA WrittenIs ==
    ASSUME NEW S, Blank \in S, NEW name \in S, NEW words \in Seq(Seq(S))
    PROVE  \E f : /\ f \in [0..Len(words) -> Seq(S)] /\ AreLines(name, words, f)
                  /\ Written(name, words) = f[Len(words)]
<1> DEFINE n == Len(words)
           Round(f) == [k \in 0..n |->
                           IF k = 0 THEN <<name>> ELSE Joined(f[k - 1], words[k])]
           line == CHOOSE f : f = Round(f)
           step == [x \in Seq(S) \X (1..n) |-> Joined(x[1], words[x[2]])]
<1>0. n \in Nat
  BY TextIs
<1>1. Written(name, words) = line[n]
  BY DEF Written, Joined
<1>2. ASSUME NEW k \in 1..n PROVE words[k] \in Seq(S)
  BY TextIs
<1>3. ASSUME NEW t \in Seq(S), NEW k \in 1..n PROVE Joined(t, words[k]) \in Seq(S)
  <2>1. <<Blank>> \in Seq(S)
    OBVIOUS
  <2>2. t \o <<Blank>> \in Seq(S)
    BY <2>1, ConcatProperties
  <2> QED BY <1>2, <2>2, ConcatProperties DEF Joined
<1>4. PICK g : IsRecord(Seq(S), n, <<name>>, step, g)
  <2>1. IsRound(Seq(S), n, step)
    <3> HIDE DEF n
    <3> QED BY <1>3 DEF IsRound
  <2>2. <<name>> \in Seq(S)
    OBVIOUS
  <2> HIDE DEF n, step
  <2> QED BY <1>0, <2>1, <2>2, IterationExists
<1>5. g \in [0..n -> Seq(S)] /\ g[0] = <<name>>
  BY <1>4 DEF IsRecord
<1>6. ASSUME NEW k \in 1..n PROVE g[k] = Joined(g[k - 1], words[k])
  <2>1. g[k - 1] \in Seq(S)
    <3> HIDE DEF n
    <3> QED BY <1>0, <1>5
  <2>2. g[k] = step[<<g[k - 1], k>>]
    <3> HIDE DEF n, step
    <3> QED BY <1>4 DEF IsRecord
  <2> HIDE DEF n
  <2> QED BY <2>1, <2>2
<1>7. g = Round(g)
  <2>1. ASSUME NEW k \in 0..n PROVE g[k] = Round(g)[k]
    <3>1. CASE k = 0
      BY <1>5, <3>1
    <3>2. CASE k # 0
      BY <1>6, <3>2
    <3> QED BY <3>1, <3>2
  <2>2. g = [k \in 0..n |-> g[k]]
    BY <1>5
  <2>3. Round(g) = [k \in 0..n |-> Round(g)[k]]
    OBVIOUS
  <2> HIDE DEF Round, n
  <2> QED BY <2>1, <2>2, <2>3
<1>8. line = Round(line)
  <2> HIDE DEF Round, n
  <2> QED BY <1>7
<1>9. line[0] = <<name>> /\ \A k \in 1..n : line[k] = Joined(line[k - 1], words[k])
  <2> HIDE DEF line
  <2>1. \A k \in 0..n : line[k] = Round(line)[k]
    BY <1>8
  <2>2. line[0] = <<name>>
    BY <1>0, <2>1
  <2>3. ASSUME NEW k \in 1..n PROVE line[k] = Joined(line[k - 1], words[k])
    BY <1>0, <2>1
  <2> QED BY <2>2, <2>3
<1>10. line \in [0..n -> Seq(S)]
  <2> DEFINE Good == {k \in 0..n : line[k] \in Seq(S)}
  <2> HIDE DEF line
  <2>1. 0 \in Good
    <3>1. <<name>> \in Seq(S) /\ line[0] = <<name>>
      BY <1>9
    <3>2. line[0] \in Seq(S)
      BY <3>1, Zenon
    <3> HIDE DEF n
    <3> QED BY <1>0, <3>2
  <2>2. ASSUME NEW k \in 1..n, k - 1 \in Good PROVE k \in Good
    <3>1. line[k - 1] \in Seq(S)
      BY <2>2
    <3>2. line[k] \in Seq(S)
      BY <1>3, <1>9, <3>1
    <3> HIDE DEF n
    <3> QED BY <1>0, <3>2
  <2>3. \A k \in 0..n : k \in Good
    <3> HIDE DEF Good, n
    <3> QED BY <1>0, <2>1, <2>2, InductionUpTo
  <2>4. line = [k \in 0..n |-> line[k]]
    <3>1. line = Round(line)
      BY <1>8
    <3>2. Round(line) = [k \in 0..n |-> Round(line)[k]]
      OBVIOUS
    <3> HIDE DEF Round, n
    <3> QED BY <3>1, <3>2
  <2> HIDE DEF n
  <2> QED BY <2>3, <2>4
<1>11. AreLines(name, words, line)
  BY <1>9 DEF AreLines
<1> HIDE DEF line
<1> QED BY <1>1, <1>10, <1>11

\* The record of Pieces.
SomePieces(S) == {p \in Seq(Seq(S)) : Len(p) > 0}

AreCutInPieces(t, f) ==
    /\ f[0] = << <<>> >>
    /\ \A i \in 1..Len(t) : f[i] = Cut(f[i - 1], t[i])

LEMMA CutIs ==
    ASSUME NEW S, NEW p \in SomePieces(S), NEW token \in S
    PROVE  Cut(p, token) \in SomePieces(S)
<1>1. p \in Seq(Seq(S)) /\ Len(p) \in Nat /\ Len(p) > 0 /\ Len(p) \in 1..Len(p)
  BY TextIs DEF SomePieces
<1>2. CASE token = Blank
  <2>1. <<>> \in Seq(S)
    OBVIOUS
  <2>2. Append(p, <<>>) \in Seq(Seq(S)) /\ Len(Append(p, <<>>)) = Len(p) + 1
    BY <1>1, <2>1, AppendProperties
  <2> QED BY <1>1, <1>2, <2>2 DEF Cut, SomePieces
<1>3. CASE token # Blank
  <2>1. p[Len(p)] \in Seq(S)
    BY <1>1, TextIs
  <2>2. Append(p[Len(p)], token) \in Seq(S)
    BY <2>1, AppendProperties
  <2>3. PICK v : v = Append(p[Len(p)], token)
    OBVIOUS
  <2>4. Cut(p, token) = [p EXCEPT ![Len(p)] = v]
    BY <1>3, <2>3 DEF Cut
  <2>5. [p EXCEPT ![Len(p)] = v] \in Seq(Seq(S)) /\ Len([p EXCEPT ![Len(p)] = v]) = Len(p)
    BY <1>1, <2>2, <2>3, ExceptSeq
  <2> QED BY <1>1, <2>4, <2>5 DEF SomePieces
<1> QED BY <1>2, <1>3

LEMMA PiecesAre ==
    ASSUME NEW S, NEW t \in Seq(S)
    PROVE  \E f : /\ f \in [0..Len(t) -> SomePieces(S)] /\ AreCutInPieces(t, f)
                  /\ Pieces(t) = f[Len(t)]
<1> DEFINE n == Len(t)
           Round(f) == [i \in 0..n |-> IF i = 0 THEN << <<>> >> ELSE Cut(f[i - 1], t[i])]
           pieces == CHOOSE f : f = Round(f)
           step == [x \in SomePieces(S) \X (1..n) |-> Cut(x[1], t[x[2]])]
<1>0. n \in Nat
  BY TextIs
<1>1. Pieces(t) = pieces[n]
  BY DEF Pieces
<1>2. << <<>> >> \in SomePieces(S)
  BY DEF SomePieces
<1>3. ASSUME NEW p \in SomePieces(S), NEW i \in 1..n PROVE Cut(p, t[i]) \in SomePieces(S)
  BY TextIs, CutIs
<1>4. PICK g : IsRecord(SomePieces(S), n, << <<>> >>, step, g)
  <2>1. IsRound(SomePieces(S), n, step)
    <3> HIDE DEF n
    <3> QED BY <1>3 DEF IsRound
  <2> HIDE DEF n, step
  <2> QED BY <1>0, <1>2, <2>1, IterationExists
<1>5. g \in [0..n -> SomePieces(S)] /\ g[0] = << <<>> >>
  BY <1>4 DEF IsRecord
<1>6. ASSUME NEW i \in 1..n PROVE g[i] = Cut(g[i - 1], t[i])
  <2>1. g[i - 1] \in SomePieces(S)
    <3> HIDE DEF n
    <3> QED BY <1>0, <1>5
  <2>2. g[i] = step[<<g[i - 1], i>>]
    <3> HIDE DEF n, step
    <3> QED BY <1>4 DEF IsRecord
  <2> HIDE DEF n
  <2> QED BY <2>1, <2>2
<1>7. g = Round(g)
  <2>1. ASSUME NEW i \in 0..n PROVE g[i] = Round(g)[i]
    <3>1. CASE i = 0
      BY <1>5, <3>1
    <3>2. CASE i # 0
      BY <1>6, <3>2
    <3> QED BY <3>1, <3>2
  <2>2. g = [i \in 0..n |-> g[i]]
    BY <1>5
  <2>3. Round(g) = [i \in 0..n |-> Round(g)[i]]
    OBVIOUS
  <2> HIDE DEF Round, n
  <2> QED BY <2>1, <2>2, <2>3
<1>8. pieces = Round(pieces)
  <2> HIDE DEF Round, n
  <2> QED BY <1>7
<1>9. pieces[0] = << <<>> >> /\ \A i \in 1..n : pieces[i] = Cut(pieces[i - 1], t[i])
  <2> HIDE DEF pieces
  <2>1. \A i \in 0..n : pieces[i] = Round(pieces)[i]
    BY <1>8
  <2>2. pieces[0] = << <<>> >>
    BY <1>0, <2>1
  <2>3. ASSUME NEW i \in 1..n PROVE pieces[i] = Cut(pieces[i - 1], t[i])
    BY <1>0, <2>1
  <2> QED BY <2>2, <2>3
<1>10. pieces \in [0..n -> SomePieces(S)]
  <2> DEFINE Good == {i \in 0..n : pieces[i] \in SomePieces(S)}
  <2> HIDE DEF pieces
  <2>1. 0 \in Good
    <3> HIDE DEF n
    <3> QED BY <1>0, <1>2, <1>9
  <2>2. ASSUME NEW i \in 1..n, i - 1 \in Good PROVE i \in Good
    <3>1. pieces[i - 1] \in SomePieces(S)
      BY <2>2
    <3>2. pieces[i] \in SomePieces(S)
      BY <1>3, <1>9, <3>1
    <3> HIDE DEF n
    <3> QED BY <1>0, <3>2
  <2>3. \A i \in 0..n : i \in Good
    <3> HIDE DEF Good, n
    <3> QED BY <1>0, <2>1, <2>2, InductionUpTo
  <2>4. pieces = [i \in 0..n |-> pieces[i]]
    <3>1. pieces = Round(pieces)
      BY <1>8
    <3>2. Round(pieces) = [i \in 0..n |-> Round(pieces)[i]]
      OBVIOUS
    <3> HIDE DEF Round, n
    <3> QED BY <3>1, <3>2
  <2> HIDE DEF n
  <2> QED BY <2>3, <2>4
<1>11. AreCutInPieces(t, pieces)
  BY <1>9 DEF AreCutInPieces
<1> HIDE DEF pieces
<1> QED BY <1>1, <1>10, <1>11

\* Pieces are cut off one token at a time.
LEMMA PiecesStep ==
    ASSUME NEW S, NEW t \in Seq(S), NEW token \in S
    PROVE  /\ Pieces(t) \in SomePieces(S)
           /\ Pieces(Append(t, token)) = Cut(Pieces(t), token)
<1>0. Len(t) \in Nat
  BY TextIs
<1> PICK u : u = Append(t, token)
  OBVIOUS
<1>1. /\ u \in Seq(S) /\ Len(u) = Len(t) + 1 /\ u[Len(u)] = token
      /\ \A i \in 1..Len(t) : u[i] = t[i]
  BY AppendProperties
<1>2. PICK f : /\ f \in [0..Len(t) -> SomePieces(S)] /\ AreCutInPieces(t, f)
               /\ Pieces(t) = f[Len(t)]
  BY PiecesAre
<1>3. PICK g : /\ g \in [0..Len(u) -> SomePieces(S)] /\ AreCutInPieces(u, g)
               /\ Pieces(u) = g[Len(u)]
  BY <1>1, PiecesAre
<1>4. \A i \in 0..Len(t) : f[i] = g[i]
  <2> DEFINE Same == {i \in 0..Len(t) : f[i] = g[i]}
  <2>1. 0 \in Same
    <3>1. f[0] = << <<>> >> /\ g[0] = << <<>> >>
      BY <1>2, <1>3 DEF AreCutInPieces
    <3>2. 0 \in 0..Len(t)
      BY <1>0
    <3> QED BY <3>1, <3>2
  <2>2. ASSUME NEW i \in 1..Len(t), i - 1 \in Same PROVE i \in Same
    <3>1. i \in 1..Len(u)
      BY <1>0, <1>1
    <3>2. f[i] = Cut(f[i - 1], t[i]) /\ g[i] = Cut(g[i - 1], u[i]) /\ u[i] = t[i]
      BY <1>1, <1>2, <1>3, <3>1 DEF AreCutInPieces
    <3> QED BY <2>2, <3>2
  <2>3. \A i \in 0..Len(t) : i \in Same
    <3> HIDE DEF Same
    <3> QED BY <1>0, <2>1, <2>2, InductionUpTo
  <2> QED BY <2>3
<1>5. Len(u) \in 1..Len(u) /\ Len(u) - 1 = Len(t) /\ Len(t) \in 0..Len(t)
  BY <1>0, <1>1
<1>6. g[Len(u)] = Cut(g[Len(u) - 1], u[Len(u)])
  BY <1>3, <1>5 DEF AreCutInPieces
<1>7. Pieces(u) = Cut(f[Len(t)], token)
  BY <1>1, <1>3, <1>4, <1>5, <1>6
<1>8. f[Len(t)] \in SomePieces(S)
  BY <1>2, <1>5
<1> QED BY <1>2, <1>7, <1>8

ReadUpTo(p, x, w, j) == Pieces(x \o SubSeq(w, 1, j)) = Append(p, SubSeq(w, 1, j))

LEMMA AppendJoined ==
    ASSUME NEW S, NEW x \in Seq(S), NEW v \in Seq(S), NEW token \in S
    PROVE  x \o Append(v, token) = Append(x \o v, token)
<1>0. Len(x) \in Nat /\ Len(v) \in Nat
  BY TextIs
<1>1. PICK a, b, y, z : /\ a = Append(v, token) /\ b = x \o a
                        /\ y = x \o v /\ z = Append(y, token)
  OBVIOUS
<1>2. /\ a \in Seq(S) /\ Len(a) = Len(v) + 1 /\ a[Len(v) + 1] = token
      /\ \A i \in 1..Len(v) : a[i] = v[i]
  BY <1>1, AppendProperties
<1>3. /\ b \in Seq(S) /\ Len(b) = Len(x) + Len(a)
      /\ \A i \in 1..(Len(x) + Len(a)) : b[i] = IF i <= Len(x) THEN x[i] ELSE a[i - Len(x)]
  BY <1>1, <1>2, ConcatProperties
<1>4. /\ y \in Seq(S) /\ Len(y) = Len(x) + Len(v)
      /\ \A i \in 1..(Len(x) + Len(v)) : y[i] = IF i <= Len(x) THEN x[i] ELSE v[i - Len(x)]
  BY <1>1, ConcatProperties
<1>5. /\ z \in Seq(S) /\ Len(z) = Len(y) + 1 /\ z[Len(y) + 1] = token
      /\ \A i \in 1..Len(y) : z[i] = y[i]
  BY <1>1, <1>4, AppendProperties
<1>6. Len(b) = Len(z)
  BY <1>0, <1>2, <1>3, <1>4, <1>5
<1>7. ASSUME NEW i \in 1..Len(b) PROVE b[i] = z[i]
  <2>0. i \in 1..(Len(x) + Len(a)) /\ Len(a) = Len(v) + 1 /\ Len(y) = Len(x) + Len(v)
    BY <1>2, <1>3, <1>4
  <2>1. CASE i <= Len(x)
    <3>1. i \in 1..Len(y) /\ i \in 1..(Len(x) + Len(v))
      BY <1>0, <2>0, <2>1
    <3> QED BY <1>3, <1>4, <1>5, <2>0, <2>1, <3>1
  <2>2. CASE i > Len(x) /\ i <= Len(y)
    <3>1. /\ i \in 1..Len(y) /\ i \in 1..(Len(x) + Len(v)) /\ ~(i <= Len(x))
          /\ i - Len(x) \in 1..Len(v)
      BY <1>0, <2>0, <2>2
    <3>2. b[i] = a[i - Len(x)] /\ a[i - Len(x)] = v[i - Len(x)]
      BY <1>2, <1>3, <2>0, <3>1
    <3>3. z[i] = y[i] /\ y[i] = v[i - Len(x)]
      BY <1>4, <1>5, <3>1
    <3> QED BY <3>2, <3>3
  <2>3. CASE i > Len(y)
    <3>1. i = Len(y) + 1 /\ ~(i <= Len(x)) /\ i - Len(x) = Len(v) + 1
      BY <1>0, <2>0, <2>3
    <3>2. b[i] = a[i - Len(x)]
      BY <1>3, <2>0, <3>1
    <3> QED BY <1>2, <1>5, <3>1, <3>2
  <2>4. Len(y) \in Nat
    BY <1>0, <2>0
  <2> QED BY <1>0, <2>0, <2>1, <2>2, <2>3, <2>4
<1> QED BY <1>1, <1>3, <1>5, <1>6, <1>7, SeqEqual

LEMMA BeginsAppend ==
    ASSUME NEW S, NEW t \in Seq(S), NEW j \in Nat, 1 <= j, j <= Len(t)
    PROVE  SubSeq(t, 1, j) = Append(SubSeq(t, 1, j - 1), t[j])
<1>0. Len(t) \in Nat /\ j - 1 \in Nat /\ j \in 1..Len(t)
  BY TextIs
<1>1. PICK u, v, token : u = SubSeq(t, 1, j) /\ v = SubSeq(t, 1, j - 1) /\ token = t[j]
  OBVIOUS
<1>2. u \in Seq(S) /\ Len(u) = j /\ \A i \in 1..Len(u) : u[i] = t[1 + i - 1]
  BY <1>0, <1>1, PartIs
<1>3. v \in Seq(S) /\ Len(v) = j - 1 /\ \A i \in 1..Len(v) : v[i] = t[1 + i - 1]
  BY <1>0, <1>1, PartIs
<1>4. token \in S
  BY <1>0, <1>1, TextIs
<1>5. PICK w : w = Append(v, token)
  OBVIOUS
<1>6. w \in Seq(S) /\ Len(w) = Len(v) + 1 /\ w[Len(v) + 1] = token
      /\ \A i \in 1..Len(v) : w[i] = v[i]
  BY <1>3, <1>4, <1>5, AppendProperties
<1>7. ASSUME NEW i \in 1..Len(u) PROVE u[i] = w[i]
  <2>0. i \in 1..j /\ 1 + i - 1 = i
    BY <1>2
  <2>1. u[i] = t[i]
    BY <1>2, <2>0
  <2>2. CASE i = j
    <3>1. w[i] = token
      BY <1>3, <1>6, <2>2
    <3> QED BY <1>1, <2>1, <2>2, <3>1
  <2>3. CASE i # j
    <3>1. i \in 1..Len(v)
      BY <1>3, <2>0, <2>3
    <3>2. v[i] = t[i] /\ w[i] = v[i]
      BY <1>3, <1>6, <2>0, <3>1
    <3> QED BY <2>1, <3>2
  <2> QED BY <2>2, <2>3
<1>8. Len(u) = Len(w)
  BY <1>0, <1>2, <1>3, <1>6
<1> QED BY <1>1, <1>2, <1>5, <1>6, <1>7, <1>8, SeqEqual

LEMMA CutGrows ==
    ASSUME NEW S, NEW p \in SomePieces(S), NEW v \in Seq(S), NEW token \in S, token # Blank
    PROVE  Cut(Append(p, v), token) = Append(p, Append(v, token))
<1>1. p \in Seq(Seq(S)) /\ Len(p) \in Nat
  BY TextIs DEF SomePieces
<1>2. PICK q : q = Append(p, v)
  OBVIOUS
<1>3. /\ q \in Seq(Seq(S)) /\ Len(q) = Len(p) + 1 /\ q[Len(p) + 1] = v
      /\ \A i \in 1..Len(p) : q[i] = p[i]
  BY <1>1, <1>2, AppendProperties
<1>4. PICK y : y = Append(v, token)
  OBVIOUS
<1>5. y \in Seq(S)
  BY <1>4, AppendProperties
<1>6. PICK a : a = [q EXCEPT ![Len(q)] = y]
  OBVIOUS
<1>7. Len(q) \in 1..Len(q)
  BY <1>1, <1>3
<1>8. a \in Seq(Seq(S)) /\ Len(a) = Len(q) /\ \A i \in 1..Len(q) :
          a[i] = IF i = Len(q) THEN y ELSE q[i]
  BY <1>3, <1>5, <1>6, <1>7, ExceptSeq
<1>9. PICK b : b = Append(p, y)
  OBVIOUS
<1>10. /\ b \in Seq(Seq(S)) /\ Len(b) = Len(p) + 1 /\ b[Len(p) + 1] = y
       /\ \A i \in 1..Len(p) : b[i] = p[i]
  BY <1>1, <1>5, <1>9, AppendProperties
<1>11. ASSUME NEW i \in 1..Len(a) PROVE a[i] = b[i]
  <2>1. CASE i = Len(q)
    BY <1>1, <1>3, <1>8, <1>10, <2>1
  <2>2. CASE i # Len(q)
    <3>1. i \in 1..Len(p) /\ i \in 1..Len(q)
      BY <1>1, <1>3, <1>8, <2>2
    <3> QED BY <1>3, <1>8, <1>10, <2>2, <3>1
  <2> QED BY <2>1, <2>2
<1>12. a = b
  <2>1. Len(a) = Len(b)
    BY <1>3, <1>8, <1>10
  <2> QED BY <1>8, <1>10, <1>11, <2>1, SeqEqual
<1>13. Cut(q, token) = [q EXCEPT ![Len(q)] = Append(q[Len(q)], token)]
  BY DEF Cut
<1>14. q[Len(q)] = v
  BY <1>3
<1> QED BY <1>2, <1>4, <1>6, <1>9, <1>12, <1>13, <1>14

\* The pieces of a text that a blank and a word follow.
LEMMA PiecesWord ==
    ASSUME NEW S, Blank \in S, NEW t \in Seq(S), NEW w \in Seq(S \ {Blank}),
           NEW u, u = Joined(t, w)
    PROVE  Pieces(u) = Append(Pieces(t), w)
<1>0. Len(w) \in Nat
  BY TextIs
<1>1. PICK x : x = t \o <<Blank>>
  OBVIOUS
<1>2. x \in Seq(S) /\ x = Append(t, Blank)
  <2>1. Append(t, Blank) \in Seq(S) /\ Append(t, Blank) = t \o <<Blank>>
    BY AppendProperties, AppendIsConcat
  <2> QED BY <1>1, <2>1
<1>3. PICK p : p = Pieces(t)
  OBVIOUS
<1>4. p \in SomePieces(S) /\ Pieces(x) = Cut(p, Blank)
  BY <1>2, <1>3, PiecesStep
<1>5. Pieces(x) = Append(p, <<>>)
  BY <1>4 DEF Cut
<1> DEFINE Good == {j \in 0..Len(w) : ReadUpTo(p, x, w, j)}
<1>6. ReadUpTo(p, x, w, 0)
  <2>1. SubSeq(w, 1, 0) = <<>>
    BY SubSeqProperties
  <2>2. x \o <<>> = x
    BY <1>2, ConcatEmptySeq
  <2> QED BY <1>5, <2>1, <2>2 DEF ReadUpTo
<1>7. ASSUME NEW j \in 1..Len(w), ReadUpTo(p, x, w, j - 1) PROVE ReadUpTo(p, x, w, j)
  <2>1. PICK v : v = SubSeq(w, 1, j - 1)
    OBVIOUS
  <2>2. PICK token : token = w[j]
    OBVIOUS
  <2>3. token \in S /\ token # Blank /\ w \in Seq(S)
    BY <2>2, TextIs
  <2>4. v \in Seq(S)
    <3>1. j - 1 \in Nat /\ j - 1 <= Len(w)
      BY <1>0
    <3> QED BY <2>1, <2>3, <3>1, PartIs
  <2>5. SubSeq(w, 1, j) = Append(v, token)
    <3>1. 1 \in Nat /\ j \in Nat /\ 1 <= j /\ j <= Len(w)
      BY <1>0
    <3> QED BY <2>1, <2>2, <2>3, <3>1, BeginsAppend
  <2>6. PICK y : y = x \o v
    OBVIOUS
  <2>7. y \in Seq(S)
    BY <1>2, <2>4, <2>6, ConcatProperties
  <2>8. x \o Append(v, token) = Append(y, token)
    BY <1>2, <2>3, <2>4, <2>6, AppendJoined
  <2>9. Pieces(y) = Append(p, v)
    BY <1>7, <2>1, <2>6 DEF ReadUpTo
  <2>10. Pieces(Append(y, token)) = Cut(Append(p, v), token)
    BY <2>3, <2>7, <2>9, PiecesStep
  <2>11. Cut(Append(p, v), token) = Append(p, Append(v, token))
    BY <1>4, <2>3, <2>4, CutGrows
  <2> QED BY <2>5, <2>8, <2>10, <2>11 DEF ReadUpTo
<1>8. ReadUpTo(p, x, w, Len(w))
  <2>1. 0 \in Good
    BY <1>0, <1>6
  <2>2. ASSUME NEW j \in 1..Len(w), j - 1 \in Good PROVE j \in Good
    BY <1>0, <1>7, <2>2
  <2>3. \A j \in 0..Len(w) : j \in Good
    <3> HIDE DEF Good
    <3> QED BY <1>0, <2>1, <2>2, InductionUpTo
  <2>4. Len(w) \in 0..Len(w)
    BY <1>0
  <2> QED BY <2>3, <2>4
<1>9. SubSeq(w, 1, Len(w)) = w
  BY WholePart
<1> QED BY <1>1, <1>3, <1>8, <1>9 DEF ReadUpTo, Joined

LEMMA PiecesOfName ==
    ASSUME NEW S, NEW name \in S, name # Blank
    PROVE  Pieces(<<name>>) = << <<name>> >>
<1>1. PICK e : e = <<>>
  OBVIOUS
<1>2. e \in Seq(S) /\ Len(e) = 0
  BY <1>1
<1>3. PICK f : f \in [0..Len(e) -> SomePieces(S)] /\ AreCutInPieces(e, f) /\ Pieces(e) = f[Len(e)]
  BY <1>2, PiecesAre
<1>4. PICK p : p = Pieces(e)
  OBVIOUS
<1>5. p = << <<>> >>
  BY <1>2, <1>3, <1>4 DEF AreCutInPieces
<1>6. Pieces(Append(e, name)) = Cut(p, name)
  BY <1>2, <1>4, PiecesStep
<1>7. Append(e, name) = <<name>>
  BY <1>1
<1>8. Cut(p, name) = [p EXCEPT ![Len(p)] = Append(p[Len(p)], name)]
  BY DEF Cut
<1>9. Len(p) = 1 /\ p[1] = <<>>
  BY <1>5
<1>10. PICK v : v = <<name>>
  OBVIOUS
<1>11. Cut(p, name) = [p EXCEPT ![1] = v]
  BY <1>8, <1>9, <1>10
<1>12. [p EXCEPT ![1] = v] = <<v>>
  BY <1>5
<1> QED BY <1>6, <1>7, <1>10, <1>11, <1>12

\* The name and so many words have been read.
WordsRead(p, name, words, k) ==
    /\ Len(p) = k + 1
    /\ p[1] = <<name>>
    /\ \A i \in 1..k : p[i + 1] = words[i]

LEMMA OneMoreWord ==
    ASSUME NEW S, NEW words \in Seq(Seq(S)), NEW name, NEW k \in 1..Len(words),
           NEW p \in Seq(Seq(S)), WordsRead(p, name, words, k - 1)
    PROVE  WordsRead(Append(p, words[k]), name, words, k)
<1>0. Len(words) \in Nat /\ words[k] \in Seq(S) /\ k \in Nat
  BY TextIs
<1>1. PICK q : q = Append(p, words[k])
  OBVIOUS
<1>2. /\ Len(q) = Len(p) + 1 /\ q[Len(p) + 1] = words[k]
      /\ \A i \in 1..Len(p) : q[i] = p[i]
  BY <1>0, <1>1, AppendProperties
<1>3. /\ Len(p) = (k - 1) + 1 /\ p[1] = <<name>>
      /\ \A i \in 1..(k - 1) : p[i + 1] = words[i]
  BY DEF WordsRead
<1>4. Len(p) = k
  BY <1>0, <1>3
<1>5. Len(q) = k + 1
  BY <1>2, <1>4
<1>6. q[1] = <<name>>
  <2>1. 1 \in 1..Len(p)
    BY <1>0, <1>4
  <2>2. q[1] = p[1]
    BY <1>2, <2>1
  <2> QED BY <1>3, <2>2
<1>7. ASSUME NEW i \in 1..k PROVE q[i + 1] = words[i]
  <2>1. CASE i = k
    BY <1>2, <1>4, <2>1
  <2>2. CASE i # k
    <3>1. i \in 1..(k - 1) /\ i + 1 \in 1..Len(p)
      BY <1>0, <1>4, <2>2
    <3>2. q[i + 1] = p[i + 1]
      BY <1>2, <3>1
    <3> QED BY <1>3, <3>1, <3>2
  <2> QED BY <2>1, <2>2
<1>8. WordsRead(q, name, words, k)
  BY <1>5, <1>6, <1>7 DEF WordsRead
<1> QED BY <1>1, <1>8

LEMMA FunctionIsSeq ==
    ASSUME NEW S, NEW n \in Nat, NEW s \in [1..n -> S]
    PROVE  s \in Seq(S)
  BY SeqDef

\* A line reads back as its name and its words.
LEMMA LineIsRead ==
    ASSUME NEW S, Blank \notin S, NEW name \in S, NEW words \in Seq(Seq(S)),
           NEW line, line = Written(name, words)
    PROVE  /\ line \in Seq(S \cup {Blank})
           /\ Head(Pieces(line)) = <<name>> /\ Tail(Pieces(line)) = words
<1>0. Len(words) \in Nat
  BY TextIs
<1> DEFINE R == S \cup {Blank}
<1>1. Blank \in R /\ name \in R /\ name # Blank
  OBVIOUS
<1>2. words \in Seq(Seq(R))
  <2>1. Seq(S) \subseteq Seq(R)
    OBVIOUS
  <2>2. \A k \in 1..Len(words) : words[k] \in Seq(R)
    BY <2>1, TextIs
  <2>3. words \in [1..Len(words) -> Seq(R)]
    <3> HIDE DEF R
    <3> QED BY <2>2, LenProperties
  <2> HIDE DEF R
  <2> QED BY <1>0, <2>3, FunctionIsSeq
<1>3. PICK f : /\ f \in [0..Len(words) -> Seq(R)] /\ AreLines(name, words, f)
               /\ line = f[Len(words)]
  <2> HIDE DEF R
  <2> QED BY <1>1, <1>2, WrittenIs
<1>4. ASSUME NEW k \in 1..Len(words) PROVE words[k] \in Seq(R \ {Blank})
  <2>1. R \ {Blank} = S
    OBVIOUS
  <2> HIDE DEF R
  <2> QED BY <2>1, TextIs
<1> DEFINE Good == {k \in 0..Len(words) : WordsRead(Pieces(f[k]), name, words, k)}
<1>5. ASSUME NEW k \in 0..Len(words) PROVE f[k] \in Seq(R) /\ Pieces(f[k]) \in SomePieces(R)
  <2>1. f[k] \in Seq(R)
    BY <1>3
  <2> HIDE DEF R
  <2> QED BY <1>1, <2>1, PiecesStep
<1> HIDE DEF R
<1>6. WordsRead(Pieces(f[0]), name, words, 0)
  <2>1. f[0] = <<name>>
    BY <1>3 DEF AreLines
  <2>2. Pieces(f[0]) = << <<name>> >>
    BY <1>1, <2>1, PiecesOfName
  <2>3. Len(<< <<name>> >>) = 1 /\ << <<name>> >>[1] = <<name>>
    OBVIOUS
  <2>4. Len(Pieces(f[0])) = 0 + 1 /\ Pieces(f[0])[1] = <<name>> /\ 1..0 = {}
    BY <2>2, <2>3
  <2> QED BY <2>4 DEF WordsRead
<1>7. ASSUME NEW k \in 1..Len(words), WordsRead(Pieces(f[k - 1]), name, words, k - 1)
      PROVE  WordsRead(Pieces(f[k]), name, words, k)
  <2>0. k - 1 \in 0..Len(words)
    BY <1>0
  <2>1. PICK t, p : t = f[k - 1] /\ p = Pieces(t)
    OBVIOUS
  <2>2. t \in Seq(R) /\ p \in Seq(Seq(R))
    BY <1>5, <2>0, <2>1 DEF SomePieces
  <2>3. f[k] = Joined(t, words[k])
    BY <1>3, <2>1 DEF AreLines
  <2>4. Pieces(f[k]) = Append(p, words[k])
    BY <1>1, <1>4, <2>1, <2>2, <2>3, PiecesWord
  <2>5. WordsRead(Append(p, words[k]), name, words, k)
    BY <1>2, <1>7, <2>1, <2>2, OneMoreWord
  <2> QED BY <2>4, <2>5
<1>8. WordsRead(Pieces(line), name, words, Len(words))
  <2>1. 0 \in Good
    BY <1>0, <1>6
  <2>2. ASSUME NEW k \in 1..Len(words), k - 1 \in Good PROVE k \in Good
    BY <1>0, <1>7, <2>2
  <2>3. \A k \in 0..Len(words) : k \in Good
    <3> HIDE DEF Good
    <3> QED BY <1>0, <2>1, <2>2, InductionUpTo
  <2>4. Len(words) \in 0..Len(words)
    BY <1>0
  <2> QED BY <1>3, <2>3, <2>4
<1>9. PICK p : p = Pieces(line)
  OBVIOUS
<1>10. line \in Seq(R) /\ p \in Seq(Seq(R))
  <2>1. Len(words) \in 0..Len(words)
    BY <1>0
  <2> QED BY <1>3, <1>5, <1>9, <2>1 DEF SomePieces
<1>11. /\ Len(p) = Len(words) + 1 /\ p[1] = <<name>>
       /\ \A i \in 1..Len(words) : p[i + 1] = words[i]
  BY <1>8, <1>9 DEF WordsRead
<1>12. Head(p) = <<name>>
  <2>1. p # <<>>
    BY <1>0, <1>10, <1>11, TextIs
  <2> QED BY <1>10, <1>11, <2>1
<1>13. Tail(p) = words
  <2>1. p # <<>>
    BY <1>0, <1>10, <1>11, TextIs
  <2>2. PICK q : q = Tail(p)
    OBVIOUS
  <2>3. /\ q \in Seq(Seq(R)) /\ Len(q) = Len(p) - 1
        /\ \A i \in 1..Len(q) : q[i] = p[i + 1]
    BY <1>10, <2>1, <2>2, HeadTailProperties
  <2>4. Len(q) = Len(words)
    BY <1>0, <1>11, <2>3
  <2>5. \A i \in 1..Len(q) : q[i] = words[i]
    BY <1>11, <2>3, <2>4
  <2> QED BY <1>2, <2>2, <2>3, <2>4, <2>5, SeqEqual
<1> QED BY <1>9, <1>10, <1>12, <1>13 DEF R

-----------------------------------------------------------------------------
(***************************************************************************)
(* The values a directive takes.                                           *)
(***************************************************************************)
LEMMA DirectivesAre ==
    DOMAIN Readers = {"img-src", "frame-ancestors", "sandbox", "report-to", "report-uri",
                      "require-trusted-types-for", "trusted-types", "webrtc"}
  BY DEF Readers

LEMMA ReadersAre ==
    /\ Readers["img-src"] = {"Source::parse", "Source::host", "Source::scheme",
                             "Source::nonce"} \cup HashAlgorithm
    /\ Readers["frame-ancestors"] = {"AncestorSource::parse", "AncestorSource::host"}
    /\ Readers["sandbox"] = {"SandboxToken::parse"}
    /\ Readers["report-to"] = {"ReportGroup::parse"}
    /\ Readers["report-uri"] = {"ReportUri::parse"}
    /\ Readers["require-trusted-types-for"] = {"TrustedTypeSink::parse"}
    /\ Readers["trusted-types"] = {"TrustedTypePolicyName::parse"}
    /\ Readers["webrtc"] = {"Webrtc::parse"}
<1>1. Readers["img-src"] = {"Source::parse", "Source::host", "Source::scheme",
                            "Source::nonce"} \cup HashAlgorithm
  BY DEF Readers
<1>2. Readers["frame-ancestors"] = {"AncestorSource::parse", "AncestorSource::host"}
  BY DEF Readers
<1>3. Readers["sandbox"] = {"SandboxToken::parse"}
  BY DEF Readers
<1>4. Readers["report-to"] = {"ReportGroup::parse"}
  BY DEF Readers
<1>5. Readers["report-uri"] = {"ReportUri::parse"}
  BY DEF Readers
<1>6. Readers["require-trusted-types-for"] = {"TrustedTypeSink::parse"}
  BY DEF Readers
<1>7. Readers["trusted-types"] = {"TrustedTypePolicyName::parse"}
  BY DEF Readers
<1>8. Readers["webrtc"] = {"Webrtc::parse"}
  BY DEF Readers
<1> QED BY <1>1, <1>2, <1>3, <1>4, <1>5, <1>6, <1>7, <1>8

LEMMA ReadIs ==
    ASSUME NEW t
    PROVE  /\ Read("Source::parse", t) = ParseSource(t)
           /\ Read("Source::host", t) = ParseHostSource(t)
           /\ Read("AncestorSource::host", t) = ParseHostSource(t)
           /\ Read("Source::scheme", t) = ParseSchemeSource(t)
           /\ Read("Source::nonce", t) = ParseNonce(t)
           /\ \A a \in HashAlgorithm : Read(a, t) = HashOf(a, t)
           /\ Read("AncestorSource::parse", t) = ParseAncestor(t)
           /\ Read("SandboxToken::parse", t) = ParseSandboxToken(t)
           /\ Read("ReportGroup::parse", t) = ParseReport(t)
           /\ Read("ReportUri::parse", t) = ParseReport(t)
           /\ Read("TrustedTypeSink::parse", t) = ParseSink(t)
           /\ Read("TrustedTypePolicyName::parse", t) = ParsePolicyName(t)
           /\ Read("Webrtc::parse", t) = ParseWebrtc(t)
<1>1. Read("Source::parse", t) = ParseSource(t)
  BY DEF Read, HashAlgorithm
<1>2. Read("Source::host", t) = ParseHostSource(t)
  BY DEF Read, HashAlgorithm
<1>3. Read("AncestorSource::host", t) = ParseHostSource(t)
  BY DEF Read, HashAlgorithm
<1>4. Read("Source::scheme", t) = ParseSchemeSource(t)
  BY DEF Read, HashAlgorithm
<1>5. Read("Source::nonce", t) = ParseNonce(t)
  BY DEF Read, HashAlgorithm
<1>6. ASSUME NEW a \in HashAlgorithm PROVE Read(a, t) = HashOf(a, t)
  <2>1. /\ a \notin {"Source::parse", "Source::host", "AncestorSource::host"}
        /\ a # "Source::scheme" /\ a # "Source::nonce"
    BY DEF HashAlgorithm
  <2>2. /\ a # "AncestorSource::parse" /\ a # "SandboxToken::parse"
        /\ a \notin {"ReportGroup::parse", "ReportUri::parse"}
        /\ a # "TrustedTypeSink::parse" /\ a # "TrustedTypePolicyName::parse"
        /\ a # "Webrtc::parse"
    BY DEF HashAlgorithm
  <2> QED BY <2>1, <2>2 DEF Read
<1>7. Read("AncestorSource::parse", t) = ParseAncestor(t)
  BY DEF Read, HashAlgorithm
<1>8. Read("SandboxToken::parse", t) = ParseSandboxToken(t)
  BY DEF Read, HashAlgorithm
<1>9. Read("ReportGroup::parse", t) = ParseReport(t)
  BY DEF Read, HashAlgorithm
<1>10. Read("ReportUri::parse", t) = ParseReport(t)
  BY DEF Read, HashAlgorithm
<1>11. Read("TrustedTypeSink::parse", t) = ParseSink(t)
  BY DEF Read, HashAlgorithm
<1>12. Read("TrustedTypePolicyName::parse", t) = ParsePolicyName(t)
  BY DEF Read, HashAlgorithm
<1>13. Read("Webrtc::parse", t) = ParseWebrtc(t)
  BY DEF Read, HashAlgorithm
<1> QED BY <1>1, <1>2, <1>3, <1>4, <1>5, <1>6, <1>7, <1>8, <1>9, <1>10, <1>11, <1>12, <1>13

ReaderOf(n) ==
    CASE n = "img-src"         -> "Source::parse"
      [] n = "frame-ancestors" -> "AncestorSource::parse"
      [] OTHER                 -> CHOOSE reader \in Readers[n] : TRUE

LEMMA ReaderIs == Reader = ReaderOf(directive)
  BY DEF Reader, ReaderOf

LEMMA ReadersOf ==
    /\ ReaderOf("img-src") = "Source::parse"
    /\ ReaderOf("frame-ancestors") = "AncestorSource::parse"
    /\ ReaderOf("sandbox") = "SandboxToken::parse"
    /\ ReaderOf("report-to") = "ReportGroup::parse"
    /\ ReaderOf("report-uri") = "ReportUri::parse"
    /\ ReaderOf("require-trusted-types-for") = "TrustedTypeSink::parse"
    /\ ReaderOf("trusted-types") = "TrustedTypePolicyName::parse"
    /\ ReaderOf("webrtc") = "Webrtc::parse"
<1>1. ReaderOf("img-src") = "Source::parse" /\ ReaderOf("frame-ancestors") = "AncestorSource::parse"
  BY DEF ReaderOf
<1>2. ASSUME NEW n, n # "img-src", n # "frame-ancestors", NEW r, Readers[n] = {r}
      PROVE  ReaderOf(n) = r
  BY <1>2 DEF ReaderOf
<1>3. ReaderOf("sandbox") = "SandboxToken::parse"
  BY <1>2, ReadersAre
<1>4. ReaderOf("report-to") = "ReportGroup::parse"
  BY <1>2, ReadersAre
<1>5. ReaderOf("report-uri") = "ReportUri::parse"
  BY <1>2, ReadersAre
<1>6. ReaderOf("require-trusted-types-for") = "TrustedTypeSink::parse"
  BY <1>2, ReadersAre
<1>7. ReaderOf("trusted-types") = "TrustedTypePolicyName::parse"
  BY <1>2, ReadersAre
<1>8. ReaderOf("webrtc") = "Webrtc::parse"
  BY <1>2, ReadersAre
<1> QED BY <1>1, <1>3, <1>4, <1>5, <1>6, <1>7, <1>8

LEMMA KindsAre ==
    /\ Kinds["img-src"] = {"Keyword", "Scheme", "Host", "Nonce", "Hash"}
    /\ Kinds["frame-ancestors"] = {"Keyword", "Scheme", "Host"}
    /\ Kinds["report-to"] = {"Report"} /\ Kinds["report-uri"] = {"Report"}
    /\ Kinds["trusted-types"] = {"Name"}
    /\ Kinds["sandbox"] = {"Named"} /\ Kinds["webrtc"] = {"Named"}
    /\ Kinds["require-trusted-types-for"] = {"Named"}
<1>1. Kinds["img-src"] = {"Keyword", "Scheme", "Host", "Nonce", "Hash"}
  BY DirectivesAre DEF Kinds
<1>2. Kinds["frame-ancestors"] = {"Keyword", "Scheme", "Host"}
  BY DirectivesAre DEF Kinds
<1>3. Kinds["report-to"] = {"Report"} /\ Kinds["report-uri"] = {"Report"}
  BY DirectivesAre DEF Kinds
<1>4. Kinds["trusted-types"] = {"Name"}
  BY DirectivesAre DEF Kinds
<1>5. Kinds["sandbox"] = {"Named"} /\ Kinds["webrtc"] = {"Named"}
  BY DirectivesAre DEF Kinds
<1>6. Kinds["require-trusted-types-for"] = {"Named"}
  BY DirectivesAre DEF Kinds
<1> QED BY <1>1, <1>2, <1>3, <1>4, <1>5, <1>6

Fits(n, e) ==
    /\ e.kind \in Kinds[n] /\ Display(e) \in Clean
    /\ Read(ReaderOf(n), Display(e)) = {e}
    /\ n \in {"img-src", "frame-ancestors"} => Display(e) # None
    /\ n = "trusted-types" => /\ Display(e) = e.text /\ Len(e.text) > 0
                              /\ e.text[1] \notin {"'", "*"}

LEMMA NoneIs ==
    /\ None \in Text /\ Len(None) = 3 /\ None[1] = "'" /\ None[2] = "none" /\ None[3] = "'"
    /\ Quoted(None)
<1>1. PICK t : t = None
  OBVIOUS
<1>2. "'" \in Token /\ "none" \in Token
  BY PunctuationMarks, PunctuationIs, DistinctTokens
  DEF Token, PolicyByte, Alphanumeric, Letters, Word
<1>3. t \in Text /\ Len(t) = 3 /\ t[1] = "'" /\ t[2] = "none" /\ t[3] = "'"
  BY <1>1, <1>2 DEF None, Text
<1>4. Quoted(t)
  BY <1>3, OneWordQuoted
<1> QED BY <1>1, <1>3, <1>4

LEMMA NoneIsNoKeyword == None \notin KeywordText
<1> SUFFICES ASSUME NEW t \in KeywordText PROVE t[2] # "none"
  BY NoneIs
<1>1. CASE t = <<"'", "self", "'">>
  BY <1>1
<1>2. CASE t = <<"'", "unsafe", "-", "inline", "'">>
  BY <1>2
<1>3. CASE t = <<"'", "unsafe", "-", "eval", "'">>
  BY <1>3
<1>4. CASE t = <<"'", "wasm", "-", "unsafe", "-", "eval", "'">>
  BY <1>4
<1>5. CASE t = <<"'", "unsafe", "-", "hashes", "'">>
  BY <1>5
<1>6. CASE t = <<"'", "strict", "-", "dynamic", "'">>
  BY <1>6
<1>7. CASE t = <<"'", "report", "-", "sample", "'">>
  BY <1>7
<1>8. CASE t = <<"'", "inline", "-", "speculation", "-", "rules", "'">>
  BY <1>8
<1> QED BY <1>1, <1>2, <1>3, <1>4, <1>5, <1>6, <1>7, <1>8 DEF KeywordText

LEMMA TaggedIsNotThree ==
    ASSUME NEW a \in HashAlgorithm \cup {"nonce"}, NEW v \in Text, NEW t, t = Tagged(a, v)
    PROVE  Len(t) # 3
<1>1. Len(t) = Len(v) + 4
  BY TagsAre, TaggedIs
<1>2. PICK m \in Nat : m = Len(v)
  BY TextLen
<1>3. Len(t) = m + 4
  BY <1>1, <1>2
<1> QED BY <1>3

\* The word of an empty list is the text of no source.
LEMMA NoneIsNoSource ==
    ASSUME NEW e, GoodSource(e)
    PROVE  Display(e) # None
<1> SUFFICES ASSUME Display(e) = None PROVE FALSE
  OBVIOUS
<1>1. e \in ParseQuoted(None)
  <2>1. ParseSource(None) = {e}
    BY SourceReadsBack
  <2> QED BY <2>1, NoneIs DEF ParseSource
<1>2. e \in ParseKeyword(None) \/ e \in ParseNonce(None) \/ e \in ParseHash(None)
  BY <1>1 DEF ParseQuoted
<1>3. CASE GoodKeyword(e)
  <2>1. Display(e) = e.text /\ e.text \in KeywordText
    BY <1>3, GoodKinds, DisplayIs DEF GoodKeyword
  <2> QED BY <2>1, NoneIsNoKeyword
<1>4. CASE GoodNonce(e)
  <2>1. PICK v \in Text : v = e.value
    BY <1>4 DEF GoodNonce
  <2>2. Display(e) = Tagged("nonce", v)
    BY <1>4, <2>1, GoodKinds, DisplayIs
  <2> QED BY <2>2, TagsAre, TaggedIsNotThree, NoneIs
<1>5. CASE GoodHash(e)
  <2>1. PICK v \in Text, a \in HashAlgorithm : v = e.value /\ a = e.algorithm
    BY <1>5 DEF GoodHash
  <2>2. Display(e) = Tagged(a, v)
    BY <1>5, <2>1, GoodKinds, DisplayIs
  <2> QED BY <2>2, TagsAre, TaggedIsNotThree, NoneIs
<1>6. GoodKeyword(e) \/ GoodNonce(e) \/ GoodHash(e)
  BY <1>2, NoneIs, KeywordsGood, NoncesGood, ParsedHashesGood
<1> QED BY <1>3, <1>4, <1>5, <1>6

LEMMA SourceFits ==
    ASSUME NEW e, GoodSource(e)
    PROVE  Fits("img-src", e)
<1>1. e.kind \in Kinds["img-src"]
  BY GoodKinds, KindsAre DEF GoodSource
<1>2. Read(ReaderOf("img-src"), Display(e)) = ParseSource(Display(e))
  BY ReadersOf, ReadIs
<1> QED BY <1>1, <1>2, SourceReadsBack, NoneIsNoSource DEF Fits

LEMMA AncestorFits ==
    ASSUME NEW e, GoodSource(e), IsAncestor(e)
    PROVE  Fits("frame-ancestors", e)
<1>1. e.kind \in Kinds["frame-ancestors"]
  BY KindsAre DEF IsAncestor
<1>2. Read(ReaderOf("frame-ancestors"), Display(e)) = ParseAncestor(Display(e))
  BY ReadersOf, ReadIs
<1> QED BY <1>1, <1>2, SourceReadsBack, AncestorReadsBack, NoneIsNoSource DEF Fits

LEMMA TermFits ==
    ASSUME NEW n, n \notin {"img-src", "frame-ancestors", "trusted-types"},
           NEW e, e.kind \in {"Named", "Report"}, e.kind \in Kinds[n],
           e.text \in Clean, Read(ReaderOf(n), e.text) = {e}
    PROVE  Fits(n, e)
<1>1. Display(e) = e.text
  BY DisplayIs
<1> QED BY <1>1 DEF Fits

LEMMA NameFits ==
    ASSUME NEW t \in Text, NEW e \in ParsePolicyName(t)
    PROVE  Fits("trusted-types", e) /\ Display(e) = t
<1>1. /\ e = [kind |-> "Name", text |-> t]
      /\ t \in Clean /\ Len(t) > 0 /\ t[1] \notin {"'", "*"}
  BY PolicyNameIs
<1>2. e.kind = "Name" /\ e.text = t
  BY <1>1
<1>3. Display(e) = t
  BY <1>2, DisplayIs
<1>4. \A x \in ParsePolicyName(t) : x = e
  BY <1>1, PolicyNameIs
<1>5. ParsePolicyName(t) = {e}
  BY <1>4
<1>6. Read(ReaderOf("trusted-types"), t) = {e}
  BY <1>5, ReadersOf, ReadIs
<1>7. e.kind \in Kinds["trusted-types"]
  BY <1>2, KindsAre
<1> QED BY <1>1, <1>2, <1>3, <1>6, <1>7 DEF Fits

\* What a parser of the directive accepts fits the directive.
LEMMA ReadFits ==
    ASSUME NEW n \in DOMAIN Readers, NEW reader \in Readers[n], NEW t \in Text,
           NEW e \in Read(reader, t)
    PROVE  Fits(n, e)
<1>1. CASE n = "img-src"
  <2>1. CASE reader = "Source::parse"
    BY <1>1, <2>1, ReadIs, SourcesGood, SourceFits
  <2>2. CASE reader = "Source::host"
    <3>1. GoodHost(e)
      BY <2>2, ReadIs, HostSourcesGood
    <3> QED BY <1>1, <3>1, SourceFits DEF GoodSource
  <2>3. CASE reader = "Source::scheme"
    <3>1. GoodScheme(e)
      BY <2>3, ReadIs, SchemeSourcesGood
    <3> QED BY <1>1, <3>1, SourceFits DEF GoodSource
  <2>4. CASE reader = "Source::nonce"
    <3>1. GoodNonce(e)
      BY <2>4, ReadIs, NoncesGood
    <3> QED BY <1>1, <3>1, SourceFits DEF GoodSource
  <2>5. CASE reader \in HashAlgorithm
    <3>1. GoodHash(e)
      BY <2>5, ReadIs, HashesGood
    <3> QED BY <1>1, <3>1, SourceFits DEF GoodSource
  <2> QED BY <1>1, <2>1, <2>2, <2>3, <2>4, <2>5, ReadersAre
<1>2. CASE n = "frame-ancestors"
  <2>1. CASE reader = "AncestorSource::parse"
    <3>1. e \in ParseAncestor(t)
      BY <2>1, ReadIs
    <3>2. GoodSource(e) /\ IsAncestor(e)
      BY <3>1, AncestorsAre, SourcesGood
    <3> QED BY <1>2, <3>2, AncestorFits
  <2>2. CASE reader = "AncestorSource::host"
    <3>1. GoodHost(e)
      BY <2>2, ReadIs, HostSourcesGood
    <3>2. GoodSource(e) /\ IsAncestor(e)
      BY <3>1, GoodKinds DEF GoodSource, IsAncestor
    <3> QED BY <1>2, <3>2, AncestorFits
  <2> QED BY <1>2, <2>1, <2>2, ReadersAre
<1>3. CASE n = "sandbox"
  <2>1. e \in ParseSandboxToken(t)
    BY <1>3, ReadersAre, ReadIs
  <2>2. e.kind = "Named" /\ e.text \in Clean /\ ParseSandboxToken(e.text) = {e}
    BY <2>1, SandboxReadsBack
  <2>3. Read(ReaderOf(n), e.text) = {e}
    BY <1>3, <2>2, ReadersOf, ReadIs
  <2> QED BY <1>3, <2>2, <2>3, KindsAre, TermFits
<1>4. CASE n = "report-to"
  <2>1. e \in ParseReport(t)
    BY <1>4, ReadersAre, ReadIs
  <2>2. e.kind = "Report" /\ e.text \in Clean /\ ParseReport(e.text) = {e}
    BY <2>1, ReportReadsBack
  <2>3. Read(ReaderOf(n), e.text) = {e}
    BY <1>4, <2>2, ReadersOf, ReadIs
  <2> QED BY <1>4, <2>2, <2>3, KindsAre, TermFits
<1>5. CASE n = "report-uri"
  <2>1. e \in ParseReport(t)
    BY <1>5, ReadersAre, ReadIs
  <2>2. e.kind = "Report" /\ e.text \in Clean /\ ParseReport(e.text) = {e}
    BY <2>1, ReportReadsBack
  <2>3. Read(ReaderOf(n), e.text) = {e}
    BY <1>5, <2>2, ReadersOf, ReadIs
  <2> QED BY <1>5, <2>2, <2>3, KindsAre, TermFits
<1>6. CASE n = "require-trusted-types-for"
  <2>1. e \in ParseSink(t)
    BY <1>6, ReadersAre, ReadIs
  <2>2. e.kind = "Named" /\ e.text \in Clean /\ ParseSink(e.text) = {e}
    BY <2>1, SinkReadsBack
  <2>3. Read(ReaderOf(n), e.text) = {e}
    BY <1>6, <2>2, ReadersOf, ReadIs
  <2> QED BY <1>6, <2>2, <2>3, KindsAre, TermFits
<1>7. CASE n = "trusted-types"
  <2>1. e \in ParsePolicyName(t)
    BY <1>7, ReadersAre, ReadIs
  <2> QED BY <1>7, <2>1, NameFits
<1>8. CASE n = "webrtc"
  <2>1. e \in ParseWebrtc(t)
    BY <1>8, ReadersAre, ReadIs
  <2>2. e.kind = "Named" /\ e.text \in Clean /\ ParseWebrtc(e.text) = {e}
    BY <2>1, WebrtcReadsBack
  <2>3. Read(ReaderOf(n), e.text) = {e}
    BY <1>8, <2>2, ReadersOf, ReadIs
  <2> QED BY <1>8, <2>2, <2>3, KindsAre, TermFits
<1> QED BY <1>1, <1>2, <1>3, <1>4, <1>5, <1>6, <1>7, <1>8, DirectivesAre

-----------------------------------------------------------------------------
(***************************************************************************)
(* A text is read as one value or none.                                    *)
(***************************************************************************)
AtMostOne(S) == \A x, y \in S : x = y

LEMMA WhenIsOne ==
    ASSUME NEW c, NEW v
    PROVE  AtMostOne(When(c, v))
  BY DEF When, AtMostOne

LEMMA TermsAreOne ==
    ASSUME NEW S, AtMostOne(S), NEW k
    PROVE  /\ AtMostOne([kind : {k}, text : S])
           /\ AtMostOne([kind : {k}, scheme : S])
           /\ AtMostOne([kind : {k}, value : S])
           /\ \A a : AtMostOne([kind : {k}, algorithm : {a}, value : S])
<1>1. ASSUME NEW x \in [kind : {k}, text : S], NEW y \in [kind : {k}, text : S]
      PROVE  x = y
  <2>1. x.text = y.text /\ x.kind = y.kind
    BY DEF AtMostOne
  <2> QED BY <2>1
<1>2. ASSUME NEW x \in [kind : {k}, scheme : S], NEW y \in [kind : {k}, scheme : S]
      PROVE  x = y
  <2>1. x.scheme = y.scheme /\ x.kind = y.kind
    BY DEF AtMostOne
  <2> QED BY <2>1
<1>3. ASSUME NEW x \in [kind : {k}, value : S], NEW y \in [kind : {k}, value : S]
      PROVE  x = y
  <2>1. x.value = y.value /\ x.kind = y.kind
    BY DEF AtMostOne
  <2> QED BY <2>1
<1>4. ASSUME NEW a, NEW x \in [kind : {k}, algorithm : {a}, value : S],
             NEW y \in [kind : {k}, algorithm : {a}, value : S]
      PROVE  x = y
  <2>1. x.value = y.value /\ x.kind = y.kind /\ x.algorithm = y.algorithm
    BY DEF AtMostOne
  <2> QED BY <2>1
<1> QED BY <1>1, <1>2, <1>3, <1>4 DEF AtMostOne

LEMMA HostsAreOne ==
    ASSUME NEW s, NEW h, NEW p, NEW q, AtMostOne(s), AtMostOne(h), AtMostOne(p), AtMostOne(q)
    PROVE  AtMostOne(HostSource(s, h, p, q))
<1> SUFFICES ASSUME NEW x \in HostSource(s, h, p, q), NEW y \in HostSource(s, h, p, q)
             PROVE  x = y
  BY DEF AtMostOne
<1>1. /\ x.kind = y.kind /\ x.scheme = y.scheme /\ x.host = y.host
      /\ x.port = y.port /\ x.path = y.path
  BY DEF HostSource, AtMostOne
<1> QED BY <1>1 DEF HostSource

LEMMA PartsAreOne ==
    ASSUME NEW t
    PROVE  /\ AtMostOne(Absent) /\ AtMostOne(ParseScheme(t)) /\ AtMostOne(ParseHostPattern(t))
           /\ AtMostOne(ParsePort(t)) /\ AtMostOne(ParsePath(t))
<1>1. AtMostOne(Absent)
  BY DEF Absent, AtMostOne
<1>2. AtMostOne(ParseScheme(t)) /\ AtMostOne(ParsePath(t))
  BY WhenIsOne DEF ParseScheme, ParsePath
<1>3. AtMostOne(ParsePort(t))
  BY WhenIsOne DEF ParsePort, AtMostOne
<1>4. AtMostOne(ParseHostPattern(t))
  <2>1. ASSUME NEW u PROVE AtMostOne(ParseHostName(u))
    BY WhenIsOne DEF ParseHostName
  <2>2. PICK names : names = ParseHostName(From(t, 3))
    OBVIOUS
  <2>3. AtMostOne(names) /\ AtMostOne(ParseHostName(t))
    BY <2>1, <2>2
  <2>4. ParseHostPattern(t) = IF t = <<"*">> THEN {t}
                             ELSE IF IsPrefix(<<"*", ".">>, t)
                                  THEN {<<"*", ".">> \o name : name \in names}
                             ELSE ParseHostName(t)
    BY <2>2 DEF ParseHostPattern
  <2>5. AtMostOne({<<"*", ".">> \o name : name \in names}) /\ AtMostOne({t})
    BY <2>3, Zenon DEF AtMostOne
  <2> QED BY <2>3, <2>4, <2>5
<1> QED BY <1>1, <1>2, <1>3, <1>4

LEMMA HashIsOne ==
    ASSUME NEW a, NEW v
    PROVE  AtMostOne(HashOf(a, v))
  BY WhenIsOne, TermsAreOne DEF HashOf

LEMMA ParsedHashIsOne ==
    ASSUME NEW t
    PROVE  AtMostOne(ParseHash(t))
<1> SUFFICES ASSUME NEW x \in ParseHash(t), NEW y \in ParseHash(t)
             PROVE  x = y
  BY DEF AtMostOne
<1>1. PICK w, v : w = Unquote(t) /\ v = From(w, FirstPlace(w, <<"-">>) + 1)
  OBVIOUS
<1>2. PICK a \in AlgorithmOf(w) : x \in HashOf(a, v)
  BY <1>1 DEF ParseHash
<1>3. PICK b \in AlgorithmOf(w) : y \in HashOf(b, v)
  BY <1>1 DEF ParseHash
<1>4. <<a>> = <<b>>
  BY <1>2, <1>3 DEF AlgorithmOf
<1>5. a = b
  BY <1>4
<1> QED BY <1>2, <1>3, <1>5, HashIsOne DEF AtMostOne

LEMMA SourceIsOne ==
    ASSUME NEW t \in Text
    PROVE  /\ AtMostOne(ParseHostSource(t)) /\ AtMostOne(ParseSchemeSource(t))
           /\ AtMostOne(ParseNonce(t)) /\ AtMostOne(ParseSource(t))
<1>1. AtMostOne(ParseHostSource(t))
  <2>1. PICK c1, c2, c3 : ParseHostSource(t) = Assembled(t, c1, c2, c3)
    BY ParserCut
  <2>2. /\ AtMostOne(SchemeOf(t, c1)) /\ AtMostOne(HostOf(t, c1, c2))
        /\ AtMostOne(PortOf(t, c2, c3)) /\ AtMostOne(PathOf(t, c3))
    BY PartsAreOne DEF SchemeOf, HostOf, PortOf, PathOf
  <2> QED BY <2>1, <2>2, HostsAreOne DEF Assembled
<1>2. AtMostOne(ParseSchemeSource(t))
  BY PartsAreOne, TermsAreOne DEF ParseSchemeSource
<1>3. AtMostOne(ParseNonce(t))
  BY WhenIsOne, TermsAreOne DEF ParseNonce
<1>4. AtMostOne(ParseKeyword(t))
  <2>1. AtMostOne({Lower(t)} \cap KeywordText)
    BY DEF AtMostOne
  <2> QED BY <2>1, TermsAreOne DEF ParseKeyword
<1>5. AtMostOne(ParseSource(t))
  BY <1>1, <1>2, <1>3, <1>4, ParsedHashIsOne DEF ParseSource, ParseQuoted
<1> QED BY <1>1, <1>2, <1>3, <1>5

LEMMA ReadIsOne ==
    ASSUME NEW n \in DOMAIN Readers, NEW reader \in Readers[n], NEW t \in Text
    PROVE  AtMostOne(Read(reader, t))
<1>1. ASSUME NEW u, NEW names PROVE AtMostOne(Named(u, names))
  <2>1. AtMostOne({Lower(u)} \cap names)
    BY DEF AtMostOne
  <2> QED BY <2>1, TermsAreOne DEF Named
<1>2. AtMostOne(ParseReport(t)) /\ AtMostOne(ParsePolicyName(t))
  BY WhenIsOne, TermsAreOne DEF ParseReport, ParsePolicyName
<1>3. CASE n = "img-src"
  <2>1. CASE reader \in HashAlgorithm
    BY <2>1, ReadIs, HashIsOne
  <2>2. CASE reader \in {"Source::parse", "Source::host", "Source::scheme", "Source::nonce"}
    BY <2>2, ReadIs, SourceIsOne
  <2> QED BY <1>3, <2>1, <2>2, ReadersAre
<1>4. CASE n = "frame-ancestors"
  <2>1. ParseAncestor(t) \subseteq ParseSource(t)
    BY AncestorsAre
  <2>2. AtMostOne(ParseAncestor(t))
    BY <2>1, SourceIsOne DEF AtMostOne
  <2> QED BY <1>4, <2>2, ReadersAre, ReadIs, SourceIsOne
<1>5. CASE n \in {"report-to", "report-uri", "trusted-types"}
  BY <1>2, <1>5, ReadersAre, ReadIs
<1>6. CASE n \in {"sandbox", "require-trusted-types-for", "webrtc"}
  BY <1>1, <1>6, ReadersAre, ReadIs DEF ParseSandboxToken, ParseSink, ParseWebrtc
<1> QED BY <1>3, <1>4, <1>5, <1>6, DirectivesAre

-----------------------------------------------------------------------------
(***************************************************************************)
(* The inductive invariant.                                                *)
(***************************************************************************)
Distinct(s) == \A i, j \in DOMAIN s : s[i] = s[j] => i = j

\* What the parsers accept in the texts of o.
AcceptedIn(o) == UNION {Read(o[i].reader, o[i].text) : i \in DOMAIN o}

MadeUp(n) == IF n = "img-src" THEN Generated ELSE {}

OffersFine ==
    /\ offered \in Seq([reader : Readers[directive], text : Text])
    /\ Len(offered) <= MaxOffers

EntriesFine ==
    /\ entries \in Seq(ToSet(entries))
    /\ \A e \in ToSet(entries) : Fits(directive, e)
    /\ Distinct(entries)

\* The entries are what was accepted and what was generated.
ContentFine ==
    ~HoldsOne(directive) =>
        /\ AcceptedIn(offered) \subseteq ToSet(entries)
        /\ ToSet(entries) \subseteq AcceptedIn(offered) \cup MadeUp(directive)

FlagsFine ==
    /\ flags \subseteq {"policies", "wildcard", "allow-duplicates"}
    /\ flags # {} => directive = "trusted-types" /\ "policies" \in flags

IInv ==
    /\ directive \in DOMAIN Readers
    /\ OffersFine /\ EntriesFine /\ ContentFine /\ FlagsFine

LEMMA ToSetIs ==
    ASSUME NEW T, NEW s \in Seq(T)
    PROVE  /\ ToSet(s) = {s[i] : i \in 1..Len(s)}
           /\ s \in Seq(ToSet(s))
           /\ ToSet(s) \subseteq T
<1>1. DOMAIN s = 1..Len(s) /\ Len(s) \in Nat
  BY TextIs
<1>2. ToSet(s) = {s[i] : i \in 1..Len(s)}
  BY <1>1 DEF ToSet
<1>3. s \in [1..Len(s) -> ToSet(s)]
  <2>1. s \in [1..Len(s) -> T]
    BY LenProperties
  <2> QED BY <1>2, <2>1
<1>4. s \in Seq(ToSet(s))
  BY <1>1, <1>3, FunctionIsSeq
<1> QED BY <1>2, <1>4, TextIs

Extends(u, s, x) ==
    /\ Len(u) = Len(s) + 1 /\ u[Len(u)] = x
    /\ \A i \in 1..Len(s) : u[i] = s[i]

LEMMA AppendedSet ==
    ASSUME NEW T, NEW s \in Seq(T), NEW x
    PROVE  /\ Append(s, x) \in Seq(ToSet(Append(s, x)))
           /\ ToSet(Append(s, x)) = ToSet(s) \cup {x}
           /\ Extends(Append(s, x), s, x)
<1>0. Len(s) \in Nat
  BY TextIs
<1>8. PICK u : u = Append(s, x)
  OBVIOUS
<1>1. s \in Seq(T \cup {x})
  <2>1. Seq(T) \subseteq Seq(T \cup {x})
    OBVIOUS
  <2> QED BY <2>1
<1>2. PICK R : R = T \cup {x}
  OBVIOUS
<1>3. /\ u \in Seq(R) /\ Len(u) = Len(s) + 1 /\ u[Len(s) + 1] = x
      /\ \A i \in 1..Len(s) : u[i] = s[i]
  <2>1. s \in Seq(R) /\ x \in R
    BY <1>1, <1>2
  <2> QED BY <1>8, <2>1, AppendProperties
<1>4. u \in Seq(ToSet(u)) /\ ToSet(u) = {u[i] : i \in 1..Len(u)}
  <2>1. u \in Seq(R)
    BY <1>3
  <2> QED BY <2>1, ToSetIs
<1>5. ToSet(s) = {s[i] : i \in 1..Len(s)}
  BY ToSetIs
<1>6. ToSet(u) = ToSet(s) \cup {x}
  <2>1. ASSUME NEW i \in 1..Len(u) PROVE u[i] \in ToSet(s) \cup {x}
    <3>1. CASE i = Len(s) + 1
      BY <1>3, <3>1
    <3>2. CASE i # Len(s) + 1
      <4>1. i \in 1..Len(s)
        BY <1>0, <1>3, <3>2
      <4> QED BY <1>3, <1>5, <4>1
    <3> QED BY <3>1, <3>2
  <2>2. ASSUME NEW i \in 1..Len(s) PROVE s[i] \in ToSet(u)
    <3>1. i \in 1..Len(u)
      BY <1>0, <1>3
    <3> QED BY <1>3, <1>4, <3>1
  <2>3. x \in ToSet(u)
    <3>1. Len(s) + 1 \in 1..Len(u)
      BY <1>0, <1>3
    <3> QED BY <1>3, <1>4, <3>1
  <2> QED BY <1>4, <1>5, <2>1, <2>2, <2>3
<1>7. Extends(u, s, x)
  BY <1>3 DEF Extends
<1> QED BY <1>4, <1>6, <1>7, <1>8

\* A value is added once, or takes the place of the one before (push_unique).
LEMMA AddIs ==
    ASSUME NEW T, NEW values \in Seq(T), Distinct(values), NEW n, NEW e,
           NEW u, u = Add(n, values, e)
    PROVE  /\ u \in Seq(ToSet(u)) /\ Distinct(u)
           /\ ToSet(u) \subseteq ToSet(values) \cup {e}
           /\ ~HoldsOne(n) => ToSet(u) = ToSet(values) \cup {e}
<1>1. CASE HoldsOne(n)
  <2>1. u = <<e>>
    BY <1>1 DEF Add
  <2>2. u \in Seq({e}) /\ Len(u) = 1 /\ u[1] = e
    BY <2>1
  <2>3. u \in Seq(ToSet(u)) /\ ToSet(u) \subseteq {e}
    BY <2>2, ToSetIs
  <2>4. Distinct(u)
    <3>1. DOMAIN u = 1..1
      BY <2>2, TextIs
    <3>2. ASSUME NEW i \in DOMAIN u, NEW j \in DOMAIN u PROVE i = j
      BY <3>1
    <3> QED BY <3>2 DEF Distinct
  <2> QED BY <1>1, <2>3, <2>4
<1>2. CASE ~HoldsOne(n) /\ e \in ToSet(values)
  <2>1. u = values
    BY <1>2 DEF Add
  <2> QED BY <1>2, <2>1, ToSetIs
<1>3. CASE ~HoldsOne(n) /\ e \notin ToSet(values)
  <2>0. Len(values) \in Nat /\ DOMAIN values = 1..Len(values)
    BY TextIs
  <2>1. u = Append(values, e)
    BY <1>3 DEF Add
  <2>2. /\ u \in Seq(ToSet(u)) /\ ToSet(u) = ToSet(values) \cup {e}
        /\ Extends(u, values, e)
    BY <2>1, AppendedSet
  <2>3. ToSet(values) = {values[i] : i \in 1..Len(values)}
    BY ToSetIs
  <2>4. Distinct(u)
    <3>1. DOMAIN u = 1..Len(u)
      BY <2>2, TextIs
    <3>2. SUFFICES ASSUME NEW i \in 1..Len(u), NEW j \in 1..Len(u), u[i] = u[j]
                   PROVE  i = j
      BY <3>1 DEF Distinct
    <3>3. CASE i \in 1..Len(values) /\ j \in 1..Len(values)
      BY <2>0, <2>2, <3>2, <3>3 DEF Distinct, Extends
    <3>4. CASE i = Len(u) /\ j \in 1..Len(values)
      BY <1>3, <2>2, <2>3, <3>2, <3>4 DEF Extends
    <3>5. CASE j = Len(u) /\ i \in 1..Len(values)
      BY <1>3, <2>2, <2>3, <3>2, <3>5 DEF Extends
    <3>6. /\ i = Len(u) \/ i \in 1..Len(values)
          /\ j = Len(u) \/ j \in 1..Len(values)
      BY <2>0, <2>2 DEF Extends
    <3> QED BY <3>3, <3>4, <3>5, <3>6
  <2> QED BY <2>2, <2>4
<1> QED BY <1>1, <1>2, <1>3

LEMMA AcceptedMore ==
    ASSUME NEW T, NEW o \in Seq(T), NEW r, NEW u, u = Append(o, r)
    PROVE  AcceptedIn(u) = AcceptedIn(o) \cup Read(r.reader, r.text)
<1>0. Len(o) \in Nat /\ DOMAIN o = 1..Len(o)
  BY TextIs
<1>1. u \in Seq(ToSet(u)) /\ Extends(u, o, r)
  BY AppendedSet
<1>2. DOMAIN u = 1..Len(u)
  BY <1>1, TextIs
<1>3. Len(u) = Len(o) + 1 /\ u[Len(u)] = r /\ \A i \in 1..Len(o) : u[i] = o[i]
  BY <1>1 DEF Extends
<1>4. ASSUME NEW i \in 1..Len(u)
      PROVE  Read(u[i].reader, u[i].text) \subseteq AcceptedIn(o) \cup Read(r.reader, r.text)
  <2>1. CASE i = Len(u)
    BY <1>3, <2>1
  <2>2. CASE i # Len(u)
    <3>1. i \in 1..Len(o)
      BY <1>0, <1>3, <2>2
    <3> QED BY <1>0, <1>3, <3>1 DEF AcceptedIn
  <2> QED BY <2>1, <2>2
<1>5. ASSUME NEW i \in 1..Len(o) PROVE Read(o[i].reader, o[i].text) \subseteq AcceptedIn(u)
  <2>1. i \in 1..Len(u) /\ u[i] = o[i]
    BY <1>0, <1>3
  <2> QED BY <1>2, <2>1 DEF AcceptedIn
<1>6. Read(r.reader, r.text) \subseteq AcceptedIn(u)
  <2>1. Len(u) \in 1..Len(u) /\ u[Len(u)] = r
    BY <1>0, <1>3
  <2> QED BY <1>2, <2>1 DEF AcceptedIn
<1>7. AcceptedIn(u) \subseteq AcceptedIn(o) \cup Read(r.reader, r.text)
  BY <1>2, <1>4 DEF AcceptedIn
<1>8. AcceptedIn(o) \subseteq AcceptedIn(u)
  BY <1>0, <1>5 DEF AcceptedIn
<1> QED BY <1>6, <1>7, <1>8

\* A text offered is one that TextTypes speaks of.
LEMMA OfferedText ==
    ASSUME NEW n \in DOMAIN Readers, NEW reader \in Readers[n],
           NEW family \in DOMAIN Offers(reader), NEW t \in Offers(reader)[family]
    PROVE  t \in Text
<1>1. CASE offered = <<>>
  BY <1>1, TextTypes DEF Offers, Text
<1>2. CASE offered # <<>>
  <2>1. Offers(reader) = <<Paired>>
    BY <1>2 DEF Offers
  <2>2. t \in Paired
    BY <2>1
  <2> QED BY <2>2, TextTypes DEF Text
<1> QED BY <1>1, <1>2

\* What is generated fits a source list.
LEMMA GeneratedFits ==
    ASSUME NEW e, \/ \E a \in HashAlgorithm, bytes \in Digests : e \in HashFromDigest(a, bytes)
                  \/ \E bytes \in Entropies : e \in NonceFromEntropy(bytes)
    PROVE  Fits("img-src", e) /\ e \in Generated
<1>1. ASSUME NEW a \in HashAlgorithm, NEW bytes \in Digests, e \in HashFromDigest(a, bytes)
      PROVE  Fits("img-src", e) /\ e \in Generated
  <2>1. bytes \in Nat /\ ContentLen(bytes) \in Run
    BY BoundTypes, EncodedRuns
  <2>2. GoodHash(e)
    BY <1>1, <2>1, DigestsGood
  <2>3. e \in Generated
    BY <1>1 DEF Generated
  <2> QED BY <2>2, <2>3, SourceFits DEF GoodSource
<1>2. ASSUME NEW bytes \in Entropies, e \in NonceFromEntropy(bytes)
      PROVE  Fits("img-src", e) /\ e \in Generated
  <2>1. bytes \in Nat /\ ContentLen(bytes) \in Run
    BY BoundTypes, EncodedRuns
  <2>2. GoodNonce(e)
    BY <1>2, <2>1, MintedGood
  <2>3. e \in Generated
    BY <1>2 DEF Generated
  <2> QED BY <2>2, <2>3, SourceFits DEF GoodSource
<1> QED BY <1>1, <1>2

\* Accepting a value that fits keeps the entries and the flags fine.
LEMMA AcceptFine ==
    ASSUME NEW value, IInv, Accept(value), Fits(directive, value)
    PROVE  /\ directive' = directive
           /\ EntriesFine' /\ FlagsFine'
           /\ ~HoldsOne(directive) => ToSet(entries') = ToSet(entries) \cup {value}
<1>1. directive' = directive /\ entries' = Add(directive, entries, value)
  BY DEF Accept
<1>2. entries \in Seq(ToSet(entries)) /\ Distinct(entries)
  BY DEF IInv, EntriesFine
<1>3. /\ entries' \in Seq(ToSet(entries')) /\ Distinct(entries')
      /\ ToSet(entries') \subseteq ToSet(entries) \cup {value}
      /\ ~HoldsOne(directive) => ToSet(entries') = ToSet(entries) \cup {value}
  BY <1>1, <1>2, AddIs
<1>4. ASSUME NEW e \in ToSet(entries') PROVE Fits(directive', e)
  <2>1. CASE e = value
    BY <1>1, <2>1
  <2>2. CASE e \in ToSet(entries)
    BY <1>1, <2>2 DEF IInv, EntriesFine
  <2> QED BY <1>3, <2>1, <2>2
<1>5. EntriesFine'
  BY <1>3, <1>4 DEF EntriesFine
<1>6. FlagsFine'
  BY DEF IInv, FlagsFine, Accept
<1> QED BY <1>1, <1>3, <1>5, <1>6

LEMMA InitFine ==
    ASSUME Init
    PROVE  IInv
<1>1. directive \in DOMAIN Readers /\ entries = <<>> /\ offered = <<>>
  BY DEF Init
<1>2. <<>> \in Seq(ToSet(<<>>)) /\ ToSet(<<>>) = {} /\ Distinct(<<>>) /\ AcceptedIn(<<>>) = {}
  BY DEF ToSet, Distinct, AcceptedIn
<1>3. EntriesFine /\ ContentFine
  BY <1>1, <1>2 DEF EntriesFine, ContentFine
<1>4. OffersFine
  BY <1>1, BoundTypes DEF OffersFine
<1>5. FlagsFine
  BY DEF Init, FlagsFine
<1> QED BY <1>1, <1>3, <1>4, <1>5 DEF IInv

\* A text that may be offered is recorded.
LEMMA OffersGrow ==
    ASSUME IInv, NEW reader \in Readers[directive], NEW t \in Text, MayAdd,
           offered' = Append(offered, [reader |-> reader, text |-> t]), directive' = directive
    PROVE  /\ OffersFine'
           /\ AcceptedIn(offered') = AcceptedIn(offered) \cup Read(reader, t)
<1>1. PICK r : r = [reader |-> reader, text |-> t]
  OBVIOUS
<1>2. PICK R : R = [reader : Readers[directive], text : Text]
  OBVIOUS
<1>3. r \in R /\ r.reader = reader /\ r.text = t
  BY <1>1, <1>2
<1>4. offered \in Seq(R)
  BY <1>2 DEF IInv, OffersFine
<1>5. offered' \in Seq(R) /\ Len(offered') = Len(offered) + 1
  BY <1>1, <1>3, <1>4, AppendProperties
<1>6. Len(offered') <= MaxOffers
  <2>1. Len(offered) < MaxOffers /\ Len(offered) \in Nat
    BY <1>4, TextIs DEF MayAdd
  <2> QED BY <1>5, <2>1, BoundTypes
<1>7. OffersFine'
  BY <1>2, <1>5, <1>6 DEF OffersFine
<1>8. AcceptedIn(offered') = AcceptedIn(offered) \cup Read(r.reader, r.text)
  BY <1>1, <1>4, AcceptedMore
<1> QED BY <1>3, <1>7, <1>8

LEMMA OfferFine ==
    ASSUME IInv, NEW reader \in Readers[directive], NEW t \in Text, Offer(reader, t)
    PROVE  IInv'
<1>1. PICK value \in Read(reader, t) : Accept(value)
  BY DEF Offer
<1>2. directive \in DOMAIN Readers
  BY DEF IInv
<1>3. Fits(directive, value)
  BY <1>2, ReadFits
<1>4. /\ directive' = directive /\ EntriesFine' /\ FlagsFine'
      /\ ~HoldsOne(directive) => ToSet(entries') = ToSet(entries) \cup {value}
  BY <1>1, <1>3, AcceptFine
<1>5. OffersFine' /\ AcceptedIn(offered') = AcceptedIn(offered) \cup Read(reader, t)
  <2>1. MayAdd /\ offered' = Append(offered, [reader |-> reader, text |-> t])
    BY DEF Offer
  <2> QED BY <1>4, <2>1, OffersGrow
<1>6. Read(reader, t) = {value}
  BY <1>1, <1>2, ReadIsOne DEF AtMostOne
<1>7. ContentFine'
  BY <1>4, <1>5, <1>6 DEF IInv, ContentFine
<1> QED BY <1>2, <1>4, <1>5, <1>7 DEF IInv

LEMMA RefuseFine ==
    ASSUME IInv, NEW reader \in Readers[directive], NEW t \in Text, Refuse(reader, t)
    PROVE  IInv'
<1>1. /\ directive' = directive /\ entries' = entries /\ flags' = flags
      /\ Read(reader, t) = {} /\ MayAdd
      /\ offered' = Append(offered, [reader |-> reader, text |-> t])
  BY DEF Refuse
<1>2. OffersFine' /\ AcceptedIn(offered') = AcceptedIn(offered) \cup Read(reader, t)
  BY <1>1, OffersGrow
<1>3. AcceptedIn(offered') = AcceptedIn(offered)
  BY <1>1, <1>2
<1>4. EntriesFine' /\ FlagsFine' /\ ContentFine'
  BY <1>1, <1>3 DEF IInv, EntriesFine, FlagsFine, ContentFine
<1> QED BY <1>1, <1>2, <1>4 DEF IInv

LEMMA GenerateFine ==
    ASSUME IInv, NEW value, Fits("img-src", value), value \in Generated,
           directive = "img-src", Accept(value), offered' = offered
    PROVE  IInv'
<1>1. /\ directive' = directive /\ EntriesFine' /\ FlagsFine'
      /\ ~HoldsOne(directive) => ToSet(entries') = ToSet(entries) \cup {value}
  BY AcceptFine
<1>2. OffersFine'
  BY <1>1 DEF IInv, OffersFine
<1>3. MadeUp(directive) = Generated
  BY DEF MadeUp
<1>4. ContentFine'
  BY <1>1, <1>3 DEF IInv, ContentFine
<1> QED BY <1>1, <1>2, <1>4 DEF IInv

LEMMA FlagsChange ==
    ASSUME IInv, UNCHANGED <<directive, entries, offered>>, FlagsFine'
    PROVE  IInv'
<1>1. directive' = directive /\ entries' = entries /\ offered' = offered
  OBVIOUS
<1>2. EntriesFine' /\ ContentFine' /\ OffersFine'
  BY <1>1 DEF IInv, EntriesFine, ContentFine, OffersFine
<1> QED BY <1>1, <1>2 DEF IInv

LEMMA StepFine ==
    ASSUME IInv, [Next]_vars
    PROVE  IInv'
<1>0. directive \in DOMAIN Readers
  BY DEF IInv
<1>1. CASE MayAdd /\ \E reader \in Readers[directive] :
             \E family \in DOMAIN Offers(reader) :
                 \E t \in Offers(reader)[family] : Offer(reader, t) \/ Refuse(reader, t)
  <2>1. PICK reader \in Readers[directive] :
             \E family \in DOMAIN Offers(reader) :
                 \E t \in Offers(reader)[family] : Offer(reader, t) \/ Refuse(reader, t)
    BY <1>1
  <2>2. PICK family \in DOMAIN Offers(reader) :
             \E t \in Offers(reader)[family] : Offer(reader, t) \/ Refuse(reader, t)
    BY <2>1
  <2>3. PICK t \in Offers(reader)[family] : Offer(reader, t) \/ Refuse(reader, t)
    BY <2>2
  <2>4. t \in Text
    BY <1>0, OfferedText
  <2> QED BY <2>3, <2>4, OfferFine, RefuseFine
<1>2. ASSUME NEW algorithm \in HashAlgorithm, NEW bytes \in Digests, Digest(algorithm, bytes)
      PROVE  IInv'
  <2>1. PICK value \in HashFromDigest(algorithm, bytes) : Accept(value)
    BY <1>2 DEF Digest
  <2>2. directive = "img-src" /\ offered' = offered
    BY <1>2 DEF Digest
  <2>3. Fits("img-src", value) /\ value \in Generated
    BY GeneratedFits
  <2> QED BY <2>1, <2>2, <2>3, GenerateFine
<1>3. ASSUME NEW bytes \in Entropies, Mint(bytes)
      PROVE  IInv'
  <2>1. PICK value \in NonceFromEntropy(bytes) : Accept(value)
    BY <1>3 DEF Mint
  <2>2. directive = "img-src" /\ offered' = offered
    BY <1>3 DEF Mint
  <2>3. Fits("img-src", value) /\ value \in Generated
    BY GeneratedFits
  <2> QED BY <2>1, <2>2, <2>3, GenerateFine
<1>4. CASE Wildcard
  <2>1. FlagsFine'
    BY <1>4 DEF IInv, FlagsFine, Wildcard
  <2> QED BY <1>4, <2>1, FlagsChange DEF Wildcard
<1>5. CASE AllowingDuplicates
  <2>1. FlagsFine'
    BY <1>5 DEF IInv, FlagsFine, AllowingDuplicates
  <2> QED BY <1>5, <2>1, FlagsChange DEF AllowingDuplicates
<1>6. CASE UNCHANGED vars
  <2>1. FlagsFine'
    BY <1>6 DEF IInv, FlagsFine, vars
  <2> QED BY <1>6, <2>1, FlagsChange DEF vars
<1> QED BY <1>1, <1>2, <1>3, <1>4, <1>5, <1>6 DEF Next

-----------------------------------------------------------------------------
(***************************************************************************)
(* The requirements.                                                       *)
(***************************************************************************)
\* The entries are of the kinds the directive takes, render in the alphabet of the
\* model, and only trusted-types has flags, whatever the texts, the digests and the
\* bounds (the parsers of every term, Display, push_unique).
THEOREM ConfigurationTypes == Spec => []ConfigurationTypeOK
<1>1. Init => IInv
  BY InitFine
<1>2. IInv /\ [Next]_vars => IInv'
  BY StepFine
<1>3. IInv => ConfigurationTypeOK
  <2> SUFFICES ASSUME IInv PROVE ConfigurationTypeOK
    OBVIOUS
  <2>1. ASSUME NEW i \in DOMAIN entries
        PROVE  entries[i].kind \in Kinds[directive] /\ In(Display(entries[i]), Token)
    <3>1. entries[i] \in ToSet(entries)
      BY DEF ToSet
    <3>2. Fits(directive, entries[i])
      BY <3>1 DEF IInv, EntriesFine
    <3>3. In(Display(entries[i]), Token)
      <4>1. Display(entries[i]) \in Text
        BY <3>2, CleanIs DEF Fits
      <4> QED BY <4>1, InSeq DEF Text
    <3> QED BY <3>2, <3>3 DEF Fits
  <2>2. directive \in DOMAIN Readers /\ Len(offered) <= MaxOffers
    BY DEF IInv, OffersFine
  <2>3. FlagsFine
    BY DEF IInv
  <2> QED BY <2>1, <2>2, <2>3 DEF ConfigurationTypeOK, FlagsFine
<1> QED BY <1>1, <1>2, <1>3, PTL DEF Spec

-----------------------------------------------------------------------------
\* The entries as they are rendered.
Shown == [i \in DOMAIN entries |-> Display(entries[i])]

LEMMA ShownIs ==
    ASSUME IInv
    PROVE  /\ Shown \in Seq(Clean) /\ Len(Shown) = Len(entries)
           /\ \A i \in 1..Len(entries) : Shown[i] = Display(entries[i])
           /\ ToSet(Shown) = {Display(e) : e \in ToSet(entries)}
<1>1. PICK n : n = Len(entries)
  OBVIOUS
<1>2. n \in Nat /\ DOMAIN entries = 1..n
  BY <1>1, TextIs DEF IInv, EntriesFine
<1>3. ASSUME NEW i \in 1..n PROVE Display(entries[i]) \in Clean /\ entries[i] \in ToSet(entries)
  <2>1. entries[i] \in ToSet(entries)
    BY <1>2 DEF ToSet
  <2> QED BY <2>1 DEF IInv, EntriesFine, Fits
<1>4. Shown = [i \in 1..n |-> Display(entries[i])]
  BY <1>2 DEF Shown
<1>5. Shown \in [1..n -> Clean] /\ \A i \in 1..n : Shown[i] = Display(entries[i])
  BY <1>3, <1>4
<1>6. Shown \in Seq(Clean) /\ Len(Shown) = n
  <2>1. Shown \in Seq(Clean)
    BY <1>2, <1>5, FunctionIsSeq
  <2>2. DOMAIN Shown = 1..n
    BY <1>4
  <2>3. DOMAIN Shown = 1..Len(Shown) /\ Len(Shown) \in Nat
    BY <2>1, TextIs
  <2>4. Len(Shown) = n
    BY <1>2, <2>2, <2>3, SameInterval
  <2> QED BY <2>1, <2>4
<1>7. ToSet(Shown) = {Shown[i] : i \in 1..n}
  BY <1>6, ToSetIs
<1>8. ToSet(entries) = {entries[i] : i \in 1..n}
  BY <1>2 DEF ToSet
<1>9. ToSet(Shown) = {Display(e) : e \in ToSet(entries)}
  BY <1>5, <1>7, <1>8
<1> QED BY <1>1, <1>5, <1>6, <1>9

\* The line reads back as the name of the directive and its words.
LEMMA LineIs ==
    ASSUME IInv, NEW S, Blank \notin S, directive \in S, Words \in Seq(Seq(S))
    PROVE  /\ Head(Pieces(Line)) = <<directive>> /\ Tail(Pieces(Line)) = Words
           /\ Line \in Seq(S \cup {Blank})
<1>1. Line = Written(directive, Words)
  BY DEF Line
<1>2. PICK name, words, line : name = directive /\ words = Words /\ line = Line
  OBVIOUS
<1>3. name \in S /\ words \in Seq(Seq(S)) /\ line = Written(name, words)
  BY <1>1, <1>2
<1>4. /\ line \in Seq(S \cup {Blank})
      /\ Head(Pieces(line)) = <<name>> /\ Tail(Pieces(line)) = words
  BY <1>3, LineIsRead, ZenonT(30)
<1> QED BY <1>2, <1>4

-----------------------------------------------------------------------------
(***************************************************************************)
(* The words of trusted-types.                                             *)
(***************************************************************************)
LEMMA JoinedSet ==
    ASSUME NEW T, NEW x \in Seq(T), NEW y \in Seq(T)
    PROVE  x \o y \in Seq(T) /\ ToSet(x \o y) = ToSet(x) \cup ToSet(y)
<1>0. Len(x) \in Nat /\ Len(y) \in Nat
  BY TextIs
<1>1. PICK u : u = x \o y
  OBVIOUS
<1>2. /\ u \in Seq(T) /\ Len(u) = Len(x) + Len(y)
      /\ \A i \in 1..(Len(x) + Len(y)) : u[i] = IF i <= Len(x) THEN x[i] ELSE y[i - Len(x)]
  BY <1>1, ConcatProperties
<1>3. /\ ToSet(x) = {x[i] : i \in 1..Len(x)} /\ ToSet(y) = {y[i] : i \in 1..Len(y)}
      /\ ToSet(u) = {u[i] : i \in 1..Len(u)}
  BY <1>2, ToSetIs
<1>4. ASSUME NEW i \in 1..Len(u) PROVE u[i] \in ToSet(x) \cup ToSet(y)
  <2>1. CASE i <= Len(x)
    <3>1. i \in 1..Len(x) /\ i \in 1..(Len(x) + Len(y))
      BY <1>0, <1>2, <2>1
    <3> QED BY <1>2, <1>3, <2>1, <3>1
  <2>2. CASE ~(i <= Len(x))
    <3>1. i - Len(x) \in 1..Len(y) /\ i \in 1..(Len(x) + Len(y))
      BY <1>0, <1>2, <2>2
    <3> QED BY <1>2, <1>3, <2>2, <3>1
  <2> QED BY <2>1, <2>2
<1>5. ASSUME NEW i \in 1..Len(x) PROVE x[i] \in ToSet(u)
  <2>1. i \in 1..Len(u) /\ i \in 1..(Len(x) + Len(y)) /\ i <= Len(x)
    BY <1>0, <1>2
  <2>2. u[i] = x[i]
    BY <1>2, <2>1
  <2> QED BY <1>3, <2>1, <2>2
<1>6. ASSUME NEW i \in 1..Len(y) PROVE y[i] \in ToSet(u)
  <2>1. PICK k \in 1..(Len(x) + Len(y)) : k = Len(x) + i
    BY <1>0
  <2>2. ~(k <= Len(x)) /\ k - Len(x) = i /\ k \in 1..Len(u)
    BY <1>0, <1>2, <2>1
  <2>3. u[k] = y[i]
    BY <1>2, <2>2
  <2> QED BY <1>3, <2>2, <2>3
<1>7. ToSet(u) = ToSet(x) \cup ToSet(y)
  BY <1>3, <1>4, <1>5, <1>6
<1> QED BY <1>1, <1>2, <1>7

StarWord == <<"*">>

TwiceWord == <<"'", "allow", "-", "duplicates", "'">>

LEMMA PermissionIs ==
    ASSUME NEW words
    PROVE  /\ PermittedNames(words) = {word \in ToSet(words) : word[1] \notin {"'", "*"}}
           /\ AnyPermitted(words) <=> StarWord \in ToSet(words)
           /\ TwicePermitted(words) <=> TwiceWord \in ToSet(words)
<1>1. PermittedNames(words) = {word \in ToSet(words) : word[1] \notin {"'", "*"}}
  BY DEF ToSet, PermittedNames
<1>2. AnyPermitted(words) <=> StarWord \in ToSet(words)
  BY DEF ToSet, StarWord, AnyPermitted
<1>3. TwicePermitted(words) <=> TwiceWord \in ToSet(words)
  BY DEF ToSet, TwiceWord, TwicePermitted
<1> QED BY <1>1, <1>2, <1>3

LEMMA FlagWords ==
    ASSUME NEW flag, NEW word, NEW T, word \in T
    PROVE  /\ Flag(flag, word) \in Seq(T)
           /\ ToSet(Flag(flag, word)) = IF flag \in flags THEN {word} ELSE {}
<1>1. CASE flag \in flags
  <2>1. PICK u : u = <<word>>
    OBVIOUS
  <2>2. u \in Seq(T) /\ Len(u) = 1 /\ u[1] = word
    BY <2>1
  <2>3. ToSet(u) = {u[i] : i \in 1..Len(u)}
    BY <2>2, ToSetIs
  <2>4. ToSet(u) = {word}
    BY <2>2, <2>3
  <2> QED BY <1>1, <2>1, <2>2, <2>4 DEF Flag
<1>2. CASE flag \notin flags
  <2>1. <<>> \in Seq(T) /\ ToSet(<<>>) = {}
    BY DEF ToSet
  <2> QED BY <1>2, <2>1 DEF Flag
<1> QED BY <1>1, <1>2

\* The alphabet of a line.
LineTokens == PolicyByte \cup {directive, "duplicates"}

LEMMA LineTokensAre ==
    ASSUME directive \in DOMAIN Readers
    PROVE  /\ Blank \notin LineTokens /\ directive \in LineTokens
           /\ Clean \subseteq Seq(LineTokens)
           /\ StarWord \in Seq(LineTokens) /\ TwiceWord \in Seq(LineTokens)
           /\ None \in Seq(LineTokens)
<1>1. Blank \notin {directive, "duplicates"}
  BY DirectivesAre DEF Blank
<1>2. Blank \notin LineTokens /\ directive \in LineTokens /\ PolicyByte \subseteq LineTokens
  BY <1>1, BlankIs DEF LineTokens
<1>3. "'" \in PolicyByte /\ "*" \in PolicyByte /\ "-" \in PolicyByte
  BY DEF PolicyByte, Punctuation
<1>4. "allow" \in PolicyByte /\ "none" \in PolicyByte
  BY DistinctTokens DEF PolicyByte, Alphanumeric, Letters, Word, Vocabulary
<1>5. "duplicates" \in LineTokens
  BY DEF LineTokens
<1>6. StarWord \in Seq(LineTokens)
  BY <1>2, <1>3 DEF StarWord
<1>7. TwiceWord \in Seq(LineTokens)
  BY <1>2, <1>3, <1>4, <1>5 DEF TwiceWord
<1>8. None \in Seq(LineTokens)
  BY <1>2, <1>3, <1>4 DEF None
<1>9. ASSUME NEW t \in Clean PROVE t \in Seq(LineTokens)
  BY <1>2 DEF Clean
<1> QED BY <1>2, <1>6, <1>7, <1>8, <1>9

\* The words of the value before an empty list is spelt out.
LEMMA ValueWords ==
    ASSUME IInv
    PROVE  /\ TrustedTypesWords \in Seq(Seq(LineTokens))
           /\ ToSet(TrustedTypesWords) =
                 (IF "wildcard" \in flags THEN {StarWord} ELSE {})
                     \cup ToSet(Shown)
                     \cup (IF "allow-duplicates" \in flags THEN {TwiceWord} ELSE {})
<1> DEFINE T == Seq(LineTokens)
           first == Flag("wildcard", StarWord)
           last == Flag("allow-duplicates", TwiceWord)
<1>1. first \in Seq(T) /\ ToSet(first) = IF "wildcard" \in flags THEN {StarWord} ELSE {}
  BY LineTokensAre, FlagWords DEF IInv
<1>2. last \in Seq(T) /\ ToSet(last) = IF "allow-duplicates" \in flags THEN {TwiceWord} ELSE {}
  BY LineTokensAre, FlagWords DEF IInv
<1>3. Shown \in Seq(T)
  <2>1. Shown \in Seq(Clean)
    BY ShownIs
  <2>2. Clean \subseteq T
    BY LineTokensAre DEF IInv
  <2> QED BY <2>1, <2>2
<1>4. TrustedTypesWords = (first \o Shown) \o last
  BY DEF TrustedTypesWords, Shown, StarWord, TwiceWord
<1> HIDE DEF T, first, last
<1>5. PICK both : both = first \o Shown
  OBVIOUS
<1>6. both \in Seq(T) /\ ToSet(both) = ToSet(first) \cup ToSet(Shown)
  BY <1>1, <1>3, <1>5, JoinedSet
<1>7. both \o last \in Seq(T) /\ ToSet(both \o last) = ToSet(both) \cup ToSet(last)
  BY <1>2, <1>6, JoinedSet
<1>8. TrustedTypesWords = both \o last
  BY <1>4, <1>5
<1>9. ToSet(TrustedTypesWords) = (ToSet(first) \cup ToSet(Shown)) \cup ToSet(last)
  BY <1>6, <1>7, <1>8
<1>10. TrustedTypesWords \in Seq(Seq(LineTokens))
  BY <1>7, <1>8 DEF T
<1> QED BY <1>1, <1>2, <1>9, <1>10

LEMMA LineWords ==
    ASSUME IInv
    PROVE  /\ Words \in Seq(Seq(LineTokens))
           /\ \/ Words = TrustedTypesWords
              \/ TrustedTypesWords = <<>> /\ Words = <<None>>
<1>1. Words = TrustedTypesWords \/ (TrustedTypesWords = <<>> /\ Words = <<None>>)
  BY DEF Words
<1>2. <<None>> \in Seq(Seq(LineTokens))
  BY LineTokensAre DEF IInv
<1> QED BY <1>1, <1>2, ValueWords

LEMMA LineHolds ==
    ASSUME IInv
    PROVE  /\ Head(Pieces(Line)) = <<directive>> /\ Tail(Pieces(Line)) = Words
           /\ Line \in Seq(LineTokens \cup {Blank})
<1>1. Words \in Seq(Seq(LineTokens))
  BY LineWords
<1>2. Blank \notin LineTokens /\ directive \in LineTokens
  BY LineTokensAre DEF IInv
<1> QED BY <1>1, <1>2, LineIs, Zenon

\* The policies whose names were accepted are the values.
LEMMA NamesAre ==
    ASSUME IInv, directive = "trusted-types"
    PROVE  /\ ToSet(Shown) = {offered[i].text : i \in
                                 {j \in DOMAIN offered : Read(Reader, offered[j].text) # {}}}
           /\ \A word \in ToSet(Shown) : word[1] \notin {"'", "*"}
<1>1. Readers[directive] = {"TrustedTypePolicyName::parse"}
  BY ReadersAre
<1>2. Reader = "TrustedTypePolicyName::parse"
  BY ReaderIs, ReadersOf
<1>3. ASSUME NEW i \in DOMAIN offered
      PROVE  /\ offered[i].reader = "TrustedTypePolicyName::parse" /\ offered[i].text \in Text
             /\ Read(offered[i].reader, offered[i].text) = ParsePolicyName(offered[i].text)
             /\ Read(Reader, offered[i].text) = ParsePolicyName(offered[i].text)
  <2>1. offered[i] \in [reader : Readers[directive], text : Text]
    BY TextIs DEF IInv, OffersFine
  <2>2. offered[i].reader = "TrustedTypePolicyName::parse" /\ offered[i].text \in Text
    BY <1>1, <2>1
  <2> QED BY <1>2, <2>2, ReadIs
<1>4. ToSet(entries) = AcceptedIn(offered)
  BY DEF IInv, ContentFine, HoldsOne, MadeUp
<1>5. ToSet(Shown) = {Display(e) : e \in ToSet(entries)}
  BY ShownIs
<1>6. ASSUME NEW i \in DOMAIN offered, NEW e \in ParsePolicyName(offered[i].text)
      PROVE  Display(e) = offered[i].text
  BY <1>3, <1>6, NameFits
<1>7. ASSUME NEW word \in ToSet(Shown)
      PROVE  \E i \in DOMAIN offered :
                Read(Reader, offered[i].text) # {} /\ word = offered[i].text
  <2>1. PICK e \in AcceptedIn(offered) : word = Display(e)
    BY <1>4, <1>5
  <2>2. PICK i \in DOMAIN offered : e \in Read(offered[i].reader, offered[i].text)
    BY <2>1 DEF AcceptedIn
  <2>3. e \in ParsePolicyName(offered[i].text)
    BY <1>3, <2>2
  <2>4. Read(Reader, offered[i].text) # {}
    BY <1>3, <2>3
  <2> QED BY <1>6, <2>1, <2>3, <2>4
<1>8. ASSUME NEW i \in DOMAIN offered, Read(Reader, offered[i].text) # {}
      PROVE  offered[i].text \in ToSet(Shown)
  <2>1. PICK e : e \in ParsePolicyName(offered[i].text)
    BY <1>3, <1>8
  <2>2. e \in Read(offered[i].reader, offered[i].text)
    BY <1>3, <2>1
  <2>3. e \in AcceptedIn(offered)
    BY <2>2 DEF AcceptedIn
  <2>4. Display(e) = offered[i].text
    BY <1>6, <2>1
  <2> QED BY <1>4, <1>5, <2>3, <2>4
<1>9. ASSUME NEW word \in ToSet(Shown) PROVE word[1] \notin {"'", "*"}
  <2>1. PICK e \in ToSet(entries) : word = Display(e)
    BY <1>5
  <2>2. Fits(directive, e)
    BY DEF IInv, EntriesFine
  <2> QED BY <2>1, <2>2 DEF Fits
<1> QED BY <1>7, <1>8, <1>9

LEMMA NamesPermitted ==
    ASSUME IInv
    PROVE  TrustedTypesPermitsTheNames
<1> SUFFICES ASSUME directive = "trusted-types"
             PROVE  TrustedTypesPermitsTheNames
  BY DEF TrustedTypesPermitsTheNames
<1> DEFINE words == Tail(Pieces(Line))
<1>1. words = Words
  BY LineHolds
<1>2. StarWord[1] = "*" /\ TwiceWord[1] = "'" /\ None[1] = "'"
  BY DEF StarWord, TwiceWord, None
<1>3. StarWord # TwiceWord /\ StarWord # None /\ TwiceWord # None
  BY DEF StarWord, TwiceWord, None
<1>4. \A word \in ToSet(Shown) : word[1] \notin {"'", "*"}
  BY NamesAre
<1>5. ToSet(words) = ToSet(TrustedTypesWords)
      \/ (ToSet(TrustedTypesWords) = {} /\ ToSet(words) = {None})
  <2> HIDE DEF words
  <2>1. CASE Words = TrustedTypesWords
    BY <1>1, <2>1
  <2>2. CASE TrustedTypesWords = <<>> /\ Words = <<None>>
    <3>1. ToSet(<<>>) = {} /\ ToSet(<<None>>) = {None}
      BY DEF ToSet
    <3> QED BY <1>1, <2>2, <3>1
  <2>3. \/ Words = TrustedTypesWords
        \/ TrustedTypesWords = <<>> /\ Words = <<None>>
    BY LineWords
  <2> QED BY <2>1, <2>2, <2>3, Zenon
<1> HIDE DEF words
<1>6. {word \in ToSet(words) : word[1] \notin {"'", "*"}} = ToSet(Shown)
  BY <1>2, <1>4, <1>5, ValueWords
<1>7. StarWord \in ToSet(words) <=> "wildcard" \in flags
  BY <1>2, <1>3, <1>4, <1>5, ValueWords
<1>8. TwiceWord \in ToSet(words) <=> "allow-duplicates" \in flags
  BY <1>2, <1>3, <1>4, <1>5, ValueWords
<1>9. PermittedNames(words) = {offered[i].text : i \in
                                 {j \in DOMAIN offered : Read(Reader, offered[j].text) # {}}}
  BY <1>6, PermissionIs, NamesAre
<1>10. AnyPermitted(words) <=> "wildcard" \in flags
  BY <1>7, PermissionIs
<1>11. TwicePermitted(words) <=> "allow-duplicates" \in flags
  BY <1>8, PermissionIs
<1> QED BY <1>9, <1>10, <1>11 DEF TrustedTypesPermitsTheNames, words

\* A browser that cuts the line of trusted-types at its blanks permits the policies whose
\* names were accepted and no others, any policy where the wildcard was set, and the same
\* twice where that was allowed, whatever the names: none is taken for the wildcard or a
\* keyword (TrustedTypePolicyName::parse, Display for TrustedTypes).
THEOREM TrustedTypesPermits == Spec => []TrustedTypesPermitsTheNames
<1>1. Init => IInv
  BY InitFine
<1>2. IInv /\ [Next]_vars => IInv'
  BY StepFine
<1>3. IInv => TrustedTypesPermitsTheNames
  BY NamesPermitted
<1> QED BY <1>1, <1>2, <1>3, PTL DEF Spec

-----------------------------------------------------------------------------
(***************************************************************************)
(* The line is read back.                                                  *)
(***************************************************************************)

\* A parser of the directive reads in every word the value it was rendered from.
LEMMA ValuesRead ==
    ASSUME IInv
    PROVE  [i \in DOMAIN Shown |-> Read(Reader, Shown[i])] = [i \in DOMAIN entries |-> {entries[i]}]
<1>1. DOMAIN Shown = DOMAIN entries
  BY DEF Shown
<1>2. ASSUME NEW i \in DOMAIN entries PROVE Read(Reader, Shown[i]) = {entries[i]}
  <2>1. entries[i] \in ToSet(entries)
    BY DEF ToSet
  <2>2. Fits(directive, entries[i])
    BY <2>1 DEF IInv, EntriesFine
  <2>3. Shown[i] = Display(entries[i])
    BY DEF Shown
  <2> QED BY <2>2, <2>3, ReaderIs DEF Fits
<1> QED BY <1>1, <1>2

LEMMA NoFlags ==
    ASSUME IInv, directive # "trusted-types"
    PROVE  TrustedTypesWords = Shown
<1>1. flags = {}
  BY DEF IInv, FlagsFine
<1>2. Flag("wildcard", <<"*">>) = <<>>
  BY <1>1 DEF Flag
<1>3. Flag("allow-duplicates", <<"'", "allow", "-", "duplicates", "'">>) = <<>>
  BY <1>1 DEF Flag
<1>4. PICK u \in Seq(Clean) : u = Shown
  BY ShownIs
<1>5. TrustedTypesWords = <<>> \o u \o <<>>
  BY <1>2, <1>3, <1>4 DEF TrustedTypesWords, Shown
<1>6. <<>> \o u \o <<>> = u
  BY ConcatEmptySeq
<1> QED BY <1>4, <1>5, <1>6

LEMMA NothingShown ==
    ASSUME IInv, Shown = <<>>
    PROVE  /\ entries = <<>>
           /\ [i \in DOMAIN entries |-> {entries[i]}] = <<>>
<1>1. Len(Shown) = Len(entries)
  BY ShownIs
<1>2. Len(<<>>) = 0
  OBVIOUS
<1>3. entries = <<>>
  <2>1. PICK n : n = Len(entries)
    OBVIOUS
  <2>2. n = 0
    BY <1>1, <1>2, <2>1
  <2> QED BY <2>1, <2>2, TextIs DEF IInv, EntriesFine
<1>4. [i \in DOMAIN <<>> |-> {<<>>[i]}] = <<>>
  OBVIOUS
<1> QED BY <1>3, <1>4

LEMMA ShownIsNotNone ==
    ASSUME IInv, directive \in {"img-src", "frame-ancestors"}
    PROVE  Shown # <<None>>
<1> SUFFICES ASSUME Shown = <<None>> PROVE FALSE
  OBVIOUS
<1>1. 1 \in DOMAIN Shown /\ Shown[1] = None
  OBVIOUS
<1>2. 1 \in DOMAIN entries /\ Display(entries[1]) = None
  BY <1>1 DEF Shown
<1>3. entries[1] \in ToSet(entries)
  BY <1>2 DEF ToSet
<1>4. Fits(directive, entries[1])
  BY <1>3 DEF IInv, EntriesFine
<1> QED BY <1>2, <1>4 DEF Fits

\* What the reader finds in the words.
ValuesIn(words) ==
    IF words = <<None>> /\ directive \in {"img-src", "frame-ancestors"} THEN <<>>
    ELSE [i \in DOMAIN words |-> Read(Reader, words[i])]

LEMMA ValuesAre ==
    ASSUME IInv, directive # "trusted-types"
    PROVE  ValuesIn(Words) = [i \in DOMAIN entries |-> {entries[i]}]
<1>1. CASE TrustedTypesWords = <<>> /\ directive \in {"img-src", "frame-ancestors"}
  <2>1. Words = <<None>>
    BY <1>1 DEF Words
  <2>2. Shown = <<>>
    BY <1>1, NoFlags
  <2>3. ValuesIn(Words) = <<>>
    BY <1>1, <2>1 DEF ValuesIn
  <2> QED BY <2>2, <2>3, NothingShown
<1>2. CASE ~(TrustedTypesWords = <<>> /\ directive \in {"img-src", "frame-ancestors"})
  <2>1. Words = Shown
    BY <1>2, NoFlags DEF Words
  <2>2. ~(Shown = <<None>> /\ directive \in {"img-src", "frame-ancestors"})
    BY ShownIsNotNone
  <2>3. ValuesIn(Shown) = [i \in DOMAIN Shown |-> Read(Reader, Shown[i])]
    BY <2>2 DEF ValuesIn
  <2> QED BY <2>1, <2>3, ValuesRead
<1> QED BY <1>1, <1>2

LEMMA LineIsOne ==
    ASSUME IInv
    PROVE  ToSet(Line) \cap {";", ","} = {}
<1>1. ToSet(Line) \subseteq LineTokens \cup {Blank}
  BY LineHolds, ToSetIs
<1>2. ";" \notin {directive, "duplicates", Blank} /\ "," \notin {directive, "duplicates", Blank}
  BY DirectivesAre DEF IInv, Blank
<1>3. ";" \notin LineTokens \cup {Blank} /\ "," \notin LineTokens \cup {Blank}
  BY <1>2, BlankIs DEF LineTokens
<1> QED BY <1>1, <1>3

LEMMA ReadsBack ==
    ASSUME IInv
    PROVE  LineReadsBack
<1> SUFFICES ASSUME directive # "trusted-types"
             PROVE  LineReadsBack
  BY DEF LineReadsBack
<1>1. Tail(Pieces(Line)) = Words /\ Head(Pieces(Line)) = <<directive>>
  BY LineHolds
<1>2. ValuesIn(Tail(Pieces(Line))) = [i \in DOMAIN entries |-> {entries[i]}]
  BY <1>1, ValuesAre
<1>3. ToSet(Line) \cap {";", ","} = {}
  BY LineIsOne
<1> QED BY <1>1, <1>2, <1>3 DEF LineReadsBack, ValuesIn

\* Whatever texts, digests and entropies a directive was filled with, its line read back
\* at the blanks is its name and, to the parsers of the crate, the values that were put
\* in, in their order, and it ends neither the directive nor the policy (every parser
\* and Display of the crate, and the oracles parse_source and parse_terms).
THEOREM LineReadsBackAlways == Spec => []LineReadsBack
<1>1. Init => IInv
  BY InitFine
<1>2. IInv /\ [Next]_vars => IInv'
  BY StepFine
<1>3. IInv => LineReadsBack
  BY ReadsBack
<1> QED BY <1>1, <1>2, <1>3, PTL DEF Spec

-----------------------------------------------------------------------------
(***************************************************************************)
(* The parser of host sources reads what the grammar means.                *)
(***************************************************************************)

\* No colon just before the first "://", and no slash anywhere before it.
Straight(t) ==
    \A p : FirstMark(t, p) =>
        /\ p > 1 => t[p - 1] # ":"
        /\ \A j \in 1..Len(t) : t[j] = "/" => p < j

LEMMA FirstMarkIs ==
    ASSUME NEW t \in Text, ~NoMark(t)
    PROVE  \E p : FirstMark(t, p)
<1>1. PICK p : p = FirstPlace(t, Slashes)
  OBVIOUS
<1>2. CASE p = 0 /\ SchemeEnds(t, 0)
  BY <1>2 DEF SchemeEnds
<1>3. CASE p \in Nat /\ p >= 1 /\ SchemeEnds(t, p + 2)
  <2>1. FirstMark(t, p + 2 - 2) /\ p + 2 - 2 = p
    BY <1>3 DEF SchemeEnds
  <2> QED BY <2>1
<1> QED BY <1>1, <1>2, <1>3, SchemeCut

LEMMA StraightIs ==
    ASSUME NEW t \in Text, ~Departure(t)
    PROVE  Straight(t)
<1>0. Len(t) \in Nat
  BY TextLen
<1>1. ASSUME NEW p, FirstMark(t, p) PROVE p = FirstPlace(t, Slashes)
  <2>1. PICK m : m = FirstPlace(t, Slashes)
    OBVIOUS
  <2>2. p \in Places(t, Slashes)
    BY <1>1, SlashesAt DEF FirstMark
  <2>3. m \in Places(t, Slashes) /\ m <= p
    BY <2>1, <2>2, FirstPlaceIs DEF Text
  <2>4. p <= m /\ p \in 1..Len(t) /\ m \in 1..Len(t)
    BY <1>1, <2>3, SlashesAt DEF FirstMark
  <2> QED BY <1>0, <2>1, <2>3, <2>4
<1>2. ASSUME NEW p, FirstMark(t, p) PROVE p > 1 => t[p - 1] # ":"
  BY <1>1, <1>2 DEF Departure, Slashes
<1>3. ASSUME NEW p, FirstMark(t, p), NEW j \in 1..Len(t), t[j] = "/", ~(p < j) PROVE FALSE
  <2>1. p \in 1..Len(t) /\ t[p] = ":"
    BY <1>3 DEF FirstMark, Mark
  <2>2. ":" # "/"
    OBVIOUS
  <2>3. j < p
    BY <1>0, <1>3, <2>1, <2>2
  <2>4. PICK slash : slash = FirstPlace(t, Slash)
    OBVIOUS
  <2>5. \A k : k \in Places(t, Slash) <=> k \in 1..Len(t) /\ t[k] = "/"
    BY MarksAreTokens, MarkAt DEF Slash
  <2>6. j \in Places(t, Slash)
    BY <1>3, <2>5
  <2>7. slash \in Places(t, Slash) /\ slash <= j
    BY <2>4, <2>6, FirstPlaceIs DEF Text
  <2>8. slash \in 1..(p - 1)
    BY <1>0, <2>1, <2>3, <2>5, <2>7
  <2>9. FirstPlace(t, Slash) \in 1..(FirstPlace(t, Slashes) - 1)
    BY <1>1, <1>3, <2>4, <2>8
  <2> QED BY <2>9 DEF Departure, Slash, Slashes
<1> QED BY <1>2, <1>3 DEF Straight

\* The cut of a text that the grammar allows.
InGrammar(t, c1, c2, c3) ==
    /\ c1 = 0 \/ \E i \in 1..Len(t) : Mark(t, i) /\ c1 = i + 2
    /\ c2 \in 1..Len(t) /\ c3 \in 1..Len(t) /\ c1 < c2 /\ c2 <= c3
    /\ c1 # 0 => IsScheme(Before(t, c1 - 2))
    /\ IsHost(SubSeq(t, c1 + 1, c2))
    /\ c2 # c3 => t[c2 + 1] = ":" /\ IsPort(SubSeq(t, c2 + 2, c3))
    /\ c3 # Len(t) => IsPath(From(t, c3 + 1))

LEMMA CutsAre ==
    ASSUME NEW t \in Text, NEW c1, NEW c2, NEW c3
    PROVE  <<c1, c2, c3>> \in Cuts(t) <=> InGrammar(t, c1, c2, c3)
<1> DEFINE starts == {0} \cup {i + 2 : i \in Places(t, Slashes)}
<1>1. c1 \in starts <=> c1 = 0 \/ \E i \in 1..Len(t) : Mark(t, i) /\ c1 = i + 2
  BY SlashesAt
<1>2. DOMAIN t = 1..Len(t)
  BY TextDomain
<1>3. starts = {0} \cup {i + 2 : i \in Places(t, <<":", "/", "/">>)}
  BY DEF Slashes
<1> HIDE DEF starts
<1>4. <<c1, c2, c3>> \in starts \X (1..Len(t)) \X (1..Len(t))
        <=> c1 \in starts /\ c2 \in 1..Len(t) /\ c3 \in 1..Len(t)
  OBVIOUS
<1> QED BY <1>1, <1>2, <1>3, <1>4 DEF Cuts, InGrammar

\* The bytes of the parts of such a cut.
LEMMA GrammarBytes ==
    ASSUME NEW t \in Text, NEW c1, NEW c2, NEW c3, InGrammar(t, c1, c2, c3)
    PROVE  /\ AreCuts(t, c1, c2, c3) /\ c1 < c2
           /\ Lacks(t, ":", c1 + 1, c2) /\ Lacks(t, "/", c1 + 1, c2)
           /\ c2 # c3 => /\ c2 + 2 <= c3 /\ t[c2 + 1] = ":"
                         /\ Lacks(t, ":", c2 + 2, c3) /\ Lacks(t, "/", c2 + 2, c3)
           /\ c3 # Len(t) => t[c3 + 1] = "/"
<1>0. Len(t) \in Nat
  BY TextLen
<1>1. c1 \in Nat /\ c2 \in Nat /\ c3 \in Nat /\ c1 < c2 /\ c2 <= c3 /\ c3 <= Len(t)
  BY <1>0 DEF InGrammar
<1>2. AreCuts(t, c1, c2, c3)
  BY <1>1 DEF AreCuts
<1>3. ASSUME NEW i \in (c1 + 1)..c2 PROVE t[i] # ":" /\ t[i] # "/"
  <2>1. PICK u : u = SubSeq(t, c1 + 1, c2)
    OBVIOUS
  <2>2. u \in Text /\ Len(u) = c2 - c1 /\ After(u, t, c1)
    <3>1. c1 \in Nat /\ c2 \in Nat /\ c1 <= c2 /\ c2 <= Len(t)
      BY <1>0, <1>1
    <3> QED BY <2>1, <3>1, PartAfter
  <2>3. i - c1 \in 1..Len(u) /\ c1 + (i - c1) = i
    BY <1>1, <2>2
  <2>4. u[i - c1] = t[i]
    BY <2>2, <2>3 DEF After
  <2>5. IsHost(u)
    BY <2>1 DEF InGrammar
  <2> QED BY <2>2, <2>3, <2>4, <2>5, HostBytes
<1>4. ASSUME c2 # c3
      PROVE  /\ c2 + 2 <= c3 /\ t[c2 + 1] = ":"
             /\ \A i \in (c2 + 2)..c3 : t[i] # ":" /\ t[i] # "/"
  <2>1. PICK d \in Nat : d = c2 + 1
    BY <1>1
  <2>2. PICK u : u = SubSeq(t, d + 1, c3)
    OBVIOUS
  <2>3. u \in Text /\ Len(u) = c3 - d /\ After(u, t, d)
    <3>1. d \in Nat /\ c3 \in Nat /\ d <= c3 /\ c3 <= Len(t)
      BY <1>1, <1>4, <2>1
    <3> QED BY <2>2, <3>1, PartAfter
  <2>4. d + 1 = c2 + 2
    BY <1>1, <2>1
  <2>5. IsPort(u) /\ t[c2 + 1] = ":"
    BY <1>4, <2>2, <2>4 DEF InGrammar
  <2>6. Len(u) > 0 /\ \A i \in 1..Len(u) : u[i] # ":" /\ u[i] # "/"
    BY <2>3, <2>5, PortBytes
  <2>7. c2 + 2 <= c3
    BY <1>1, <2>1, <2>3, <2>6
  <2>8. ASSUME NEW i \in (c2 + 2)..c3 PROVE t[i] # ":" /\ t[i] # "/"
    <3>1. i - d \in 1..Len(u) /\ d + (i - d) = i
      BY <1>1, <2>1, <2>3
    <3>2. u[i - d] = t[i]
      BY <2>3, <3>1 DEF After
    <3> QED BY <2>6, <3>1, <3>2
  <2> QED BY <2>5, <2>7, <2>8
<1>5. ASSUME c3 # Len(t) PROVE t[c3 + 1] = "/"
  <2>1. PICK u : u = SubSeq(t, c3 + 1, Len(t))
    OBVIOUS
  <2>2. u \in Text /\ Len(u) = Len(t) - c3 /\ After(u, t, c3)
    <3>1. c3 \in Nat /\ Len(t) \in Nat /\ c3 <= Len(t) /\ Len(t) <= Len(t)
      BY <1>0, <1>1
    <3> QED BY <2>1, <3>1, PartAfter
  <2>3. IsPath(u)
    BY <1>5, <2>1 DEF InGrammar, From
  <2>4. 1 \in 1..Len(u) /\ u[1] = "/"
    BY <1>0, <1>1, <1>5, <2>2, <2>3, PathIs
  <2> QED BY <2>2, <2>4 DEF After
<1> QED BY <1>1, <1>2, <1>3, <1>4, <1>5 DEF Lacks

\* The one cut of the parser is the only one that the grammar can allow.
LEMMA GrammarCut ==
    ASSUME NEW t \in Text, Straight(t), NEW c1, NEW c2, NEW c3, InGrammar(t, c1, c2, c3)
    PROVE  IsCut(t, c1, c2, c3)
<1>0. Len(t) \in Nat
  BY TextLen
<1>1. /\ c1 \in Nat /\ c2 \in Nat /\ c3 \in Nat
      /\ c1 < c2 /\ c2 <= c3 /\ c3 <= Len(t)
  BY GrammarBytes DEF AreCuts
<1>2. /\ Lacks(t, ":", c1 + 1, c2) /\ Lacks(t, "/", c1 + 1, c2)
      /\ c3 # Len(t) => t[c3 + 1] = "/"
  BY GrammarBytes
<1>3. c2 # c3 => /\ c2 + 2 <= c3 /\ t[c2 + 1] = ":"
                 /\ Lacks(t, ":", c2 + 2, c3) /\ Lacks(t, "/", c2 + 2, c3)
  BY GrammarBytes
<1>4. Lacks(t, "/", c1 + 1, c3)
  <2>1. ASSUME NEW i \in (c1 + 1)..c3 PROVE t[i] # "/"
    <3>1. CASE i <= c2
      <4>1. i \in (c1 + 1)..c2
        BY <1>1, <3>1
      <4> QED BY <1>2, <4>1 DEF Lacks
    <3>2. CASE i = c2 + 1
      <4>1. c2 # c3
        BY <1>1, <3>2
      <4> QED BY <1>3, <3>2, <4>1
    <3>3. CASE i > c2 + 1
      <4>1. c2 # c3 /\ i \in (c2 + 2)..c3
        BY <1>1, <3>3
      <4> QED BY <1>3, <4>1 DEF Lacks
    <3> QED BY <1>1, <3>1, <3>2, <3>3
  <2> QED BY <2>1 DEF Lacks
<1>5. PathBegins(t, c1, c3)
  BY <1>2, <1>4 DEF PathBegins
<1>6. PortBegins(t, c1, c2, c3)
  BY <1>1, <1>2, <1>3 DEF PortBegins
<1>7. t[c3] # ":"
  <2>1. CASE c2 = c3
    <3>1. c3 \in (c1 + 1)..c2
      BY <1>1, <2>1
    <3> QED BY <1>2, <3>1 DEF Lacks
  <2>2. CASE c2 # c3
    <3>1. c3 \in (c2 + 2)..c3
      BY <1>1, <1>3, <2>2
    <3> QED BY <1>3, <2>2, <3>1 DEF Lacks
  <2> QED BY <2>1, <2>2
<1>8. ASSUME NEW p, FirstMark(t, p), c1 = 0 PROVE FALSE
  <2>1. p \in 1..Len(t) /\ p + 1 \in 1..Len(t) /\ t[p] = ":" /\ t[p + 1] = "/"
    BY <1>0, <1>8 DEF FirstMark, Mark
  <2>2. ~(p + 1 <= c3)
    <3>1. p + 1 <= c3 => p + 1 \in (c1 + 1)..c3
      BY <1>1, <1>8, <2>1
    <3> QED BY <1>4, <2>1, <3>1 DEF Lacks
  <2>3. p # c3
    BY <1>7, <2>1
  <2>4. c3 # Len(t) /\ c3 + 1 \in 1..Len(t) /\ c3 + 1 <= p
    BY <1>0, <1>1, <2>1, <2>2, <2>3
  <2>5. p < c3 + 1
    BY <1>2, <1>8, <2>4 DEF Straight
  <2> QED BY <1>1, <2>1, <2>4, <2>5
<1>9. SchemeEnds(t, c1)
  <2>1. CASE c1 = 0
    BY <1>8, <2>1, FirstMarkIs DEF SchemeEnds
  <2>2. CASE c1 # 0
    <3>1. PICK i \in 1..Len(t) : Mark(t, i) /\ c1 = i + 2
      BY <2>2 DEF InGrammar
    <3>2. PICK p \in 1..Len(t) : FirstMark(t, p)
      BY <3>1, FirstMarkIs DEF NoMark, FirstMark
    <3>3. p <= i /\ t[p] = ":"
      BY <3>1, <3>2 DEF FirstMark, Mark
    <3>4. PICK u : u = Before(t, i)
      OBVIOUS
    <3>5. u \in Text /\ Len(u) = i - 1 /\ \A k \in 1..Len(u) : u[k] = t[k]
      <4>1. i \in 1..(Len(t) + 1)
        BY <1>0
      <4> QED BY <3>4, <4>1, BeforeIs DEF Text
    <3>6. IsScheme(u)
      <4>1. c1 - 2 = i
        BY <3>1
      <4> QED BY <2>2, <3>4, <4>1 DEF InGrammar
    <3>7. \A k \in 1..Len(u) : u[k] # ":"
      BY <3>5, <3>6, SchemeIs, SchemeByteIs
    <3>8. p = i
      <4>1. p # i => p \in 1..Len(u)
        BY <1>0, <3>3, <3>5
      <4> QED BY <3>3, <3>5, <3>7, <4>1
    <3>9. FirstMark(t, p) /\ c1 - 2 = p /\ c1 >= 3
      BY <3>1, <3>2, <3>8
    <3> QED BY <3>9 DEF SchemeEnds
  <2> QED BY <2>1, <2>2
<1> QED BY <1>5, <1>6, <1>9, GrammarBytes DEF IsCut

\* The host source of a cut.
MeantBy(t, c1, c2, c3) ==
    [kind |-> "Host",
     scheme |-> Lower(Before(t, c1 - 2)),
     host |-> Lower(SubSeq(t, c1 + 1, c2)),
     port |-> Plain(SubSeq(t, c2 + 2, c3)),
     path |-> From(t, c3 + 1)]

HostOfParts(s, h, p, q) == [kind |-> "Host", scheme |-> s, host |-> h, port |-> p, path |-> q]

LEMMA OneHostSource ==
    ASSUME NEW s, NEW h, NEW p, NEW q
    PROVE  HostSource({s}, {h}, {p}, {q}) = {HostOfParts(s, h, p, q)}
<1>1. ASSUME NEW x \in HostSource({s}, {h}, {p}, {q})
      PROVE  x = HostOfParts(s, h, p, q)
  BY DEF HostSource, HostOfParts
<1>2. HostOfParts(s, h, p, q) \in HostSource({s}, {h}, {p}, {q})
  BY DEF HostSource, HostOfParts
<1> QED BY <1>1, <1>2

LEMMA MeantHosts ==
    ASSUME NEW t \in Text
    PROVE  /\ \A c1, c2, c3 :
                 InGrammar(t, c1, c2, c3) => MeantBy(t, c1, c2, c3) \in HostSourcesMeant(t)
           /\ \A e \in HostSourcesMeant(t) :
                 \E c1, c2, c3 : InGrammar(t, c1, c2, c3) /\ e = MeantBy(t, c1, c2, c3)
<1>1. HostSourcesMeant(t) = {MeantBy(t, cut[1], cut[2], cut[3]) : cut \in Cuts(t)}
  BY DEF HostSourcesMeant, MeantBy, Plain
<1>2. ASSUME NEW c1, NEW c2, NEW c3, InGrammar(t, c1, c2, c3)
      PROVE  MeantBy(t, c1, c2, c3) \in HostSourcesMeant(t)
  <2>1. PICK cut \in Cuts(t) : cut = <<c1, c2, c3>>
    BY <1>2, CutsAre
  <2>2. cut[1] = c1 /\ cut[2] = c2 /\ cut[3] = c3
    BY <2>1
  <2> QED BY <1>1, <2>2
<1>3. ASSUME NEW e \in HostSourcesMeant(t)
      PROVE  \E c1, c2, c3 : InGrammar(t, c1, c2, c3) /\ e = MeantBy(t, c1, c2, c3)
  <2>1. PICK cut \in Cuts(t) : e = MeantBy(t, cut[1], cut[2], cut[3])
    BY <1>1
  <2>2. cut = <<cut[1], cut[2], cut[3]>>
    BY DEF Cuts
  <2>3. InGrammar(t, cut[1], cut[2], cut[3])
    BY <2>2, CutsAre
  <2> QED BY <2>1, <2>3
<1> QED BY <1>2, <1>3

\* The parts that the parser accepts at such a cut are the ones the grammar means.
LEMMA PartsMeant ==
    ASSUME NEW t \in Text, NEW c1, NEW c2, NEW c3, InGrammar(t, c1, c2, c3)
    PROVE  Assembled(t, c1, c2, c3) = {MeantBy(t, c1, c2, c3)}
<1>0. Len(t) \in Nat
  BY TextLen
<1>1. /\ c1 \in Nat /\ c2 \in Nat /\ c3 \in Nat
      /\ c1 < c2 /\ c2 <= c3 /\ c3 <= Len(t)
  BY GrammarBytes DEF AreCuts
<1>2. SchemeOf(t, c1) = {Lower(Before(t, c1 - 2))}
  <2>1. CASE c1 = 0
    <3>1. Before(t, c1 - 2) = <<>>
      BY <2>1, SubSeqEmpty DEF Before
    <3>2. Lower(<<>>) = <<>>
      BY DEF Lower
    <3> QED BY <2>1, <3>1, <3>2 DEF SchemeOf, Absent
  <2>2. CASE c1 # 0
    <3>1. PICK u : u = Before(t, c1 - 2)
      OBVIOUS
    <3>2. c1 - 2 \in 1..(Len(t) + 1)
      BY <1>0, <1>1, <2>2 DEF InGrammar
    <3>3. u \in Text
      BY <3>1, <3>2, BeforeIs DEF Text
    <3>4. IsScheme(u)
      BY <2>2, <3>1 DEF InGrammar
    <3>5. Last(u) # ":"
      <4>1. Len(u) \in 1..Len(u) /\ \A i \in 1..Len(u) : u[i] \in SchemeByte
        BY <3>3, <3>4, SchemeIs, TextLen
      <4>2. u[Len(u)] # ":"
        BY <4>1, SchemeByteIs
      <4> QED BY <4>2 DEF Last
    <3>6. ParseScheme(u) = {Lower(u)}
      BY <3>3, <3>4, <3>5, SchemeParsed DEF When
    <3> QED BY <2>2, <3>1, <3>6 DEF SchemeOf
  <2> QED BY <2>1, <2>2
<1>3. HostOf(t, c1, c2) = {Lower(SubSeq(t, c1 + 1, c2))}
  <2>1. PICK u : u = SubSeq(t, c1 + 1, c2)
    OBVIOUS
  <2>2. u \in Text
    <3>1. c1 \in Nat /\ c2 \in Nat /\ c1 <= c2 /\ c2 <= Len(t)
      BY <1>0, <1>1
    <3> QED BY <2>1, <3>1, PartAfter
  <2>3. IsHost(u)
    BY <2>1 DEF InGrammar
  <2> QED BY <2>1, <2>2, <2>3, HostParsed DEF HostOf, When
<1>4. PortOf(t, c2, c3) = {Plain(SubSeq(t, c2 + 2, c3))}
  <2>1. CASE c2 = c3
    <3>1. SubSeq(t, c2 + 2, c3) = <<>>
      BY <1>1, <2>1, SubSeqEmpty
    <3>2. Plain(<<>>) = <<>>
      BY DEF Plain, IsNumber
    <3> QED BY <2>1, <3>1, <3>2 DEF PortOf, Absent
  <2>2. CASE c2 # c3
    <3>1. PICK u : u = SubSeq(t, c2 + 2, c3)
      OBVIOUS
    <3>2. u \in Text
      <4>1. c2 + 2 \in Nat /\ c2 + 2 >= 1 /\ c2 + 2 <= c3 + 1 /\ c3 <= Len(t) /\ c3 \in Nat
        BY <1>1, <2>2
      <4> QED BY <3>1, <4>1, TextPart
    <3>3. IsPort(u)
      BY <2>2, <3>1 DEF InGrammar
    <3> QED BY <2>2, <3>1, <3>2, <3>3, PortParsed DEF PortOf, When
  <2> QED BY <2>1, <2>2
<1>5. PathOf(t, c3) = {From(t, c3 + 1)}
  <2>1. CASE c3 = Len(t)
    <3>1. From(t, c3 + 1) = <<>>
      BY <1>1, <2>1, SubSeqEmpty DEF From
    <3> QED BY <2>1, <3>1 DEF PathOf, Absent
  <2>2. CASE c3 # Len(t)
    <3>1. PICK u : u = From(t, c3 + 1)
      OBVIOUS
    <3>2. u \in Text
      <4>1. c3 + 1 \in Nat /\ c3 + 1 >= 1 /\ c3 + 1 <= Len(t) + 1
        BY <1>0, <1>1
      <4> QED BY <3>1, <4>1, TextFrom
    <3>3. IsPath(u)
      BY <2>2, <3>1 DEF InGrammar
    <3>4. u # <<>>
      BY <3>3 DEF IsPath
    <3> QED BY <2>2, <3>1, <3>2, <3>3, <3>4, PathParsed DEF PathOf, When
  <2> QED BY <2>1, <2>2
<1>6. PICK s, h, p, q : /\ s = Lower(Before(t, c1 - 2)) /\ h = Lower(SubSeq(t, c1 + 1, c2))
                        /\ p = Plain(SubSeq(t, c2 + 2, c3)) /\ q = From(t, c3 + 1)
  OBVIOUS
<1>7. Assembled(t, c1, c2, c3) = HostSource({s}, {h}, {p}, {q})
  BY <1>2, <1>3, <1>4, <1>5, <1>6 DEF Assembled
<1>8. HostSource({s}, {h}, {p}, {q}) = {HostOfParts(s, h, p, q)}
  BY OneHostSource
<1>9. MeantBy(t, c1, c2, c3) = HostOfParts(s, h, p, q)
  BY <1>6 DEF MeantBy, HostOfParts
<1> QED BY <1>7, <1>8, <1>9, Zenon

\* A cut whose parts the parser accepts is one the grammar allows.
LEMMA AcceptedInGrammar ==
    ASSUME NEW t \in Text, Straight(t), NEW c1, NEW c2, NEW c3, IsCut(t, c1, c2, c3),
           NEW e \in Assembled(t, c1, c2, c3)
    PROVE  InGrammar(t, c1, c2, c3)
<1>0. Len(t) \in Nat
  BY TextLen
<1>1. /\ c1 \in Nat /\ c2 \in Nat /\ c3 \in Nat
      /\ c1 <= c2 /\ c2 <= c3 /\ c3 <= Len(t)
  BY DEF IsCut, AreCuts
<1>2. /\ e.scheme \in SchemeOf(t, c1) /\ e.host \in HostOf(t, c1, c2)
      /\ e.port \in PortOf(t, c2, c3) /\ e.path \in PathOf(t, c3)
  BY DEF Assembled, HostSource
<1>3. c1 # 0 => \E i \in 1..Len(t) : Mark(t, i) /\ c1 = i + 2
  <2> SUFFICES ASSUME c1 # 0 PROVE \E i \in 1..Len(t) : Mark(t, i) /\ c1 = i + 2
    OBVIOUS
  <2>1. c1 - 2 \in 1..Len(t) /\ Mark(t, c1 - 2)
    BY DEF IsCut, SchemeEnds, FirstMark
  <2>2. c1 = (c1 - 2) + 2
    BY <1>1
  <2> QED BY <2>1, <2>2
<1>4. c1 # 0 => IsScheme(Before(t, c1 - 2))
  <2> SUFFICES ASSUME c1 # 0 PROVE IsScheme(Before(t, c1 - 2))
    OBVIOUS
  <2>1. PICK p \in 1..Len(t) : FirstMark(t, p) /\ c1 = p + 2
    <3>1. FirstMark(t, c1 - 2) /\ c1 - 2 \in 1..Len(t)
      BY DEF IsCut, SchemeEnds, FirstMark
    <3>2. c1 = (c1 - 2) + 2
      BY <1>1
    <3> QED BY <3>1, <3>2
  <2>2. c1 - 2 = p
    BY <2>1
  <2>3. PICK u : u = Before(t, p)
    OBVIOUS
  <2>4. u \in Text /\ Len(u) = p - 1 /\ \A i \in 1..Len(u) : u[i] = t[i]
    <3>1. p \in 1..(Len(t) + 1)
      BY <1>0
    <3> QED BY <2>3, <3>1, BeforeIs DEF Text
  <2>5. u = <<>> \/ Last(u) # ":"
    <3>1. CASE p = 1
      BY <2>4, <3>1, TextLen
    <3>2. CASE p # 1
      <4>1. PICK i \in 1..Len(t) : i = p - 1
        BY <1>0, <3>2
      <4>2. p - 1 = i /\ p > 1 /\ i = Len(u) /\ i \in 1..Len(u)
        BY <2>4, <4>1
      <4>3. t[i] # ":"
        BY <2>1, <4>2 DEF Straight
      <4> QED BY <2>4, <4>2, <4>3 DEF Last
    <3> QED BY <3>1, <3>2
  <2>6. ParseScheme(u) = When(IsScheme(u), Lower(u))
    BY <2>4, <2>5, SchemeParsed
  <2>7. ParseScheme(u) # {}
    BY <1>2, <2>2, <2>3 DEF SchemeOf
  <2> QED BY <2>2, <2>3, <2>6, <2>7 DEF When
<1>5. c1 < c2 /\ IsHost(SubSeq(t, c1 + 1, c2))
  <2>1. PICK u : u = SubSeq(t, c1 + 1, c2)
    OBVIOUS
  <2>2. u \in Text /\ Len(u) = c2 - c1
    <3>1. c1 \in Nat /\ c2 \in Nat /\ c1 <= c2 /\ c2 <= Len(t)
      BY <1>0, <1>1
    <3> QED BY <2>1, <3>1, PartAfter
  <2>3. ParseHostPattern(u) # {}
    BY <1>2, <2>1 DEF HostOf
  <2>4. IsHost(u)
    BY <2>2, <2>3, HostParsed DEF When
  <2>5. Len(u) > 0
    BY <2>2, <2>4, HostBytes
  <2> QED BY <1>1, <2>1, <2>2, <2>4, <2>5
<1>6. c2 # c3 => t[c2 + 1] = ":" /\ IsPort(SubSeq(t, c2 + 2, c3))
  <2> SUFFICES ASSUME c2 # c3 PROVE t[c2 + 1] = ":" /\ IsPort(SubSeq(t, c2 + 2, c3))
    OBVIOUS
  <2>1. PICK u : u = SubSeq(t, c2 + 2, c3)
    OBVIOUS
  <2>2. u \in Text
    <3>1. c2 + 2 \in Nat /\ c2 + 2 >= 1 /\ c2 + 2 <= c3 + 1 /\ c3 <= Len(t) /\ c3 \in Nat
      BY <1>1
    <3> QED BY <2>1, <3>1, TextPart
  <2>3. ParsePort(u) # {}
    BY <1>2, <2>1 DEF PortOf
  <2>4. IsPort(u)
    BY <2>2, <2>3, PortParsed DEF When
  <2>5. t[c2 + 1] = ":"
    BY DEF IsCut, PortBegins
  <2> QED BY <2>1, <2>4, <2>5
<1>7. c3 # Len(t) => IsPath(From(t, c3 + 1))
  <2> SUFFICES ASSUME c3 # Len(t) PROVE IsPath(From(t, c3 + 1))
    OBVIOUS
  <2>1. PICK u : u = From(t, c3 + 1)
    OBVIOUS
  <2>2. u \in Text /\ Len(u) = Len(t) - (c3 + 1) + 1
    <3>1. c3 + 1 \in Nat /\ c3 + 1 >= 1 /\ c3 + 1 <= Len(t) + 1
      BY <1>0, <1>1
    <3> QED BY <2>1, <3>1, TextFrom
  <2>3. u # <<>>
    <3>1. Len(u) > 0
      BY <1>0, <1>1, <2>2
    <3> QED BY <2>2, <3>1, TextLen
  <2>4. ParsePath(u) # {}
    BY <1>2, <2>1 DEF PathOf
  <2> QED BY <2>1, <2>2, <2>3, <2>4, PathParsed DEF When
<1>8. c2 \in 1..Len(t) /\ c3 \in 1..Len(t)
  BY <1>0, <1>1, <1>5
<1> QED BY <1>1, <1>3, <1>4, <1>5, <1>6, <1>7, <1>8 DEF InGrammar

LEMMA HostsMeant ==
    ASSUME NEW t \in Text, Straight(t)
    PROVE  ParseHostSource(t) = HostSourcesMeant(t)
<1>1. ASSUME NEW e \in ParseHostSource(t) PROVE e \in HostSourcesMeant(t)
  <2>1. PICK c1, c2, c3 : IsCut(t, c1, c2, c3) /\ ParseHostSource(t) = Assembled(t, c1, c2, c3)
    BY ParserCut
  <2>2. InGrammar(t, c1, c2, c3)
    BY <1>1, <2>1, AcceptedInGrammar
  <2>3. e = MeantBy(t, c1, c2, c3)
    BY <1>1, <2>1, <2>2, PartsMeant
  <2> QED BY <2>2, <2>3, MeantHosts
<1>2. ASSUME NEW e \in HostSourcesMeant(t) PROVE e \in ParseHostSource(t)
  <2>1. PICK c1, c2, c3 : InGrammar(t, c1, c2, c3) /\ e = MeantBy(t, c1, c2, c3)
    BY <1>2, MeantHosts
  <2>2. IsCut(t, c1, c2, c3)
    BY <2>1, GrammarCut
  <2>3. ParseHostSource(t) = {MeantBy(t, c1, c2, c3)}
    BY <2>1, <2>2, ParsedByCut, PartsMeant
  <2> QED BY <2>1, <2>3
<1> QED BY <1>1, <1>2

-----------------------------------------------------------------------------
(***************************************************************************)
(* So does the parser of whole expressions.                                *)
(***************************************************************************)
LEMMA FrontScheme ==
    ASSUME NEW t \in Text, t # <<>>
    PROVE  SchemesMeant(t) = IF Last(t) = ":" THEN ParseSchemeSource(t) ELSE {}
<1>1. CASE Last(t) = ":"
  <2>1. WithoutSuffix(t, ":") = Front(t)
    BY <1>1 DEF WithoutSuffix
  <2>2. ParseScheme(t) = When(IsScheme(Front(t)), Lower(Front(t)))
    BY <2>1 DEF ParseScheme, IsScheme, SchemeByte, When
  <2>3. CASE IsScheme(Front(t))
    <3>1. ParseSchemeSource(t) = {[kind |-> "Scheme", scheme |-> Lower(Front(t))]}
      BY <2>2, <2>3, OneScheme DEF ParseSchemeSource, When
    <3>2. SchemesMeant(t) = {[kind |-> "Scheme", scheme |-> Lower(Front(t))]}
      BY <1>1, <2>3 DEF SchemesMeant
    <3> QED BY <1>1, <3>1, <3>2
  <2>4. CASE ~IsScheme(Front(t))
    <3>1. ParseSchemeSource(t) = {}
      BY <2>2, <2>4 DEF ParseSchemeSource, When
    <3>2. SchemesMeant(t) = {}
      BY <2>4 DEF SchemesMeant
    <3> QED BY <3>1, <3>2
  <2> QED BY <2>3, <2>4
<1>2. CASE Last(t) # ":"
  BY <1>2 DEF SchemesMeant
<1> QED BY <1>1, <1>2

\* A text with a slash means no scheme, and one that ends in a colon without any slash
\* means no host.
LEMMA SlashIsNoScheme ==
    ASSUME NEW t \in Text, t # <<>>, Last(t) = ":", "/" \in ToSet(t)
    PROVE  SchemesMeant(t) = {}
<1>0. Len(t) \in Nat /\ Len(t) > 0
  BY TextLen
<1>1. PICK i \in 1..Len(t) : t[i] = "/"
  BY TextDomain DEF ToSet
<1>2. t[Len(t)] = ":"
  BY DEF Last
<1>3. PICK u : u = Front(t)
  OBVIOUS
<1>4. u \in Text /\ Len(u) = Len(t) - 1 /\ \A k \in 1..Len(u) : u[k] = t[k]
  BY <1>0, <1>3, FrontIs
<1>5. i \in 1..Len(u)
  BY <1>0, <1>1, <1>2, <1>4
<1>6. u[i] = "/"
  BY <1>1, <1>4, <1>5
<1>7. ~IsScheme(u)
  BY <1>4, <1>5, <1>6, SchemeIs, SchemeByteIs
<1> QED BY <1>3, <1>7 DEF SchemesMeant

LEMMA ColonIsNoHost ==
    ASSUME NEW t \in Text, t # <<>>, Last(t) = ":", "/" \notin ToSet(t)
    PROVE  HostSourcesMeant(t) = {}
<1>0. Len(t) \in Nat /\ Len(t) > 0
  BY TextLen
<1>1. \A i \in 1..Len(t) : t[i] # "/"
  BY TextDomain DEF ToSet
<1>2. t[Len(t)] = ":"
  BY DEF Last
<1>3. ASSUME NEW c1, NEW c2, NEW c3, InGrammar(t, c1, c2, c3) PROVE FALSE
  <2>1. /\ c1 \in Nat /\ c2 \in Nat /\ c3 \in Nat
        /\ c1 < c2 /\ c2 <= c3 /\ c3 <= Len(t)
    BY <1>3, GrammarBytes DEF AreCuts
  <2>2. c3 = Len(t)
    <3>1. c3 # Len(t) => t[c3 + 1] = "/"
      BY <1>3, GrammarBytes
    <3>2. c3 # Len(t) => c3 + 1 \in 1..Len(t)
      BY <1>0, <2>1
    <3> QED BY <1>1, <3>1, <3>2
  <2>3. CASE c2 = c3
    <3>1. Lacks(t, ":", c1 + 1, c2)
      BY <1>3, GrammarBytes
    <3>2. Len(t) \in (c1 + 1)..c2
      BY <2>1, <2>2, <2>3
    <3> QED BY <1>2, <3>1, <3>2 DEF Lacks
  <2>4. CASE c2 # c3
    <3>1. c2 + 2 <= c3 /\ Lacks(t, ":", c2 + 2, c3)
      BY <1>3, <2>4, GrammarBytes
    <3>2. Len(t) \in (c2 + 2)..c3
      BY <2>1, <2>2, <3>1
    <3> QED BY <1>2, <3>1, <3>2 DEF Lacks
  <2> QED BY <2>3, <2>4
<1> QED BY <1>3, MeantHosts

LEMMA NothingIsNoSource == ParseHostSource(<<>>) = {}
<1>0. <<>> \in Text /\ Len(<<>>) = 0
  BY EmptyText
<1>1. PICK t \in Text : t = <<>>
  BY <1>0
<1>2. PICK c1, c2, c3 : IsCut(t, c1, c2, c3) /\ ParseHostSource(t) = Assembled(t, c1, c2, c3)
  BY ParserCut
<1>3. Straight(t)
  <2>1. ASSUME NEW p, FirstMark(t, p) PROVE FALSE
    BY <1>0, <1>1, <2>1 DEF FirstMark
  <2> QED BY <2>1 DEF Straight
<1>4. ASSUME NEW e \in Assembled(t, c1, c2, c3) PROVE FALSE
  <2>1. InGrammar(t, c1, c2, c3)
    BY <1>2, <1>3, <1>4, AcceptedInGrammar
  <2> QED BY <1>0, <1>1, <2>1 DEF InGrammar
<1> QED BY <1>1, <1>2, <1>4

LEMMA UnquotedMeant ==
    ASSUME NEW t \in Text, ~Departure(t), ~Quoted(t)
    PROVE  ParseSource(t) = SourcesMeant(t)
<1>1. CASE t = <<>>
  BY <1>1, NothingIsNoSource DEF ParseSource, SourcesMeant
<1>2. CASE t # <<>>
  <2>1. SourcesMeant(t) = SchemesMeant(t) \cup HostSourcesMeant(t)
    BY <1>2 DEF SourcesMeant
  <2>2. ParseHostSource(t) = HostSourcesMeant(t)
    BY StraightIs, HostsMeant
  <2>3. CASE Last(t) = ":" /\ "/" \notin ToSet(t)
    <3>1. ParseSource(t) = ParseSchemeSource(t)
      BY <1>2, <2>3 DEF ParseSource
    <3> QED BY <1>2, <2>1, <2>3, <3>1, FrontScheme, ColonIsNoHost
  <2>4. CASE ~(Last(t) = ":" /\ "/" \notin ToSet(t))
    <3>1. ParseSource(t) = ParseHostSource(t)
      BY <1>2, <2>4 DEF ParseSource
    <3>2. SchemesMeant(t) = {}
      BY <1>2, <2>4, FrontScheme, SlashIsNoScheme
    <3> QED BY <2>1, <2>2, <3>1, <3>2
  <2> QED BY <2>3, <2>4
<1> QED BY <1>1, <1>2

\* A text between quotes that begins with a and a dash, in any case.
Begins(t, a) == Len(t) >= 4 /\ Small(t[2]) = a /\ t[3] = "-"

LEMMA DigitsAre ==
    /\ UnpaddedLen(32) = 43 /\ UnpaddedLen(48) = 64 /\ UnpaddedLen(64) = 86
    /\ PaddedLen(32) = 44 /\ PaddedLen(48) = 64 /\ PaddedLen(64) = 88
  BY DEF UnpaddedLen, PaddedLen, CeilDiv

LEMMA DigestsExpected ==
    ASSUME NEW a \in HashAlgorithm
    PROVE  /\ DigestChars[a] \in Nat /\ DigestChars[a] > 0 /\ DigestPadding[a] \in 0..2
           /\ UnpaddedLen(DigestLen[a]) = DigestChars[a]
           /\ PaddedLen(DigestLen[a]) = DigestChars[a] + DigestPadding[a]
<1>1. CASE a = "sha256"
  BY <1>1, DigitsAre DEF DigestChars, DigestPadding, DigestLen
<1>2. CASE a = "sha384"
  BY <1>2, DigitsAre DEF DigestChars, DigestPadding, DigestLen
<1>3. CASE a = "sha512"
  BY <1>3, DigitsAre DEF DigestChars, DigestPadding, DigestLen
<1> QED BY <1>1, <1>2, <1>3 DEF HashAlgorithm

LEMMA NonceFloor == MinNonceChars = 22
  BY DEF MinNonceChars, CeilDiv

LEMMA EmptyLength == Length(<<>>) = 0
<1>1. PICK f : AreLengths(<<>>, f) /\ Length(<<>>) = f[Len(<<>>)]
  BY EmptyText, LengthIs
<1> QED BY <1>1, EmptyText DEF AreLengths

\* A base64-value is what is padded at some place after the first.
LEMMA ValueIs ==
    ASSUME NEW v \in Text, NEW lengths, NEW paddings \in SUBSET (0..2)
    PROVE  IsBase64Value(v, lengths, paddings) <=>
              \E m \in 1..Len(v) : /\ IsPaddedAt(v, m) /\ Len(v) - m \in paddings
                                   /\ Length(SubSeq(v, 1, m)) \in lengths
<1>0. Len(v) \in Nat
  BY TextLen
<1>1. ASSUME NEW padding \in paddings, Len(v) > padding,
             NEW m \in 1..Len(v), m = Len(v) - padding, NEW content, content = SubSeq(v, 1, m)
      PROVE  /\ Len(content) = m
             /\ In(content, Base64Char) <=> \A i \in 1..m : v[i] \in Base64Char
             /\ From(v, Len(content) + 1) = [i \in 1..padding |-> "="]
                   <=> \A i \in (m + 1)..Len(v) : v[i] = "="
  <2>1. content \in Text /\ Len(content) = m /\ \A i \in 1..m : content[i] = v[i]
    <3>1. m \in 0..Len(v)
      BY <1>0
    <3> QED BY <1>1, <3>1, BeginsIs
  <2>2. In(content, Base64Char) <=> \A i \in 1..m : v[i] \in Base64Char
    BY <2>1, InIs DEF Text
  <2>3. PICK u : u = SubSeq(v, m + 1, Len(v))
    OBVIOUS
  <2>4. u \in Text /\ Len(u) = Len(v) - m /\ After(u, v, m)
    <3>1. m \in Nat /\ Len(v) \in Nat /\ m <= Len(v) /\ Len(v) <= Len(v)
      BY <1>0
    <3> QED BY <2>3, <3>1, PartAfter
  <2>5. Len(u) = padding /\ padding \in Nat
    BY <1>0, <1>1, <2>4
  <2>6. ASSUME u = [i \in 1..padding |-> "="], NEW i \in (m + 1)..Len(v) PROVE v[i] = "="
    <3>1. i - m \in 1..Len(u) /\ m + (i - m) = i
      BY <1>0, <2>4
    <3>2. u[i - m] = v[i]
      BY <2>4, <3>1 DEF After
    <3>3. u[i - m] = "="
      BY <2>5, <2>6, <3>1
    <3> QED BY <3>2, <3>3
  <2>7. ASSUME \A i \in (m + 1)..Len(v) : v[i] = "=" PROVE u = [i \in 1..padding |-> "="]
    <3>1. ASSUME NEW i \in 1..padding PROVE u[i] = "="
      <4>1. m + i \in (m + 1)..Len(v) /\ i \in 1..Len(u)
        BY <1>0, <2>4, <2>5
      <4>2. u[i] = v[m + i]
        BY <2>4, <4>1 DEF After
      <4> QED BY <2>7, <4>1, <4>2
    <3>2. u = [i \in 1..Len(u) |-> u[i]]
      BY <2>4 DEF Text
    <3> QED BY <2>5, <3>1, <3>2
  <2>8. u = From(v, Len(content) + 1)
    BY <2>1, <2>3 DEF From
  <2> QED BY <2>1, <2>2, <2>6, <2>7, <2>8
<1>2. ASSUME IsBase64Value(v, lengths, paddings)
      PROVE  \E m \in 1..Len(v) : /\ IsPaddedAt(v, m) /\ Len(v) - m \in paddings
                                  /\ Length(SubSeq(v, 1, m)) \in lengths
  <2>1. PICK padding \in paddings :
            /\ Len(v) > padding
            /\ From(v, Len(SubSeq(v, 1, Len(v) - padding)) + 1) = [i \in 1..padding |-> "="]
            /\ In(SubSeq(v, 1, Len(v) - padding), Base64Char)
            /\ Length(SubSeq(v, 1, Len(v) - padding)) \in lengths
    BY <1>2 DEF IsBase64Value, Base64Char
  <2>2. PICK m \in 1..Len(v) : m = Len(v) - padding
    BY <1>0, <2>1
  <2>3. PICK content : content = SubSeq(v, 1, m)
    OBVIOUS
  <2>4. Len(v) > padding /\ m = Len(v) - padding /\ content = SubSeq(v, 1, m)
    BY <2>1, <2>2, <2>3
  <2>5. In(content, Base64Char) /\ From(v, Len(content) + 1) = [i \in 1..padding |-> "="]
    BY <2>1, <2>2, <2>3
  <2>6. (\A i \in 1..m : v[i] \in Base64Char) /\ (\A i \in (m + 1)..Len(v) : v[i] = "=")
    BY <1>1, <2>4, <2>5
  <2>7. Len(v) - m = padding /\ m \in 0..Len(v) /\ Len(v) - m <= 2
    BY <1>0, <2>2
  <2>8. IsPaddedAt(v, m)
    BY <2>6, <2>7 DEF IsPaddedAt
  <2>9. Length(SubSeq(v, 1, m)) \in lengths
    BY <2>1, <2>2
  <2> QED BY <2>7, <2>8, <2>9
<1>3. ASSUME NEW m \in 1..Len(v), IsPaddedAt(v, m), Len(v) - m \in paddings,
             Length(SubSeq(v, 1, m)) \in lengths
      PROVE  IsBase64Value(v, lengths, paddings)
  <2>1. PICK padding \in paddings : padding = Len(v) - m
    BY <1>3
  <2>2. m = Len(v) - padding /\ Len(v) > padding
    BY <1>0, <2>1
  <2>3. PICK content : content = SubSeq(v, 1, m)
    OBVIOUS
  <2>4. (\A i \in 1..m : v[i] \in Base64Char) /\ (\A i \in (m + 1)..Len(v) : v[i] = "=")
    BY <1>3 DEF IsPaddedAt
  <2>5. In(content, Base64Char) /\ From(v, Len(content) + 1) = [i \in 1..padding |-> "="]
    BY <1>1, <2>2, <2>3, <2>4
  <2>6. Length(content) \in lengths
    BY <1>3, <2>3
  <2>7. content = SubSeq(v, 1, Len(v) - padding)
    BY <2>2, <2>3
  <2> QED BY <2>2, <2>5, <2>6, <2>7 DEF IsBase64Value, Base64Char
<1> QED BY <1>2, <1>3

LEMMA NonceAccepted ==
    ASSUME NEW v \in Text
    PROVE  IsBase64Value(v, Nat \ 0..21, 0..2)
              <=> IsBase64(v) /\ Length(Unpadded(v)) >= MinNonceChars
<1>0. Len(v) \in Nat
  BY TextLen
<1>1. ASSUME NEW m \in 0..Len(v), IsPaddedAt(v, m)
      PROVE  /\ IsBase64(v) /\ Unpadded(v) = SubSeq(v, 1, m)
             /\ Length(SubSeq(v, 1, m)) \in Nat /\ Len(v) - m \in 0..2
  <2>1. \A i \in (m + 1)..Len(v) : v[i] = "="
    BY <1>1 DEF IsPaddedAt
  <2>2. Length(SubSeq(v, 1, m)) \in Nat
    BY <2>1, PaddingLength
  <2>3. Len(v) - m \in 0..2
    BY <1>0, <1>1 DEF IsPaddedAt
  <2> QED BY <1>1, <2>2, <2>3, Base64Is
<1>2. ASSUME IsBase64Value(v, Nat \ 0..21, 0..2)
      PROVE  IsBase64(v) /\ Length(Unpadded(v)) >= MinNonceChars
  <2>1. PICK m \in 1..Len(v) : IsPaddedAt(v, m) /\ Length(SubSeq(v, 1, m)) \in Nat \ 0..21
    BY <1>2, ValueIs
  <2>2. m \in 0..Len(v)
    BY <1>0
  <2>3. IsBase64(v) /\ Unpadded(v) = SubSeq(v, 1, m)
    BY <1>1, <2>1, <2>2
  <2>4. Length(SubSeq(v, 1, m)) >= 22
    <3>1. PICK k : k = Length(SubSeq(v, 1, m))
      OBVIOUS
    <3>2. k \in Nat /\ k \notin 0..21
      BY <2>1, <3>1
    <3>3. k >= 22
      BY <3>2
    <3> QED BY <3>1, <3>3
  <2> QED BY <2>3, <2>4, NonceFloor
<1>3. ASSUME IsBase64(v), Length(Unpadded(v)) >= MinNonceChars
      PROVE  IsBase64Value(v, Nat \ 0..21, 0..2)
  <2>1. PICK m : IsPaddedAt(v, m)
    BY <1>3, Base64Is
  <2>2. m \in 0..Len(v)
    BY <2>1 DEF IsPaddedAt
  <2>3. PICK n \in Nat : n = Length(SubSeq(v, 1, m)) /\ n >= 22
    BY <1>1, <1>3, <2>1, <2>2, NonceFloor
  <2>4. m # 0
    <3> SUFFICES ASSUME m = 0 PROVE FALSE
      OBVIOUS
    <3>1. PICK content : content = SubSeq(v, 1, m)
      OBVIOUS
    <3>2. content = <<>>
      BY <3>1, SubSeqEmpty
    <3>3. Length(content) = 0
      BY <3>2, EmptyLength
    <3> QED BY <2>3, <3>1, <3>3
  <2>5. m \in 1..Len(v)
    BY <1>0, <2>2, <2>4
  <2>6. Len(v) - m \in 0..2
    BY <1>1, <2>1, <2>2
  <2>7. n \in Nat \ 0..21
    BY <2>3
  <2> QED BY <2>1, <2>3, <2>5, <2>6, <2>7, ValueIs
<1> QED BY <1>2, <1>3

LEMMA DigestAccepted ==
    ASSUME NEW a \in HashAlgorithm, NEW v \in Text,
           Length(v) \in {DigestChars[a], DigestChars[a] + DigestPadding[a]}
              => Length(Unpadded(v)) = DigestChars[a]
    PROVE  IsBase64Value(v, {DigestChars[a]}, {0, DigestPadding[a]})
              <=> /\ IsBase64(v)
                  /\ Length(v) \in {UnpaddedLen(DigestLen[a]), PaddedLen(DigestLen[a])}
<1>0. Len(v) \in Nat
  BY TextLen
<1>1. PICK chars \in Nat : chars = DigestChars[a] /\ chars > 0
  BY DigestsExpected
<1>2. PICK padding \in 0..2 : padding = DigestPadding[a]
  BY DigestsExpected
<1>3. UnpaddedLen(DigestLen[a]) = chars /\ PaddedLen(DigestLen[a]) = chars + padding
  BY <1>1, <1>2, DigestsExpected
<1>4. ASSUME NEW m \in 0..Len(v), IsPaddedAt(v, m)
      PROVE  /\ IsBase64(v) /\ Unpadded(v) = SubSeq(v, 1, m)
             /\ Length(SubSeq(v, 1, m)) \in Nat /\ Length(v) \in Nat
             /\ Length(v) = Length(SubSeq(v, 1, m)) + (Len(v) - m)
  <2>1. \A i \in (m + 1)..Len(v) : v[i] = "="
    BY <1>4 DEF IsPaddedAt
  <2>2. /\ Length(SubSeq(v, 1, m)) \in Nat /\ Length(v) \in Nat
        /\ Length(v) = Length(SubSeq(v, 1, m)) + (Len(v) - m)
    BY <2>1, PaddingLength
  <2> QED BY <1>4, <2>2, Base64Is
<1>5. ASSUME IsBase64Value(v, {chars}, {0, padding})
      PROVE  IsBase64(v) /\ Length(v) \in {chars, chars + padding}
  <2>1. PICK m \in 1..Len(v) : /\ IsPaddedAt(v, m) /\ Len(v) - m \in {0, padding}
                               /\ Length(SubSeq(v, 1, m)) \in {chars}
    BY <1>5, ValueIs
  <2>2. m \in 0..Len(v)
    BY <1>0
  <2>3. IsBase64(v) /\ Length(v) = chars + (Len(v) - m)
    BY <1>4, <2>1, <2>2
  <2> QED BY <1>0, <2>1, <2>3
<1>6. ASSUME IsBase64(v), Length(v) \in {chars, chars + padding}
      PROVE  IsBase64Value(v, {chars}, {0, padding})
  <2>1. PICK m : IsPaddedAt(v, m)
    BY <1>6, Base64Is
  <2>2. m \in 0..Len(v)
    BY <2>1 DEF IsPaddedAt
  <2>3. Length(SubSeq(v, 1, m)) = chars
    BY <1>1, <1>2, <1>4, <1>6, <2>1, <2>2
  <2>4. Len(v) - m \in {0, padding}
    <3>1. Length(v) = chars + (Len(v) - m) /\ Length(v) \in Nat
      BY <1>4, <2>1, <2>2, <2>3
    <3> QED BY <1>0, <1>6, <2>2, <3>1
  <2>5. m # 0
    <3> SUFFICES ASSUME m = 0 PROVE FALSE
      OBVIOUS
    <3>1. PICK content : content = SubSeq(v, 1, m)
      OBVIOUS
    <3>2. content = <<>>
      BY <3>1, SubSeqEmpty
    <3>3. Length(content) = 0
      BY <3>2, EmptyLength
    <3> QED BY <1>1, <2>3, <3>1, <3>3
  <2>6. m \in 1..Len(v)
    BY <1>0, <2>2, <2>5
  <2> QED BY <2>1, <2>3, <2>4, <2>6, ValueIs
<1> QED BY <1>1, <1>2, <1>3, <1>5, <1>6

-----------------------------------------------------------------------------
(***************************************************************************)
(* Texts between quotes, as the grammar reads them.                        *)
(***************************************************************************)
\* The prefix that the grammar looks at.
PrefixOf(t) == Lower(SubSeq(t, 2, Min({3, Len(t)})))

ValueOf(t) == SubSeq(t, 4, Len(t) - 1)

LEMMA PrefixIsTag ==
    ASSUME NEW t \in Text, Quoted(t), NEW a
    PROVE  PrefixOf(t) = <<a, "-">> <=> Begins(t, a)
<1>0. Len(t) \in Nat /\ Len(t) >= 2 /\ t[Len(t)] = "'"
  BY TextLen, QuotedIs
<1>1. CASE Len(t) = 2
  <2>1. Min({3, Len(t)}) = 2
    <3>1. {3, Len(t)} \in SUBSET Nat /\ {3, Len(t)} # {}
      BY <1>0
    <3>2. Min({3, Len(t)}) \in {3, Len(t)} /\ \A k \in {3, Len(t)} : Min({3, Len(t)}) <= k
      BY <3>1, LeastIs
    <3> QED BY <1>1, <3>2
  <2>2. PICK u : u = SubSeq(t, 2, 2)
    OBVIOUS
  <2>3. u \in Text /\ Len(u) = 2 - 2 + 1
    <3>1. 2 \in Nat /\ 2 >= 1 /\ 2 <= 2 + 1 /\ 2 <= Len(t)
      BY <1>1
    <3> QED BY <2>2, <3>1, TextPart
  <2>4. Len(Lower(u)) = 1
    BY <2>3, LowerIs
  <2>5. Lower(u) # <<a, "-">>
    BY <2>4
  <2> QED BY <1>1, <2>1, <2>2, <2>5 DEF PrefixOf, Begins
<1>2. CASE Len(t) # 2
  <2>1. Min({3, Len(t)}) = 3
    <3>1. {3, Len(t)} \in SUBSET Nat /\ {3, Len(t)} # {}
      BY <1>0
    <3>2. PICK k : k = Min({3, Len(t)})
      OBVIOUS
    <3>3. k \in {3, Len(t)} /\ \A j \in {3, Len(t)} : k <= j
      BY <3>1, <3>2, LeastIs
    <3>4. PICK n \in Nat : n = Len(t) /\ n >= 3
      <4>1. PICK n \in Nat : n = Len(t)
        BY <1>0
      <4>2. n >= 2 /\ n # 2
        BY <1>0, <1>2, <4>1
      <4>3. n >= 3
        BY <4>2
      <4> QED BY <4>1, <4>3
    <3>5. k \in {3, n} /\ k <= 3
      BY <3>3, <3>4
    <3>6. k = 3
      BY <3>4, <3>5
    <3> QED BY <3>2, <3>6
  <2>2. PICK u : u = SubSeq(t, 2, 3)
    OBVIOUS
  <2>3. u \in Text /\ Len(u) = 3 - 2 + 1 /\ PartOf(u, t, 2)
    <3>1. 2 \in Nat /\ 3 \in Nat /\ 2 >= 1 /\ 2 <= 3 + 1 /\ 3 <= Len(t)
      BY <1>0, <1>2
    <3> QED BY <2>2, <3>1, TextPart
  <2>4. u[1] = t[2] /\ u[2] = t[3]
    <3>1. 1 \in 1..Len(u) /\ 2 \in 1..Len(u) /\ 2 + 1 - 1 = 2 /\ 2 + 2 - 1 = 3
      BY <2>3
    <3> QED BY <2>3, <3>1 DEF PartOf
  <2>5. PICK x : x = Lower(u)
    OBVIOUS
  <2>6. x \in Text /\ Len(x) = 2 /\ x[1] = Small(t[2]) /\ x[2] = Small(t[3])
    <3>1. Len(u) = 2 /\ 1 \in 1..Len(u) /\ 2 \in 1..Len(u)
      BY <2>3
    <3> QED BY <2>3, <2>4, <2>5, <3>1, LowerIs
  <2>7. x = <<a, "-">> <=> x[1] = a /\ x[2] = "-"
    <3>1. ASSUME x[1] = a, x[2] = "-" PROVE x = <<a, "-">>
      BY <2>6, <3>1 DEF Text
    <3>2. ASSUME x = <<a, "-">> PROVE x[1] = a /\ x[2] = "-"
      BY <3>2
    <3> QED BY <3>1, <3>2
  <2>8. Small(t[3]) = "-" <=> t[3] = "-"
    <3>1. PICK y : y = t[3]
      OBVIOUS
    <3>2. Small(y) = "-" <=> y = "-"
      BY SmallMark, PunctuationMarks
    <3> QED BY <3>1, <3>2
  <2>9. t[3] = "-" => Len(t) >= 4
    <3>1. PICK n \in Nat : n = Len(t) /\ n >= 3
      <4>1. PICK n \in Nat : n = Len(t)
        BY <1>0
      <4>2. n >= 2 /\ n # 2
        BY <1>0, <1>2, <4>1
      <4>3. n >= 3
        BY <4>2
      <4> QED BY <4>1, <4>3
    <3>2. ASSUME n = 3 PROVE t[3] # "-"
      BY <1>0, <3>1, <3>2
    <3>3. n = 3 \/ n >= 4
      BY <3>1
    <3> QED BY <3>1, <3>2, <3>3
  <2>10. PrefixOf(t) = x
    BY <2>1, <2>2, <2>5 DEF PrefixOf
  <2> QED BY <2>6, <2>7, <2>8, <2>9, <2>10 DEF Begins
<1> QED BY <1>1, <1>2

\* The sources that begin with a tag.
NonceMeant(t) == Begins(t, "nonce") /\ IsBase64Value(ValueOf(t), Nat \ 0..21, 0..2)

HashMeant(t, a) ==
    /\ Begins(t, a)
    /\ IsBase64Value(ValueOf(t), {DigestChars[a]}, {0, DigestPadding[a]})

NonceTerm(v) == [kind |-> "Nonce", value |-> v]

HashTerm(a, v) == [kind |-> "Hash", algorithm |-> a, value |-> v]

LEMMA OneNonce ==
    ASSUME NEW c, NEW v, NEW e
    PROVE  e \in [kind : {"Nonce"}, value : When(c, v)] <=> c /\ e = NonceTerm(v)
<1>1. CASE c
  <2>1. When(c, v) = {v}
    BY <1>1 DEF When
  <2>2. [kind : {"Nonce"}, value : When(c, v)] = {NonceTerm(v)}
    BY <2>1, OneValue DEF NonceTerm
  <2> QED BY <1>1, <2>2
<1>2. CASE ~c
  <2>1. When(c, v) = {}
    BY <1>2 DEF When
  <2>2. [kind : {"Nonce"}, value : When(c, v)] = {}
    BY <2>1
  <2> QED BY <1>2, <2>2
<1> QED BY <1>1, <1>2

LEMMA OneHashTerm ==
    ASSUME NEW c, NEW a, NEW v, NEW e
    PROVE  e \in [kind : {"Hash"}, algorithm : {a}, value : When(c, v)] <=> c /\ e = HashTerm(a, v)
<1>1. CASE c
  <2>1. When(c, v) = {v}
    BY <1>1 DEF When
  <2>2. [kind : {"Hash"}, algorithm : {a}, value : When(c, v)] = {HashTerm(a, v)}
    <3>1. PICK k : k = "Hash"
      OBVIOUS
    <3>2. [kind : {k}, algorithm : {a}, value : {v}]
              = {[kind |-> k, algorithm |-> a, value |-> v]}
      BY OneHash
    <3> QED BY <2>1, <3>1, <3>2 DEF HashTerm
  <2> QED BY <1>1, <2>2
<1>2. CASE ~c
  <2>1. When(c, v) = {}
    BY <1>2 DEF When
  <2>2. [kind : {"Hash"}, algorithm : {a}, value : When(c, v)] = {}
    BY <2>1
  <2> QED BY <1>2, <2>2
<1> QED BY <1>1, <1>2

LEMMA QuotedSourcesAre ==
    ASSUME NEW t \in Text, Quoted(t), NEW e
    PROVE  e \in QuotedSourcesMeant(t) <=>
              \/ e \in ParseKeyword(t)
              \/ NonceMeant(t) /\ e = NonceTerm(ValueOf(t))
              \/ \E a \in HashAlgorithm : HashMeant(t, a) /\ e = HashTerm(a, ValueOf(t))
<1> DEFINE v == ValueOf(t)
           nonce == PrefixOf(t) = <<"nonce", "-">> /\ IsBase64Value(v, Nat \ 0..21, 0..2)
           hash(a) == PrefixOf(t) = <<a, "-">>
                         /\ IsBase64Value(v, {DigestChars[a]}, {0, DigestPadding[a]})
<1>1. QuotedSourcesMeant(t) =
        [kind : {"Keyword"}, text : KeywordText \cap {Lower(t)}]
        \cup [kind : {"Nonce"}, value : When(nonce, v)]
        \cup UNION {[kind : {"Hash"}, algorithm : {a}, value : When(hash(a), v)] :
                        a \in HashAlgorithm}
  BY DEF QuotedSourcesMeant, PrefixOf, ValueOf
<1>2. [kind : {"Keyword"}, text : KeywordText \cap {Lower(t)}] = ParseKeyword(t)
  <2>1. KeywordText \cap {Lower(t)} = {Lower(t)} \cap KeywordText
    OBVIOUS
  <2> QED BY <2>1 DEF ParseKeyword
<1>3. e \in [kind : {"Nonce"}, value : When(nonce, v)] <=> NonceMeant(t) /\ e = NonceTerm(v)
  <2>1. nonce <=> NonceMeant(t)
    BY PrefixIsTag DEF NonceMeant
  <2> HIDE DEF nonce, v
  <2> QED BY <2>1, OneNonce
<1>4. ASSUME NEW a \in HashAlgorithm
      PROVE  e \in [kind : {"Hash"}, algorithm : {a}, value : When(hash(a), v)]
                <=> HashMeant(t, a) /\ e = HashTerm(a, v)
  <2>1. hash(a) <=> HashMeant(t, a)
    BY PrefixIsTag DEF HashMeant
  <2> HIDE DEF hash, v
  <2> QED BY <2>1, OneHashTerm
<1>5. e \in UNION {[kind : {"Hash"}, algorithm : {a}, value : When(hash(a), v)] :
                       a \in HashAlgorithm}
         <=> \E a \in HashAlgorithm : HashMeant(t, a) /\ e = HashTerm(a, v)
  <2> HIDE DEF hash, v
  <2> QED BY <1>4
<1> HIDE DEF nonce, hash
<1> QED BY <1>1, <1>2, <1>3, <1>5 DEF v

-----------------------------------------------------------------------------
(***************************************************************************)
(* Texts between quotes, as the parser reads them.                         *)
(***************************************************************************)
LEMMA WithinQuotes ==
    ASSUME NEW t \in Text, Quoted(t), NEW w, w = Unquote(t)
    PROVE  /\ w \in Text /\ Len(w) \in Nat /\ Len(w) + 2 = Len(t)
           /\ Len(w) >= 1 => w[1] = t[2]
           /\ Len(w) >= 2 => w[2] = t[3]
<1>1. w \in Text /\ Len(w) = Len(t) - 2 /\ \A i \in 1..Len(w) : w[i] = t[i + 1]
  BY UnquotedIs
<1>2. PICK n \in Nat : n = Len(w)
  BY <1>1, TextLen
<1>3. PICK m \in Nat : m = Len(t)
  BY TextLen
<1>4. n = m - 2 /\ n + 2 = m
  BY <1>1, <1>2, <1>3
<1>5. n >= 1 => w[1] = t[2]
  <2>1. n >= 1 => 1 \in 1..n /\ 1 + 1 = 2
    OBVIOUS
  <2> QED BY <1>1, <1>2, <2>1
<1>6. n >= 2 => w[2] = t[3]
  <2>1. n >= 2 => 2 \in 1..n /\ 2 + 1 = 3
    OBVIOUS
  <2> QED BY <1>1, <1>2, <2>1
<1> QED BY <1>1, <1>2, <1>3, <1>4, <1>5, <1>6

LEMMA NonceTag ==
    ASSUME NEW t \in Text, Quoted(t), NEW w, w = Unquote(t)
    PROVE  IsPrefix(NoncePrefix, Lower(w)) <=> Begins(t, "nonce")
<1>1. PICK u : u = Lower(w)
  OBVIOUS
<1>2. PICK n \in Nat : n = Len(w)
  BY WithinQuotes
<1>3. w \in Text /\ n + 2 = Len(t) /\ (n >= 1 => w[1] = t[2]) /\ (n >= 2 => w[2] = t[3])
  BY <1>2, WithinQuotes
<1>4. u \in Text /\ Len(u) = n /\ \A i \in 1..n : u[i] = Small(w[i])
  BY <1>1, <1>2, <1>3, LowerIs
<1>5. IsPrefix(NoncePrefix, u) <=> n >= 2 /\ u[1] = "nonce" /\ u[2] = "-"
  BY <1>4, NoncePrefixIs
<1>6. n >= 2 => u[1] = Small(t[2]) /\ u[2] = Small(t[3])
  <2>1. n >= 2 => 1 \in 1..n /\ 2 \in 1..n
    OBVIOUS
  <2> QED BY <1>3, <1>4, <2>1
<1>7. Small(t[3]) = "-" <=> t[3] = "-"
  <2>1. PICK y : y = t[3]
    OBVIOUS
  <2>2. Small(y) = "-" <=> y = "-"
    BY SmallMark, PunctuationMarks
  <2> QED BY <2>1, <2>2
<1>8. n >= 2 <=> n + 2 >= 4
  OBVIOUS
<1>9. Begins(t, "nonce") <=> n >= 2 /\ Small(t[2]) = "nonce" /\ t[3] = "-"
  BY <1>3, <1>8 DEF Begins
<1> QED BY <1>1, <1>5, <1>6, <1>7, <1>9

LEMMA HashTag ==
    ASSUME NEW t \in Text, Quoted(t), NEW w, w = Unquote(t), NEW a \in HashAlgorithm
    PROVE  /\ a \in AlgorithmOf(w) <=> Begins(t, a)
           /\ a \in AlgorithmOf(w) => FirstPlace(w, Dash) = 2
<1>1. PICK n \in Nat : n = Len(w)
  BY WithinQuotes
<1>2. w \in Text /\ n + 2 = Len(t) /\ (n >= 1 => w[1] = t[2]) /\ (n >= 2 => w[2] = t[3])
  BY <1>1, WithinQuotes
<1>3. PICK p : p = FirstPlace(w, Dash)
  OBVIOUS
<1>4. \/ p = 0 /\ \A i \in 1..n : w[i] # "-"
      \/ p \in 1..n /\ w[p] = "-" /\ \A i \in 1..n : w[i] = "-" => p <= i
  BY <1>1, <1>2, <1>3, DashAt
<1>5. a \in AlgorithmOf(w) <=> p # 0 /\ Lower(Before(w, p)) = <<a>>
  BY <1>3 DEF AlgorithmOf, Dash
<1>6. a # "-" /\ Small("-") = "-"
  BY TagsAre, SmallMark, PunctuationMarks
<1>7. ASSUME p \in 1..n, NEW u, u = Before(w, p)
      PROVE  /\ u \in Text /\ Len(u) = p - 1
             /\ p = 2 => u[1] = w[1]
  <2>1. PICK m : m = p - 1 /\ m \in 0..Len(w)
    BY <1>1, <1>7
  <2>2. w \in Text /\ m \in 0..Len(w) /\ u = SubSeq(w, 1, m)
    BY <1>2, <1>7, <2>1 DEF Before
  <2>3. u \in Text /\ Len(u) = m /\ \A i \in 1..m : u[i] = w[i]
    BY <2>2, BeginsIs
  <2>4. p = 2 => 1 \in 1..m
    BY <2>1
  <2> QED BY <2>1, <2>3, <2>4
<1>8. ASSUME a \in AlgorithmOf(w) PROVE p = 2 /\ Begins(t, a)
  <2>1. p \in 1..n /\ w[p] = "-" /\ Lower(Before(w, p)) = <<a>>
    BY <1>4, <1>5, <1>8
  <2>2. PICK u : u = Before(w, p)
    OBVIOUS
  <2>3. u \in Text /\ Len(u) = p - 1
    BY <1>7, <2>1, <2>2
  <2>4. PICK x : x = Lower(u)
    OBVIOUS
  <2>5. Len(x) = Len(u) /\ \A i \in 1..Len(u) : x[i] = Small(u[i])
    BY <2>3, <2>4, LowerIs
  <2>6. x = <<a>>
    BY <2>1, <2>2, <2>4
  <2>7. Len(x) = 1 /\ x[1] = a
    BY <2>6
  <2>8. p = 2
    BY <2>1, <2>3, <2>5, <2>7
  <2>9. Small(u[1]) = a
    <3>1. 1 \in 1..Len(u)
      BY <2>5, <2>7
    <3> QED BY <2>5, <2>7, <3>1
  <2>10. u[1] = w[1]
    BY <1>7, <2>1, <2>2, <2>8
  <2>11. n >= 2 /\ n >= 1 /\ Len(t) >= 4
    BY <1>2, <2>1, <2>8
  <2>12. t[2] = w[1] /\ t[3] = w[2]
    BY <1>2, <2>11
  <2> QED BY <2>1, <2>8, <2>9, <2>10, <2>11, <2>12 DEF Begins
<1>9. ASSUME Begins(t, a) PROVE a \in AlgorithmOf(w)
  <2>1. n >= 2 /\ n >= 1 /\ 1 \in 1..n /\ 2 \in 1..n
    BY <1>2, <1>9 DEF Begins
  <2>2. w[1] = t[2] /\ w[2] = t[3] /\ Small(t[2]) = a /\ t[3] = "-"
    BY <1>2, <1>9, <2>1 DEF Begins
  <2>3. w[1] # "-" /\ w[2] = "-"
    BY <1>6, <2>2
  <2>4. p \in 1..n /\ p <= 2 /\ w[p] = "-"
    BY <1>4, <2>1, <2>3
  <2>5. p = 2
    <3>1. p # 1
      BY <2>3, <2>4
    <3> QED BY <2>4, <3>1
  <2>6. PICK u : u = Before(w, p)
    OBVIOUS
  <2>7. u \in Text /\ Len(u) = p - 1 /\ u[1] = w[1]
    BY <1>7, <2>4, <2>5, <2>6
  <2>8. PICK x : x = Lower(u)
    OBVIOUS
  <2>9. x \in Text /\ Len(x) = 1 /\ x[1] = Small(u[1])
    <3>1. Len(u) = 1 /\ 1 \in 1..Len(u)
      BY <2>5, <2>7
    <3> QED BY <2>7, <2>8, <3>1, LowerIs
  <2>10. x = <<a>>
    <3>1. x[1] = a
      BY <2>2, <2>7, <2>9
    <3> QED BY <2>9, <3>1 DEF Text
  <2> QED BY <1>5, <2>5, <2>6, <2>8, <2>10
<1> QED BY <1>3, <1>8, <1>9

LEMMA ValueWithin ==
    ASSUME NEW t \in Text, Quoted(t), Len(t) >= 4, NEW w, w = Unquote(t)
    PROVE  From(w, 3) = ValueOf(t) /\ ValueOf(t) \in Text /\ Len(ValueOf(t)) = Len(t) - 4
<1>1. PICK n \in Nat : n = Len(t)
  BY TextLen
<1>2. PICK k : k = n - 1
  OBVIOUS
<1>3. k \in Nat /\ n >= 4 /\ 2 >= 1 /\ k <= n /\ 2 <= k + 1 /\ 4 <= k + 1
  BY <1>1, <1>2
<1>4. w = SubSeq(t, 2, k)
  BY <1>1, <1>2 DEF Unquote
<1>5. PICK m \in Nat : m = Len(w)
  BY WithinQuotes
<1>6. m + 2 = n
  BY <1>1, <1>5, WithinQuotes
<1>7. From(w, 3) = SubSeq(SubSeq(t, 2, k), 3, m)
  BY <1>4, <1>5 DEF From
<1>8. SubSeq(SubSeq(t, 2, k), 3, m) = SubSeq(t, 2 + 3 - 1, 2 + m - 1)
  <2>1. t \in Seq(Token) /\ k <= Len(t) /\ 3 >= 1 /\ 3 <= m + 1 /\ m <= k - 2 + 1
    BY <1>1, <1>2, <1>3, <1>6 DEF Text
  <2> QED BY <1>3, <2>1, PartOfPart
<1>9. 2 + 3 - 1 = 4 /\ 2 + m - 1 = k
  BY <1>2, <1>6
<1>10. ValueOf(t) = SubSeq(t, 4, k)
  BY <1>1, <1>2 DEF ValueOf
<1>11. PICK v : v = ValueOf(t)
  OBVIOUS
<1>12. v \in Text /\ Len(v) = k - 4 + 1
  <2>1. PICK c \in Nat : c = 4
    OBVIOUS
  <2>2. v = SubSeq(t, c, k) /\ c >= 1 /\ c <= k + 1 /\ k <= Len(t) /\ k \in Nat
    BY <1>1, <1>3, <1>10, <1>11, <2>1
  <2>3. v \in Text /\ Len(v) = k - c + 1
    BY <2>2, TextPart
  <2> QED BY <2>1, <2>3
<1>13. From(w, 3) = v
  BY <1>7, <1>8, <1>9, <1>10, <1>11
<1>14. k - 4 + 1 = n - 4
  BY <1>2
<1>15. Len(v) = Len(t) - 4
  BY <1>1, <1>12, <1>14
<1> QED BY <1>11, <1>12, <1>13, <1>15

LEMMA KeywordUntagged ==
    ASSUME NEW t \in Text, NEW e \in ParseKeyword(t), NEW a \in HashAlgorithm \cup {"nonce"}
    PROVE  ~Begins(t, a)
<1>1. PICK x : x = Lower(t)
  OBVIOUS
<1>2. x \in KeywordText
  <2>1. GoodKeyword(e) /\ e.text = Lower(t)
    BY KeywordsGood
  <2> QED BY <1>1, <2>1 DEF GoodKeyword
<1>3. x[2] \notin HashAlgorithm \cup {"nonce"} /\ Len(x) >= 3
  BY <1>2, KeywordsAre DEF IsQuotedWord
<1>4. Len(x) = Len(t) /\ \A i \in 1..Len(t) : x[i] = Small(t[i])
  BY <1>1, LowerIs
<1>5. x[2] = Small(t[2])
  <2>1. 2 \in 1..Len(t)
    BY <1>3, <1>4, TextLen
  <2> QED BY <1>4, <2>1
<1> QED BY <1>3, <1>5 DEF Begins

LEMMA NoncePrefixDropped ==
    ASSUME NEW t \in Text, Quoted(t), ~Departure(t), Begins(t, "nonce"),
           NEW w, w = Unquote(t)
    PROVE  WithoutPrefix(w, NoncePrefix) = ValueOf(t)
<1>1. t[2] = "nonce"
  <2>1. t[2] # Upper("nonce")
    BY DEF Departure
  <2>2. PICK y : y = t[2]
    OBVIOUS
  <2>3. Small(y) # y => y = Upper(Small(y))
    BY SmallIs
  <2>4. Small(y) = "nonce" /\ y # Upper("nonce")
    BY <2>1, <2>2 DEF Begins
  <2> QED BY <2>2, <2>3, <2>4
<1>2. PICK n \in Nat : n = Len(w)
  BY WithinQuotes
<1>3. w \in Text /\ n + 2 = Len(t) /\ (n >= 1 => w[1] = t[2]) /\ (n >= 2 => w[2] = t[3])
  BY <1>2, WithinQuotes
<1>4. n >= 2 /\ n >= 1
  BY <1>3 DEF Begins
<1>5. w[1] = "nonce" /\ w[2] = "-"
  BY <1>1, <1>3, <1>4 DEF Begins
<1>6. IsPrefix(NoncePrefix, w)
  BY <1>2, <1>3, <1>4, <1>5, NoncePrefixIs
<1>7. Len(NoncePrefix) + 1 = 3
  <2>1. Len(NoncePrefix) = 2
    BY <1>3, NoncePrefixIs
  <2> QED BY <2>1
<1>8. From(w, 3) = ValueOf(t)
  BY ValueWithin DEF Begins
<1> QED BY <1>6, <1>7, <1>8 DEF WithoutPrefix

LEMMA DigestIsNoDeparture ==
    ASSUME NEW t \in Text, Quoted(t), ~Departure(t), NEW a \in HashAlgorithm, Begins(t, a),
           NEW v, v = ValueOf(t),
           Length(v) \in {DigestChars[a], DigestChars[a] + DigestPadding[a]}
    PROVE  Length(Unpadded(v)) = DigestChars[a]
<1>1. v \in Text /\ Len(v) = Len(t) - 4 /\ Len(t) >= 4 /\ Len(t) \in Nat
  <2>1. Len(t) >= 4
    BY DEF Begins
  <2> QED BY <2>1, TextLen, ValueWithin
<1>2. Lower(t)[2] = a
  <2>1. 2 \in 1..Len(t)
    BY <1>1
  <2>2. Lower(t)[2] = Small(t[2])
    BY <2>1, LowerIs
  <2> QED BY <2>2 DEF Begins
<1>3. CASE Len(t) > 4
  BY <1>2, <1>3 DEF Departure, ValueOf
<1>4. CASE Len(t) = 4
  <2>1. v = <<>>
    <3>1. v \in Seq(Token) /\ Len(v) = 0
      BY <1>1, <1>4 DEF Text
    <3> QED BY <3>1, EmptySeq
  <2>2. Length(v) = 0
    BY <2>1, EmptyLength
  <2>3. DigestChars[a] \in Nat /\ DigestChars[a] > 0 /\ DigestPadding[a] \in 0..2
    BY DigestsExpected
  <2> QED BY <2>2, <2>3
<1> QED BY <1>1, <1>3, <1>4

LEMMA HashParsed ==
    ASSUME NEW t \in Text, Quoted(t), NEW e
    PROVE  e \in ParseHash(t) <=>
              \E a \in HashAlgorithm :
                 /\ Begins(t, a)
                 /\ IsBase64(ValueOf(t))
                 /\ Length(ValueOf(t)) \in {UnpaddedLen(DigestLen[a]), PaddedLen(DigestLen[a])}
                 /\ e = HashTerm(a, ValueOf(t))
<1>1. PICK w : w = Unquote(t)
  OBVIOUS
<1>2. PICK v : v = ValueOf(t)
  OBVIOUS
<1>3. ASSUME NEW a \in HashAlgorithm, Begins(t, a)
      PROVE  From(w, FirstPlace(w, Dash) + 1) = v
  <2>1. FirstPlace(w, Dash) + 1 = 3
    BY <1>1, <1>3, HashTag
  <2>2. From(w, 3) = v
    BY <1>1, <1>2, <1>3, ValueWithin DEF Begins
  <2> QED BY <2>1, <2>2
<1>4. ASSUME NEW a \in HashAlgorithm
      PROVE  e \in HashOf(a, v) <=>
                /\ IsBase64(v)
                /\ Length(v) \in {UnpaddedLen(DigestLen[a]), PaddedLen(DigestLen[a])}
                /\ e = HashTerm(a, v)
  <2>1. PICK c \in BOOLEAN : c <=> (/\ IsBase64(v)
                        /\ Length(v) \in {UnpaddedLen(DigestLen[a]), PaddedLen(DigestLen[a])})
    OBVIOUS
  <2>2. HashOf(a, v) = [kind : {"Hash"}, algorithm : {a}, value : When(c, v)]
    BY <2>1 DEF HashOf, When
  <2> QED BY <2>1, <2>2, OneHashTerm
<1>5. e \in ParseHash(t) <=>
          \E a \in AlgorithmOf(w) : e \in HashOf(a, From(w, FirstPlace(w, Dash) + 1))
  BY <1>1 DEF ParseHash, Dash
<1>6. AlgorithmOf(w) \subseteq HashAlgorithm
  BY DEF AlgorithmOf
<1>7. \A a \in HashAlgorithm : a \in AlgorithmOf(w) <=> Begins(t, a)
  BY <1>1, HashTag
<1>8. e \in ParseHash(t) <=> \E a \in HashAlgorithm : Begins(t, a) /\ e \in HashOf(a, v)
  BY <1>3, <1>5, <1>6, <1>7
<1> QED BY <1>2, <1>4, <1>8

LEMMA QuotedMeant ==
    ASSUME NEW t \in Text, Quoted(t), ~Departure(t)
    PROVE  ParseQuoted(t) = QuotedSourcesMeant(t)
<1>1. PICK v : v = ValueOf(t)
  OBVIOUS
<1>2. \A a \in HashAlgorithm : Begins(t, a) => ~Begins(t, "nonce")
  BY DEF Begins, HashAlgorithm
<1>3. ASSUME NEW e
      PROVE  e \in ParseQuoted(t) <=>
                \/ e \in ParseKeyword(t)
                \/ NonceMeant(t) /\ e = NonceTerm(v)
                \/ \E a \in HashAlgorithm : HashMeant(t, a) /\ e = HashTerm(a, v)
  <2>1. CASE ParseKeyword(t) # {}
    <3>1. \A a \in HashAlgorithm \cup {"nonce"} : ~Begins(t, a)
      BY <2>1, KeywordUntagged
    <3>2. ~NonceMeant(t) /\ \A a \in HashAlgorithm : ~HashMeant(t, a)
      BY <3>1 DEF NonceMeant, HashMeant
    <3> QED BY <2>1, <3>2 DEF ParseQuoted
  <2>2. CASE ParseKeyword(t) = {} /\ Begins(t, "nonce")
    <3>1. \A a \in HashAlgorithm : ~HashMeant(t, a)
      BY <1>2, <2>2 DEF HashMeant
    <3>2. IsPrefix(<<"nonce", "-">>, Lower(Unquote(t)))
      BY <2>2, NonceTag DEF NoncePrefix
    <3>3. ParseQuoted(t) = ParseNonce(t)
      BY <2>2, <3>2 DEF ParseQuoted
    <3>4. WithoutPrefix(Unquote(t), NoncePrefix) = v /\ v \in Text
      BY <1>1, <2>2, NoncePrefixDropped, ValueWithin DEF Begins
    <3>5. PICK c \in BOOLEAN : c <=> IsBase64(v) /\ Length(Unpadded(v)) >= MinNonceChars
      OBVIOUS
    <3>6. ParseNonce(t) = [kind : {"Nonce"}, value : When(c, v)]
      <4>1. ParseNonce(t) = [kind : {"Nonce"},
                value : When(IsBase64(v) /\ Length(Unpadded(v)) >= MinNonceChars, v)]
        BY <3>4, NonceParsed
      <4> QED BY <3>5, <4>1 DEF When
    <3>7. c <=> NonceMeant(t)
      BY <1>1, <2>2, <3>4, <3>5, NonceAccepted DEF NonceMeant
    <3>8. e \in ParseNonce(t) <=> c /\ e = NonceTerm(v)
      BY <3>6, OneNonce
    <3> QED BY <2>2, <3>1, <3>3, <3>7, <3>8
  <2>3. CASE ParseKeyword(t) = {} /\ ~Begins(t, "nonce")
    <3>1. ~NonceMeant(t)
      BY <2>3 DEF NonceMeant
    <3>2. ~IsPrefix(<<"nonce", "-">>, Lower(Unquote(t)))
      BY <2>3, NonceTag DEF NoncePrefix
    <3>3. ParseQuoted(t) = ParseHash(t)
      BY <2>3, <3>2 DEF ParseQuoted
    <3>4. ASSUME NEW a \in HashAlgorithm, Begins(t, a)
          PROVE  IsBase64Value(v, {DigestChars[a]}, {0, DigestPadding[a]})
                    <=> /\ IsBase64(v)
                        /\ Length(v) \in {UnpaddedLen(DigestLen[a]), PaddedLen(DigestLen[a])}
      <4>1. v \in Text
        BY <1>1, <3>4, ValueWithin DEF Begins
      <4>2. Length(v) \in {DigestChars[a], DigestChars[a] + DigestPadding[a]}
               => Length(Unpadded(v)) = DigestChars[a]
        BY <1>1, <3>4, DigestIsNoDeparture
      <4> QED BY <4>1, <4>2, DigestAccepted
    <3>5. \A a \in HashAlgorithm :
             HashMeant(t, a) <=>
                /\ Begins(t, a) /\ IsBase64(v)
                /\ Length(v) \in {UnpaddedLen(DigestLen[a]), PaddedLen(DigestLen[a])}
      BY <1>1, <3>4 DEF HashMeant
    <3>6. e \in ParseHash(t) <=> \E a \in HashAlgorithm : HashMeant(t, a) /\ e = HashTerm(a, v)
      BY <1>1, <3>5, HashParsed
    <3> QED BY <2>3, <3>1, <3>3, <3>6
  <2> QED BY <2>1, <2>2, <2>3
<1>4. \A e : e \in ParseQuoted(t) <=> e \in QuotedSourcesMeant(t)
  BY <1>1, <1>3, QuotedSourcesAre
<1> QED BY <1>4

\* Source::parse accepts exactly what the grammar gives a meaning to, with that meaning,
\* on every text but the departures.
THEOREM ParserReadsTheGrammar ==
    ASSUME NEW t \in Text, ~Departure(t)
    PROVE  ParseSource(t) = SourcesMeant(t)
<1>1. CASE Quoted(t)
  BY <1>1, QuotedMeant DEF ParseSource, SourcesMeant
<1>2. CASE ~Quoted(t)
  BY <1>2, UnquotedMeant
<1> QED BY <1>1, <1>2

-----------------------------------------------------------------------------
(***************************************************************************)
(* What is rendered is no departure, but for digests badly padded.         *)
(***************************************************************************)
\* The clauses of Departure: where "://" first stands, and what is wrong with a tag.
MarkDeparts(t) ==
    LET mark == FirstPlace(t, Slashes)
    IN  \/ mark > 1 /\ t[mark - 1] = ":"
        \/ FirstPlace(t, Slash) \in 1..(mark - 1)

PaddingDeparts(t, a) ==
    /\ Lower(t)[2] = a
    /\ Length(ValueOf(t)) \in {DigestChars[a], DigestChars[a] + DigestPadding[a]}
    /\ Length(Unpadded(ValueOf(t))) # DigestChars[a]

TagDeparts(t) ==
    \/ t[2] = Upper("nonce")
    \/ Len(t) > 4 /\ \E a \in HashAlgorithm : PaddingDeparts(t, a)

LEMMA DepartureIs ==
    ASSUME NEW t
    PROVE  Departure(t) <=> MarkDeparts(t) \/ (Quoted(t) /\ TagDeparts(t))
  BY DEF Departure, MarkDeparts, TagDeparts, PaddingDeparts, ValueOf, Slash, Slashes

LEMMA StraightStays ==
    ASSUME NEW t \in Text, Straight(t)
    PROVE  ~MarkDeparts(t)
<1>1. Len(t) \in Nat
  BY TextLen
<1>2. PICK mark : mark = FirstPlace(t, Slashes)
  OBVIOUS
<1>3. CASE mark = 0
  BY <1>2, <1>3 DEF MarkDeparts
<1>4. CASE FirstMark(t, mark)
  <2>1. mark > 1 => t[mark - 1] # ":"
    BY <1>4 DEF Straight
  <2>2. FirstPlace(t, Slash) \notin 1..(mark - 1)
    <3> SUFFICES ASSUME FirstPlace(t, Slash) \in 1..(mark - 1) PROVE FALSE
      OBVIOUS
    <3>1. PICK j : j = FirstPlace(t, Slash)
      OBVIOUS
    <3>2. mark \in 1..Len(t) /\ j \in 1..(mark - 1)
      BY <1>4, <3>1 DEF FirstMark
    <3>3. j # 0 /\ j < mark
      BY <1>1, <3>2
    <3>4. j \in Places(t, Slash)
      BY <3>1, <3>3, FirstPlaceIs DEF Text
    <3>5. j \in 1..Len(t) /\ t[j] = "/"
      BY <3>4, MarksAreTokens, MarkAt DEF Slash
    <3>6. mark < j
      BY <1>4, <3>5 DEF Straight
    <3> QED BY <1>1, <3>2, <3>3, <3>5, <3>6
  <2> QED BY <1>2, <2>1, <2>2 DEF MarkDeparts
<1>5. mark = 0 \/ FirstMark(t, mark)
  <2>1. CASE mark = 0
    BY <2>1
  <2>2. CASE mark \in Nat /\ mark >= 1 /\ SchemeEnds(t, mark + 2)
    <3>1. FirstMark(t, mark + 2 - 2) /\ mark + 2 - 2 = mark
      BY <2>2 DEF SchemeEnds
    <3> QED BY <3>1
  <2> QED BY <1>2, <2>1, <2>2, SchemeCut
<1> QED BY <1>3, <1>4, <1>5

LEMMA HostUndeparted ==
    ASSUME NEW e, GoodHost(e), NEW t, t = HostText(e)
    PROVE  t \in Text /\ ~Departure(t)
<1>1. t \in Text /\ Len(t) > 0 /\ t[1] # "'"
  BY HostShape
<1>2. ~Quoted(t)
  BY <1>1 DEF Quoted, Text
<1>3. PICK c1, c2, c3 : IsLayout(t, e, c1, c2, c3)
  BY HostLayout DEF GoodHost
<1>4. SchemeEnds(t, c1) /\ c1 \in Nat /\ e.scheme \in Text /\ Len(e.scheme) \in Nat
      /\ Len(t) \in Nat
  BY <1>3, LayoutScheme, LayoutNumbers, TextLen
<1>5. ASSUME NEW p, FirstMark(t, p)
      PROVE  /\ p > 1 => t[p - 1] # ":"
             /\ \A j \in 1..Len(t) : t[j] = "/" => p < j
  <2>1. c1 # 0 /\ FirstMark(t, c1 - 2)
    BY <1>4, <1>5 DEF SchemeEnds, NoMark, FirstMark
  <2>2. p = c1 - 2 /\ p \in 1..Len(t) /\ t[p] = ":"
    <3>1. p <= c1 - 2 /\ c1 - 2 <= p /\ p \in 1..Len(t)
      BY <1>5, <2>1 DEF FirstMark
    <3>2. t[p] = ":"
      BY <1>5 DEF FirstMark, Mark
    <3> QED BY <1>4, <3>1, <3>2
  <2>3. c1 = Len(e.scheme) + 3 /\ Holds(t, 0, e.scheme) /\ IsScheme(e.scheme)
    BY <1>3, <2>1 DEF IsLayout, GoodHost
  <2>4. ASSUME NEW i \in 1..Len(e.scheme) PROVE t[i] # ":" /\ t[i] # "/"
    <3>1. t[i] = e.scheme[i]
      <4>1. 0 + i = i
        BY <1>4
      <4> QED BY <2>3, <4>1 DEF Holds
    <3> QED BY <1>4, <2>3, <3>1, SchemeIs, SchemeByteIs
  <2>5. p > 1 => t[p - 1] # ":"
    <3>1. p > 1 => p - 1 \in 1..Len(e.scheme)
      BY <1>4, <2>2, <2>3
    <3> QED BY <2>4, <3>1
  <2>6. ASSUME NEW j \in 1..Len(t), t[j] = "/", ~(p < j) PROVE FALSE
    <3>1. j # p
      BY <2>2, <2>6
    <3>2. j \in 1..Len(e.scheme)
      BY <1>4, <2>2, <2>3, <2>6, <3>1
    <3> QED BY <2>4, <2>6, <3>2
  <2> QED BY <2>5, <2>6
<1>6. Straight(t)
  BY <1>5 DEF Straight
<1> QED BY <1>1, <1>2, <1>6, StraightStays, DepartureIs

\* A text without "://".
LEMMA NoMarkIsStraight ==
    ASSUME NEW t \in Text, \A i \in 1..Len(t) : t[i] # ":" \/ i = Len(t)
    PROVE  Straight(t)
<1>1. ASSUME NEW p, FirstMark(t, p) PROVE FALSE
  <2>1. p \in 1..Len(t) /\ p + 2 <= Len(t) /\ t[p] = ":"
    BY <1>1 DEF FirstMark, Mark
  <2>2. p # Len(t)
    BY <2>1, TextLen
  <2> QED BY <2>1, <2>2
<1> QED BY <1>1 DEF Straight

LEMMA SchemeUndeparted ==
    ASSUME NEW e, GoodScheme(e), NEW t, t = e.scheme \o Colon
    PROVE  t \in Text /\ ~Departure(t)
<1>1. /\ t \in Text /\ Len(t) = Len(e.scheme) + 1 /\ Len(e.scheme) \in Nat /\ ~Quoted(t)
      /\ e.scheme \in Text /\ IsScheme(e.scheme)
  BY SchemeShape DEF GoodScheme
<1>2. ASSUME NEW i \in 1..Len(t), i # Len(t) PROVE t[i] # ":"
  <2>1. i \in 1..Len(e.scheme)
    BY <1>1, <1>2
  <2>2. t[i] = e.scheme[i]
    BY <2>1, SchemeShape
  <2> QED BY <1>1, <2>1, <2>2, SchemeIs, SchemeByteIs
<1>3. Straight(t)
  BY <1>1, <1>2, NoMarkIsStraight
<1> QED BY <1>1, <1>3, StraightStays, DepartureIs

LEMMA WordingIsLow ==
    ASSUME NEW x \in Wording
    PROVE  x # Upper("nonce")
<1>1. Upper("nonce") \in Uppercase
  <2>1. "nonce" \in Word
    BY DEF Word, Vocabulary
  <2> QED BY <2>1 DEF Uppercase
<1>2. CASE x \in Vocabulary
  BY <1>1, <1>2, DistinctTokens DEF Word
<1>3. CASE x \in {"'", "-"}
  BY <1>1, <1>3, PunctuationMarks, PunctuationIs DEF Letters
<1> QED BY <1>2, <1>3 DEF Wording

LEMMA KeywordUndeparted ==
    ASSUME NEW e, GoodKeyword(e), NEW t, t = e.text
    PROVE  t \in Text /\ ~Departure(t)
<1>1. IsQuotedWord(t)
  BY KeywordsAre DEF GoodKeyword
<1>2. t \in Text /\ Lower(t) = t /\ \A i \in 1..Len(t) : t[i] \in Wording
  BY <1>1, WordsAre, TextIs DEF IsQuotedWord
<1>3. ":" \notin Wording
  BY DEF Wording, Vocabulary, HashAlgorithm
<1>4. Straight(t)
  BY <1>2, <1>3, NoMarkIsStraight
<1>5. 2 \in 1..Len(t)
  BY <1>1, <1>2, TextLen DEF IsQuotedWord
<1>6. t[2] # Upper("nonce")
  BY <1>2, <1>5, WordingIsLow
<1>7. ASSUME NEW a \in HashAlgorithm, PaddingDeparts(t, a) PROVE FALSE
  <2>1. t[2] = a
    BY <1>2, <1>7 DEF PaddingDeparts
  <2> QED BY <1>1, <2>1 DEF IsQuotedWord
<1> QED BY <1>2, <1>4, <1>6, <1>7, StraightStays, DepartureIs DEF TagDeparts

LEMMA ValueHasNoColon ==
    ASSUME NEW v \in Text, IsBase64(v), NEW i \in 1..Len(v)
    PROVE  v[i] # ":"
<1>1. PICK m : IsPaddedAt(v, m)
  BY Base64Is
<1>2. CASE i <= m
  <2>1. i \in 1..m
    BY <1>2
  <2>2. v[i] \in Base64Char
    BY <1>1, <2>1 DEF IsPaddedAt
  <2>3. ":" \notin Base64Char
    BY PunctuationMarks, PunctuationIs DEF Base64Char
  <2> QED BY <2>2, <2>3
<1>3. CASE i > m
  <2>1. m \in 0..Len(v)
    BY <1>1 DEF IsPaddedAt
  <2>2. i \in (m + 1)..Len(v)
    BY <1>3, <2>1
  <2>3. v[i] = "="
    BY <1>1, <2>2 DEF IsPaddedAt
  <2> QED BY <2>3
<1>4. m \in Int
  BY <1>1 DEF IsPaddedAt
<1> QED BY <1>2, <1>3, <1>4

\* A tagged text departs if it has the padding of none of the digests.
LEMMA TaggedUndeparted ==
    ASSUME NEW a \in HashAlgorithm \cup {"nonce"}, NEW v \in Text, IsBase64(v),
           NEW t, t = Tagged(a, v),
           a \in HashAlgorithm => Length(Unpadded(v)) = DigestChars[a]
    PROVE  t \in Text /\ ~Departure(t)
<1>1. a \in Token /\ Small(a) = a
  BY TagsAre
<1>2. /\ t \in Text /\ Len(t) = Len(v) + 4 /\ t[1] = "'" /\ t[2] = a /\ t[3] = "-"
      /\ t[Len(t)] = "'" /\ Holds(t, 3, v)
  BY <1>1, TaggedIs
<1>3. Len(v) \in Nat /\ Len(t) \in Nat
  BY <1>2, TextLen
<1>4. ASSUME NEW i \in 1..Len(t), t[i] = ":" PROVE FALSE
  <2>1. i # 1 /\ i # 3 /\ i # Len(t)
    BY <1>2, <1>4
  <2>2. i # 2
    BY <1>2, <1>4 DEF HashAlgorithm
  <2>3. i - 3 \in 1..Len(v) /\ 3 + (i - 3) = i
    BY <1>2, <1>3, <2>1, <2>2
  <2>4. v[i - 3] = t[i]
    BY <1>2, <2>3 DEF Holds
  <2> QED BY <1>4, <2>3, <2>4, ValueHasNoColon
<1>5. Straight(t)
  BY <1>2, <1>4, NoMarkIsStraight
<1>6. t[2] # Upper("nonce")
  <2>1. a \in Wording
    BY DEF Wording, Vocabulary, HashAlgorithm
  <2> QED BY <1>2, <2>1, WordingIsLow
<1>7. ASSUME NEW b \in HashAlgorithm, PaddingDeparts(t, b) PROVE FALSE
  <2>1. Lower(t)[2] = a
    <3>1. 2 \in 1..Len(t)
      BY <1>2, <1>3
    <3>2. Lower(t)[2] = Small(t[2])
      BY <1>2, <3>1, LowerIs
    <3> QED BY <1>1, <1>2, <3>2
  <2>2. b = a
    BY <1>7, <2>1 DEF PaddingDeparts
  <2>3. ValueOf(t) = v
    <3>1. PICK d \in Nat : d = Len(t) - 1 /\ d = 3 + Len(v)
      BY <1>2, <1>3
    <3>2. SubSeq(t, 3 + 1, d) = v
      BY <1>2, <3>1, HeldPart
    <3>3. 3 + 1 = 4
      OBVIOUS
    <3> QED BY <3>1, <3>2, <3>3 DEF ValueOf
  <2> QED BY <1>7, <2>2, <2>3 DEF PaddingDeparts
<1> QED BY <1>2, <1>5, <1>6, <1>7, StraightStays, DepartureIs DEF TagDeparts

LEMMA SourceUndeparted ==
    ASSUME NEW e, GoodSource(e),
           e.kind = "Hash" => Length(Unpadded(e.value)) = DigestChars[e.algorithm]
    PROVE  Display(e) \in Text /\ ~Departure(Display(e))
<1>1. CASE GoodKeyword(e)
  <2>1. Display(e) = e.text
    BY <1>1, GoodKinds, DisplayIs
  <2> QED BY <1>1, <2>1, KeywordUndeparted
<1>2. CASE GoodScheme(e)
  <2>1. Display(e) = e.scheme \o Colon
    BY <1>2, GoodKinds, DisplayIs DEF Colon
  <2> QED BY <1>2, <2>1, SchemeUndeparted
<1>3. CASE GoodHost(e)
  <2>1. Display(e) = HostText(e)
    BY <1>3, GoodKinds, DisplayIs
  <2> QED BY <1>3, <2>1, HostUndeparted
<1>4. CASE GoodNonce(e)
  <2>1. Display(e) = Tagged("nonce", e.value) /\ e.value \in Text /\ IsBase64(e.value)
    BY <1>4, GoodKinds, DisplayIs DEF GoodNonce
  <2>2. PICK a \in HashAlgorithm \cup {"nonce"} : a = "nonce"
    OBVIOUS
  <2>3. a \notin HashAlgorithm
    BY <2>2 DEF HashAlgorithm
  <2> QED BY <2>1, <2>2, <2>3, TaggedUndeparted
<1>5. CASE GoodHash(e)
  <2>1. Display(e) = Tagged(e.algorithm, e.value)
    BY <1>5, GoodKinds, DisplayIs
  <2>2. e.algorithm \in HashAlgorithm /\ e.value \in Text /\ IsBase64(e.value)
    BY <1>5 DEF GoodHash
  <2>3. Length(Unpadded(e.value)) = DigestChars[e.algorithm]
    BY <1>5, GoodKinds
  <2> QED BY <2>1, <2>2, <2>3, TaggedUndeparted
<1> QED BY <1>1, <1>2, <1>3, <1>4, <1>5 DEF GoodSource

LEMMA EntriesWritten ==
    ASSUME IInv
    PROVE  WrittenByTheGrammar
<1>1. SUFFICES ASSUME directive \in {"img-src", "frame-ancestors"}, NEW i \in DOMAIN entries,
                      entries[i].kind = "Hash" =>
                         Length(Unpadded(entries[i].value)) = DigestChars[entries[i].algorithm]
               PROVE  SourcesMeant(Display(entries[i])) = {entries[i]}
  BY DEF WrittenByTheGrammar
<1>2. PICK e : e = entries[i]
  OBVIOUS
<1>3. e \in ToSet(entries)
  BY <1>2 DEF ToSet
<1>4. Fits(directive, e)
  BY <1>3 DEF IInv, EntriesFine
<1>5. Display(e) \in Text /\ Read(ReaderOf(directive), Display(e)) = {e}
  BY <1>4, CleanIs DEF Fits
<1>6. e \in ParseSource(Display(e))
  <2>1. CASE directive = "img-src"
    <3>1. Read(ReaderOf(directive), Display(e)) = ParseSource(Display(e))
      BY <2>1, ReadIs, ReadersOf
    <3> QED BY <1>5, <3>1
  <2>2. CASE directive = "frame-ancestors"
    <3>1. Read(ReaderOf(directive), Display(e)) = ParseAncestor(Display(e))
      BY <2>2, ReadIs, ReadersOf
    <3> QED BY <1>5, <3>1, AncestorsAre
  <2> QED BY <1>1, <2>1, <2>2
<1>7. GoodSource(e)
  BY <1>5, <1>6, SourcesGood
<1>8. ~Departure(Display(e))
  BY <1>1, <1>2, <1>7, SourceUndeparted
<1>9. ParseSource(Display(e)) = SourcesMeant(Display(e))
  BY <1>5, <1>8, ParserReadsTheGrammar
<1>10. ParseSource(Display(e)) = {e}
  BY <1>7, SourceReadsBack
<1> QED BY <1>2, <1>9, <1>10

\* Whatever a list of sources was filled with, departures of the parsers, bare nonces and
\* made digests included, every entry is written as a text by which the grammar means that
\* entry, a digest with ill-fitting padding excepted (every parser of a source, Display).
THEOREM WrittenByTheGrammarAlways == Spec => []WrittenByTheGrammar
<1>1. Init => IInv
  BY InitFine
<1>2. IInv /\ [Next]_vars => IInv'
  BY StepFine
<1>3. IInv => WrittenByTheGrammar
  BY EntriesWritten
<1> QED BY <1>1, <1>2, <1>3, PTL DEF Spec

-----------------------------------------------------------------------------
(***************************************************************************)
(* The list of sources.                                                    *)
(***************************************************************************)
\* Values none of which is listed twice are as many as their list is long.
LEMMA DistinctCount ==
    ASSUME NEW T, NEW s \in Seq(T), Distinct(s)
    PROVE  Len(s) = Cardinality(ToSet(s))
<1>1. PICK n \in Nat : n = Len(s)
  BY TextIs
<1>2. DOMAIN s = 1..n /\ ToSet(s) = {s[i] : i \in 1..n}
  BY <1>1, TextIs, ToSetIs
<1>3. PICK S : S = ToSet(s)
  OBVIOUS
<1>4. PICK f : f = [i \in 1..n |-> s[i]]
  OBVIOUS
<1>5. f \in [1..n -> S] /\ \A i \in 1..n : f[i] = s[i]
  BY <1>2, <1>3, <1>4
<1>6. \A i, j \in 1..n : f[i] = f[j] => i = j
  BY <1>2, <1>5 DEF Distinct
<1>7. \A x \in S : \E i \in 1..n : f[i] = x
  BY <1>2, <1>3, <1>5
<1>8. f \in Bijection(1..n, S)
  BY <1>5, <1>6, <1>7, Zenon DEF Bijection, Injection, Surjection, IsInjective
<1>9. Cardinality(S) = n
  BY <1>8, FS_CountingElements DEF ExistsBijection
<1> QED BY <1>1, <1>3, <1>9

\* The premise of ListIsWhatTheTextsMean.
WholeExpressions ==
    /\ \A i \in DOMAIN offered :
          /\ offered[i].reader \in {"Source::parse", "AncestorSource::parse"}
          /\ ~Departure(offered[i].text)
    /\ directive \in {"img-src", "frame-ancestors"}

Listed ==
    {source \in Meant :
        \/ directive = "img-src"
        \/ source.kind \in {"Scheme", "Host"}
        \/ source = [kind |-> "Keyword", text |-> <<"'", "self", "'">>]}

\* A source of frame-ancestors is one that a list of ancestors holds.
LEMMA AncestorIs ==
    ASSUME NEW t \in Text, NEW e \in ParseSource(t)
    PROVE  IsAncestor(e) <=> \/ e.kind \in {"Scheme", "Host"}
                             \/ e = [kind |-> "Keyword", text |-> SelfText]
<1>1. GoodSource(e)
  BY SourcesGood
<1>2. ASSUME e.kind = "Keyword", e.text = SelfText
      PROVE  e = [kind |-> "Keyword", text |-> SelfText]
  <2>1. GoodKeyword(e)
    BY <1>1, <1>2, GoodKinds DEF GoodSource
  <2> QED BY <1>2, <2>1 DEF GoodKeyword
<1>3. ASSUME e = [kind |-> "Keyword", text |-> SelfText]
      PROVE  e.kind = "Keyword" /\ e.text = SelfText
  BY <1>3
<1> QED BY <1>2, <1>3 DEF IsAncestor

LEMMA AcceptedIsListed ==
    ASSUME IInv, WholeExpressions
    PROVE  AcceptedIn(offered) = Listed
<1>1. Readers["img-src"] \cap {"Source::parse", "AncestorSource::parse"} = {"Source::parse"}
  BY ReadersAre DEF HashAlgorithm
<1>2. Readers["frame-ancestors"] \cap {"Source::parse", "AncestorSource::parse"}
          = {"AncestorSource::parse"}
  BY ReadersAre
<1>3. ASSUME NEW i \in DOMAIN offered
      PROVE  /\ offered[i].text \in Text
             /\ ParseSource(offered[i].text) = SourcesMeant(offered[i].text)
             /\ offered[i].reader = IF directive = "img-src" THEN "Source::parse"
                                    ELSE "AncestorSource::parse"
  <2>1. offered[i] \in [reader : Readers[directive], text : Text]
    BY TextIs DEF IInv, OffersFine
  <2>2. offered[i].text \in Text /\ offered[i].reader \in Readers[directive]
    BY <2>1
  <2>3. /\ offered[i].reader \in {"Source::parse", "AncestorSource::parse"}
        /\ ~Departure(offered[i].text) /\ directive \in {"img-src", "frame-ancestors"}
    BY DEF WholeExpressions
  <2> QED BY <1>1, <1>2, <2>2, <2>3, ParserReadsTheGrammar
<1>4. ASSUME NEW i \in DOMAIN offered, NEW e
      PROVE  e \in Read(offered[i].reader, offered[i].text) <=>
                /\ e \in SourcesMeant(offered[i].text)
                /\ \/ directive = "img-src"
                   \/ e.kind \in {"Scheme", "Host"}
                   \/ e = [kind |-> "Keyword", text |-> SelfText]
  <2>1. PICK t \in Text : t = offered[i].text
    BY <1>3
  <2>2. CASE directive = "img-src"
    <3>1. Read(offered[i].reader, t) = ParseSource(t)
      BY <1>3, <2>2, ReadIs
    <3> QED BY <1>3, <2>1, <2>2, <3>1
  <2>3. CASE directive # "img-src"
    <3>1. Read(offered[i].reader, t) = ParseAncestor(t)
      BY <1>3, <2>3, ReadIs
    <3>2. e \in ParseAncestor(t) <=> e \in ParseSource(t) /\ IsAncestor(e)
      BY AncestorsAre
    <3>3. ParseSource(t) = SourcesMeant(t)
      BY <1>3, <2>1
    <3>4. e \in ParseSource(t) =>
             (IsAncestor(e) <=> \/ e.kind \in {"Scheme", "Host"}
                                \/ e = [kind |-> "Keyword", text |-> SelfText])
      BY AncestorIs
    <3> QED BY <2>1, <2>3, <3>1, <3>2, <3>3, <3>4
  <2> QED BY <2>2, <2>3
<1>5. \A e : e \in AcceptedIn(offered) <=>
          \E i \in DOMAIN offered : e \in Read(offered[i].reader, offered[i].text)
  BY DEF AcceptedIn
<1>6. \A e : e \in Listed <=>
          /\ \E i \in DOMAIN offered : e \in SourcesMeant(offered[i].text)
          /\ \/ directive = "img-src"
             \/ e.kind \in {"Scheme", "Host"}
             \/ e = [kind |-> "Keyword", text |-> SelfText]
  BY DEF Listed, Meant, SelfText
<1>7. \A e : e \in AcceptedIn(offered) <=> e \in Listed
  BY <1>4, <1>5, <1>6
<1> QED BY <1>7

LEMMA ListMeans ==
    ASSUME IInv
    PROVE  ListIsWhatTheTextsMean
<1> SUFFICES ASSUME WholeExpressions
             PROVE  ListIsWhatTheTextsMean
  BY DEF ListIsWhatTheTextsMean, WholeExpressions
<1>1. AcceptedIn(offered) = Listed
  BY AcceptedIsListed
<1>2. ~HoldsOne(directive)
  BY DEF WholeExpressions, HoldsOne
<1>3. AcceptedIn(offered) \subseteq ToSet(entries)
      /\ ToSet(entries) \subseteq AcceptedIn(offered) \cup MadeUp(directive)
  BY <1>2 DEF IInv, ContentFine
<1>4. MadeUp(directive) \subseteq Generated
  BY DEF MadeUp
<1>5. Listed \subseteq ToSet(entries) /\ ToSet(entries) \subseteq Listed \cup Generated
  BY <1>1, <1>3, <1>4
<1>6. Len(entries) = Cardinality(ToSet(entries))
  <2>1. entries \in Seq(ToSet(entries)) /\ Distinct(entries)
    BY DEF IInv, EntriesFine
  <2> QED BY <2>1, DistinctCount
<1> QED BY <1>5, <1>6 DEF ListIsWhatTheTextsMean, Listed

\* A list of sources that was filled with whole expressions holds exactly what the texts
\* mean in the grammar, once each, and a list of ancestors exactly the schemes, the hosts
\* and 'self' among them, whatever the texts that are no departures (Source::parse,
\* AncestorSource::parse and what they call, push_unique).
THEOREM ListIsWhatTheTextsMeanAlways == Spec => []ListIsWhatTheTextsMean
<1>1. Init => IInv
  BY InitFine
<1>2. IInv /\ [Next]_vars => IInv'
  BY StepFine
<1>3. IInv => ListIsWhatTheTextsMean
  BY ListMeans
<1> QED BY <1>1, <1>2, <1>3, PTL DEF Spec
====
