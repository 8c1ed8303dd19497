----------------------------- MODULE TermProofs -----------------------------
(***************************************************************************)
(* Theorems about texts, the parsers of the terms and the grammar.         *)
(***************************************************************************)
EXTENDS SourceGrammar, IterationTheorems, SequenceTheorems

-----------------------------------------------------------------------------
(***************************************************************************)
(* Texts and their parts.                                                  *)
(***************************************************************************)
Text == Seq(Token)

LEMMA TextIs ==
    ASSUME NEW T, NEW t \in Seq(T)
    PROVE  /\ Len(t) \in Nat /\ DOMAIN t = 1..Len(t)
           /\ \A i \in 1..Len(t) : t[i] \in T
           /\ t = <<>> <=> Len(t) = 0
  BY LenProperties, ElementOfSeq, EmptySeq

LEMMA SameInterval ==
    ASSUME NEW m \in Nat, NEW n \in Nat, 1..m = 1..n
    PROVE  m = n
<1>1. m > 0 => m \in 1..n
  OBVIOUS
<1>2. n > 0 => n \in 1..m
  OBVIOUS
<1> QED BY <1>1, <1>2

LEMMA PartIs ==
    ASSUME NEW T, NEW t \in Seq(T), NEW m \in Nat, NEW n \in Nat, m >= 1, n <= Len(t),
           NEW u, u = SubSeq(t, m, n)
    PROVE  /\ u \in Seq(T)
           /\ Len(u) = IF m <= n THEN n - m + 1 ELSE 0
           /\ \A i \in 1..Len(u) : u[i] = t[m + i - 1]
<1>1. \A i \in m..n : t[i] \in T
  BY TextIs
<1> QED BY <1>1, SubSeqProperties

LEMMA FromIs ==
    ASSUME NEW T, NEW t \in Seq(T), NEW m \in 1..(Len(t) + 1), NEW u, u = From(t, m)
    PROVE  /\ u \in Seq(T)
           /\ Len(u) = Len(t) - m + 1
           /\ \A i \in 1..Len(u) : u[i] = t[m + i - 1]
<1>1. Len(t) \in Nat
  BY TextIs
<1> QED BY <1>1, PartIs DEF From

LEMMA BeforeIs ==
    ASSUME NEW T, NEW t \in Seq(T), NEW m \in 1..(Len(t) + 1), NEW u, u = Before(t, m)
    PROVE  /\ u \in Seq(T)
           /\ Len(u) = m - 1
           /\ \A i \in 1..Len(u) : u[i] = t[i]
<1>1. Len(t) \in Nat /\ m - 1 \in Nat
  BY TextIs
<1> QED BY <1>1, PartIs DEF Before

LEMMA PartOfPart ==
    ASSUME NEW T, NEW t \in Seq(T), NEW m \in Nat, NEW n \in Nat, m >= 1, n <= Len(t),
           m <= n + 1, NEW i \in Nat, NEW j \in Nat, i >= 1, i <= j + 1, j <= n - m + 1
    PROVE  SubSeq(SubSeq(t, m, n), i, j) = SubSeq(t, m + i - 1, m + j - 1)
<1> DEFINE u == SubSeq(t, m, n)
           v == SubSeq(u, i, j)
           w == SubSeq(t, m + i - 1, m + j - 1)
<1>1. Len(t) \in Nat
  BY TextIs
<1>2. /\ u \in Seq(T) /\ Len(u) = n - m + 1
      /\ \A k \in 1..Len(u) : u[k] = t[m + k - 1]
  BY <1>1, PartIs
<1>3. /\ v \in Seq(T) /\ Len(v) = j - i + 1
      /\ \A k \in 1..Len(v) : v[k] = u[i + k - 1]
  <2> HIDE DEF u
  <2> QED BY <1>2, PartIs
<1>4. /\ w \in Seq(T) /\ Len(w) = j - i + 1
      /\ \A k \in 1..Len(w) : w[k] = t[m + i - 1 + k - 1]
  BY <1>1, PartIs
<1>5. ASSUME NEW k \in 1..Len(v) PROVE v[k] = w[k]
  <2> HIDE DEF u, v, w
  <2>1. i + k - 1 \in 1..Len(u)
    BY <1>2, <1>3
  <2> QED BY <1>2, <1>3, <1>4, <2>1
<1> QED
  <2> HIDE DEF u, v, w
  <2>1. v = w
    BY <1>3, <1>4, <1>5, SeqEqual
  <2> QED BY <2>1 DEF u, v, w

LEMMA WholePart ==
    ASSUME NEW T, NEW t \in Seq(T)
    PROVE  SubSeq(t, 1, Len(t)) = t /\ From(t, 1) = t
  BY SubSeqFull DEF From

LEMMA InIs ==
    ASSUME NEW T, NEW t \in Seq(T), NEW S
    PROVE  In(t, S) <=> \A i \in 1..Len(t) : t[i] \in S
  BY TextIs DEF In, ToSet

LEMMA InSeq ==
    ASSUME NEW T, NEW t \in Seq(T), NEW S
    PROVE  In(t, S) <=> t \in Seq(S)
<1>1. /\ t \in [1..Len(t) -> T] /\ Len(t) \in Nat
  BY LenProperties
<1>2. ASSUME In(t, S) PROVE t \in Seq(S)
  <2>1. t \in [1..Len(t) -> S]
    BY <1>1, <1>2, InIs
  <2> QED BY <1>1, <2>1, SeqDef
<1>3. ASSUME t \in Seq(S) PROVE In(t, S)
  BY <1>3, InIs, TextIs
<1> QED BY <1>2, <1>3

LEMMA PrefixIs ==
    ASSUME NEW T, NEW s \in Seq(T), NEW t \in Seq(T)
    PROVE  IsPrefix(s, t) <=> Len(s) <= Len(t) /\ \A k \in 1..Len(s) : t[k] = s[k]
<1>1. Len(s) \in Nat /\ Len(t) \in Nat
  BY TextIs
<1>2. SubSeq(s, 1, Len(s)) = s
  BY WholePart
<1> SUFFICES ASSUME Len(s) <= Len(t)
             PROVE  s = SubSeq(t, 1, Len(s)) <=> \A k \in 1..Len(s) : t[k] = s[k]
  BY <1>2 DEF IsPrefix
<1> DEFINE u == SubSeq(t, 1, Len(s))
<1>3. u \in Seq(T) /\ Len(u) = Len(s) /\ \A k \in 1..Len(u) : u[k] = t[k]
  BY <1>1, PartIs
<1> HIDE DEF u
<1>4. s = u <=> \A k \in 1..Len(s) : t[k] = s[k]
  BY <1>3, SeqEqual
<1> QED BY <1>4 DEF u

StandsAt(t, s, i) ==
    /\ i + Len(s) - 1 <= Len(t)
    /\ \A k \in 1..Len(s) : t[i + k - 1] = s[k]

LEMMA PlacesAre ==
    ASSUME NEW T, NEW t \in Seq(T), NEW s \in Seq(T), s # <<>>
    PROVE  Places(t, s) = {i \in 1..Len(t) : StandsAt(t, s, i)}
<1>1. Len(s) \in Nat /\ Len(s) > 0 /\ Len(t) \in Nat /\ DOMAIN t = 1..Len(t)
  BY TextIs
<1>2. ASSUME NEW i \in 1..Len(t), i + Len(s) - 1 <= Len(t)
      PROVE  IsPrefix(s, From(t, i)) <=> \A k \in 1..Len(s) : t[i + k - 1] = s[k]
  <2> DEFINE u == From(t, i)
  <2>1. u \in Seq(T) /\ Len(u) = Len(t) - i + 1 /\ \A k \in 1..Len(u) : u[k] = t[i + k - 1]
    BY FromIs
  <2> HIDE DEF u
  <2>2. IsPrefix(s, u) <=> Len(s) <= Len(u) /\ \A k \in 1..Len(s) : u[k] = s[k]
    BY <2>1, PrefixIs
  <2>3. Len(s) <= Len(u) /\ \A k \in 1..Len(s) : k \in 1..Len(u)
    BY <1>1, <1>2, <2>1
  <2>4. IsPrefix(s, u) <=> \A k \in 1..Len(s) : t[i + k - 1] = s[k]
    BY <2>1, <2>2, <2>3
  <2> QED BY <2>4 DEF u
<1> QED BY <1>1, <1>2 DEF Places, StandsAt

LEMMA PlacesOfOne ==
    ASSUME NEW T, NEW t \in Seq(T), NEW a \in T
    PROVE  Places(t, <<a>>) = {i \in 1..Len(t) : t[i] = a}
<1> DEFINE s == <<a>>
<1>1. s \in Seq(T) /\ s # <<>> /\ Len(s) = 1 /\ s[1] = a
  OBVIOUS
<1> HIDE DEF s
<1>2. Places(t, s) = {i \in 1..Len(t) : StandsAt(t, s, i)}
  BY <1>1, PlacesAre
<1>3. Len(t) \in Nat
  BY TextIs
<1>4. Places(t, s) = {i \in 1..Len(t) : t[i] = a}
  BY <1>1, <1>2, <1>3 DEF StandsAt
<1> QED BY <1>4 DEF s

LEMMA PlacesOfTwo ==
    ASSUME NEW T, NEW t \in Seq(T), NEW a \in T, NEW b \in T
    PROVE  Places(t, <<a, b>>) = {i \in 1..Len(t) :
              i + 1 <= Len(t) /\ t[i] = a /\ t[i + 1] = b}
<1> DEFINE s == <<a, b>>
<1>1. s \in Seq(T) /\ s # <<>> /\ Len(s) = 2 /\ s[1] = a /\ s[2] = b
  OBVIOUS
<1> HIDE DEF s
<1>2. Places(t, s) = {i \in 1..Len(t) : StandsAt(t, s, i)}
  BY <1>1, PlacesAre
<1>3. Len(t) \in Nat
  BY TextIs
<1>4. Places(t, s) = {i \in 1..Len(t) : i + 1 <= Len(t) /\ t[i] = a /\ t[i + 1] = b}
  BY <1>1, <1>2, <1>3 DEF StandsAt
<1> QED BY <1>4 DEF s

LEMMA PlacesOfThree ==
    ASSUME NEW T, NEW t \in Seq(T), NEW a \in T, NEW b \in T, NEW c \in T
    PROVE  Places(t, <<a, b, c>>) = {i \in 1..Len(t) :
              i + 2 <= Len(t) /\ t[i] = a /\ t[i + 1] = b /\ t[i + 2] = c}
<1> DEFINE s == <<a, b, c>>
<1>1. s \in Seq(T) /\ s # <<>> /\ Len(s) = 3 /\ s[1] = a /\ s[2] = b /\ s[3] = c
  OBVIOUS
<1> HIDE DEF s
<1>2. Places(t, s) = {i \in 1..Len(t) : StandsAt(t, s, i)}
  BY <1>1, PlacesAre
<1>3. Len(t) \in Nat
  BY TextIs
<1>4. Places(t, s) = {i \in 1..Len(t) :
          i + 2 <= Len(t) /\ t[i] = a /\ t[i + 1] = b /\ t[i + 2] = c}
  BY <1>1, <1>2, <1>3 DEF StandsAt
<1> QED BY <1>4 DEF s

\* A set of numbers has a least and, when bounded, a greatest.
LEMMA LeastIs ==
    ASSUME NEW S \in SUBSET Nat, S # {}
    PROVE  Min(S) \in S /\ \A k \in S : Min(S) <= k
  BY LeastNatural DEF Min

LEMMA GreatestIs ==
    ASSUME NEW S \in SUBSET Nat, S # {}, NEW n \in Nat, \A k \in S : k <= n
    PROVE  Max(S) \in S /\ \A k \in S : k <= Max(S)
<1> DEFINE R == {n - k : k \in S}
<1>1. R \in SUBSET Nat /\ R # {}
  <2>1. \A k \in S : n - k \in Nat
    OBVIOUS
  <2> QED BY <2>1
<1>2. PICK m \in R : \A k \in R : m <= k
  <2> HIDE DEF R
  <2> QED BY <1>1, LeastNatural
<1>3. PICK g \in S : m = n - g
  OBVIOUS
<1>4. ASSUME NEW k \in S PROVE k <= g
  <2>1. n - k \in R
    OBVIOUS
  <2>2. n - g <= n - k
    <3> HIDE DEF R
    <3> QED BY <1>2, <1>3, <2>1
  <2> QED BY <2>2
<1>5. \E x \in S : \A y \in S : x >= y
  BY <1>3, <1>4
<1>6. Max(S) \in S /\ \A y \in S : Max(S) >= y
  BY <1>5 DEF Max
<1> QED BY <1>6

LEMMA PlacesBound ==
    ASSUME NEW T, NEW t \in Seq(T), NEW s
    PROVE  Places(t, s) \in SUBSET (1..Len(t)) /\ Places(t, s) \in SUBSET Nat
  BY TextIs DEF Places

LEMMA FirstPlaceIs ==
    ASSUME NEW T, NEW t \in Seq(T), NEW s
    PROVE  \/ FirstPlace(t, s) = 0 /\ Places(t, s) = {}
           \/ /\ FirstPlace(t, s) \in Places(t, s)
              /\ \A k \in Places(t, s) : FirstPlace(t, s) <= k
  BY PlacesBound, LeastIs DEF FirstPlace

LEMMA LastPlaceIs ==
    ASSUME NEW T, NEW t \in Seq(T), NEW s
    PROVE  \/ LastPlace(t, s) = 0 /\ Places(t, s) = {}
           \/ /\ LastPlace(t, s) \in Places(t, s)
              /\ \A k \in Places(t, s) : k <= LastPlace(t, s)
<1>1. Len(t) \in Nat
  BY TextIs
<1>2. \A k \in Places(t, s) : k <= Len(t)
  BY <1>1, PlacesBound
<1> QED BY <1>1, <1>2, PlacesBound, GreatestIs DEF LastPlace

\* A place that is first is the first place; and so with the last.
LEMMA FirstPlaceAt ==
    ASSUME NEW T, NEW t \in Seq(T), NEW s, NEW p \in Places(t, s),
           \A k \in Places(t, s) : p <= k
    PROVE  FirstPlace(t, s) = p
<1>1. p \in Nat /\ Places(t, s) \in SUBSET Nat
  BY PlacesBound
<1>2. FirstPlace(t, s) \in Places(t, s) /\ FirstPlace(t, s) <= p
  BY FirstPlaceIs
<1> QED BY <1>1, <1>2

LEMMA LastPlaceAt ==
    ASSUME NEW T, NEW t \in Seq(T), NEW s, NEW p \in Places(t, s),
           \A k \in Places(t, s) : k <= p
    PROVE  LastPlace(t, s) = p
<1>1. p \in Nat /\ Places(t, s) \in SUBSET Nat
  BY PlacesBound
<1>2. LastPlace(t, s) \in Places(t, s) /\ p <= LastPlace(t, s)
  BY LastPlaceIs
<1> QED BY <1>1, <1>2


-----------------------------------------------------------------------------
(***************************************************************************)
(* The alphabet.                                                           *)
(***************************************************************************)
LEMMA AlphanumericIs ==
    ASSUME NEW x \in Alphanumeric
    PROVE  /\ x \in PolicyByte /\ x \in Token /\ x \notin Punctuation /\ x \notin Separators
           /\ x \in Letters \/ x \in DOMAIN Numeral
  BY DistinctTokens DEF PolicyByte, Token, Alphanumeric

LEMMA PunctuationIs ==
    ASSUME NEW x \in Punctuation
    PROVE  /\ x \in PolicyByte /\ x \in Token /\ x \notin Alphanumeric /\ x \notin Separators
           /\ x \notin Letters /\ x \notin DOMAIN Numeral
<1>1. x \in PolicyByte /\ x \in Token /\ x \notin Alphanumeric
  BY DistinctTokens DEF PolicyByte, Token
<1>2. x \notin Separators
  BY DEF Punctuation, Separators, Blank
<1> QED BY <1>1, <1>2 DEF Alphanumeric

LEMMA SeparatorIs ==
    ASSUME NEW x \in Separators
    PROVE  /\ x \notin PolicyByte /\ x \in Token /\ x \notin Alphanumeric
           /\ x \notin Letters /\ x \notin DOMAIN Numeral
<1>1. x \notin Alphanumeric
  BY DistinctTokens
<1>2. x \notin Punctuation
  BY DEF Punctuation, Separators, Blank
<1> QED BY <1>1, <1>2 DEF Alphanumeric, PolicyByte, Token

LEMMA LetterIs ==
    ASSUME NEW x \in Letters
    PROVE  x \in Alphanumeric /\ x \notin DOMAIN Numeral
  BY DistinctTokens DEF Alphanumeric

LEMMA NumeralIs ==
    ASSUME NEW x \in DOMAIN Numeral
    PROVE  x \in Alphanumeric /\ x \notin Letters
  BY DistinctTokens DEF Alphanumeric

LEMMA PunctuationMarks ==
    /\ ":" \in Punctuation /\ "/" \in Punctuation /\ "." \in Punctuation /\ "*" \in Punctuation
    /\ "-" \in Punctuation /\ "'" \in Punctuation /\ "?" \in Punctuation /\ "#" \in Punctuation
    /\ "=" \in Punctuation /\ "_" \in Punctuation /\ "+" \in Punctuation /\ "@" \in Punctuation
  BY DEF Punctuation

\* What each class of bytes leaves out.
LEMMA SchemeByteIs ==
    ASSUME NEW x \in SchemeByte
    PROVE  /\ x \in PolicyByte /\ x \in Token
           /\ x \notin {":", "/", "*", "'"}
<1>1. CASE x \in Alphanumeric
  BY <1>1, AlphanumericIs, PunctuationMarks
<1>2. CASE x \in {"+", "-", "."}
  BY <1>2, PunctuationIs, PunctuationMarks
<1> QED BY <1>1, <1>2 DEF SchemeByte

LEMMA HostByteIs ==
    ASSUME NEW x \in HostByte
    PROVE  /\ x \in PolicyByte /\ x \in Token
           /\ x \notin {":", "/", "*", "'"}
<1>1. CASE x \in Alphanumeric
  BY <1>1, AlphanumericIs, PunctuationMarks
<1>2. CASE x \in {"-", "."}
  BY <1>2, PunctuationIs, PunctuationMarks
<1> QED BY <1>1, <1>2 DEF HostByte

LEMMA NumeralByteIs ==
    ASSUME NEW x \in DOMAIN Numeral
    PROVE  /\ x \in PolicyByte /\ x \in Token
           /\ x \notin {":", "/", "*", "'"}
  BY NumeralIs, AlphanumericIs, PunctuationMarks

LEMMA Base64CharIs ==
    ASSUME NEW x \in Base64Char
    PROVE  x \in PolicyByte /\ x \in Token /\ x \notin {"=", "'"}
<1>1. CASE x \in Alphanumeric
  BY <1>1, AlphanumericIs, PunctuationMarks
<1>2. CASE x \in {"+", "/", "-", "_"}
  BY <1>2, PunctuationIs, PunctuationMarks
<1> QED BY <1>1, <1>2 DEF Base64Char

LEMMA NameByteIs ==
    ASSUME NEW x \in NameByte
    PROVE  x \in PolicyByte /\ x \in Token /\ x \notin {"'", "*"}
<1>1. CASE x \in Alphanumeric
  BY <1>1, AlphanumericIs, PunctuationMarks
<1>2. CASE x \in {"-", "#", "=", "_", "/", "@", "."}
  BY <1>2, PunctuationIs, PunctuationMarks
<1> QED BY <1>1, <1>2 DEF NameByte

LEMMA PolicyByteIs ==
    ASSUME NEW x \in PolicyByte
    PROVE  x \in Token /\ x \notin {Blank, ";", ","}
<1>1. CASE x \in Alphanumeric
  BY <1>1, AlphanumericIs DEF Separators
<1>2. CASE x \in Punctuation
  BY <1>2, PunctuationIs DEF Separators
<1> QED BY <1>1, <1>2 DEF PolicyByte

\* One token in lower case.
Small(x) == IF x \in Uppercase THEN InLowercase[x] ELSE x

LEMMA InLowercaseIs ==
    ASSUME NEW x \in Uppercase
    PROVE  InLowercase[x] \in Word /\ x = Upper(InLowercase[x])
  BY DEF InLowercase, Uppercase

LEMMA WordIs ==
    ASSUME NEW x \in Word
    PROVE  x \in Letters /\ Small(x) = x
  BY DistinctTokens DEF Letters, Small

LEMMA SmallIs ==
    ASSUME NEW x
    PROVE  /\ Small(Small(x)) = Small(x)
           /\ x \in Letters <=> Small(x) \in Letters
           /\ x \notin Letters => Small(x) = x
           /\ Small(x) # x => Small(x) \in Word /\ x = Upper(Small(x))
<1>1. CASE x \in Uppercase
  <2>1. InLowercase[x] \in Word /\ x = Upper(InLowercase[x]) /\ x \in Letters
    BY <1>1, InLowercaseIs DEF Letters
  <2>2. InLowercase[x] \in Letters /\ Small(InLowercase[x]) = InLowercase[x]
    BY <2>1, WordIs
  <2>3. Small(x) = InLowercase[x]
    BY <1>1 DEF Small
  <2> QED BY <2>1, <2>2, <2>3
<1>2. CASE x \notin Uppercase
  <2>1. Small(x) = x
    BY <1>2 DEF Small
  <2> QED BY <2>1
<1> QED BY <1>1, <1>2

\* Only the mark itself is that mark in lower case.
LEMMA SmallMark ==
    ASSUME NEW x, NEW m \in Punctuation
    PROVE  Small(x) = m <=> x = m
  BY SmallIs, PunctuationIs

LEMMA SmallBytes ==
    ASSUME NEW x
    PROVE  /\ x \in Token => Small(x) \in Token
           /\ x \in PolicyByte => Small(x) \in PolicyByte
           /\ x \in HostByte <=> Small(x) \in HostByte
           /\ x \in SchemeByte <=> Small(x) \in SchemeByte
<1>1. CASE x \in Letters
  <2>1. Small(x) \in Letters
    BY <1>1, SmallIs
  <2>2. x \in Alphanumeric /\ Small(x) \in Alphanumeric
    BY <1>1, <2>1, LetterIs
  <2> QED BY <2>2, AlphanumericIs DEF HostByte, SchemeByte
<1>2. CASE x \notin Letters
  BY <1>2, SmallIs
<1> QED BY <1>1, <1>2

LEMMA LowerIs ==
    ASSUME NEW t \in Text, NEW u, u = Lower(t)
    PROVE  /\ u \in Text /\ Len(u) = Len(t)
           /\ \A i \in 1..Len(t) : u[i] = Small(t[i])
<1>1. Len(t) \in Nat /\ DOMAIN t = 1..Len(t) /\ \A i \in 1..Len(t) : t[i] \in Token
  BY TextIs DEF Text
<1>2. u = [i \in 1..Len(t) |-> Small(t[i])]
  BY <1>1 DEF Lower, Small
<1>3. \A i \in 1..Len(t) : u[i] = Small(t[i]) /\ u[i] \in Token
  BY <1>1, <1>2, SmallBytes
<1>4. u \in [1..Len(t) -> Token]
  BY <1>2, <1>3
<1>5. u \in Text
  BY <1>1, <1>4, SeqDef DEF Text
<1>6. Len(u) = Len(t)
  <2>1. Len(u) \in Nat /\ DOMAIN u = 1..Len(u)
    BY <1>5, TextIs DEF Text
  <2>2. DOMAIN u = 1..Len(t)
    BY <1>2
  <2> HIDE DEF Text
  <2> QED BY <1>1, <2>1, <2>2, SameInterval
<1> QED BY <1>3, <1>5, <1>6

LEMMA LowerTwice ==
    ASSUME NEW t \in Text
    PROVE  Lower(Lower(t)) = Lower(t)
<1> DEFINE u == Lower(t)
           v == Lower(u)
<1>1. u \in Text /\ Len(u) = Len(t) /\ \A i \in 1..Len(t) : u[i] = Small(t[i])
  BY LowerIs
<1>2. v \in Text /\ Len(v) = Len(u) /\ \A i \in 1..Len(u) : v[i] = Small(u[i])
  <2> HIDE DEF u
  <2> QED BY <1>1, LowerIs
<1>3. \A i \in 1..Len(u) : v[i] = u[i]
  <2> HIDE DEF u, v
  <2> QED BY <1>1, <1>2, SmallIs
<1> QED
  <2> HIDE DEF u, v
  <2>1. v = u
    BY <1>1, <1>2, <1>3, SeqEqual DEF Text
  <2> QED BY <2>1 DEF u, v

\* A text is in lower case when all of its tokens are.
LEMMA LowerSame ==
    ASSUME NEW t \in Text
    PROVE  Lower(t) = t <=> \A i \in 1..Len(t) : Small(t[i]) = t[i]
<1> DEFINE u == Lower(t)
<1>1. u \in Text /\ Len(u) = Len(t) /\ \A i \in 1..Len(t) : u[i] = Small(t[i])
  BY LowerIs
<1> HIDE DEF u
<1>2. u = t <=> \A i \in 1..Len(t) : Small(t[i]) = t[i]
  BY <1>1, TextIs, SeqEqual DEF Text
<1> QED BY <1>2 DEF u


-----------------------------------------------------------------------------
(***************************************************************************)
(* The parts of a host source: each parser accepts what the grammar says,  *)
(* and what it makes of it is in the grammar and stays as it is.           *)
(***************************************************************************)
LEMMA SchemeIs ==
    ASSUME NEW t \in Text
    PROVE  IsScheme(t) <=>
              Len(t) > 0 /\ t[1] \in Letters /\ \A i \in 1..Len(t) : t[i] \in SchemeByte
<1>1. In(t, SchemeByte) <=> \A i \in 1..Len(t) : t[i] \in SchemeByte
  BY InIs DEF Text
<1>2. Len(t) \in Nat /\ (t = <<>> <=> Len(t) = 0)
  BY TextIs DEF Text
<1> QED BY <1>1, <1>2 DEF IsScheme, SchemeByte

LEMMA SchemeParsed ==
    ASSUME NEW t \in Text, t = <<>> \/ Last(t) # ":"
    PROVE  ParseScheme(t) = When(IsScheme(t), Lower(t))
<1>1. WithoutSuffix(t, ":") = t
  BY DEF WithoutSuffix
<1> QED BY <1>1 DEF ParseScheme, IsScheme, SchemeByte

LEMMA SchemeLower ==
    ASSUME NEW t \in Text, IsScheme(t), NEW u, u = Lower(t)
    PROVE  u \in Text /\ IsScheme(u) /\ Lower(u) = u
<1>1. u \in Text /\ Len(u) = Len(t) /\ \A i \in 1..Len(t) : u[i] = Small(t[i])
  BY LowerIs
<1>2. Len(t) \in Nat
  BY TextIs DEF Text
<1>3. \A i \in 1..Len(u) : u[i] \in SchemeByte
  BY <1>1, SchemeIs, SmallBytes
<1>4. Len(u) > 0 /\ u[1] \in Letters
  BY <1>1, <1>2, SchemeIs, SmallIs
<1> QED BY <1>1, <1>3, <1>4, SchemeIs, LowerTwice

LEMMA HostNameIs ==
    ASSUME NEW t \in Text
    PROVE  IsHostName(t) <=>
              /\ Len(t) > 0
              /\ \A i \in 1..Len(t) : t[i] \in HostByte
              /\ \A i \in 1..Len(t) : t[i] = "." => i > 1 /\ t[i - 1] # "."
<1>1. In(t, HostByte) <=> \A i \in 1..Len(t) : t[i] \in HostByte
  BY InIs DEF Text
<1>2. Len(t) \in Nat /\ (t = <<>> <=> Len(t) = 0) /\ DOMAIN t = 1..Len(t)
  BY TextIs DEF Text
<1>3. IsHostName(t) <=> /\ t # <<>> /\ In(t, HostByte)
                        /\ \A i \in 1..Len(t) : t[i] = "." => i > 1 /\ t[i - 1] # "."
  BY <1>2 DEF IsHostName, HostByte
<1>4. t # <<>> <=> Len(t) > 0
  BY <1>2
<1> QED BY <1>1, <1>3, <1>4, ZenonT(30)

\* The labels of a host name, as the parser takes them.
AreLabels(t) ==
    /\ t # <<>> /\ Head(t) # "." /\ Last(t) # "."
    /\ Places(t, <<".", ".">>) = {}

LEMMA LabelsAre ==
    ASSUME NEW t \in Text
    PROVE  AreLabels(t) <=>
              /\ Len(t) > 0 /\ t[1] # "." /\ t[Len(t)] # "."
              /\ \A i \in 1..Len(t) : i + 1 <= Len(t) => ~(t[i] = "." /\ t[i + 1] = ".")
<1>1. Len(t) \in Nat /\ (t = <<>> <=> Len(t) = 0) /\ (t # <<>> => Head(t) = t[1])
  BY TextIs DEF Text
<1>2. "." \in Token
  BY PunctuationMarks, PunctuationIs
<1>3. Places(t, <<".", ".">>)
        = {i \in 1..Len(t) : i + 1 <= Len(t) /\ t[i] = "." /\ t[i + 1] = "."}
  BY <1>2, PlacesOfTwo DEF Text
<1>4. Places(t, <<".", ".">>) = {}
        <=> \A i \in 1..Len(t) : i + 1 <= Len(t) => ~(t[i] = "." /\ t[i + 1] = ".")
  BY <1>3
<1>5. /\ t # <<>> <=> Len(t) > 0
      /\ t # <<>> => (Head(t) # "." /\ Last(t) # "." <=> t[1] # "." /\ t[Len(t)] # ".")
  BY <1>1 DEF Last
<1> QED BY <1>4, <1>5, ZenonT(30) DEF AreLabels

LEMMA FrontIs ==
    ASSUME NEW t \in Text, Len(t) > 0, NEW u, u = Front(t)
    PROVE  u \in Text /\ Len(u) = Len(t) - 1 /\ \A i \in 1..Len(u) : u[i] = t[i]
<1>1. Len(t) \in Nat
  BY TextIs DEF Text
<1>2. Len(t) - 1 \in Nat
  BY <1>1
<1>3. u = SubSeq(t, 1, Len(t) - 1)
  BY DEF Front
<1>4. /\ u \in Seq(Token) /\ Len(u) = IF 1 <= Len(t) - 1 THEN Len(t) - 1 - 1 + 1 ELSE 0
      /\ \A i \in 1..Len(u) : u[i] = t[1 + i - 1]
  BY <1>1, <1>2, <1>3, PartIs DEF Text
<1>5. Len(u) = Len(t) - 1
  <2> DEFINE n == Len(t)
  <2>1. Len(u) = IF 1 <= n - 1 THEN n - 1 - 1 + 1 ELSE 0
    BY <1>4
  <2>2. n \in Nat /\ n > 0
    BY <1>1
  <2> HIDE DEF n
  <2>3. Len(u) = n - 1
    BY <2>1, <2>2
  <2> QED BY <2>3 DEF n
<1>6. ASSUME NEW i \in 1..Len(u) PROVE u[i] = t[i]
  <2>1. 1 + i - 1 = i
    BY <1>1, <1>5
  <2> QED BY <1>4, <2>1
<1> QED BY <1>4, <1>5, <1>6 DEF Text

LEMMA LabelsOfName ==
    ASSUME NEW t \in Text, \A i \in 1..Len(t) : t[i] \in HostByte
    PROVE  AreLabels(WithoutSuffix(t, ".")) <=> IsHostName(t)
<1>1. Len(t) \in Nat /\ (t = <<>> <=> Len(t) = 0)
  BY TextIs DEF Text
<1>2. CASE Len(t) = 0
  <2>1. WithoutSuffix(t, ".") = t
    BY <1>1, <1>2 DEF WithoutSuffix
  <2> QED BY <1>2, <2>1, LabelsAre, HostNameIs
<1>3. CASE Len(t) > 0 /\ t[Len(t)] # "."
  <2>1. WithoutSuffix(t, ".") = t
    BY <1>1, <1>3 DEF WithoutSuffix, Last
  <2>2. ASSUME AreLabels(t) PROVE IsHostName(t)
    <3>1. ASSUME NEW i \in 1..Len(t), t[i] = "." PROVE i > 1 /\ t[i - 1] # "."
      <4>1. i > 1
        BY <2>2, <3>1, LabelsAre
      <4>2. i - 1 \in 1..Len(t) /\ (i - 1) + 1 <= Len(t) /\ (i - 1) + 1 = i
        BY <1>1, <4>1
      <4> QED BY <2>2, <3>1, <4>1, <4>2, LabelsAre
    <3> QED BY <1>3, <3>1, HostNameIs
  <2>3. ASSUME IsHostName(t) PROVE AreLabels(t)
    <3>1. t[1] # "."
      BY <1>1, <1>3, <2>3, HostNameIs
    <3>2. ASSUME NEW i \in 1..Len(t), i + 1 <= Len(t), t[i + 1] = "." PROVE t[i] # "."
      <4>1. i + 1 \in 1..Len(t) /\ (i + 1) - 1 = i
        BY <1>1, <3>2
      <4> QED BY <2>3, <3>2, <4>1, HostNameIs
    <3> QED BY <1>3, <3>1, <3>2, LabelsAre
  <2> QED BY <2>1, <2>2, <2>3
<1>4. CASE Len(t) > 0 /\ t[Len(t)] = "."
  <2> DEFINE u == Front(t)
  <2>1. WithoutSuffix(t, ".") = u
    BY <1>1, <1>4 DEF WithoutSuffix, Last
  <2>2. u \in Text /\ Len(u) = Len(t) - 1 /\ \A i \in 1..Len(u) : u[i] = t[i]
    BY <1>4, FrontIs
  <2> HIDE DEF u
  <2>3. ASSUME AreLabels(u) PROVE IsHostName(t)
    <3>1. Len(u) > 0 /\ u[1] # "." /\ u[Len(u)] # "."
      BY <2>2, <2>3, LabelsAre
    <3>2. t[1] # "." /\ t[Len(t) - 1] # "."
      BY <1>1, <2>2, <3>1
    <3>3. ASSUME NEW i \in 1..Len(t), t[i] = "." PROVE i > 1 /\ t[i - 1] # "."
      <4>1. i > 1
        BY <3>2, <3>3
      <4>2. CASE i = Len(t)
        BY <3>2, <4>1, <4>2
      <4>3. CASE i # Len(t)
        <5>1. i - 1 \in 1..Len(u) /\ (i - 1) + 1 <= Len(u) /\ (i - 1) + 1 = i /\ i \in 1..Len(u)
          BY <1>1, <2>2, <4>1, <4>3
        <5>2. ~(u[i - 1] = "." /\ u[i] = ".")
          BY <2>2, <2>3, <5>1, LabelsAre
        <5> QED BY <2>2, <3>3, <4>1, <5>1, <5>2
      <4> QED BY <4>2, <4>3
    <3> QED BY <1>4, <3>3, HostNameIs
  <2>4. ASSUME IsHostName(t) PROVE AreLabels(u)
    <3>1. Len(t) > 1 /\ t[Len(t) - 1] # "." /\ t[1] # "."
      <4>1. Len(t) \in 1..Len(t) /\ 1 \in 1..Len(t)
        BY <1>1, <1>4
      <4> QED BY <1>4, <2>4, <4>1, HostNameIs
    <3>2. Len(u) > 0 /\ u[Len(u)] # "." /\ u[1] # "."
      BY <1>1, <2>2, <3>1
    <3>3. ASSUME NEW i \in 1..Len(u), i + 1 <= Len(u), u[i + 1] = "." PROVE u[i] # "."
      <4>1. i + 1 \in 1..Len(u) /\ i + 1 \in 1..Len(t) /\ (i + 1) - 1 = i
        BY <1>1, <2>2, <3>3
      <4>2. t[i + 1] = "." /\ u[i] = t[i]
        BY <2>2, <3>3, <4>1
      <4> QED BY <2>4, <4>1, <4>2, HostNameIs
    <3> QED BY <2>2, <3>2, <3>3, LabelsAre
  <2> QED BY <2>1, <2>3, <2>4
<1> QED BY <1>1, <1>2, <1>3, <1>4

LEMMA HostNameParsed ==
    ASSUME NEW t \in Text
    PROVE  ParseHostName(t) = When(IsHostName(t), Lower(t))
<1>1. In(t, HostByte) <=> \A i \in 1..Len(t) : t[i] \in HostByte
  BY InIs DEF Text
<1>2. ParseHostName(t) = When(In(t, HostByte) /\ AreLabels(WithoutSuffix(t, ".")), Lower(t))
  BY DEF ParseHostName, AreLabels
<1>3. In(t, HostByte) /\ AreLabels(WithoutSuffix(t, ".")) <=> IsHostName(t)
  BY <1>1, LabelsOfName, HostNameIs
<1> QED BY <1>2, <1>3 DEF When

LEMMA HostNameLower ==
    ASSUME NEW t \in Text, NEW u, u = Lower(t)
    PROVE  IsHostName(t) <=> IsHostName(u)
<1>1. u \in Text /\ Len(u) = Len(t) /\ \A i \in 1..Len(t) : u[i] = Small(t[i])
  BY LowerIs
<1>2. \A i \in 1..Len(t) : t[i] \in HostByte <=> u[i] \in HostByte
  BY <1>1, SmallBytes
<1>3. ASSUME NEW i \in 1..Len(t) PROVE t[i] = "." <=> u[i] = "."
  <2>1. PICK x : x = t[i] /\ u[i] = Small(x)
    BY <1>1
  <2>2. x = "." <=> Small(x) = "."
    BY SmallMark, PunctuationMarks
  <2> QED BY <2>1, <2>2
<1>4. Len(t) \in Nat
  BY TextIs DEF Text
<1>5. ASSUME IsHostName(t) PROVE IsHostName(u)
  <2>1. ASSUME NEW i \in 1..Len(t), u[i] = "." PROVE i > 1 /\ u[i - 1] # "."
    <3>1. t[i] = "." /\ i > 1 /\ t[i - 1] # "."
      BY <1>3, <1>5, <2>1, HostNameIs
    <3>2. i - 1 \in 1..Len(t)
      BY <1>4, <3>1
    <3> QED BY <1>3, <3>1, <3>2
  <2> QED BY <1>1, <1>2, <1>5, <2>1, HostNameIs
<1>6. ASSUME IsHostName(u) PROVE IsHostName(t)
  <2>1. ASSUME NEW i \in 1..Len(t), t[i] = "." PROVE i > 1 /\ t[i - 1] # "."
    <3>1. u[i] = "." /\ i > 1 /\ u[i - 1] # "."
      BY <1>1, <1>3, <1>6, <2>1, HostNameIs
    <3>2. i - 1 \in 1..Len(t)
      BY <1>4, <3>1
    <3> QED BY <1>3, <3>1, <3>2
  <2> QED BY <1>1, <1>2, <1>6, <2>1, HostNameIs
<1> QED BY <1>5, <1>6

\* The wildcard before the name of a host.
Star == <<"*">>

StarDot == <<"*", ".">>

LEMMA StarIs ==
    /\ Star \in Text /\ Len(Star) = 1 /\ Star[1] = "*" /\ Lower(Star) = Star
    /\ StarDot \in Text /\ Len(StarDot) = 2 /\ StarDot[1] = "*" /\ StarDot[2] = "."
<1>1. "*" \in Token /\ "." \in Token /\ Small("*") = "*"
  BY PunctuationMarks, PunctuationIs, SmallMark
<1>2. Star \in Text /\ Len(Star) = 1 /\ Star[1] = "*"
  BY <1>1 DEF Text, Star
<1>3. StarDot \in Text /\ Len(StarDot) = 2 /\ StarDot[1] = "*" /\ StarDot[2] = "."
  BY <1>1 DEF Text, StarDot
<1>4. Lower(Star) = Star
  BY <1>1, <1>2, LowerSame
<1> QED BY <1>2, <1>3, <1>4

LEMMA StarDotIs ==
    ASSUME NEW t \in Text
    PROVE  /\ IsPrefix(StarDot, t) <=> Len(t) >= 2 /\ t[1] = "*" /\ t[2] = "."
           /\ Len(t) > 2 => (Before(t, 3) = StarDot <=> t[1] = "*" /\ t[2] = ".")
<1>1. Len(t) \in Nat
  BY TextIs DEF Text
<1>2. IsPrefix(StarDot, t) <=> Len(t) >= 2 /\ t[1] = "*" /\ t[2] = "."
  <2>1. IsPrefix(StarDot, t) <=>
          Len(StarDot) <= Len(t) /\ \A k \in 1..Len(StarDot) : t[k] = StarDot[k]
    BY StarIs, PrefixIs DEF Text
  <2> QED BY <1>1, <2>1, StarIs
<1>3. ASSUME Len(t) > 2 PROVE Before(t, 3) = StarDot <=> t[1] = "*" /\ t[2] = "."
  <2> DEFINE u == Before(t, 3)
  <2>1. u \in Text /\ Len(u) = 2 /\ \A i \in 1..Len(u) : u[i] = t[i]
    <3>1. 3 \in 1..(Len(t) + 1)
      BY <1>1, <1>3
    <3>2. \A m \in 1..(Len(t) + 1) : /\ Before(t, m) \in Seq(Token) /\ Len(Before(t, m)) = m - 1
                                    /\ \A i \in 1..Len(Before(t, m)) : Before(t, m)[i] = t[i]
      BY BeforeIs DEF Text
    <3>3. u \in Seq(Token)
      BY <3>1, <3>2
    <3>4. Len(u) = 3 - 1
      BY <3>1, <3>2
    <3>5. \A i \in 1..Len(u) : u[i] = t[i]
      BY <3>1, <3>2
    <3> HIDE DEF u
    <3> QED BY <3>3, <3>4, <3>5 DEF Text
  <2> HIDE DEF u
  <2>2. u = StarDot <=> \A i \in 1..Len(u) : u[i] = StarDot[i]
    BY <2>1, StarIs, SeqEqual DEF Text
  <2>3. u = StarDot <=> t[1] = "*" /\ t[2] = "."
    BY <2>1, <2>2, StarIs
  <2> QED BY <2>3 DEF u
<1> QED BY <1>2, <1>3

LEMMA StarIsNoName ==
    ASSUME NEW t \in Text, Len(t) > 0, t[1] = "*"
    PROVE  ~IsHostName(t)
<1>1. 1 \in 1..Len(t)
  BY TextIs DEF Text
<1> QED BY <1>1, HostNameIs, HostByteIs

\* What is after a wildcard in lower case.
LEMMA LowerAfterStarDot ==
    ASSUME NEW t \in Text, Len(t) >= 2, t[1] = "*", t[2] = "."
    PROVE  StarDot \o Lower(From(t, 3)) = Lower(t)
<1> DEFINE u == From(t, 3)
           v == Lower(u)
           w == StarDot \o v
           l == Lower(t)
<1>0. Len(t) \in Nat
  BY TextIs DEF Text
<1>1. u \in Text /\ Len(u) = Len(t) - 2 /\ \A i \in 1..Len(u) : u[i] = t[3 + i - 1]
  <2>1. 3 \in 1..(Len(t) + 1)
    BY <1>0
  <2> QED BY <1>0, <2>1, FromIs DEF Text
<1>2. v \in Text /\ Len(v) = Len(u) /\ \A i \in 1..Len(u) : v[i] = Small(u[i])
  <2> HIDE DEF u
  <2> QED BY <1>1, LowerIs
<1>3. /\ w \in Text /\ Len(w) = 2 + Len(v)
      /\ \A i \in 1..(2 + Len(v)) : w[i] = IF i <= 2 THEN StarDot[i] ELSE v[i - 2]
  <2> HIDE DEF v
  <2>1. StarDot \in Seq(Token) /\ v \in Seq(Token) /\ Len(StarDot) = 2
    BY <1>2, StarIs DEF Text
  <2>2. /\ w \in Seq(Token) /\ Len(w) = Len(StarDot) + Len(v)
        /\ \A i \in 1..(Len(StarDot) + Len(v)) :
              w[i] = IF i <= Len(StarDot) THEN StarDot[i] ELSE v[i - Len(StarDot)]
    BY <2>1, ConcatProperties
  <2> HIDE DEF w
  <2> QED BY <2>1, <2>2 DEF Text
<1>4. l \in Text /\ Len(l) = Len(t) /\ \A i \in 1..Len(t) : l[i] = Small(t[i])
  BY LowerIs
<1>5. Len(w) = Len(l)
  <2> HIDE DEF u, v, w, l
  <2> QED BY <1>0, <1>1, <1>2, <1>3, <1>4
<1>6. ASSUME NEW i \in 1..Len(w) PROVE w[i] = l[i]
  <2> HIDE DEF u, v, w, l
  <2>1. i \in 1..Len(t)
    BY <1>4, <1>5
  <2>2. CASE i <= 2
    <3>1. w[i] = StarDot[i] /\ l[i] = Small(t[i])
      BY <1>3, <1>4, <2>1, <2>2
    <3>2. i = 1 \/ i = 2
      BY <1>0, <2>1, <2>2
    <3>3. Small("*") = "*" /\ Small(".") = "."
      BY SmallMark, PunctuationMarks
    <3> QED BY <3>1, <3>2, <3>3, StarIs
  <2>3. CASE i > 2
    <3>1. i - 2 \in 1..Len(u) /\ 3 + (i - 2) - 1 = i /\ ~(i <= 2)
      BY <1>0, <1>1, <2>1, <2>3
    <3>2. w[i] = v[i - 2]
      BY <1>3, <3>1
    <3>3. v[i - 2] = Small(u[i - 2]) /\ u[i - 2] = t[i]
      BY <1>1, <1>2, <3>1
    <3> QED BY <1>4, <2>1, <3>2, <3>3
  <2> QED BY <1>0, <2>1, <2>2, <2>3
<1> QED
  <2> HIDE DEF u, v, w, l
  <2>1. w = l
    BY <1>3, <1>4, <1>5, <1>6, SeqEqual DEF Text
  <2> QED BY <2>1 DEF u, v, w, l

LEMMA HostParsed ==
    ASSUME NEW t \in Text
    PROVE  ParseHostPattern(t) = When(IsHost(t), Lower(t))
<1>0. Len(t) \in Nat /\ (t = <<>> <=> Len(t) = 0)
  BY TextIs DEF Text
<1>1. CASE t = Star
  <2>1. IsHost(t) /\ Lower(t) = t /\ ParseHostPattern(t) = {t}
    BY <1>1, StarIs DEF IsHost, ParseHostPattern, Star
  <2> QED BY <2>1 DEF When
<1>2. CASE t # Star /\ IsPrefix(StarDot, t)
  <2> DEFINE u == From(t, 3)
  <2>1. Len(t) >= 2 /\ t[1] = "*" /\ t[2] = "."
    BY <1>2, StarDotIs
  <2>2. u \in Text /\ Len(u) = Len(t) - 2
    <3>1. 3 \in 1..(Len(t) + 1)
      BY <1>0, <2>1
    <3> QED BY <1>0, <3>1, FromIs DEF Text
  <2>3. ParseHostPattern(t) = {StarDot \o name : name \in ParseHostName(u)}
    BY <1>2 DEF ParseHostPattern, Star, StarDot
  <2>4. ParseHostName(u) = When(IsHostName(u), Lower(u))
    <3> HIDE DEF u
    <3> QED BY <2>2, HostNameParsed
  <2>5. StarDot \o Lower(u) = Lower(t)
    BY <2>1, LowerAfterStarDot
  <2>6. IsHost(t) <=> IsHostName(u)
    <3>1. ~IsHostName(t)
      BY <1>0, <2>1, StarIsNoName
    <3>2. IsHostName(u) => Len(t) > 2
      <4> HIDE DEF u
      <4> QED BY <1>0, <2>2, HostNameIs
    <3>3. Len(t) > 2 => Before(t, 3) = StarDot
      BY <2>1, StarDotIs
    <3>4. IsHost(t) <=> Len(t) > 2 /\ Before(t, 3) = StarDot /\ IsHostName(u)
      BY <1>2, <3>1 DEF IsHost, Star, StarDot
    <3> HIDE DEF u
    <3> QED BY <3>2, <3>3, <3>4
  <2> HIDE DEF u
  <2> QED BY <2>3, <2>4, <2>5, <2>6 DEF When
<1>3. CASE t # Star /\ ~IsPrefix(StarDot, t)
  <2>1. ParseHostPattern(t) = ParseHostName(t)
    BY <1>3 DEF ParseHostPattern, Star, StarDot
  <2>2. ~(Len(t) > 2 /\ Before(t, 3) = StarDot)
    BY <1>0, <1>3, StarDotIs
  <2>3. IsHost(t) <=> IsHostName(t)
    BY <1>3, <2>2 DEF IsHost, Star, StarDot
  <2> QED BY <2>1, <2>3, HostNameParsed DEF When
<1> QED BY <1>1, <1>2, <1>3

\* The text u is what stands in t from m on.
PartOf(u, t, m) == \A i \in 1..Len(u) : u[i] = t[m + i - 1]

LEMMA TextPart ==
    ASSUME NEW t \in Text, NEW m \in Nat, NEW n \in Nat, m >= 1, m <= n + 1, n <= Len(t),
           NEW u, u = SubSeq(t, m, n)
    PROVE  u \in Text /\ Len(u) = n - m + 1 /\ PartOf(u, t, m)
<1>1. /\ u \in Seq(Token) /\ Len(u) = IF m <= n THEN n - m + 1 ELSE 0
      /\ PartOf(u, t, m)
  BY PartIs DEF Text, PartOf
<1>2. Len(u) = n - m + 1
  BY <1>1
<1> QED BY <1>1, <1>2 DEF Text

LEMMA TextFrom ==
    ASSUME NEW t \in Text, NEW m \in Nat, m >= 1, m <= Len(t) + 1, NEW u, u = From(t, m)
    PROVE  u \in Text /\ Len(u) = Len(t) - m + 1 /\ PartOf(u, t, m)
<1> DEFINE n == Len(t)
<1>1. n \in Nat
  BY TextIs DEF Text
<1>2. u = SubSeq(t, m, n)
  BY DEF From
<1> HIDE DEF n
<1>3. m <= n + 1 /\ n <= Len(t)
  BY <1>1 DEF n
<1>4. u \in Text /\ Len(u) = n - m + 1 /\ PartOf(u, t, m)
  BY <1>1, <1>2, <1>3, TextPart
<1> QED BY <1>4 DEF n

LEMMA TextLen ==
    ASSUME NEW t \in Text
    PROVE  Len(t) \in Nat /\ (t = <<>> <=> Len(t) = 0)
  BY TextIs DEF Text

LEMMA TextDomain ==
    ASSUME NEW t \in Text
    PROVE  DOMAIN t = 1..Len(t) /\ \A i \in 1..Len(t) : t[i] \in Token
  BY TextIs DEF Text

LEMMA TextEqual ==
    ASSUME NEW t \in Text, NEW u \in Text, Len(t) = Len(u),
           \A i \in 1..Len(t) : t[i] = u[i]
    PROVE  t = u
  BY SeqEqual DEF Text

LEMMA HostIs ==
    ASSUME NEW t \in Text
    PROVE  IsHost(t) <=> \/ t = Star
                         \/ IsHostName(t)
                         \/ Len(t) > 2 /\ t[1] = "*" /\ t[2] = "." /\ IsHostName(From(t, 3))
<1>1. IsHost(t) <=> \/ t = Star
                    \/ IsHostName(t)
                    \/ Len(t) > 2 /\ Before(t, 3) = StarDot /\ IsHostName(From(t, 3))
  BY DEF IsHost, Star, StarDot
<1> QED BY <1>1, StarDotIs, ZenonT(30)

LEMMA HostBytes ==
    ASSUME NEW t \in Text, IsHost(t)
    PROVE  /\ Len(t) > 0
           /\ \A i \in 1..Len(t) : t[i] \in PolicyByte /\ t[i] \notin {":", "/", "'"}
<1>1. CASE t = Star
  <2>1. "*" \in PolicyByte
    BY PunctuationMarks, PunctuationIs
  <2> QED BY <1>1, <2>1, StarIs
<1>2. CASE IsHostName(t)
  BY <1>2, HostNameIs, HostByteIs
<1>3. CASE Len(t) > 2 /\ t[1] = "*" /\ t[2] = "." /\ IsHostName(From(t, 3))
  <2> DEFINE u == From(t, 3)
  <2>1. Len(t) \in Nat
    BY TextLen
  <2>2. u \in Text /\ Len(u) = Len(t) - 3 + 1 /\ PartOf(u, t, 3)
    <3>1. 3 \in Nat /\ 3 >= 1 /\ 3 <= Len(t) + 1
      BY <1>3, <2>1
    <3> QED BY <3>1, TextFrom
  <2>3. \A i \in 1..Len(u) : u[i] \in HostByte
    <3> HIDE DEF u
    <3> QED BY <1>3, <2>2, HostNameIs DEF u
  <2>4. ASSUME NEW i \in 1..Len(t) PROVE t[i] \in PolicyByte /\ t[i] \notin {":", "/", "'"}
    <3>1. CASE i <= 2
      <4>1. t[i] = "*" \/ t[i] = "."
        BY <1>3, <2>1, <3>1
      <4> QED BY <4>1, PunctuationMarks, PunctuationIs
    <3>2. CASE i > 2
      <4>1. i - 2 \in 1..Len(u) /\ 3 + (i - 2) - 1 = i
        BY <2>1, <2>2, <3>2
      <4>2. u[i - 2] \in HostByte /\ u[i - 2] = t[i]
        <5> HIDE DEF u
        <5> QED BY <2>2, <2>3, <4>1 DEF PartOf
      <4> QED BY <4>2, HostByteIs
    <3> QED BY <2>1, <3>1, <3>2
  <2> QED BY <1>3, <2>1, <2>4
<1> QED BY <1>1, <1>2, <1>3, HostIs

LEMMA HostLower ==
    ASSUME NEW t \in Text, IsHost(t), NEW u, u = Lower(t)
    PROVE  u \in Text /\ IsHost(u) /\ Lower(u) = u
<1>1. u \in Text /\ Len(u) = Len(t) /\ \A i \in 1..Len(t) : u[i] = Small(t[i])
  BY LowerIs
<1>2. Lower(u) = u
  BY LowerTwice
<1>3. CASE t = Star
  BY <1>1, <1>2, <1>3, StarIs, HostIs
<1>4. CASE IsHostName(t)
  BY <1>1, <1>2, <1>4, HostNameLower, HostIs
<1>5. CASE Len(t) > 2 /\ t[1] = "*" /\ t[2] = "." /\ IsHostName(From(t, 3))
  <2> DEFINE v == From(t, 3)
             w == From(u, 3)
             x == Lower(v)
  <2>1. Len(t) \in Nat /\ 3 \in Nat /\ 3 >= 1 /\ 3 <= Len(t) + 1
    BY <1>5, TextLen
  <2>2. v \in Text /\ Len(v) = Len(t) - 3 + 1 /\ PartOf(v, t, 3)
    BY <2>1, TextFrom
  <2>3. w \in Text /\ Len(w) = Len(u) - 3 + 1 /\ PartOf(w, u, 3)
    BY <1>1, <2>1, TextFrom
  <2>4. x \in Text /\ Len(x) = Len(v) /\ \A i \in 1..Len(v) : x[i] = Small(v[i])
    <3> HIDE DEF v
    <3> QED BY <2>2, LowerIs
  <2>5. IsHostName(x)
    <3> HIDE DEF v
    <3> QED BY <1>5, <2>2, HostNameLower DEF v
  <2>6. w = x
    <3>1. ASSUME NEW i \in 1..Len(w) PROVE w[i] = x[i]
      <4>1. i \in 1..Len(v) /\ 3 + i - 1 \in 1..Len(t)
        BY <1>1, <2>1, <2>2, <2>3
      <4> HIDE DEF v, w, x
      <4>2. w[i] = u[3 + i - 1] /\ v[i] = t[3 + i - 1]
        BY <2>2, <2>3, <4>1 DEF PartOf
      <4> QED BY <1>1, <2>4, <4>1, <4>2
    <3> HIDE DEF v, w, x
    <3> QED BY <1>1, <2>2, <2>3, <2>4, <3>1, TextEqual
  <2>7. u[1] = "*" /\ u[2] = "." /\ Len(u) > 2
    <3>1. 1 \in 1..Len(t) /\ 2 \in 1..Len(t)
      BY <1>5, <2>1
    <3> QED BY <1>1, <1>5, <3>1, SmallMark, PunctuationMarks
  <2> QED BY <1>1, <1>2, <2>5, <2>6, <2>7, HostIs
<1> QED BY <1>3, <1>4, <1>5, HostIs

\* A port without leading zeros.
Plain(t) == IF IsNumber(t) THEN Stripped(t) ELSE t

LEMMA NumberIs ==
    ASSUME NEW t \in Text
    PROVE  IsNumber(t) <=> Len(t) > 0 /\ \A i \in 1..Len(t) : t[i] \in DOMAIN Numeral
<1>1. In(t, DOMAIN Numeral) <=> \A i \in 1..Len(t) : t[i] \in DOMAIN Numeral
  BY InIs DEF Text
<1>2. t # <<>> <=> Len(t) > 0
  BY TextLen
<1> QED BY <1>1, <1>2, ZenonT(30) DEF IsNumber

LEMMA StarIsNoNumber == ~IsNumber(Star)
<1>1. Star \in Text /\ 1 \in 1..Len(Star) /\ Star[1] = "*"
  BY StarIs
<1>2. "*" \notin DOMAIN Numeral
  BY PunctuationMarks, PunctuationIs
<1> QED BY <1>1, <1>2, NumberIs

LEMMA PortParsed ==
    ASSUME NEW t \in Text
    PROVE  ParsePort(t) = When(IsPort(t), Plain(t))
<1>1. CASE t = Star
  BY <1>1, StarIsNoNumber DEF ParsePort, When, IsPort, Plain, Star
<1>2. CASE t # Star
  BY <1>2 DEF ParsePort, When, IsPort, Plain, Star, IsNumber
<1> QED BY <1>1, <1>2

LEMMA PortBytes ==
    ASSUME NEW t \in Text, IsPort(t)
    PROVE  /\ Len(t) > 0
           /\ \A i \in 1..Len(t) : t[i] \in PolicyByte /\ t[i] \notin {":", "/", "'"}
<1>1. CASE t = Star
  <2>1. "*" \in PolicyByte
    BY PunctuationMarks, PunctuationIs
  <2> QED BY <1>1, <2>1, StarIs
<1>2. CASE IsNumber(t)
  BY <1>2, NumberIs, NumeralByteIs
<1> QED BY <1>1, <1>2 DEF IsPort, Star

LEMMA StrippedIs ==
    ASSUME NEW t \in Text, IsNumber(t), NEW u, u = Stripped(t)
    PROVE  u \in Text /\ IsNumber(u) /\ Stripped(u) = u
<1> DEFINE S == {Len(t)} \cup {i \in DOMAIN t : Numeral[t[i]] # 0}
           m == Min(S)
<1>0. Len(t) \in Nat /\ Len(t) > 0 /\ DOMAIN t = 1..Len(t)
  BY TextLen, TextDomain, NumberIs
<1>1. m \in S /\ \A k \in S : m <= k
  <2>1. S \in SUBSET Nat /\ S # {}
    BY <1>0
  <2> HIDE DEF S
  <2> QED BY <2>1, LeastIs
<1>2. m \in 1..Len(t) /\ (m = Len(t) \/ Numeral[t[m]] # 0)
  <2> HIDE DEF m
  <2> QED BY <1>0, <1>1
<1>3. u = From(t, m)
  BY DEF Stripped
<1> HIDE DEF S, m
<1>4. u \in Text /\ Len(u) = Len(t) - m + 1 /\ PartOf(u, t, m)
  <2>1. m \in Nat /\ m >= 1 /\ m <= Len(t) + 1
    BY <1>0, <1>2
  <2> QED BY <1>3, <2>1, TextFrom
<1>10. /\ m \in Nat /\ m >= 1 /\ m <= Len(t) /\ Len(t) \in Nat
       /\ Len(u) = Len(t) - m + 1
  <2>1. Len(t) \in Nat
    BY TextLen
  <2>2. m \in 1..Len(t)
    BY <1>2
  <2>3. m \in Nat /\ m >= 1 /\ m <= Len(t)
    BY <2>1, <2>2
  <2> QED BY <1>4, <2>1, <2>3
<1>5. IsNumber(u)
  <2>1. ASSUME NEW i \in 1..Len(u) PROVE u[i] \in DOMAIN Numeral
    <3>1. m + i - 1 \in 1..Len(t)
      BY <1>10
    <3>2. u[i] = t[m + i - 1]
      BY <1>4 DEF PartOf
    <3> QED BY <3>1, <3>2, NumberIs
  <2>2. Len(u) > 0
    BY <1>10
  <2> QED BY <1>4, <2>1, <2>2, NumberIs
<1> DEFINE R == {Len(u)} \cup {i \in DOMAIN u : Numeral[u[i]] # 0}
<1>6. Len(u) \in Nat /\ Len(u) > 0 /\ DOMAIN u = 1..Len(u)
  BY <1>4, <1>5, TextLen, TextDomain, NumberIs
<1>7. 1 \in R
  <2>1. CASE m = Len(t)
    <3>1. Len(u) = 1
      BY <1>0, <1>4, <2>1
    <3> QED BY <3>1
  <2>2. CASE Numeral[t[m]] # 0
    <3>1. 1 \in 1..Len(u) /\ m + 1 - 1 = m
      BY <1>2, <1>6
    <3>2. u[1] = t[m]
      BY <1>4, <3>1 DEF PartOf
    <3> QED BY <1>6, <2>2, <3>1, <3>2
  <2> QED BY <1>2, <2>1, <2>2
<1>8. Min(R) = 1
  <2>1. R \in SUBSET Nat /\ \A k \in R : 1 <= k
    BY <1>6
  <2> HIDE DEF R
  <2>2. Min(R) \in R /\ Min(R) <= 1 /\ Min(R) \in Nat
    BY <1>7, <2>1, LeastIs
  <2>3. 1 <= Min(R)
    BY <2>1, <2>2
  <2> QED BY <2>2, <2>3
<1>9. Stripped(u) = From(u, 1)
  BY <1>8 DEF Stripped
<1> QED BY <1>4, <1>5, <1>9, WholePart DEF Text

LEMMA PortPlain ==
    ASSUME NEW t \in Text, IsPort(t), NEW u, u = Plain(t)
    PROVE  u \in Text /\ IsPort(u) /\ Plain(u) = u
<1>1. CASE IsNumber(t)
  <2>1. u = Stripped(t)
    BY <1>1 DEF Plain
  <2>2. u \in Text /\ IsNumber(u) /\ Stripped(u) = u
    BY <1>1, <2>1, StrippedIs
  <2>3. FitsIn16Bits(t)
    BY <1>1, StarIsNoNumber DEF IsPort, Star
  <2>4. FitsIn16Bits(u)
    BY <2>1, <2>2, <2>3 DEF FitsIn16Bits
  <2> QED BY <2>2, <2>4 DEF IsPort, Plain
<1>2. CASE ~IsNumber(t)
  BY <1>2 DEF Plain
<1> QED BY <1>1, <1>2

LEMMA PathIs ==
    ASSUME NEW t \in Text
    PROVE  IsPath(t) <=>
              Len(t) > 0 /\ t[1] = "/" /\ \A i \in 1..Len(t) : t[i] \in PolicyByte \ {"?", "#"}
<1>1. In(t, PolicyByte \ {"?", "#"}) <=> \A i \in 1..Len(t) : t[i] \in PolicyByte \ {"?", "#"}
  BY InIs DEF Text
<1>2. (t # <<>> <=> Len(t) > 0) /\ (t # <<>> => Head(t) = t[1])
  BY TextLen DEF Text
<1> QED BY <1>1, <1>2, ZenonT(30) DEF IsPath

LEMMA PathParsed ==
    ASSUME NEW t \in Text, t # <<>>
    PROVE  ParsePath(t) = When(IsPath(t), t)
  BY DEF ParsePath, IsPath, When

-----------------------------------------------------------------------------
(***************************************************************************)
(* The cut of a host source: the scheme ends before c1, the host at c2 and *)
(* the port at c3, each where the part before ends when there is none.     *)
(* There is one cut that fits the text, and the parser takes it.           *)
(***************************************************************************)
Mark(t, i) == i + 2 <= Len(t) /\ t[i] = ":" /\ t[i + 1] = "/" /\ t[i + 2] = "/"

NoMark(t) == \A i \in 1..Len(t) : ~Mark(t, i)

FirstMark(t, p) == p \in 1..Len(t) /\ Mark(t, p) /\ \A i \in 1..Len(t) : Mark(t, i) => p <= i

Lacks(t, x, m, n) == \A i \in m..n : t[i] # x

SchemeEnds(t, c1) ==
    \/ c1 = 0 /\ NoMark(t)
    \/ c1 >= 3 /\ FirstMark(t, c1 - 2)

PathBegins(t, c1, c3) ==
    Lacks(t, "/", c1 + 1, c3) /\ (c3 # Len(t) => t[c3 + 1] = "/")

PortBegins(t, c1, c2, c3) ==
    \/ c2 = c3 /\ Lacks(t, ":", c1 + 1, c3)
    \/ c2 < c3 /\ t[c2 + 1] = ":" /\ Lacks(t, ":", c2 + 2, c3)

AreCuts(t, c1, c2, c3) ==
    /\ c1 \in Nat /\ c2 \in Nat /\ c3 \in Nat
    /\ c1 <= c2 /\ c2 <= c3 /\ c3 <= Len(t)

IsCut(t, c1, c2, c3) ==
    /\ AreCuts(t, c1, c2, c3)
    /\ SchemeEnds(t, c1)
    /\ PathBegins(t, c1, c3)
    /\ PortBegins(t, c1, c2, c3)

LEMMA OneSchemeEnd ==
    ASSUME NEW t \in Text, NEW b \in Nat, NEW c \in Nat, SchemeEnds(t, b), SchemeEnds(t, c)
    PROVE  b = c
<1>1. ASSUME c >= 3, FirstMark(t, c - 2), NoMark(t) PROVE FALSE
  BY <1>1 DEF FirstMark, NoMark
<1>2. ASSUME b >= 3, FirstMark(t, b - 2), NoMark(t) PROVE FALSE
  BY <1>2 DEF FirstMark, NoMark
<1>3. ASSUME b >= 3, FirstMark(t, b - 2), c >= 3, FirstMark(t, c - 2) PROVE b = c
  <2>1. b - 2 <= c - 2 /\ c - 2 <= b - 2
    BY <1>3 DEF FirstMark
  <2> QED BY <2>1
<1> QED BY <1>1, <1>2, <1>3 DEF SchemeEnds

LEMMA OnePathStart ==
    ASSUME NEW t \in Text, NEW a \in Nat, NEW b \in Nat, NEW c \in Nat,
           a <= b, a <= c, b <= Len(t), c <= Len(t),
           PathBegins(t, a, b), PathBegins(t, a, c)
    PROVE  b = c
<1>0. Len(t) \in Nat
  BY TextLen
<1>1. ASSUME b < c PROVE FALSE
  <2>1. b # Len(t) /\ b + 1 \in (a + 1)..c
    BY <1>0, <1>1
  <2> QED BY <2>1 DEF PathBegins, Lacks
<1>2. ASSUME c < b PROVE FALSE
  <2>1. c # Len(t) /\ c + 1 \in (a + 1)..b
    BY <1>0, <1>2
  <2> QED BY <2>1 DEF PathBegins, Lacks
<1> QED BY <1>1, <1>2

LEMMA OnePortStart ==
    ASSUME NEW t \in Text, NEW a \in Nat, NEW b \in Nat, NEW c \in Nat, NEW d \in Nat,
           a <= b, a <= c, b <= d, c <= d,
           PortBegins(t, a, b, d), PortBegins(t, a, c, d)
    PROVE  b = c
<1>1. ASSUME b < c PROVE FALSE
  <2>1. b < d
    BY <1>1
  <2>2. t[b + 1] = ":" /\ Lacks(t, ":", b + 2, d)
    BY <2>1 DEF PortBegins
  <2>3. CASE c = d
    <3>1. Lacks(t, ":", a + 1, d) /\ b + 1 \in (a + 1)..d
      BY <2>1, <2>3 DEF PortBegins
    <3> QED BY <2>2, <3>1 DEF Lacks
  <2>4. CASE c < d
    <3>1. t[c + 1] = ":" /\ c + 1 \in (b + 2)..d
      BY <1>1, <2>4 DEF PortBegins
    <3> QED BY <2>2, <3>1 DEF Lacks
  <2> QED BY <2>3, <2>4
<1>2. ASSUME c < b PROVE FALSE
  <2>1. c < d
    BY <1>2
  <2>2. t[c + 1] = ":" /\ Lacks(t, ":", c + 2, d)
    BY <2>1 DEF PortBegins
  <2>3. CASE b = d
    <3>1. Lacks(t, ":", a + 1, d) /\ c + 1 \in (a + 1)..d
      BY <2>1, <2>3 DEF PortBegins
    <3> QED BY <2>2, <3>1 DEF Lacks
  <2>4. CASE b < d
    <3>1. t[b + 1] = ":" /\ b + 1 \in (c + 2)..d
      BY <1>2, <2>4 DEF PortBegins
    <3> QED BY <2>2, <3>1 DEF Lacks
  <2> QED BY <2>3, <2>4
<1> QED BY <1>1, <1>2

LEMMA OneCut ==
    ASSUME NEW t \in Text, NEW a1, NEW a2, NEW a3, NEW b1, NEW b2, NEW b3,
           IsCut(t, a1, a2, a3), IsCut(t, b1, b2, b3)
    PROVE  a1 = b1 /\ a2 = b2 /\ a3 = b3
<1>0. AreCuts(t, a1, a2, a3) /\ AreCuts(t, b1, b2, b3)
  BY DEF IsCut
<1>1. a1 = b1
  BY <1>0, OneSchemeEnd DEF IsCut, AreCuts
<1>2. a3 = b3
  <2>1. a1 <= a3 /\ a1 <= b3
    BY <1>0, <1>1 DEF AreCuts
  <2>2. PathBegins(t, a1, a3) /\ PathBegins(t, a1, b3)
    BY <1>1 DEF IsCut
  <2> QED BY <1>0, <2>1, <2>2, OnePathStart DEF AreCuts
<1>3. a2 = b2
  <2>1. PortBegins(t, a1, a2, a3) /\ PortBegins(t, a1, b2, a3)
    BY <1>1, <1>2 DEF IsCut
  <2>2. a1 <= b2 /\ b2 <= a3
    BY <1>0, <1>1, <1>2 DEF AreCuts
  <2> QED BY <1>0, <2>1, <2>2, OnePortStart DEF AreCuts
<1> QED BY <1>1, <1>2, <1>3

\* What the parser looks for.
Slashes == <<":", "/", "/">>

Slash == <<"/">>

Colon == <<":">>

LEMMA MarksAreTokens == ":" \in Token /\ "/" \in Token /\ "." \in Token
  BY PunctuationMarks, PunctuationIs

LEMMA SlashesAt ==
    ASSUME NEW t \in Text
    PROVE  \A i : i \in Places(t, Slashes) <=> i \in 1..Len(t) /\ Mark(t, i)
<1>1. Places(t, Slashes) =
        {i \in 1..Len(t) : i + 2 <= Len(t) /\ t[i] = ":" /\ t[i + 1] = "/" /\ t[i + 2] = "/"}
  BY MarksAreTokens, PlacesOfThree DEF Text, Slashes
<1> QED BY <1>1 DEF Mark

LEMMA MarkAt ==
    ASSUME NEW t \in Text, NEW x \in Token
    PROVE  \A i : i \in Places(t, <<x>>) <=> i \in 1..Len(t) /\ t[i] = x
  BY PlacesOfOne DEF Text

LEMMA SchemeCut ==
    ASSUME NEW t \in Text, NEW p, p = FirstPlace(t, Slashes)
    PROVE  \/ p = 0 /\ SchemeEnds(t, 0)
           \/ /\ p \in Nat /\ p >= 1 /\ p + 2 <= Len(t) /\ SchemeEnds(t, p + 2)
<1>1. CASE p = 0 /\ Places(t, Slashes) = {}
  BY <1>1, SlashesAt DEF SchemeEnds, NoMark
<1>2. CASE p \in Places(t, Slashes) /\ \A k \in Places(t, Slashes) : p <= k
  <2>1. p \in 1..Len(t) /\ Mark(t, p) /\ \A i \in 1..Len(t) : Mark(t, i) => p <= i
    BY <1>2, SlashesAt
  <2>2. p \in Nat /\ p >= 1 /\ p + 2 <= Len(t)
    BY <2>1, TextLen DEF Mark
  <2>3. (p + 2) - 2 = p /\ p + 2 >= 3
    BY <2>2
  <2> QED BY <2>1, <2>2, <2>3 DEF SchemeEnds, FirstMark
<1> QED BY <1>1, <1>2, FirstPlaceIs DEF Text

LEMMA PathCut ==
    ASSUME NEW t \in Text, NEW c1 \in Nat, c1 <= Len(t), NEW rest, rest = From(t, c1 + 1),
           NEW q, q = FirstPlace(rest, Slash)
    PROVE  /\ rest \in Text /\ Len(rest) = Len(t) - c1
           /\ \/ q = 0 /\ PathBegins(t, c1, Len(t))
              \/ /\ q \in Nat /\ q >= 1 /\ q <= Len(rest) /\ PathBegins(t, c1, c1 + q - 1)
<1>0. Len(t) \in Nat
  BY TextLen
<1>1. rest \in Text /\ Len(rest) = Len(t) - c1 /\ PartOf(rest, t, c1 + 1)
  <2>1. c1 + 1 \in Nat /\ c1 + 1 >= 1 /\ c1 + 1 <= Len(t) + 1
    BY <1>0
  <2>2. rest \in Text /\ Len(rest) = Len(t) - (c1 + 1) + 1 /\ PartOf(rest, t, c1 + 1)
    BY <2>1, TextFrom
  <2> QED BY <1>0, <2>2
<1>2. \A i : i \in Places(rest, Slash) <=> i \in 1..Len(rest) /\ rest[i] = "/"
  BY <1>1, MarksAreTokens, MarkAt DEF Slash
<1>3. ASSUME NEW i \in 1..Len(rest) PROVE rest[i] = t[c1 + i]
  <2>1. rest[i] = t[c1 + 1 + i - 1] /\ c1 + 1 + i - 1 = c1 + i
    BY <1>1 DEF PartOf
  <2> QED BY <2>1
<1>4. CASE q = 0 /\ Places(rest, Slash) = {}
  <2>1. ASSUME NEW i \in (c1 + 1)..Len(t) PROVE t[i] # "/"
    <3>1. i - c1 \in 1..Len(rest) /\ c1 + (i - c1) = i
      BY <1>0, <1>1
    <3> QED BY <1>2, <1>3, <1>4, <3>1
  <2> QED BY <1>1, <1>4, <2>1 DEF PathBegins, Lacks
<1>5. CASE q \in Places(rest, Slash) /\ \A k \in Places(rest, Slash) : q <= k
  <2>1. q \in 1..Len(rest) /\ rest[q] = "/"
    BY <1>2, <1>5
  <2>2. q \in Nat /\ q >= 1 /\ q <= Len(rest) /\ Len(rest) \in Nat
    BY <1>1, <2>1, TextLen
  <2>3. ASSUME NEW i \in (c1 + 1)..(c1 + q - 1) PROVE t[i] # "/"
    <3>1. i - c1 \in 1..Len(rest) /\ c1 + (i - c1) = i /\ i - c1 < q
      BY <1>0, <2>2
    <3>2. i - c1 \notin Places(rest, Slash)
      BY <1>5, <2>2, <3>1
    <3> QED BY <1>2, <1>3, <3>1, <3>2
  <2>4. t[(c1 + q - 1) + 1] = "/"
    <3>1. (c1 + q - 1) + 1 = c1 + q
      BY <2>2
    <3> QED BY <1>3, <2>1, <3>1
  <2> QED BY <1>1, <2>2, <2>3, <2>4 DEF PathBegins, Lacks
<1> QED
  <2>1. \/ q = 0 /\ Places(rest, Slash) = {}
        \/ q \in Places(rest, Slash) /\ \A k \in Places(rest, Slash) : q <= k
    BY <1>1, FirstPlaceIs DEF Text
  <2> QED BY <1>4, <1>5, <2>1

LEMMA PortCut ==
    ASSUME NEW t \in Text, NEW c1 \in Nat, NEW c3 \in Nat, c1 <= c3, c3 <= Len(t),
           NEW authority, authority = SubSeq(t, c1 + 1, c3),
           NEW r, r = LastPlace(authority, Colon)
    PROVE  /\ authority \in Text /\ Len(authority) = c3 - c1
           /\ \/ r = 0 /\ PortBegins(t, c1, c3, c3)
              \/ /\ r \in Nat /\ r >= 1 /\ r <= Len(authority)
                 /\ PortBegins(t, c1, c1 + r - 1, c3)
<1>0. Len(t) \in Nat
  BY TextLen
<1>1. authority \in Text /\ Len(authority) = c3 - c1 /\ PartOf(authority, t, c1 + 1)
  <2>1. c1 + 1 \in Nat /\ c1 + 1 >= 1 /\ c1 + 1 <= c3 + 1
    BY <1>0
  <2>2. /\ authority \in Text /\ Len(authority) = c3 - (c1 + 1) + 1
        /\ PartOf(authority, t, c1 + 1)
    BY <2>1, TextPart
  <2> QED BY <1>0, <2>2
<1>2. \A i : i \in Places(authority, Colon) <=> i \in 1..Len(authority) /\ authority[i] = ":"
  BY <1>1, MarksAreTokens, MarkAt DEF Colon
<1>3. ASSUME NEW i \in 1..Len(authority) PROVE authority[i] = t[c1 + i]
  <2>1. authority[i] = t[c1 + 1 + i - 1] /\ c1 + 1 + i - 1 = c1 + i
    BY <1>1 DEF PartOf
  <2> QED BY <2>1
<1>4. CASE r = 0 /\ Places(authority, Colon) = {}
  <2>1. ASSUME NEW i \in (c1 + 1)..c3 PROVE t[i] # ":"
    <3>1. i - c1 \in 1..Len(authority) /\ c1 + (i - c1) = i
      BY <1>0, <1>1
    <3> QED BY <1>2, <1>3, <1>4, <3>1
  <2> QED BY <1>1, <1>4, <2>1 DEF PortBegins, Lacks
<1>5. CASE r \in Places(authority, Colon) /\ \A k \in Places(authority, Colon) : k <= r
  <2>1. r \in 1..Len(authority) /\ authority[r] = ":"
    BY <1>2, <1>5
  <2>2. r \in Nat /\ r >= 1 /\ r <= Len(authority) /\ Len(authority) \in Nat
    BY <1>1, <2>1, TextLen
  <2>3. ASSUME NEW i \in ((c1 + r - 1) + 2)..c3 PROVE t[i] # ":"
    <3>1. i - c1 \in 1..Len(authority) /\ c1 + (i - c1) = i /\ i - c1 > r
      BY <1>0, <1>1, <2>2
    <3>2. i - c1 \notin Places(authority, Colon)
      BY <1>5, <2>2, <3>1
    <3> QED BY <1>2, <1>3, <3>1, <3>2
  <2>4. t[(c1 + r - 1) + 1] = ":"
    <3>1. (c1 + r - 1) + 1 = c1 + r
      BY <2>2
    <3> QED BY <1>3, <2>1, <3>1
  <2>5. c1 + r - 1 < c3
    BY <1>1, <2>2
  <2> QED BY <1>1, <2>2, <2>3, <2>4, <2>5 DEF PortBegins, Lacks
<1> QED
  <2>1. \/ r = 0 /\ Places(authority, Colon) = {}
        \/ r \in Places(authority, Colon) /\ \A k \in Places(authority, Colon) : k <= r
    BY <1>1, LastPlaceIs DEF Text
  <2> QED BY <1>4, <1>5, <2>1

\* The host source the parser makes of a cut.
SchemeOf(t, c1) == IF c1 = 0 THEN Absent ELSE ParseScheme(Before(t, c1 - 2))

HostOf(t, c1, c2) == ParseHostPattern(SubSeq(t, c1 + 1, c2))

PortOf(t, c2, c3) == IF c2 = c3 THEN Absent ELSE ParsePort(SubSeq(t, c2 + 2, c3))

PathOf(t, c3) == IF c3 = Len(t) THEN Absent ELSE ParsePath(From(t, c3 + 1))

Assembled(t, c1, c2, c3) ==
    HostSource(SchemeOf(t, c1), HostOf(t, c1, c2), PortOf(t, c2, c3), PathOf(t, c3))

LEMMA WithinPart ==
    ASSUME NEW t \in Text, NEW c \in Nat, NEW d \in Nat, c <= d, d <= Len(t),
           NEW i \in Nat, i >= 1, NEW j \in Nat, i <= j + 1, j <= d - c
    PROVE  SubSeq(SubSeq(t, c + 1, d), i, j) = SubSeq(t, c + i, c + j)
<1>1. SubSeq(SubSeq(t, c + 1, d), i, j) = SubSeq(t, (c + 1) + i - 1, (c + 1) + j - 1)
  <2>1. /\ c + 1 \in Nat /\ c + 1 >= 1 /\ c + 1 <= d + 1 /\ j <= d - (c + 1) + 1
    OBVIOUS
  <2> QED BY <2>1, PartOfPart DEF Text
<1>2. (c + 1) + i - 1 = c + i /\ (c + 1) + j - 1 = c + j
  OBVIOUS
<1> QED BY <1>1, <1>2

LEMMA RestOfPart ==
    ASSUME NEW t \in Text, NEW c \in Nat, NEW d \in Nat, c <= d, d <= Len(t),
           NEW i \in Nat, i >= 1, i <= d - c + 1
    PROVE  SubSeq(SubSeq(t, c + 1, d), i, d - c) = SubSeq(t, c + i, d)
<1>1. PICK j \in Nat : j = d - c /\ i <= j + 1 /\ j <= d - c /\ c + j = d
  <2>1. d - c \in Nat /\ i <= (d - c) + 1 /\ c + (d - c) = d
    OBVIOUS
  <2> QED BY <2>1
<1>2. SubSeq(SubSeq(t, c + 1, d), i, j) = SubSeq(t, c + i, c + j)
  BY <1>1, WithinPart
<1> QED BY <1>1, <1>2

LEMMA FromOfFrom ==
    ASSUME NEW t \in Text, NEW c \in Nat, c <= Len(t), NEW i \in Nat, i >= 1, i <= Len(t) - c
    PROVE  /\ From(From(t, c + 1), i) = From(t, c + i)
           /\ Before(From(t, c + 1), i) = SubSeq(t, c + 1, c + i - 1)
           /\ Len(From(t, c + 1)) = Len(t) - c
<1> DEFINE n == Len(t)
           u == From(t, c + 1)
<1>0. n \in Nat /\ c <= n /\ i <= n - c
  BY TextLen
<1>1. u = SubSeq(t, c + 1, n)
  BY DEF From
<1>2. Len(u) = n - c
  <2>1. c + 1 \in Nat /\ c + 1 >= 1 /\ c + 1 <= n + 1
    BY <1>0
  <2>2. Len(u) = n - (c + 1) + 1
    BY <2>1, TextFrom
  <2> HIDE DEF u, n
  <2> QED BY <1>0, <2>2
<1> HIDE DEF n, u
<1>3. n <= Len(t)
  BY <1>0 DEF n
<1>4. SubSeq(u, i, Len(u)) = SubSeq(t, c + i, n)
  <2>1. n - c \in Nat /\ i <= (n - c) + 1 /\ c + (n - c) = n /\ n - c <= n - c
    BY <1>0
  <2>2. SubSeq(SubSeq(t, c + 1, n), i, n - c) = SubSeq(t, c + i, c + (n - c))
    BY <1>0, <1>3, <2>1, WithinPart
  <2> QED BY <1>1, <1>2, <2>1, <2>2
<1>5. SubSeq(u, 1, i - 1) = SubSeq(t, c + 1, c + i - 1)
  <2>1. /\ 1 \in Nat /\ 1 >= 1 /\ i - 1 \in Nat /\ 1 <= (i - 1) + 1 /\ i - 1 <= n - c
        /\ c + (i - 1) = c + i - 1
    BY <1>0
  <2>2. SubSeq(SubSeq(t, c + 1, n), 1, i - 1) = SubSeq(t, c + 1, c + (i - 1))
    BY <1>0, <1>3, <2>1, WithinPart
  <2> QED BY <1>1, <2>1, <2>2
<1> QED BY <1>2, <1>4, <1>5 DEF From, Before, n, u

LEMMA ParserCut ==
    ASSUME NEW t \in Text
    PROVE  \E c1, c2, c3 : /\ IsCut(t, c1, c2, c3)
                           /\ ParseHostSource(t) = Assembled(t, c1, c2, c3)
<1> DEFINE p == FirstPlace(t, Slashes)
           rest == IF p = 0 THEN t ELSE From(t, p + 3)
           q == FirstPlace(rest, Slash)
           authority == IF q = 0 THEN rest ELSE Before(rest, q)
           r == LastPlace(authority, Colon)
           c1 == IF p = 0 THEN 0 ELSE p + 2
           c3 == IF q = 0 THEN Len(t) ELSE c1 + q - 1
           c2 == IF r = 0 THEN c3 ELSE c1 + r - 1
           scheme == IF p = 0 THEN Absent ELSE ParseScheme(Before(t, p))
           host == ParseHostPattern(IF r = 0 THEN authority ELSE Before(authority, r))
           port == IF r = 0 THEN Absent ELSE ParsePort(From(authority, r + 1))
           path == IF q = 0 THEN Absent ELSE ParsePath(From(rest, q))
<1>1. ParseHostSource(t) = HostSource(scheme, host, port, path)
  BY DEF ParseHostSource, Slashes, Slash, Colon
<1>0. Len(t) \in Nat
  BY TextLen
<1>2. /\ c1 \in Nat /\ c1 <= Len(t) /\ SchemeEnds(t, c1)
      /\ rest = From(t, c1 + 1)
      /\ scheme = SchemeOf(t, c1)
  <2>1. CASE p = 0 /\ SchemeEnds(t, 0)
    <3>1. c1 = 0 /\ rest = t /\ scheme = Absent
      BY <2>1
    <3>2. From(t, 0 + 1) = t
      BY WholePart DEF Text
    <3> HIDE DEF c1, rest, scheme, p
    <3> QED BY <1>0, <2>1, <3>1, <3>2 DEF SchemeOf
  <2>2. CASE p \in Nat /\ p >= 1 /\ p + 2 <= Len(t) /\ SchemeEnds(t, p + 2)
    <3>1. p # 0
      <4> HIDE DEF p
      <4> QED BY <2>2
    <3>2. c1 = p + 2 /\ rest = From(t, p + 3) /\ scheme = ParseScheme(Before(t, p))
      BY <3>1
    <3>3. p + 3 = (p + 2) + 1 /\ (p + 2) - 2 = p /\ p + 2 # 0 /\ p + 2 \in Nat
      <4> HIDE DEF p
      <4> QED BY <2>2
    <3> HIDE DEF c1, rest, scheme, p
    <3> QED BY <2>2, <3>2, <3>3 DEF SchemeOf
  <2> QED
    <3>1. \/ p = 0 /\ SchemeEnds(t, 0)
          \/ p \in Nat /\ p >= 1 /\ p + 2 <= Len(t) /\ SchemeEnds(t, p + 2)
      BY SchemeCut
    <3> HIDE DEF c1, rest, scheme, p
    <3> QED BY <2>1, <2>2, <3>1
<1> HIDE DEF p, rest, c1, scheme
<1>3. /\ rest \in Text /\ Len(rest) = Len(t) - c1
      /\ \/ q = 0 /\ PathBegins(t, c1, Len(t))
         \/ q \in Nat /\ q >= 1 /\ q <= Len(rest) /\ PathBegins(t, c1, c1 + q - 1)
  BY <1>2, PathCut
<1>4. /\ c3 \in Nat /\ c1 <= c3 /\ c3 <= Len(t) /\ PathBegins(t, c1, c3)
      /\ authority = SubSeq(t, c1 + 1, c3)
      /\ path = PathOf(t, c3)
  <2>1. CASE q = 0 /\ PathBegins(t, c1, Len(t))
    <3>1. c3 = Len(t) /\ authority = rest /\ path = Absent
      BY <2>1
    <3>2. rest = SubSeq(t, c1 + 1, Len(t))
      BY <1>2 DEF From
    <3> HIDE DEF c3, authority, path, q
    <3> QED BY <1>0, <1>2, <2>1, <3>1, <3>2 DEF PathOf
  <2>2. CASE q \in Nat /\ q >= 1 /\ q <= Len(rest) /\ PathBegins(t, c1, c1 + q - 1)
    <3>1. q # 0
      <4> HIDE DEF q
      <4> QED BY <2>2
    <3>2. c3 = c1 + q - 1 /\ authority = Before(rest, q) /\ path = ParsePath(From(rest, q))
      BY <3>1
    <3> HIDE DEF c3, authority, path, q
    <3>3. q <= Len(t) - c1
      BY <1>3, <2>2
    <3>4. /\ From(rest, q) = From(t, c1 + q)
          /\ Before(rest, q) = SubSeq(t, c1 + 1, c1 + q - 1)
      BY <1>2, <2>2, <3>3, FromOfFrom
    <3>5. c3 + 1 = c1 + q /\ c3 # Len(t) /\ c3 \in Nat /\ c1 <= c3 /\ c3 <= Len(t)
      BY <1>0, <1>2, <2>2, <3>2, <3>3
    <3> QED BY <2>2, <3>2, <3>4, <3>5 DEF PathOf
  <2> QED
    <3> HIDE DEF c3, authority, path, q
    <3> QED BY <1>3, <2>1, <2>2
<1> HIDE DEF q, authority, c3, path
<1>5. /\ authority \in Text /\ Len(authority) = c3 - c1
      /\ \/ r = 0 /\ PortBegins(t, c1, c3, c3)
         \/ r \in Nat /\ r >= 1 /\ r <= Len(authority) /\ PortBegins(t, c1, c1 + r - 1, c3)
  BY <1>2, <1>4, PortCut
<1>6. /\ c2 \in Nat /\ c1 <= c2 /\ c2 <= c3 /\ PortBegins(t, c1, c2, c3)
      /\ host = HostOf(t, c1, c2) /\ port = PortOf(t, c2, c3)
  <2>1. CASE r = 0 /\ PortBegins(t, c1, c3, c3)
    <3>1. c2 = c3 /\ host = ParseHostPattern(authority) /\ port = Absent
      BY <2>1
    <3> HIDE DEF c2, host, port, r
    <3> QED BY <1>4, <2>1, <3>1 DEF HostOf, PortOf
  <2>2. CASE r \in Nat /\ r >= 1 /\ r <= Len(authority) /\ PortBegins(t, c1, c1 + r - 1, c3)
    <3>1. r # 0
      <4> HIDE DEF r
      <4> QED BY <2>2
    <3>2. /\ c2 = c1 + r - 1
          /\ host = ParseHostPattern(Before(authority, r))
          /\ port = ParsePort(From(authority, r + 1))
      BY <3>1
    <3> HIDE DEF c2, host, port, r
    <3>3. r <= c3 - c1
      BY <1>5, <2>2
    <3>4. c2 \in Nat /\ c1 <= c2 /\ c2 < c3
      BY <1>2, <1>4, <2>2, <3>2, <3>3
    <3>8. c1 \in Nat /\ c3 \in Nat /\ c1 <= c3 /\ c3 <= Len(t)
      BY <1>2, <1>4
    <3>5. Before(authority, r) = SubSeq(t, c1 + 1, c2)
      <4>1. 1 \in Nat /\ 1 >= 1 /\ r - 1 \in Nat /\ 1 <= (r - 1) + 1 /\ r - 1 <= c3 - c1
        BY <1>2, <1>4, <2>2, <3>3
      <4>2. SubSeq(SubSeq(t, c1 + 1, c3), 1, r - 1) = SubSeq(t, c1 + 1, c1 + (r - 1))
        BY <3>8, <4>1, WithinPart
      <4>3. c1 + (r - 1) = c2
        BY <1>2, <2>2, <3>2
      <4> QED BY <1>4, <4>2, <4>3 DEF Before
    <3>6. From(authority, r + 1) = SubSeq(t, c2 + 2, c3)
      <4>1. PICK i \in Nat : i = r + 1
        BY <2>2
      <4>2. i >= 1 /\ i <= c3 - c1 + 1
        BY <2>2, <3>3, <3>8, <4>1
      <4>3. SubSeq(SubSeq(t, c1 + 1, c3), i, c3 - c1) = SubSeq(t, c1 + i, c3)
        BY <3>8, <4>2, RestOfPart
      <4>4. c1 + i = c2 + 2
        BY <1>2, <1>4, <2>2, <3>2, <4>1
      <4> QED BY <1>4, <1>5, <4>1, <4>3, <4>4 DEF From
    <3>7. c2 # c3 /\ c2 <= c3
      BY <1>4, <3>4
    <3> QED BY <2>2, <3>2, <3>4, <3>5, <3>6, <3>7 DEF HostOf, PortOf
  <2> QED
    <3> HIDE DEF c2, host, port, r
    <3> QED BY <1>5, <2>1, <2>2
<1> HIDE DEF r, c2, host, port
<1>7. IsCut(t, c1, c2, c3)
  BY <1>2, <1>4, <1>6 DEF IsCut, AreCuts
<1>8. ParseHostSource(t) = Assembled(t, c1, c2, c3)
  BY <1>1, <1>2, <1>4, <1>6 DEF Assembled
<1> QED BY <1>7, <1>8

\* Whatever cut fits the text is the one the parser takes.
LEMMA ParsedByCut ==
    ASSUME NEW t \in Text, NEW c1, NEW c2, NEW c3, IsCut(t, c1, c2, c3)
    PROVE  ParseHostSource(t) = Assembled(t, c1, c2, c3)
<1>1. PICK a1, a2, a3 : IsCut(t, a1, a2, a3) /\ ParseHostSource(t) = Assembled(t, a1, a2, a3)
  BY ParserCut
<1>2. a1 = c1 /\ a2 = c2 /\ a3 = c3
  BY <1>1, OneCut
<1> QED BY <1>1, <1>2

-----------------------------------------------------------------------------
(***************************************************************************)
(* Host sources: what the parser makes of any text, and that it reads back *)
(* what the renderer writes.                                               *)
(***************************************************************************)
HostTerm == [kind : {"Host"}, scheme : Text, host : Text, port : Text, path : Text]

GoodHost(e) ==
    /\ e \in HostTerm
    /\ e.scheme = <<>> \/ (IsScheme(e.scheme) /\ Lower(e.scheme) = e.scheme)
    /\ IsHost(e.host) /\ Lower(e.host) = e.host
    /\ e.port = <<>> \/ (IsPort(e.port) /\ Plain(e.port) = e.port)
    /\ e.path = <<>> \/ IsPath(e.path)
    /\ e.scheme = <<>> => NoMark(e.path)

LEMMA EmptyText == <<>> \in Text /\ Len(<<>>) = 0
  BY DEF Text

LEMMA AnySchemeParsed ==
    ASSUME NEW t \in Text, NEW x \in ParseScheme(t)
    PROVE  x \in Text /\ IsScheme(x) /\ Lower(x) = x
<1> DEFINE name == WithoutSuffix(t, ":")
<1>1. name \in Text
  <2>1. CASE t # <<>> /\ Last(t) = ":"
    <3>1. Len(t) > 0
      BY <2>1, TextLen
    <3>2. name = Front(t)
      BY <2>1 DEF WithoutSuffix
    <3> HIDE DEF name
    <3> QED BY <3>1, <3>2, FrontIs
  <2>2. CASE ~(t # <<>> /\ Last(t) = ":")
    BY <2>2 DEF WithoutSuffix
  <2> QED BY <2>1, <2>2
<1>2. IsScheme(name) /\ x = Lower(name)
  BY DEF ParseScheme, When, IsScheme, SchemeByte
<1> HIDE DEF name
<1> QED BY <1>1, <1>2, SchemeLower

LEMMA HostPartsGood ==
    ASSUME NEW t \in Text, NEW c1, NEW c2, NEW c3, IsCut(t, c1, c2, c3)
    PROVE  /\ \A x \in SchemeOf(t, c1) :
                 x \in Text /\ (x = <<>> \/ (IsScheme(x) /\ Lower(x) = x))
           /\ \A x \in HostOf(t, c1, c2) : x \in Text /\ IsHost(x) /\ Lower(x) = x
           /\ \A x \in PortOf(t, c2, c3) :
                 x \in Text /\ (x = <<>> \/ (IsPort(x) /\ Plain(x) = x))
           /\ \A x \in PathOf(t, c3) : x \in Text /\ (x = <<>> \/ IsPath(x))
<1>0. /\ c1 \in Nat /\ c2 \in Nat /\ c3 \in Nat
      /\ c1 <= c2 /\ c2 <= c3 /\ c3 <= Len(t) /\ Len(t) \in Nat
  BY TextLen DEF IsCut, AreCuts
<1>1. ASSUME NEW x \in SchemeOf(t, c1)
      PROVE  x \in Text /\ (x = <<>> \/ (IsScheme(x) /\ Lower(x) = x))
  <2>1. CASE c1 = 0
    BY <1>1, <2>1, EmptyText DEF SchemeOf, Absent
  <2>2. CASE c1 # 0
    <3>1. c1 - 2 \in 1..(Len(t) + 1)
      BY <1>0, <2>2 DEF IsCut, SchemeEnds
    <3>2. Before(t, c1 - 2) \in Text
      BY <3>1, BeforeIs DEF Text
    <3>3. x \in ParseScheme(Before(t, c1 - 2))
      BY <1>1, <2>2 DEF SchemeOf
    <3> QED BY <3>2, <3>3, AnySchemeParsed
  <2> QED BY <2>1, <2>2
<1>2. ASSUME NEW x \in HostOf(t, c1, c2) PROVE x \in Text /\ IsHost(x) /\ Lower(x) = x
  <2> DEFINE u == SubSeq(t, c1 + 1, c2)
  <2>1. u \in Text
    <3>1. c1 + 1 \in Nat /\ c1 + 1 >= 1 /\ c1 + 1 <= c2 + 1 /\ c2 <= Len(t)
      BY <1>0
    <3> QED BY <1>0, <3>1, TextPart
  <2>2. x \in ParseHostPattern(u)
    BY <1>2 DEF HostOf
  <2> HIDE DEF u
  <2>3. x \in When(IsHost(u), Lower(u))
    BY <2>1, <2>2, HostParsed
  <2> QED BY <2>1, <2>3, HostLower DEF When
<1>3. ASSUME NEW x \in PortOf(t, c2, c3)
      PROVE  x \in Text /\ (x = <<>> \/ (IsPort(x) /\ Plain(x) = x))
  <2>1. CASE c2 = c3
    BY <1>3, <2>1, EmptyText DEF PortOf, Absent
  <2>2. CASE c2 # c3
    <3> DEFINE u == SubSeq(t, c2 + 2, c3)
    <3>1. u \in Text
      <4>1. c2 + 2 \in Nat /\ c2 + 2 >= 1 /\ c2 + 2 <= c3 + 1 /\ c3 <= Len(t)
        BY <1>0, <2>2
      <4> QED BY <1>0, <4>1, TextPart
    <3>2. x \in ParsePort(u)
      BY <1>3, <2>2 DEF PortOf
    <3> HIDE DEF u
    <3>3. x \in When(IsPort(u), Plain(u))
      BY <3>1, <3>2, PortParsed
    <3> QED BY <3>1, <3>3, PortPlain DEF When
  <2> QED BY <2>1, <2>2
<1>4. ASSUME NEW x \in PathOf(t, c3) PROVE x \in Text /\ (x = <<>> \/ IsPath(x))
  <2>1. CASE c3 = Len(t)
    BY <1>4, <2>1, EmptyText DEF PathOf, Absent
  <2>2. CASE c3 # Len(t)
    <3> DEFINE u == From(t, c3 + 1)
    <3>1. u \in Text /\ u # <<>>
      <4>1. c3 + 1 \in Nat /\ c3 + 1 >= 1 /\ c3 + 1 <= Len(t) + 1
        BY <1>0
      <4>2. u \in Text /\ Len(u) = Len(t) - (c3 + 1) + 1
        BY <4>1, TextFrom
      <4>3. Len(u) > 0
        <5> HIDE DEF u
        <5> QED BY <1>0, <2>2, <4>2
      <4> HIDE DEF u
      <4> QED BY <4>2, <4>3, EmptyText
    <3>2. x \in ParsePath(u)
      BY <1>4, <2>2 DEF PathOf
    <3> HIDE DEF u
    <3>3. x \in When(IsPath(u), u)
      BY <3>1, <3>2, PathParsed
    <3> QED BY <3>1, <3>3 DEF When
  <2> QED BY <2>1, <2>2
<1> QED BY <1>1, <1>2, <1>3, <1>4

LEMMA NoMarkInPath ==
    ASSUME NEW t \in Text, NEW c \in Nat, c <= Len(t), NoMark(t)
    PROVE  NoMark(From(t, c + 1))
<1> DEFINE u == From(t, c + 1)
<1>0. Len(t) \in Nat
  BY TextLen
<1>1. u \in Text /\ Len(u) = Len(t) - (c + 1) + 1 /\ PartOf(u, t, c + 1)
  <2>1. c + 1 \in Nat /\ c + 1 >= 1 /\ c + 1 <= Len(t) + 1
    BY <1>0
  <2> QED BY <2>1, TextFrom
<1> HIDE DEF u
<1>2. Len(u) = Len(t) - c
  BY <1>0, <1>1
<1>3. ASSUME NEW i \in 1..Len(u) PROVE u[i] = t[c + i]
  <2>1. u[i] = t[c + 1 + i - 1] /\ c + 1 + i - 1 = c + i
    BY <1>1 DEF PartOf
  <2> QED BY <2>1
<1>4. ASSUME NEW i \in 1..Len(u), Mark(u, i) PROVE FALSE
  <2>1. /\ c + i \in 1..Len(t) /\ (c + i) + 2 <= Len(t)
        /\ i + 1 \in 1..Len(u) /\ i + 2 \in 1..Len(u)
        /\ c + (i + 1) = (c + i) + 1 /\ c + (i + 2) = (c + i) + 2
    BY <1>0, <1>2, <1>4 DEF Mark
  <2>2. t[c + i] = ":" /\ t[(c + i) + 1] = "/" /\ t[(c + i) + 2] = "/"
    BY <1>3, <1>4, <2>1 DEF Mark
  <2>3. Mark(t, c + i)
    BY <2>1, <2>2 DEF Mark
  <2> QED BY <2>1, <2>3 DEF NoMark
<1>5. NoMark(u)
  BY <1>4 DEF NoMark
<1> QED BY <1>5 DEF u

LEMMA HostSourcesGood ==
    ASSUME NEW t \in Text, NEW e \in ParseHostSource(t)
    PROVE  GoodHost(e)
<1>1. PICK c1, c2, c3 : IsCut(t, c1, c2, c3) /\ ParseHostSource(t) = Assembled(t, c1, c2, c3)
  BY ParserCut
<1>2. e \in [kind : {"Host"}, scheme : SchemeOf(t, c1), host : HostOf(t, c1, c2),
             port : PortOf(t, c2, c3), path : PathOf(t, c3)]
  BY <1>1 DEF Assembled, HostSource
<1>3. /\ e.scheme \in SchemeOf(t, c1) /\ e.host \in HostOf(t, c1, c2)
      /\ e.port \in PortOf(t, c2, c3) /\ e.path \in PathOf(t, c3)
  BY <1>2
<1>4. /\ e.scheme \in Text
      /\ e.scheme = <<>> \/ (IsScheme(e.scheme) /\ Lower(e.scheme) = e.scheme)
      /\ e.host \in Text /\ IsHost(e.host) /\ Lower(e.host) = e.host
      /\ e.port \in Text /\ (e.port = <<>> \/ (IsPort(e.port) /\ Plain(e.port) = e.port))
      /\ e.path \in Text /\ (e.path = <<>> \/ IsPath(e.path))
  BY <1>1, <1>3, HostPartsGood
<1>5. e \in HostTerm
  BY <1>2, <1>4 DEF HostTerm
<1>6. ASSUME e.scheme = <<>> PROVE NoMark(e.path)
  <2>1. c1 = 0
    <3>1. ASSUME c1 # 0 PROVE FALSE
      <4>1. e.scheme \in ParseScheme(Before(t, c1 - 2))
        BY <1>3, <3>1 DEF SchemeOf
      <4>2. Before(t, c1 - 2) \in Text
        <5>1. c1 - 2 \in 1..(Len(t) + 1)
          BY <1>1, <3>1, TextLen DEF IsCut, AreCuts, SchemeEnds
        <5> QED BY <5>1, BeforeIs DEF Text
      <4>3. IsScheme(e.scheme)
        BY <4>1, <4>2, AnySchemeParsed
      <4> QED BY <1>6, <4>3 DEF IsScheme
    <3> QED BY <3>1
  <2>2. NoMark(t)
    BY <1>1, <2>1 DEF IsCut, SchemeEnds
  <2>3. CASE c3 = Len(t)
    <3>1. e.path = <<>>
      BY <1>3, <2>3 DEF PathOf, Absent
    <3> QED BY <3>1, EmptyText DEF NoMark
  <2>4. CASE c3 # Len(t)
    <3>1. e.path = From(t, c3 + 1)
      BY <1>3, <2>4 DEF PathOf, ParsePath, When
    <3>2. c3 \in Nat /\ c3 <= Len(t)
      BY <1>1 DEF IsCut, AreCuts
    <3> QED BY <2>2, <3>1, <3>2, NoMarkInPath
  <2> QED BY <2>3, <2>4
<1> QED BY <1>4, <1>5, <1>6 DEF GoodHost

\* The text y stands in t after the first c tokens.
Holds(t, c, y) == c + Len(y) <= Len(t) /\ \A i \in 1..Len(y) : t[c + i] = y[i]

After(u, t, c) == \A i \in 1..Len(u) : u[i] = t[c + i]

LEMMA PartAfter ==
    ASSUME NEW t \in Text, NEW c \in Nat, NEW d \in Nat, c <= d, d <= Len(t),
           NEW u, u = SubSeq(t, c + 1, d)
    PROVE  u \in Text /\ Len(u) = d - c /\ After(u, t, c)
<1>1. u \in Text /\ Len(u) = d - (c + 1) + 1 /\ PartOf(u, t, c + 1)
  <2>1. c + 1 \in Nat /\ c + 1 >= 1 /\ c + 1 <= d + 1
    OBVIOUS
  <2> QED BY <2>1, TextPart
<1>2. Len(u) = d - c
  BY <1>1
<1>3. ASSUME NEW i \in 1..Len(u) PROVE u[i] = t[c + i]
  <2>1. u[i] = t[c + 1 + i - 1] /\ c + 1 + i - 1 = c + i
    BY <1>1 DEF PartOf
  <2> QED BY <2>1
<1> QED BY <1>1, <1>2, <1>3 DEF After

LEMMA HeldPart ==
    ASSUME NEW t \in Text, NEW y \in Text, NEW c \in Nat, NEW d \in Nat
    PROVE  d = c + Len(y) /\ Holds(t, c, y) => SubSeq(t, c + 1, d) = y
<1>1. PICK u : u = SubSeq(t, c + 1, d)
  OBVIOUS
<1>2. ASSUME c <= d, d <= Len(t)
      PROVE  u \in Text /\ Len(u) = d - c /\ After(u, t, c)
  BY <1>1, <1>2, PartAfter
<1>3. SUFFICES ASSUME d = c + Len(y), Holds(t, c, y) PROVE u = y
  BY <1>1
<1>4. Len(y) \in Nat /\ c <= d /\ d <= Len(t)
  BY <1>3, TextLen DEF Holds
<1>5. u \in Text /\ Len(u) = d - c /\ After(u, t, c)
  BY <1>2, <1>4
<1>6. Len(u) = Len(y)
  BY <1>3, <1>4, <1>5
<1>7. \A i \in 1..Len(u) : u[i] = y[i]
  BY <1>3, <1>5, <1>6 DEF Holds, After
<1> QED BY <1>5, <1>6, <1>7, TextEqual

LEMMA HeldEnd ==
    ASSUME NEW t \in Text, NEW y \in Text, NEW c \in Nat,
           Len(t) = c + Len(y), Holds(t, c, y)
    PROVE  From(t, c + 1) = y
  BY HeldPart, TextLen DEF From

LEMMA JoinedHolds ==
    ASSUME NEW x \in Text, NEW y \in Text, NEW t, t = x \o y
    PROVE  /\ t \in Text /\ Len(t) = Len(x) + Len(y)
           /\ Holds(t, 0, x) /\ Holds(t, Len(x), y)
<1>0. Len(x) \in Nat /\ Len(y) \in Nat
  BY TextLen
<1>1. /\ t \in Text /\ Len(t) = Len(x) + Len(y)
      /\ \A i \in 1..(Len(x) + Len(y)) : t[i] = IF i <= Len(x) THEN x[i] ELSE y[i - Len(x)]
  BY ConcatProperties DEF Text
<1>2. ASSUME NEW i \in 1..Len(x) PROVE t[0 + i] = x[i]
  <2>1. 0 + i = i /\ i \in 1..(Len(x) + Len(y)) /\ i <= Len(x)
    BY <1>0
  <2> QED BY <1>1, <2>1
<1>3. ASSUME NEW i \in 1..Len(y) PROVE t[Len(x) + i] = y[i]
  <2>1. /\ Len(x) + i \in 1..(Len(x) + Len(y)) /\ ~(Len(x) + i <= Len(x))
        /\ (Len(x) + i) - Len(x) = i
    BY <1>0
  <2> QED BY <1>1, <2>1
<1>4. 0 + Len(x) <= Len(t) /\ Len(x) + Len(y) <= Len(t)
  BY <1>0, <1>1
<1> QED BY <1>1, <1>2, <1>3, <1>4 DEF Holds

LEMMA HeldWithin ==
    ASSUME NEW t \in Text, NEW y \in Text, NEW z \in Text, NEW c \in Nat, NEW d \in Nat,
           Holds(t, c, y), Holds(y, d, z), NEW e, e = c + d
    PROVE  Holds(t, e, z)
<1>0. /\ Len(t) \in Nat /\ Len(y) \in Nat /\ Len(z) \in Nat
      /\ c + Len(y) <= Len(t) /\ d + Len(z) <= Len(y)
  BY TextLen DEF Holds
<1>1. ASSUME NEW i \in 1..Len(z) PROVE t[e + i] = z[i]
  <2>1. d + i \in 1..Len(y) /\ c + (d + i) = e + i
    BY <1>0
  <2>2. t[c + (d + i)] = y[d + i] /\ y[d + i] = z[i]
    BY <2>1 DEF Holds
  <2> QED BY <2>1, <2>2
<1>2. e + Len(z) <= Len(t)
  BY <1>0
<1> QED BY <1>1, <1>2 DEF Holds

\* Where the parts of a host source stand in its text.
IsLayout(t, e, c1, c2, c3) ==
    /\ t \in Text /\ c1 \in Nat /\ c2 \in Nat /\ c3 \in Nat
    /\ \/ e.scheme = <<>> /\ c1 = 0
       \/ /\ e.scheme # <<>> /\ c1 = Len(e.scheme) + 3
          /\ Holds(t, 0, e.scheme) /\ Holds(t, Len(e.scheme), Slashes)
    /\ c2 = c1 + Len(e.host) /\ Holds(t, c1, e.host)
    /\ \/ e.port = <<>> /\ c3 = c2
       \/ /\ e.port # <<>> /\ c3 = c2 + 1 + Len(e.port)
          /\ Holds(t, c2, Colon) /\ Holds(t, c2 + 1, e.port)
    /\ Len(t) = c3 + Len(e.path) /\ Holds(t, c3, e.path)

LEMMA MarksAre ==
    /\ Slashes \in Text /\ Len(Slashes) = 3
    /\ Slashes[1] = ":" /\ Slashes[2] = "/" /\ Slashes[3] = "/"
    /\ Colon \in Text /\ Len(Colon) = 1 /\ Colon[1] = ":"
  BY MarksAreTokens DEF Slashes, Colon, Text

LEMMA HostLayout ==
    ASSUME NEW e \in HostTerm
    PROVE  \E c1, c2, c3 : IsLayout(HostText(e), e, c1, c2, c3)
<1> DEFINE s == IF e.scheme = <<>> THEN <<>> ELSE e.scheme \o Slashes
           p == IF e.port = <<>> THEN <<>> ELSE Colon \o e.port
           a == s \o e.host
           b == a \o p
           t == b \o e.path
           c1 == Len(s)
           c2 == Len(a)
           c3 == Len(b)
<1>0. e.scheme \in Text /\ e.host \in Text /\ e.port \in Text /\ e.path \in Text
  BY DEF HostTerm
<1>1. HostText(e) = t
  BY DEF HostText, Slashes, Colon
<1>2. /\ s \in Text
      /\ \/ e.scheme = <<>> /\ Len(s) = 0
         \/ /\ e.scheme # <<>> /\ Len(s) = Len(e.scheme) + 3
            /\ Holds(s, 0, e.scheme) /\ Holds(s, Len(e.scheme), Slashes)
  <2>1. CASE e.scheme = <<>>
    BY <2>1, EmptyText
  <2>2. CASE e.scheme # <<>>
    <3>1. s = e.scheme \o Slashes
      BY <2>2
    <3>2. /\ s \in Text /\ Len(s) = Len(e.scheme) + Len(Slashes)
          /\ Holds(s, 0, e.scheme) /\ Holds(s, Len(e.scheme), Slashes)
      <4> HIDE DEF s
      <4> QED BY <1>0, <3>1, MarksAre, JoinedHolds
    <3> HIDE DEF s
    <3> QED BY <2>2, <3>2, MarksAre
  <2> QED BY <2>1, <2>2
<1>3. /\ p \in Text
      /\ \/ e.port = <<>> /\ Len(p) = 0
         \/ /\ e.port # <<>> /\ Len(p) = 1 + Len(e.port)
            /\ Holds(p, 0, Colon) /\ Holds(p, 1, e.port)
  <2>1. CASE e.port = <<>>
    BY <2>1, EmptyText
  <2>2. CASE e.port # <<>>
    <3>1. p = Colon \o e.port
      BY <2>2
    <3>2. /\ p \in Text /\ Len(p) = Len(Colon) + Len(e.port)
          /\ Holds(p, 0, Colon) /\ Holds(p, Len(Colon), e.port)
      <4> HIDE DEF p
      <4> QED BY <1>0, <3>1, MarksAre, JoinedHolds
    <3> HIDE DEF p
    <3> QED BY <2>2, <3>2, MarksAre
  <2> QED BY <2>1, <2>2
<1> HIDE DEF s, p
<1>4. a \in Text /\ Len(a) = Len(s) + Len(e.host) /\ Holds(a, 0, s) /\ Holds(a, Len(s), e.host)
  BY <1>0, <1>2, JoinedHolds
<1> HIDE DEF a
<1>5. b \in Text /\ Len(b) = Len(a) + Len(p) /\ Holds(b, 0, a) /\ Holds(b, Len(a), p)
  BY <1>3, <1>4, JoinedHolds
<1> HIDE DEF b
<1>6. /\ t \in Text /\ Len(t) = Len(b) + Len(e.path)
      /\ Holds(t, 0, b) /\ Holds(t, Len(b), e.path)
  BY <1>0, <1>5, JoinedHolds
<1> HIDE DEF t
<1>7. /\ Len(s) \in Nat /\ Len(a) \in Nat /\ Len(b) \in Nat
      /\ Len(e.scheme) \in Nat /\ Len(e.port) \in Nat
  BY <1>0, <1>2, <1>4, <1>5, TextLen
<1>8. Holds(t, 0, a)
  BY <1>4, <1>5, <1>6, HeldWithin
<1>9. Holds(t, 0, s)
  BY <1>2, <1>4, <1>6, <1>8, HeldWithin
<1>10. Holds(t, Len(s), e.host)
  <2>1. Len(s) = 0 + Len(s)
    BY <1>7
  <2> QED BY <1>0, <1>4, <1>6, <1>7, <1>8, <2>1, HeldWithin
<1>11. Holds(t, Len(a), p)
  <2>1. Len(a) = 0 + Len(a)
    BY <1>7
  <2> QED BY <1>3, <1>5, <1>6, <1>7, <2>1, HeldWithin
<1>12. \/ e.scheme = <<>> /\ c1 = 0
       \/ /\ e.scheme # <<>> /\ c1 = Len(e.scheme) + 3
          /\ Holds(t, 0, e.scheme) /\ Holds(t, Len(e.scheme), Slashes)
  <2>1. CASE e.scheme # <<>>
    <3>1. Holds(t, 0, e.scheme)
      BY <1>0, <1>2, <1>6, <1>9, <2>1, HeldWithin
    <3>2. Len(e.scheme) = 0 + Len(e.scheme)
      BY <1>7
    <3>3. Holds(t, Len(e.scheme), Slashes)
      BY <1>0, <1>2, <1>6, <1>7, <1>9, <2>1, <3>2, MarksAre, HeldWithin
    <3> QED BY <1>2, <2>1, <3>1, <3>3
  <2> QED BY <1>2, <2>1
<1>13. \/ e.port = <<>> /\ c3 = c2
       \/ /\ e.port # <<>> /\ c3 = c2 + 1 + Len(e.port)
          /\ Holds(t, c2, Colon) /\ Holds(t, c2 + 1, e.port)
  <2>1. CASE e.port = <<>>
    BY <1>3, <1>5, <1>7, <2>1
  <2>2. CASE e.port # <<>>
    <3>1. Holds(p, 0, Colon) /\ Holds(p, 1, e.port) /\ Len(p) = 1 + Len(e.port)
      BY <1>3, <2>2
    <3>2. Len(a) = Len(a) + 0
      BY <1>7
    <3>3. Holds(t, Len(a), Colon)
      BY <1>3, <1>6, <1>7, <1>11, <3>1, <3>2, MarksAre, HeldWithin
    <3>4. Holds(t, Len(a) + 1, e.port)
      BY <1>0, <1>3, <1>6, <1>7, <1>11, <3>1, HeldWithin
    <3>5. Len(b) = Len(a) + 1 + Len(e.port)
      <4> DEFINE n == Len(e.port)
      <4>1. Len(b) = Len(a) + (1 + n) /\ Len(a) \in Nat /\ n \in Nat
        BY <1>5, <1>7, <3>1
      <4> HIDE DEF n
      <4>2. Len(b) = Len(a) + 1 + n
        BY <4>1
      <4> QED BY <4>2 DEF n
    <3> QED BY <2>2, <3>3, <3>4, <3>5
  <2> QED BY <2>1, <2>2
<1>14. c2 = c1 + Len(e.host)
  BY <1>4
<1>15. IsLayout(t, e, c1, c2, c3)
  BY <1>6, <1>7, <1>10, <1>12, <1>13, <1>14 DEF IsLayout
<1> QED BY <1>1, <1>15

LEMMA HeldLacks ==
    ASSUME NEW t, NEW y \in Text, NEW c \in Nat, Holds(t, c, y), NEW x,
           \A i \in 1..Len(y) : y[i] # x
    PROVE  \A d : d = c + Len(y) => Lacks(t, x, c + 1, d)
<1>0. Len(y) \in Nat
  BY TextLen
<1>1. ASSUME NEW d, d = c + Len(y), NEW i \in (c + 1)..d PROVE t[i] # x
  <2>1. i - c \in 1..Len(y) /\ c + (i - c) = i
    BY <1>0, <1>1
  <2> QED BY <2>1 DEF Holds
<1> QED BY <1>1 DEF Lacks

LEMMA LayoutNumbers ==
    ASSUME NEW e, GoodHost(e), NEW t, NEW c1, NEW c2, NEW c3, IsLayout(t, e, c1, c2, c3)
    PROVE  /\ t \in Text /\ e.scheme \in Text /\ e.host \in Text /\ e.port \in Text
           /\ e.path \in Text
           /\ c1 \in Nat /\ c2 \in Nat /\ c3 \in Nat /\ Len(t) \in Nat
           /\ c1 < c2 /\ c2 <= c3 /\ c3 <= Len(t)
<1>1. /\ e.scheme \in Text /\ e.host \in Text /\ e.port \in Text /\ e.path \in Text
      /\ Len(e.host) > 0
  BY HostBytes DEF GoodHost, HostTerm
<1>2. t \in Text /\ c1 \in Nat /\ c2 \in Nat /\ c3 \in Nat
  BY DEF IsLayout
<1>3. /\ Len(t) \in Nat /\ Len(e.host) \in Nat /\ Len(e.port) \in Nat /\ Len(e.path) \in Nat
  BY <1>1, <1>2, TextLen
<1>4. c2 = c1 + Len(e.host) /\ Len(t) = c3 + Len(e.path)
  BY DEF IsLayout
<1>5. c2 <= c3
  <2>1. c3 = c2 \/ c3 = c2 + 1 + Len(e.port)
    BY DEF IsLayout
  <2>2. PICK n : n = Len(e.port)
    OBVIOUS
  <2>3. n \in Nat /\ (c3 = c2 \/ c3 = c2 + 1 + n)
    BY <1>3, <2>1, <2>2
  <2> QED BY <1>2, <2>3
<1>6. c1 < c2 /\ c3 <= Len(t)
  <2>1. PICK h, p : h = Len(e.host) /\ p = Len(e.path)
    OBVIOUS
  <2>2. h \in Nat /\ h > 0 /\ p \in Nat /\ c2 = c1 + h /\ Len(t) = c3 + p
    BY <1>1, <1>3, <1>4, <2>1
  <2> QED BY <1>2, <1>3, <2>2
<1> QED BY <1>1, <1>2, <1>3, <1>5, <1>6

LEMMA LayoutPortLen ==
    ASSUME NEW e, GoodHost(e), NEW t, NEW c1, NEW c2, NEW c3, IsLayout(t, e, c1, c2, c3)
    PROVE  \/ e.port = <<>> /\ c3 = c2
           \/ /\ e.port # <<>> /\ c3 = c2 + 1 + Len(e.port) /\ Len(e.port) > 0 /\ c2 + 1 < c3
              /\ Holds(t, c2, Colon) /\ Holds(t, c2 + 1, e.port)
<1>1. \/ e.port = <<>> /\ c3 = c2
      \/ /\ e.port # <<>> /\ c3 = c2 + 1 + Len(e.port)
         /\ Holds(t, c2, Colon) /\ Holds(t, c2 + 1, e.port)
  BY DEF IsLayout
<1>2. CASE e.port # <<>> /\ c3 = c2 + 1 + Len(e.port)
  <2>1. PICK n : n = Len(e.port)
    OBVIOUS
  <2>2. n \in Nat /\ n > 0 /\ c3 = c2 + 1 + n /\ c2 \in Nat
    <3>1. e.port \in Text /\ c2 \in Nat
      BY LayoutNumbers
    <3>2. Len(e.port) \in Nat /\ Len(e.port) # 0
      BY <1>2, <3>1, TextLen
    <3> QED BY <1>2, <2>1, <3>1, <3>2
  <2>3. c2 + 1 < c3
    BY <2>2
  <2>4. e.port # <<>>
    BY <1>2
  <2> QED BY <1>1, <1>2, <2>1, <2>2, <2>3, <2>4
<1> QED BY <1>1, <1>2

LEMMA LayoutLacks ==
    ASSUME NEW e, GoodHost(e), NEW t, NEW c1, NEW c2, NEW c3, IsLayout(t, e, c1, c2, c3)
    PROVE  /\ Lacks(t, ":", c1 + 1, c2) /\ Lacks(t, "/", c1 + 1, c2)
           /\ c2 < c3 => /\ t[c2 + 1] = ":"
                         /\ Lacks(t, ":", c2 + 2, c3) /\ Lacks(t, "/", c2 + 2, c3)
<1>0. /\ t \in Text /\ e.host \in Text /\ e.port \in Text
      /\ c1 \in Nat /\ c2 \in Nat /\ c3 \in Nat
  BY LayoutNumbers
<1>1. Lacks(t, ":", c1 + 1, c2) /\ Lacks(t, "/", c1 + 1, c2)
  <2>1. \A i \in 1..Len(e.host) : e.host[i] # ":" /\ e.host[i] # "/"
    BY <1>0, HostBytes DEF GoodHost
  <2>2. c2 = c1 + Len(e.host) /\ Holds(t, c1, e.host)
    BY DEF IsLayout
  <2> QED BY <1>0, <2>1, <2>2, HeldLacks
<1>2. ASSUME c2 < c3
      PROVE  t[c2 + 1] = ":" /\ Lacks(t, ":", c2 + 2, c3) /\ Lacks(t, "/", c2 + 2, c3)
  <2>1. /\ e.port # <<>> /\ c3 = c2 + 1 + Len(e.port)
        /\ Holds(t, c2, Colon) /\ Holds(t, c2 + 1, e.port)
    <3>1. c3 # c2
      BY <1>0, <1>2
    <3> QED BY <3>1, LayoutPortLen
  <2>2. \A i \in 1..Len(e.port) : e.port[i] # ":" /\ e.port[i] # "/"
    BY <1>0, <2>1, PortBytes DEF GoodHost
  <2>3. t[c2 + 1] = ":"
    <3>1. 1 \in 1..Len(Colon)
      BY MarksAre
    <3> QED BY <2>1, <3>1, MarksAre DEF Holds
  <2>4. PICK d \in Nat : d = c2 + 1 /\ d + 1 = c2 + 2
    BY <1>0
  <2>5. c3 = d + Len(e.port) /\ Holds(t, d, e.port)
    BY <2>1, <2>4
  <2>6. Lacks(t, ":", d + 1, c3) /\ Lacks(t, "/", d + 1, c3)
    BY <1>0, <2>2, <2>5, HeldLacks
  <2> QED BY <2>3, <2>4, <2>6
<1> QED BY <1>1, <1>2

LEMMA LayoutPath ==
    ASSUME NEW e, GoodHost(e), NEW t, NEW c1, NEW c2, NEW c3, IsLayout(t, e, c1, c2, c3)
    PROVE  /\ PathBegins(t, c1, c3)
           /\ PathOf(t, c3) = {e.path}
<1>0. /\ t \in Text /\ e.path \in Text /\ c1 \in Nat /\ c2 \in Nat /\ c3 \in Nat
      /\ Len(t) \in Nat /\ c1 < c2 /\ c2 <= c3 /\ c3 <= Len(t) /\ Len(e.path) \in Nat
  BY LayoutNumbers, TextLen
<1>1. ASSUME NEW i \in (c1 + 1)..c3 PROVE t[i] # "/"
  <2>1. CASE i <= c2
    <3>1. i \in (c1 + 1)..c2
      BY <1>0, <2>1
    <3> QED BY <3>1, LayoutLacks DEF Lacks
  <2>2. CASE i = c2 + 1
    BY <1>0, <2>2, LayoutLacks
  <2>3. CASE i > c2 + 1
    <3>1. i \in (c2 + 2)..c3 /\ c2 < c3
      BY <1>0, <2>3
    <3> QED BY <3>1, LayoutLacks DEF Lacks
  <2> QED BY <1>0, <2>1, <2>2, <2>3
<1>2. Len(t) = c3 + Len(e.path) /\ Holds(t, c3, e.path)
  BY DEF IsLayout
<1>3. CASE c3 = Len(t)
  <2>1. Len(e.path) = 0
    BY <1>0, <1>2, <1>3
  <2>2. e.path = <<>>
    BY <1>0, <2>1, TextLen
  <2> QED BY <1>1, <1>3, <2>2 DEF PathBegins, Lacks, PathOf, Absent
<1>4. CASE c3 # Len(t)
  <2>1. Len(e.path) > 0
    BY <1>0, <1>2, <1>4
  <2>2. e.path # <<>> /\ IsPath(e.path)
    BY <2>1, EmptyText DEF GoodHost
  <2>3. e.path[1] = "/"
    BY <1>0, <2>2, PathIs
  <2>4. t[c3 + 1] = "/"
    <3>1. 1 \in 1..Len(e.path)
      BY <1>0, <2>1
    <3> QED BY <1>2, <2>3, <3>1 DEF Holds
  <2>5. From(t, c3 + 1) = e.path
    BY <1>0, <1>2, HeldEnd
  <2>6. PathOf(t, c3) = {e.path}
    BY <1>0, <1>4, <2>2, <2>5, PathParsed DEF PathOf, When
  <2> QED BY <1>1, <2>4, <2>6 DEF PathBegins, Lacks
<1> QED BY <1>3, <1>4

LEMMA LayoutPort ==
    ASSUME NEW e, GoodHost(e), NEW t, NEW c1, NEW c2, NEW c3, IsLayout(t, e, c1, c2, c3)
    PROVE  /\ PortBegins(t, c1, c2, c3)
           /\ PortOf(t, c2, c3) = {e.port}
<1>0. /\ t \in Text /\ e.port \in Text /\ c2 \in Nat /\ c3 \in Nat /\ c2 <= c3
      /\ Len(e.port) \in Nat
  BY LayoutNumbers, TextLen
<1>1. CASE e.port = <<>>
  <2>1. c2 = c3
    BY <1>1 DEF IsLayout
  <2> QED BY <1>1, <2>1, LayoutLacks DEF PortBegins, PortOf, Absent
<1>2. CASE e.port # <<>>
  <2>1. c3 = c2 + 1 + Len(e.port) /\ Holds(t, c2 + 1, e.port) /\ IsPort(e.port)
        /\ Plain(e.port) = e.port
    BY <1>2 DEF IsLayout, GoodHost
  <2>2. c2 < c3 /\ c2 # c3
    <3>1. c2 + 1 < c3
      BY <1>2, LayoutPortLen
    <3> QED BY <1>0, <3>1
  <2>3. PortBegins(t, c1, c2, c3)
    BY <2>2, LayoutLacks DEF PortBegins
  <2>4. PICK d \in Nat : d = c2 + 1 /\ d + 1 = c2 + 2
    BY <1>0
  <2>5. c3 = d + Len(e.port) /\ Holds(t, d, e.port)
    BY <2>1, <2>4
  <2>6. SubSeq(t, c2 + 2, c3) = e.port
    <3>1. SubSeq(t, d + 1, c3) = e.port
      BY <1>0, <2>5, HeldPart
    <3> QED BY <2>4, <3>1
  <2>7. PortOf(t, c2, c3) = {e.port}
    BY <1>0, <2>1, <2>2, <2>6, PortParsed DEF PortOf, When
  <2> QED BY <2>3, <2>7
<1> QED BY <1>1, <1>2

LEMMA LayoutHost ==
    ASSUME NEW e, GoodHost(e), NEW t, NEW c1, NEW c2, NEW c3, IsLayout(t, e, c1, c2, c3)
    PROVE  HostOf(t, c1, c2) = {e.host}
<1>0. t \in Text /\ e.host \in Text /\ c1 \in Nat /\ c2 \in Nat
  BY LayoutNumbers
<1>1. c2 = c1 + Len(e.host) /\ Holds(t, c1, e.host) /\ IsHost(e.host) /\ Lower(e.host) = e.host
  BY DEF IsLayout, GoodHost
<1>2. SubSeq(t, c1 + 1, c2) = e.host
  BY <1>0, <1>1, HeldPart
<1> QED BY <1>0, <1>1, <1>2, HostParsed DEF HostOf, When

\* The path is the only place where "://" might be read in a host without a scheme.
LEMMA LayoutMarks ==
    ASSUME NEW e, GoodHost(e), NEW t, NEW c1, NEW c2, NEW c3, IsLayout(t, e, c1, c2, c3),
           e.scheme = <<>>
    PROVE  NoMark(t)
<1>0. /\ t \in Text /\ e.path \in Text /\ c1 \in Nat /\ c2 \in Nat /\ c3 \in Nat
      /\ Len(t) \in Nat /\ c1 < c2 /\ c2 <= c3 /\ c3 <= Len(t) /\ Len(e.path) \in Nat
  BY LayoutNumbers, TextLen
<1>1. c1 = 0
  BY <1>0 DEF IsLayout
<1>2. Len(t) = c3 + Len(e.path) /\ Holds(t, c3, e.path)
  BY DEF IsLayout
<1>3. SUFFICES ASSUME NEW i \in 1..Len(t), Mark(t, i) PROVE FALSE
  BY DEF NoMark
<1>4. i + 2 <= Len(t) /\ t[i] = ":" /\ t[i + 1] = "/" /\ t[i + 2] = "/"
  BY <1>3 DEF Mark
<1>5. i > c2
  <2>1. CASE i <= c2
    <3>1. i \in (c1 + 1)..c2
      BY <1>0, <1>1, <2>1
    <3> QED BY <1>4, <3>1, LayoutLacks DEF Lacks
  <2> QED BY <1>0, <2>1
<1>6. ~(c2 < c3 /\ i = c2 + 1)
  <2>1. ASSUME c2 < c3, i = c2 + 1 PROVE FALSE
    <3>1. c2 + 1 < c3
      <4>1. c3 # c2
        BY <1>0, <2>1
      <4> QED BY <4>1, LayoutPortLen
    <3>3. i + 1 \in (c2 + 2)..c3
      BY <1>0, <2>1, <3>1
    <3> QED BY <1>4, <2>1, <3>3, LayoutLacks DEF Lacks
  <2> QED BY <2>1
<1>7. i > c3
  <2>1. ASSUME i <= c3 PROVE FALSE
    <3>1. i \in (c2 + 2)..c3 /\ c2 < c3
      BY <1>0, <1>5, <1>6, <2>1
    <3> QED BY <1>4, <3>1, LayoutLacks DEF Lacks
  <2> QED BY <1>0, <2>1
<1>8. /\ i - c3 \in 1..Len(e.path) /\ (i - c3) + 1 \in 1..Len(e.path)
      /\ (i - c3) + 2 \in 1..Len(e.path)
      /\ c3 + (i - c3) = i /\ c3 + ((i - c3) + 1) = i + 1 /\ c3 + ((i - c3) + 2) = i + 2
  BY <1>0, <1>2, <1>4, <1>7
<1>9. Mark(e.path, i - c3)
  BY <1>2, <1>4, <1>8 DEF Mark, Holds
<1> QED BY <1>8, <1>9 DEF GoodHost, NoMark

LEMMA LayoutScheme ==
    ASSUME NEW e, GoodHost(e), NEW t, NEW c1, NEW c2, NEW c3, IsLayout(t, e, c1, c2, c3)
    PROVE  /\ SchemeEnds(t, c1)
           /\ SchemeOf(t, c1) = {e.scheme}
<1>0. /\ t \in Text /\ e.scheme \in Text /\ c1 \in Nat /\ Len(t) \in Nat /\ c1 <= Len(t)
      /\ Len(e.scheme) \in Nat
  BY LayoutNumbers, TextLen
<1>1. CASE e.scheme = <<>>
  <2>1. c1 = 0
    BY <1>1 DEF IsLayout
  <2>2. NoMark(t)
    BY <1>1, LayoutMarks
  <2> QED BY <1>1, <2>1, <2>2 DEF SchemeEnds, SchemeOf, Absent
<1>2. CASE e.scheme # <<>>
  <2>1. /\ c1 = Len(e.scheme) + 3
        /\ Holds(t, 0, e.scheme) /\ Holds(t, Len(e.scheme), Slashes)
        /\ IsScheme(e.scheme) /\ Lower(e.scheme) = e.scheme
    BY <1>2 DEF IsLayout, GoodHost
  <2> DEFINE p == Len(e.scheme) + 1
  <2>2. p \in Nat /\ p >= 1 /\ p + 2 <= Len(t) /\ p = c1 - 2 /\ c1 >= 3 /\ c1 # 0
    BY <1>0, <2>1
  <2>3. Mark(t, p)
    <3>1. /\ 1 \in 1..Len(Slashes) /\ 2 \in 1..Len(Slashes) /\ 3 \in 1..Len(Slashes)
          /\ Len(e.scheme) + 2 = p + 1 /\ Len(e.scheme) + 3 = p + 2
      BY <1>0, MarksAre
    <3>2. /\ t[Len(e.scheme) + 1] = ":" /\ t[Len(e.scheme) + 2] = "/"
          /\ t[Len(e.scheme) + 3] = "/"
      BY <2>1, <3>1, MarksAre DEF Holds
    <3> QED BY <2>2, <3>1, <3>2 DEF Mark
  <2>4. ASSUME NEW i \in 1..Len(t), Mark(t, i) PROVE p <= i
    <3>1. ASSUME i < p PROVE FALSE
      <4>1. i \in 1..Len(e.scheme) /\ 0 + i = i
        BY <1>0, <3>1
      <4>2. t[i] = e.scheme[i]
        BY <2>1, <4>1 DEF Holds
      <4>3. e.scheme[i] # ":"
        BY <1>0, <2>1, <4>1, SchemeIs, SchemeByteIs
      <4> QED BY <2>4, <4>2, <4>3 DEF Mark
    <3> QED BY <2>2, <3>1
  <2>5. SchemeEnds(t, c1)
    <3>1. p \in 1..Len(t)
      BY <1>0, <2>2
    <3> QED BY <2>2, <2>3, <2>4, <3>1 DEF SchemeEnds, FirstMark
  <2>6. Before(t, c1 - 2) = e.scheme
    <3>1. SubSeq(t, 0 + 1, Len(e.scheme)) = e.scheme
      <4>1. Len(e.scheme) = 0 + Len(e.scheme)
        BY <1>0
      <4> QED BY <1>0, <2>1, <4>1, HeldPart
    <3>2. (c1 - 2) - 1 = Len(e.scheme) /\ 0 + 1 = 1
      BY <1>0, <2>1
    <3> QED BY <3>1, <3>2 DEF Before
  <2>7. ParseScheme(e.scheme) = {e.scheme}
    <3>1. Last(e.scheme) # ":"
      <4>1. Len(e.scheme) \in 1..Len(e.scheme)
        BY <1>0, <1>2, TextLen
      <4> QED BY <1>0, <2>1, <4>1, SchemeIs, SchemeByteIs DEF Last
    <3> QED BY <1>0, <2>1, <3>1, SchemeParsed DEF When
  <2> QED BY <2>2, <2>5, <2>6, <2>7 DEF SchemeOf
<1> QED BY <1>1, <1>2

LEMMA HostReadsBack ==
    ASSUME NEW e, GoodHost(e)
    PROVE  HostText(e) \in Text /\ ParseHostSource(HostText(e)) = {e}
<1> DEFINE t == HostText(e)
<1>1. e \in HostTerm
  BY DEF GoodHost
<1>2. PICK c1, c2, c3 : IsLayout(t, e, c1, c2, c3)
  BY <1>1, HostLayout
<1> HIDE DEF t
<1>3. IsCut(t, c1, c2, c3)
  <2>1. AreCuts(t, c1, c2, c3)
    BY <1>2, LayoutNumbers DEF AreCuts
  <2> QED BY <1>2, <2>1, LayoutScheme, LayoutPath, LayoutPort DEF IsCut
<1>4. t \in Text
  BY <1>2 DEF IsLayout
<1>5. ParseHostSource(t) = HostSource({e.scheme}, {e.host}, {e.port}, {e.path})
  <2>1. ParseHostSource(t) = Assembled(t, c1, c2, c3)
    BY <1>3, <1>4, ParsedByCut
  <2>2. SchemeOf(t, c1) = {e.scheme}
    BY <1>2, LayoutScheme
  <2>3. HostOf(t, c1, c2) = {e.host}
    BY <1>2, LayoutHost
  <2>4. PortOf(t, c2, c3) = {e.port}
    BY <1>2, LayoutPort
  <2>5. PathOf(t, c3) = {e.path}
    BY <1>2, LayoutPath
  <2> QED BY <2>1, <2>2, <2>3, <2>4, <2>5 DEF Assembled
<1>6. HostSource({e.scheme}, {e.host}, {e.port}, {e.path}) = {e}
  <2>1. e \in [kind : {"Host"}, scheme : {e.scheme}, host : {e.host}, port : {e.port},
               path : {e.path}]
    BY <1>1 DEF HostTerm
  <2>2. ASSUME NEW f \in [kind : {"Host"}, scheme : {e.scheme}, host : {e.host},
                          port : {e.port}, path : {e.path}]
        PROVE  f = e
    BY <1>1 DEF HostTerm
  <2> QED BY <2>1, <2>2 DEF HostSource
<1> QED BY <1>4, <1>5, <1>6 DEF t

\* Texts a policy may carry.
Clean == Seq(PolicyByte)

LEMMA CleanIs ==
    ASSUME NEW t \in Clean
    PROVE  /\ t \in Text /\ In(t, PolicyByte)
           /\ \A i \in 1..Len(t) : t[i] \in PolicyByte
<1>1. \A i \in 1..Len(t) : t[i] \in PolicyByte
  BY TextIs DEF Clean
<1>2. In(t, PolicyByte)
  BY <1>1, InIs DEF Clean
<1>3. In(t, Token)
  BY <1>1, PolicyByteIs, InIs DEF Clean
<1> QED BY <1>1, <1>2, <1>3, InSeq DEF Clean, Text

LEMMA IsClean ==
    ASSUME NEW t \in Text, \A i \in 1..Len(t) : t[i] \in PolicyByte
    PROVE  t \in Clean
  BY InIs, InSeq DEF Text, Clean

LEMMA CleanJoined ==
    ASSUME NEW x \in Clean, NEW y \in Clean
    PROVE  x \o y \in Clean
  BY ConcatProperties DEF Clean

LEMMA MarksAreClean ==
    <<>> \in Clean /\ Slashes \in Clean /\ Colon \in Clean
<1>1. ":" \in PolicyByte /\ "/" \in PolicyByte
  BY PunctuationMarks, PunctuationIs
<1> QED BY <1>1 DEF Clean, Slashes, Colon

LEMMA HostPartsClean ==
    ASSUME NEW e, GoodHost(e)
    PROVE  e.scheme \in Clean /\ e.host \in Clean /\ e.port \in Clean /\ e.path \in Clean
<1>1. e.scheme \in Text /\ e.host \in Text /\ e.port \in Text /\ e.path \in Text
  BY DEF GoodHost, HostTerm
<1>2. e.scheme \in Clean
  <2>1. CASE e.scheme = <<>>
    BY <2>1, MarksAreClean
  <2>2. CASE e.scheme # <<>>
    <3>1. IsScheme(e.scheme)
      BY <2>2 DEF GoodHost
    <3>2. \A i \in 1..Len(e.scheme) : e.scheme[i] \in PolicyByte
      BY <1>1, <3>1, SchemeIs, SchemeByteIs
    <3> QED BY <1>1, <3>2, IsClean
  <2> QED BY <2>1, <2>2
<1>3. e.host \in Clean
  <2>1. \A i \in 1..Len(e.host) : e.host[i] \in PolicyByte
    BY <1>1, HostBytes DEF GoodHost
  <2> QED BY <1>1, <2>1, IsClean
<1>4. e.port \in Clean
  <2>1. CASE e.port = <<>>
    BY <2>1, MarksAreClean
  <2>2. CASE e.port # <<>>
    <3>1. IsPort(e.port)
      BY <2>2 DEF GoodHost
    <3>2. \A i \in 1..Len(e.port) : e.port[i] \in PolicyByte
      BY <1>1, <3>1, PortBytes
    <3> QED BY <1>1, <3>2, IsClean
  <2> QED BY <2>1, <2>2
<1>5. e.path \in Clean
  <2>1. CASE e.path = <<>>
    BY <2>1, MarksAreClean
  <2>2. CASE e.path # <<>>
    <3>1. IsPath(e.path)
      BY <2>2 DEF GoodHost
    <3>2. \A i \in 1..Len(e.path) : e.path[i] \in PolicyByte
      BY <1>1, <3>1, PathIs
    <3> QED BY <1>1, <3>2, IsClean
  <2> QED BY <2>1, <2>2
<1> QED BY <1>2, <1>3, <1>4, <1>5

LEMMA HostClean ==
    ASSUME NEW e, GoodHost(e)
    PROVE  HostText(e) \in Clean
<1>1. e.scheme \in Clean /\ e.host \in Clean /\ e.port \in Clean /\ e.path \in Clean
  BY HostPartsClean
<1>2. PICK s : s = IF e.scheme = <<>> THEN <<>> ELSE e.scheme \o Slashes
  OBVIOUS
<1>3. PICK p : p = IF e.port = <<>> THEN <<>> ELSE Colon \o e.port
  OBVIOUS
<1>4. HostText(e) = s \o e.host \o p \o e.path
  BY <1>2, <1>3 DEF HostText, Slashes, Colon
<1>5. s \in Clean /\ p \in Clean
  BY <1>1, <1>2, <1>3, MarksAreClean, CleanJoined
<1>6. s \o e.host \in Clean
  BY <1>1, <1>5, CleanJoined
<1>7. s \o e.host \o p \in Clean
  BY <1>5, <1>6, CleanJoined
<1> QED BY <1>1, <1>4, <1>7, CleanJoined

\* What begins or ends like no host source.
LEMMA HostShape ==
    ASSUME NEW e, GoodHost(e), NEW t, t = HostText(e)
    PROVE  /\ t \in Text /\ Len(t) > 0 /\ t[1] # "'"
           /\ t[Len(t)] # ":" \/ "/" \in ToSet(t)
<1>1. PICK c1, c2, c3 : IsLayout(t, e, c1, c2, c3)
  BY HostLayout DEF GoodHost
<1>0. /\ t \in Text /\ e.scheme \in Text /\ e.host \in Text /\ e.port \in Text /\ e.path \in Text
      /\ c1 \in Nat /\ c2 \in Nat /\ c3 \in Nat /\ Len(t) \in Nat
      /\ c1 < c2 /\ c2 <= c3 /\ c3 <= Len(t)
  BY <1>1, LayoutNumbers
<1>2. Len(t) > 0
  BY <1>0
<1>3. t[1] # "'"
  <2>1. CASE e.scheme = <<>>
    <3>1. c1 = 0 /\ Holds(t, c1, e.host)
      BY <1>1, <2>1 DEF IsLayout
    <3>2. Len(e.host) > 0 /\ 1 \in 1..Len(e.host)
      BY <1>0, HostBytes, TextLen DEF GoodHost
    <3>3. t[1] = e.host[1]
      BY <3>1, <3>2 DEF Holds
    <3> QED BY <1>0, <3>2, <3>3, HostBytes DEF GoodHost
  <2>2. CASE e.scheme # <<>>
    <3>1. Holds(t, 0, e.scheme) /\ IsScheme(e.scheme)
      BY <1>1, <2>2 DEF IsLayout, GoodHost
    <3>2. 1 \in 1..Len(e.scheme)
      BY <1>0, <2>2, TextLen
    <3>3. t[1] = e.scheme[1]
      BY <3>1, <3>2 DEF Holds
    <3>4. e.scheme[1] # "'"
      BY <1>0, <3>1, <3>2, SchemeIs, SchemeByteIs
    <3> QED BY <3>3, <3>4
  <2> QED BY <2>1, <2>2
<1>4. t[Len(t)] # ":" \/ "/" \in ToSet(t)
  <2>1. CASE c3 # Len(t)
    <3>1. t[c3 + 1] = "/" /\ c3 + 1 \in 1..Len(t)
      BY <1>0, <1>1, <2>1, LayoutPath DEF PathBegins
    <3> QED BY <1>0, <3>1, TextDomain DEF ToSet
  <2>2. CASE c3 = Len(t) /\ c2 < c3
    <3>1. c2 + 1 < c3
      <4>1. c3 # c2
        BY <1>0, <2>2
      <4> QED BY <1>1, <4>1, LayoutPortLen
    <3>2. Len(t) \in (c2 + 2)..c3
      BY <1>0, <2>2, <3>1
    <3> QED BY <1>1, <2>2, <3>2, LayoutLacks DEF Lacks
  <2>3. CASE c3 = Len(t) /\ c2 = c3
    <3>1. Len(t) \in (c1 + 1)..c2
      BY <1>0, <2>3
    <3> QED BY <1>1, <3>1, LayoutLacks DEF Lacks
  <2> QED BY <1>0, <2>1, <2>2, <2>3
<1> QED BY <1>0, <1>2, <1>3, <1>4

LEMMA HostSourceReadsBack ==
    ASSUME NEW e, GoodHost(e)
    PROVE  ParseSource(HostText(e)) = {e}
<1>1. PICK t : t = HostText(e)
  OBVIOUS
<1>2. t \in Text /\ Len(t) > 0 /\ t[1] # "'" /\ (t[Len(t)] # ":" \/ "/" \in ToSet(t))
  BY <1>1, HostShape
<1>3. ~Quoted(t)
  BY <1>2 DEF Quoted, Text
<1>4. ~(t # <<>> /\ Last(t) = ":" /\ "/" \notin ToSet(t))
  BY <1>2 DEF Last
<1>5. ParseSource(t) = ParseHostSource(t)
  BY <1>3, <1>4, ZenonT(30) DEF ParseSource
<1> QED BY <1>1, <1>5, HostReadsBack

\* A record set of single fields holds one record.
LEMMA OneScheme ==
    ASSUME NEW k, NEW x
    PROVE  [kind : {k}, scheme : {x}] = {[kind |-> k, scheme |-> x]}
<1>1. \A f \in [kind : {k}, scheme : {x}] : f = [kind |-> k, scheme |-> x]
  OBVIOUS
<1>2. [kind |-> k, scheme |-> x] \in [kind : {k}, scheme : {x}]
  OBVIOUS
<1> QED BY <1>1, <1>2, ZenonT(30)

LEMMA OneText ==
    ASSUME NEW k, NEW x
    PROVE  [kind : {k}, text : {x}] = {[kind |-> k, text |-> x]}
<1>1. \A f \in [kind : {k}, text : {x}] : f = [kind |-> k, text |-> x]
  OBVIOUS
<1>2. [kind |-> k, text |-> x] \in [kind : {k}, text : {x}]
  OBVIOUS
<1> QED BY <1>1, <1>2, ZenonT(30)

LEMMA OneValue ==
    ASSUME NEW k, NEW x
    PROVE  [kind : {k}, value : {x}] = {[kind |-> k, value |-> x]}
<1>1. \A f \in [kind : {k}, value : {x}] : f = [kind |-> k, value |-> x]
  OBVIOUS
<1>2. [kind |-> k, value |-> x] \in [kind : {k}, value : {x}]
  OBVIOUS
<1> QED BY <1>1, <1>2, ZenonT(30)

LEMMA OneHash ==
    ASSUME NEW k, NEW a, NEW x
    PROVE  [kind : {k}, algorithm : {a}, value : {x}]
               = {[kind |-> k, algorithm |-> a, value |-> x]}
<1>1. \A f \in [kind : {k}, algorithm : {a}, value : {x}] :
          f = [kind |-> k, algorithm |-> a, value |-> x]
  OBVIOUS
<1>2. [kind |-> k, algorithm |-> a, value |-> x]
          \in [kind : {k}, algorithm : {a}, value : {x}]
  OBVIOUS
<1> QED BY <1>1, <1>2, ZenonT(30)

\* The other sources.
GoodScheme(e) ==
    /\ e = [kind |-> "Scheme", scheme |-> e.scheme]
    /\ e.scheme \in Text /\ IsScheme(e.scheme) /\ Lower(e.scheme) = e.scheme

LEMMA SchemeSourcesGood ==
    ASSUME NEW t \in Text, NEW e \in ParseSchemeSource(t)
    PROVE  GoodScheme(e)
<1>1. e \in [kind : {"Scheme"}, scheme : ParseScheme(t)]
  BY DEF ParseSchemeSource
<1>2. e = [kind |-> "Scheme", scheme |-> e.scheme] /\ e.scheme \in ParseScheme(t)
  BY <1>1
<1> QED BY <1>2, AnySchemeParsed DEF GoodScheme

LEMMA SchemeShape ==
    ASSUME NEW e, GoodScheme(e), NEW t, t = e.scheme \o Colon
    PROVE  /\ t \in Text /\ Len(t) = Len(e.scheme) + 1 /\ Len(t) \in Nat
           /\ e.scheme \in Text /\ Len(e.scheme) \in Nat /\ Len(e.scheme) > 0
           /\ \A i \in 1..Len(e.scheme) : t[i] = e.scheme[i] /\ t[i] \in PolicyByte
           /\ t[Len(t)] = ":" /\ ~Quoted(t) /\ "/" \notin ToSet(t)
<1>2. e.scheme \in Text /\ IsScheme(e.scheme) /\ Lower(e.scheme) = e.scheme
  BY DEF GoodScheme
<1>3. Len(e.scheme) \in Nat /\ Len(e.scheme) > 0
  BY <1>2, TextLen, SchemeIs
<1>4. /\ t \in Text /\ Len(t) = Len(e.scheme) + 1 /\ Len(t) \in Nat
      /\ Holds(t, 0, e.scheme) /\ Holds(t, Len(e.scheme), Colon)
  <2>1. /\ t \in Text /\ Len(t) = Len(e.scheme) + Len(Colon)
        /\ Holds(t, 0, e.scheme) /\ Holds(t, Len(e.scheme), Colon)
    BY <1>2, MarksAre, JoinedHolds
  <2> QED BY <2>1, MarksAre, TextLen
<1>5. ASSUME NEW i \in 1..Len(e.scheme)
      PROVE  t[i] = e.scheme[i] /\ t[i] \in PolicyByte /\ t[i] \notin {":", "/", "'"}
  <2>1. 0 + i = i
    BY <1>3
  <2>2. t[i] = e.scheme[i]
    BY <1>4, <2>1 DEF Holds
  <2>3. e.scheme[i] \in SchemeByte
    BY <1>2, SchemeIs
  <2> QED BY <2>2, <2>3, SchemeByteIs
<1>6. t[Len(t)] = ":"
  <2>1. 1 \in 1..Len(Colon)
    BY MarksAre
  <2> QED BY <1>4, <2>1, MarksAre DEF Holds
<1>7. ~Quoted(t)
  <2>1. 1 \in 1..Len(e.scheme)
    BY <1>3
  <2> QED BY <1>5, <2>1, <1>4 DEF Quoted, Text
<1>8. "/" \notin ToSet(t)
  <2>1. ASSUME NEW i \in 1..Len(t) PROVE t[i] # "/"
    <3>1. CASE i = Len(t)
      BY <1>6, <3>1
    <3>2. CASE i # Len(t)
      <4>1. i \in 1..Len(e.scheme)
        BY <1>3, <1>4, <3>2
      <4> QED BY <1>5, <4>1
    <3> QED BY <3>1, <3>2
  <2> QED BY <1>4, <2>1, TextDomain DEF ToSet
<1> QED BY <1>2, <1>3, <1>4, <1>5, <1>6, <1>7, <1>8

LEMMA SchemeSourceReadsBack ==
    ASSUME NEW e, GoodScheme(e)
    PROVE  /\ e.scheme \o <<":">> \in Clean
           /\ ParseSource(e.scheme \o <<":">>) = {e}
<1>1. PICK t : t = e.scheme \o Colon
  OBVIOUS
<1>2. e.scheme \in Text /\ IsScheme(e.scheme) /\ Lower(e.scheme) = e.scheme
  BY DEF GoodScheme
<1>3. Len(e.scheme) \in Nat /\ Len(e.scheme) > 0
  BY <1>1, SchemeShape
<1>4. t \in Text /\ Len(t) = Len(e.scheme) + 1 /\ Len(t) \in Nat
  BY <1>1, SchemeShape
<1>5. \A i \in 1..Len(e.scheme) : t[i] = e.scheme[i] /\ t[i] \in PolicyByte
  BY <1>1, SchemeShape
<1>6. t[Len(t)] = ":"
  BY <1>1, SchemeShape
<1>7. ~Quoted(t)
  BY <1>1, SchemeShape
<1>8. "/" \notin ToSet(t)
  BY <1>1, SchemeShape
<1>9. ParseSource(t) = ParseSchemeSource(t)
  <2>1. t # <<>> /\ Last(t) = ":"
    BY <1>3, <1>4, <1>6, TextLen DEF Last
  <2> QED BY <1>7, <1>8, <2>1 DEF ParseSource
<1>10. Front(t) = e.scheme
  <2>1. Len(t) > 0 /\ Len(t) - 1 = Len(e.scheme)
    BY <1>3, <1>4
  <2>2. PICK u : u = Front(t)
    OBVIOUS
  <2>3. u \in Text /\ Len(u) = Len(e.scheme) /\ \A i \in 1..Len(u) : u[i] = t[i]
    BY <1>4, <2>1, <2>2, FrontIs
  <2> QED BY <1>2, <1>5, <2>2, <2>3, TextEqual
<1>11. WithoutSuffix(t, ":") = e.scheme
  BY <1>3, <1>4, <1>6, <1>10, TextLen DEF WithoutSuffix, Last
<1>12. ParseScheme(t) = {e.scheme}
  <2>1. e.scheme # <<>> /\ Head(e.scheme) \in Letters /\ In(e.scheme, SchemeByte)
    BY <1>2 DEF IsScheme, SchemeByte
  <2> QED BY <1>2, <1>11, <2>1 DEF ParseScheme, When
<1>13. ParseSchemeSource(t) = {e}
  <2>1. ParseSchemeSource(t) = [kind : {"Scheme"}, scheme : {e.scheme}]
    BY <1>12 DEF ParseSchemeSource
  <2>2. e = [kind |-> "Scheme", scheme |-> e.scheme]
    BY DEF GoodScheme
  <2>3. [kind : {"Scheme"}, scheme : {e.scheme}] = {[kind |-> "Scheme", scheme |-> e.scheme]}
    BY OneScheme
  <2> QED BY <2>1, <2>2, <2>3
<1>14. t \in Clean
  <2>1. ASSUME NEW i \in 1..Len(t) PROVE t[i] \in PolicyByte
    <3>1. CASE i = Len(t)
      BY <1>6, <3>1, PunctuationMarks, PunctuationIs
    <3>2. CASE i # Len(t)
      <4>1. i \in 1..Len(e.scheme)
        BY <1>3, <1>4, <3>2
      <4> QED BY <1>5, <4>1
    <3> QED BY <3>1, <3>2
  <2> QED BY <1>4, <2>1, IsClean
<1> QED BY <1>1, <1>9, <1>13, <1>14 DEF Colon

\* Texts of words in lower case, with quotes and dashes.
Wording == Vocabulary \cup {"'", "-"}

LEMMA WordingIs ==
    ASSUME NEW x \in Wording
    PROVE  x \in PolicyByte /\ x \in Token /\ Small(x) = x
<1>1. CASE x \in Vocabulary
  <2>1. x \in Word
    BY <1>1 DEF Word
  <2> QED BY <2>1, WordIs, LetterIs, AlphanumericIs
<1>2. CASE x \in {"'", "-"}
  BY <1>2, PunctuationMarks, PunctuationIs, SmallMark
<1> QED BY <1>1, <1>2 DEF Wording

LEMMA WordsAre ==
    ASSUME NEW t \in Seq(Wording)
    PROVE  t \in Clean /\ t \in Text /\ Lower(t) = t
<1>1. \A i \in 1..Len(t) : t[i] \in Wording
  BY TextIs
<1>2. In(t, Token)
  BY <1>1, InIs, WordingIs
<1>3. t \in Text
  BY <1>2, InSeq DEF Text
<1>4. \A i \in 1..Len(t) : t[i] \in PolicyByte /\ Small(t[i]) = t[i]
  BY <1>1, WordingIs
<1> QED BY <1>3, <1>4, IsClean, LowerSame

IsQuotedWord(t) ==
    /\ t \in Seq(Wording) /\ Len(t) >= 3 /\ t[1] = "'" /\ t[Len(t)] = "'"
    /\ t[2] \notin HashAlgorithm \cup {"nonce"}

LEMMA KeywordsAre ==
    ASSUME NEW t \in KeywordText
    PROVE  IsQuotedWord(t)
<1>1. CASE t = <<"'", "self", "'">>
  BY <1>1 DEF IsQuotedWord, Wording, Vocabulary, HashAlgorithm
<1>2. CASE t = <<"'", "unsafe", "-", "inline", "'">>
  BY <1>2 DEF IsQuotedWord, Wording, Vocabulary, HashAlgorithm
<1>3. CASE t = <<"'", "unsafe", "-", "eval", "'">>
  BY <1>3 DEF IsQuotedWord, Wording, Vocabulary, HashAlgorithm
<1>4. CASE t = <<"'", "wasm", "-", "unsafe", "-", "eval", "'">>
  BY <1>4 DEF IsQuotedWord, Wording, Vocabulary, HashAlgorithm
<1>5. CASE t = <<"'", "unsafe", "-", "hashes", "'">>
  BY <1>5 DEF IsQuotedWord, Wording, Vocabulary, HashAlgorithm
<1>6. CASE t = <<"'", "strict", "-", "dynamic", "'">>
  BY <1>6 DEF IsQuotedWord, Wording, Vocabulary, HashAlgorithm
<1>7. CASE t = <<"'", "report", "-", "sample", "'">>
  BY <1>7 DEF IsQuotedWord, Wording, Vocabulary, HashAlgorithm
<1>8. CASE t = <<"'", "inline", "-", "speculation", "-", "rules", "'">>
  BY <1>8 DEF IsQuotedWord, Wording, Vocabulary, HashAlgorithm
<1> QED BY <1>1, <1>2, <1>3, <1>4, <1>5, <1>6, <1>7, <1>8 DEF KeywordText

LEMMA QuotedIs ==
    ASSUME NEW t \in Text
    PROVE  Quoted(t) <=> Len(t) >= 2 /\ t[1] = "'" /\ t[Len(t)] = "'"
<1>1. Len(t) >= 2 => Head(t) = t[1]
  BY TextLen DEF Text
<1> QED BY <1>1 DEF Quoted, Last

GoodKeyword(e) == e = [kind |-> "Keyword", text |-> e.text] /\ e.text \in KeywordText

LEMMA KeywordsGood ==
    ASSUME NEW t, NEW e \in ParseKeyword(t)
    PROVE  GoodKeyword(e) /\ e.text = Lower(t)
<1>1. e \in [kind : {"Keyword"}, text : {Lower(t)} \cap KeywordText]
  BY DEF ParseKeyword
<1> QED BY <1>1 DEF GoodKeyword

LEMMA KeywordReadsBack ==
    ASSUME NEW e, GoodKeyword(e)
    PROVE  e.text \in Clean /\ ParseSource(e.text) = {e}
<1>1. PICK t : t = e.text
  OBVIOUS
<1>2. t \in KeywordText /\ IsQuotedWord(t)
  BY <1>1, KeywordsAre DEF GoodKeyword
<1>3. t \in Clean /\ t \in Text /\ Lower(t) = t
  BY <1>2, WordsAre DEF IsQuotedWord
<1>4. Quoted(t)
  <2>1. Len(t) \in Nat /\ Len(t) >= 3
    BY <1>2, <1>3, TextLen DEF IsQuotedWord
  <2> QED BY <1>2, <1>3, <2>1, QuotedIs DEF IsQuotedWord
<1>5. ParseKeyword(t) = [kind : {"Keyword"}, text : {t}]
  <2>1. {Lower(t)} \cap KeywordText = {t}
    BY <1>2, <1>3
  <2> QED BY <2>1 DEF ParseKeyword
<1>6. ParseKeyword(t) = {e}
  <2>1. e = [kind |-> "Keyword", text |-> t]
    BY <1>1 DEF GoodKeyword
  <2> QED BY <1>5, <2>1, OneText
<1>7. ParseSource(t) = ParseKeyword(t)
  BY <1>4, <1>6 DEF ParseSource, ParseQuoted
<1> QED BY <1>1, <1>3, <1>6, <1>7

\* What is between the quotes of a nonce or a digest: a word, a dash and a value.
Tagged(a, v) == <<"'", a, "-">> \o v \o <<"'">>

LEMMA TaggedIs ==
    ASSUME NEW a \in Token, NEW v \in Text, NEW t, t = Tagged(a, v)
    PROVE  /\ t \in Text /\ Len(t) = Len(v) + 4
           /\ t[1] = "'" /\ t[2] = a /\ t[3] = "-" /\ t[Len(t)] = "'"
           /\ Holds(t, 3, v)
<1>1. PICK x : x = <<"'", a, "-">>
  OBVIOUS
<1>2. PICK y : y = <<"'">>
  OBVIOUS
<1>3. /\ x \in Text /\ Len(x) = 3 /\ x[1] = "'" /\ x[2] = a /\ x[3] = "-"
      /\ y \in Text /\ Len(y) = 1 /\ y[1] = "'"
  <2>1. "'" \in Token /\ "-" \in Token
    BY PunctuationMarks, PunctuationIs
  <2> QED BY <1>1, <1>2, <2>1 DEF Text
<1>4. PICK z : z = x \o v
  OBVIOUS
<1>5. t = z \o y
  BY <1>1, <1>2, <1>4 DEF Tagged
<1>6. z \in Text /\ Len(z) = Len(x) + Len(v) /\ Holds(z, 0, x) /\ Holds(z, Len(x), v)
  BY <1>3, <1>4, JoinedHolds
<1>7. t \in Text /\ Len(t) = Len(z) + Len(y) /\ Holds(t, 0, z) /\ Holds(t, Len(z), y)
  BY <1>3, <1>5, <1>6, JoinedHolds
<1>8. Len(v) \in Nat /\ Len(z) \in Nat /\ Len(t) \in Nat
  BY <1>6, <1>7, TextLen
<1>9. Holds(t, 0, x)
  BY <1>3, <1>6, <1>7, HeldWithin
<1>10. Holds(t, 3, v)
  <2>1. Len(x) \in Nat /\ Len(x) = 0 + Len(x) /\ Len(x) = 3
    BY <1>3
  <2>2. Holds(t, Len(x), v)
    BY <1>6, <1>7, <2>1, HeldWithin
  <2> QED BY <2>1, <2>2
<1>11. t[1] = "'" /\ t[2] = a /\ t[3] = "-"
  <2>1. \A i \in 1..3 : t[0 + i] = x[i]
    BY <1>3, <1>9 DEF Holds
  <2>2. t[0 + 1] = x[1] /\ t[0 + 2] = x[2] /\ t[0 + 3] = x[3]
    BY <2>1
  <2> QED BY <1>3, <2>2
<1>12. Len(t) = Len(v) + 4 /\ Len(t) = Len(z) + 1
  BY <1>3, <1>6, <1>7, <1>8
<1>13. t[Len(t)] = "'"
  <2>1. 1 \in 1..Len(y)
    BY <1>3
  <2>2. t[Len(z) + 1] = y[1]
    BY <1>7, <2>1 DEF Holds
  <2> QED BY <1>3, <1>12, <2>2
<1> QED BY <1>7, <1>10, <1>11, <1>12, <1>13

LEMMA UnquotedIs ==
    ASSUME NEW t \in Text, Quoted(t), NEW w, w = Unquote(t)
    PROVE  /\ w \in Text /\ Len(w) = Len(t) - 2
           /\ \A i \in 1..Len(w) : w[i] = t[i + 1]
<1>0. Len(t) \in Nat /\ Len(t) >= 2
  BY TextLen DEF Quoted
<1>1. w = SubSeq(t, 2, Len(t) - 1)
  BY DEF Unquote
<1>2. PICK c, d \in Nat : c = 1 /\ c + 1 = 2 /\ d = Len(t) - 1 /\ c <= d /\ d <= Len(t)
  BY <1>0
<1>3. w = SubSeq(t, c + 1, d) /\ c <= d /\ d <= Len(t)
  BY <1>1, <1>2
<1>4. w \in Text /\ Len(w) = d - c /\ After(w, t, c)
  BY <1>3, PartAfter
<1>5. \A i \in 1..Len(w) : w[i] = t[i + 1]
  <2>1. ASSUME NEW i \in 1..Len(w) PROVE w[i] = t[i + 1]
    <3>1. w[i] = t[c + i] /\ c + i = i + 1
      BY <1>2, <1>4 DEF After
    <3> QED BY <3>1
  <2> QED BY <2>1
<1> QED BY <1>0, <1>2, <1>4, <1>5

LEMMA TaggedBody ==
    ASSUME NEW a \in Token, NEW v \in Text, NEW t, t = Tagged(a, v), NEW w, w = Unquote(t)
    PROVE  /\ t \in Text /\ Quoted(t)
           /\ w \in Text /\ Len(w) = Len(v) + 2 /\ w[1] = a /\ w[2] = "-"
           /\ From(w, 3) = v
<1>1. /\ t \in Text /\ Len(t) = Len(v) + 4 /\ t[1] = "'" /\ t[2] = a /\ t[3] = "-"
      /\ t[Len(t)] = "'" /\ Holds(t, 3, v)
  BY TaggedIs
<1>2. Len(v) \in Nat
  BY TextLen
<1>3. Quoted(t)
  BY <1>1, <1>2, QuotedIs
<1>4. w \in Text /\ Len(w) = Len(t) - 2 /\ \A i \in 1..Len(w) : w[i] = t[i + 1]
  BY <1>1, <1>3, UnquotedIs
<1>5. Len(w) = Len(v) + 2
  BY <1>1, <1>2, <1>4
<1>6. w[1] = a /\ w[2] = "-"
  <2>1. 1 \in 1..Len(w) /\ 2 \in 1..Len(w)
    BY <1>2, <1>5
  <2>2. w[1] = t[1 + 1] /\ w[2] = t[2 + 1]
    BY <1>4, <2>1
  <2> QED BY <1>1, <2>2
<1>7. Holds(w, 2, v)
  <2>1. ASSUME NEW i \in 1..Len(v) PROVE w[2 + i] = v[i]
    <3>1. 2 + i \in 1..Len(w) /\ (2 + i) + 1 = 3 + i
      BY <1>2, <1>5
    <3>2. w[2 + i] = t[(2 + i) + 1]
      BY <1>4, <3>1
    <3> QED BY <1>1, <3>1, <3>2 DEF Holds
  <2> QED BY <1>2, <1>5, <2>1 DEF Holds
<1>8. From(w, 3) = v
  <2>1. PICK c \in Nat : c = 2 /\ c + 1 = 3
    OBVIOUS
  <2>2. Holds(w, c, v) /\ Len(w) = c + Len(v)
    BY <1>2, <1>5, <1>7, <2>1
  <2>3. From(w, c + 1) = v
    BY <1>4, <2>2, HeldEnd
  <2> QED BY <2>1, <2>3
<1> QED BY <1>1, <1>3, <1>4, <1>5, <1>6, <1>8

\* Padding.
LEMMA UnpaddedIs ==
    ASSUME NEW t \in Text
    PROVE  \E m \in 0..Len(t) :
              /\ Unpadded(t) = SubSeq(t, 1, m)
              /\ m # 0 => t[m] # "="
              /\ \A i \in (m + 1)..Len(t) : t[i] = "="
<1> DEFINE S == {0} \cup {i \in DOMAIN t : t[i] # "="}
           m == Max(S)
<1>0. Len(t) \in Nat
  BY TextLen
<1>1. S \subseteq 0..Len(t)
  BY <1>0, TextDomain
<1>2. m \in S /\ \A k \in S : k <= m
  <2>1. S \in SUBSET Nat /\ S # {} /\ \A k \in S : k <= Len(t)
    BY <1>0, <1>1
  <2> HIDE DEF S
  <2> QED BY <1>0, <2>1, GreatestIs
<1>3. Unpadded(t) = SubSeq(t, 1, m)
  BY DEF Unpadded, TrimmedEnd
<1>4. m # 0 => t[m] # "="
  <2> HIDE DEF m
  <2> QED BY <1>2
<1>5. m \in 0..Len(t)
  BY <1>1, <1>2
<1>6. ASSUME NEW i \in (m + 1)..Len(t) PROVE t[i] = "="
  <2> HIDE DEF m
  <2>1. i \in 1..Len(t) /\ ~(i <= m)
    BY <1>0, <1>5
  <2> QED BY <1>2, <2>1, TextDomain
<1> HIDE DEF m
<1> QED BY <1>3, <1>4, <1>5, <1>6

LEMMA UnpaddedAt ==
    ASSUME NEW t \in Text, NEW m \in 0..Len(t), m # 0 => t[m] # "=",
           \A i \in (m + 1)..Len(t) : t[i] = "="
    PROVE  Unpadded(t) = SubSeq(t, 1, m)
<1>0. Len(t) \in Nat
  BY TextLen
<1>1. PICK k \in 0..Len(t) : /\ Unpadded(t) = SubSeq(t, 1, k)
                             /\ k # 0 => t[k] # "="
                             /\ \A i \in (k + 1)..Len(t) : t[i] = "="
  BY UnpaddedIs
<1>2. ASSUME k < m PROVE FALSE
  <2>1. m \in (k + 1)..Len(t) /\ m # 0
    BY <1>0, <1>2
  <2> QED BY <1>1, <2>1
<1>3. ASSUME m < k PROVE FALSE
  <2>1. k \in (m + 1)..Len(t) /\ k # 0
    BY <1>0, <1>3
  <2> QED BY <1>1, <2>1
<1>4. k = m
  BY <1>2, <1>3
<1> QED BY <1>1, <1>4

LEMMA BeginsIs ==
    ASSUME NEW t \in Text, NEW m \in 0..Len(t), NEW u, u = SubSeq(t, 1, m)
    PROVE  u \in Text /\ Len(u) = m /\ \A i \in 1..m : u[i] = t[i]
<1>0. Len(t) \in Nat
  BY TextLen
<1>1. PICK c \in Nat : c = 0 /\ c + 1 = 1 /\ c <= m /\ m <= Len(t) /\ m \in Nat
  BY <1>0
<1>2. u = SubSeq(t, c + 1, m) /\ c <= m /\ m <= Len(t) /\ m \in Nat
  BY <1>1
<1>3. u \in Text /\ Len(u) = m - c /\ After(u, t, c)
  BY <1>2, PartAfter
<1>4. ASSUME NEW i \in 1..m PROVE u[i] = t[i]
  <2>1. u[i] = t[c + i] /\ c + i = i
    BY <1>1, <1>3, <1>4 DEF After
  <2> QED BY <2>1
<1> QED BY <1>1, <1>3, <1>4

\* A base64 text: so many characters and at most two of padding.
IsPaddedAt(t, m) ==
    /\ m \in 0..Len(t) /\ Len(t) - m <= 2
    /\ \A i \in 1..m : t[i] \in Base64Char
    /\ \A i \in (m + 1)..Len(t) : t[i] = "="

LEMMA Base64Is ==
    ASSUME NEW t \in Text
    PROVE  /\ IsBase64(t) => \E m : IsPaddedAt(t, m)
           /\ \A m : IsPaddedAt(t, m) =>
                IsBase64(t) /\ Unpadded(t) = SubSeq(t, 1, m) /\ Len(Unpadded(t)) = m
<1>0. Len(t) \in Nat
  BY TextLen
<1>1. ASSUME IsBase64(t) PROVE \E m : IsPaddedAt(t, m)
  <2>1. PICK m \in 0..Len(t) : /\ Unpadded(t) = SubSeq(t, 1, m)
                               /\ \A i \in (m + 1)..Len(t) : t[i] = "="
    BY UnpaddedIs
  <2>2. PICK u : u = Unpadded(t)
    OBVIOUS
  <2>3. u \in Text /\ Len(u) = m /\ \A i \in 1..m : u[i] = t[i]
    BY <2>1, <2>2, BeginsIs
  <2>4. In(u, Base64Char) /\ Len(t) - Len(u) <= 2
    BY <1>1, <2>2 DEF IsBase64
  <2>5. \A i \in 1..Len(u) : u[i] \in Base64Char
    BY <2>3, <2>4, InIs DEF Text
  <2>6. IsPaddedAt(t, m)
    BY <2>1, <2>3, <2>4, <2>5 DEF IsPaddedAt
  <2> QED BY <2>6
<1>2. ASSUME NEW m, IsPaddedAt(t, m)
      PROVE  IsBase64(t) /\ Unpadded(t) = SubSeq(t, 1, m) /\ Len(Unpadded(t)) = m
  <2>1. m \in 0..Len(t) /\ \A i \in (m + 1)..Len(t) : t[i] = "="
    BY <1>2 DEF IsPaddedAt
  <2>2. m # 0 => t[m] # "="
    <3>1. m # 0 => m \in 1..m
      BY <2>1
    <3> QED BY <1>2, <3>1, Base64CharIs DEF IsPaddedAt
  <2>3. Unpadded(t) = SubSeq(t, 1, m)
    BY <2>1, <2>2, UnpaddedAt
  <2>4. PICK u : u = Unpadded(t)
    OBVIOUS
  <2>5. u \in Text /\ Len(u) = m /\ \A i \in 1..m : u[i] = t[i]
    BY <2>1, <2>3, <2>4, BeginsIs
  <2>6. In(u, Base64Char)
    <3>1. \A i \in 1..Len(u) : u[i] \in Base64Char
      BY <1>2, <2>5 DEF IsPaddedAt
    <3> QED BY <2>5, <3>1, InIs DEF Text
  <2>7. IsBase64(t)
    BY <1>2, <2>4, <2>5, <2>6 DEF IsBase64, IsPaddedAt
  <2> QED BY <2>3, <2>4, <2>5, <2>7
<1> QED BY <1>1, <1>2

LEMMA Base64Clean ==
    ASSUME NEW t \in Text, IsBase64(t)
    PROVE  t \in Clean
<1>0. Len(t) \in Nat
  BY TextLen
<1>1. PICK m : IsPaddedAt(t, m)
  BY Base64Is
<1>2. ASSUME NEW i \in 1..Len(t) PROVE t[i] \in PolicyByte
  <2>1. CASE i <= m
    <3>1. i \in 1..m
      BY <1>0, <1>1, <2>1 DEF IsPaddedAt
    <3> QED BY <1>1, <3>1, Base64CharIs DEF IsPaddedAt
  <2>2. CASE ~(i <= m)
    <3>1. i \in (m + 1)..Len(t)
      BY <1>0, <1>1, <2>2 DEF IsPaddedAt
    <3> QED BY <1>1, <3>1, PunctuationMarks, PunctuationIs DEF IsPaddedAt
  <2> QED BY <2>1, <2>2
<1> QED BY <1>2, IsClean

-----------------------------------------------------------------------------
(***************************************************************************)
(* The length of a text: the bytes of its tokens, one after another.       *)
(***************************************************************************)
AreLengths(t, f) ==
    /\ f \in [0..Len(t) -> Nat]
    /\ f[0] = 0
    /\ \A i \in 1..Len(t) : f[i] = f[i - 1] + Size(t[i])

LEMMA LengthIs ==
    ASSUME NEW t \in Text
    PROVE  \E f : AreLengths(t, f) /\ Length(t) = f[Len(t)]
<1> DEFINE n == Len(t)
           Round(f) == [i \in 0..n |-> IF i = 0 THEN 0 ELSE f[i - 1] + Size(t[i])]
           length == CHOOSE f : f = Round(f)
           step == [x \in Nat \X (1..n) |-> x[1] + Size(t[x[2]])]
<1>0. n \in Nat
  BY TextLen
<1>1. Length(t) = length[n]
  BY DEF Length
<1>2. ASSUME NEW i \in 1..n PROVE Size(t[i]) \in Nat
  BY TextDomain, TokenSizes
<1>3. PICK g : IsRecord(Nat, n, 0, step, g)
  <2>1. IsRound(Nat, n, step)
    <3> HIDE DEF n
    <3> QED BY <1>2 DEF IsRound
  <2> HIDE DEF n, step
  <2> QED BY <1>0, <2>1, IterationExists
<1>4. g \in [0..n -> Nat] /\ g[0] = 0
  BY <1>3 DEF IsRecord
<1>5. ASSUME NEW i \in 1..n PROVE g[i] = g[i - 1] + Size(t[i])
  <2>1. g[i - 1] \in Nat
    <3> HIDE DEF n
    <3> QED BY <1>0, <1>4
  <2>2. g[i] = step[<<g[i - 1], i>>]
    <3> HIDE DEF n, step
    <3> QED BY <1>3 DEF IsRecord
  <2> HIDE DEF n
  <2> QED BY <2>1, <2>2
<1>6. g = Round(g)
  <2>1. ASSUME NEW i \in 0..n PROVE g[i] = Round(g)[i]
    <3>1. CASE i = 0
      BY <1>4, <3>1
    <3>2. CASE i # 0
      BY <1>5, <3>2
    <3> QED BY <3>1, <3>2
  <2>2. g = [i \in 0..n |-> g[i]] /\ DOMAIN Round(g) = 0..n
    BY <1>4
  <2>3. Round(g) = [i \in 0..n |-> Round(g)[i]]
    OBVIOUS
  <2> HIDE DEF Round, n
  <2> QED BY <2>1, <2>2, <2>3
<1>7. length = Round(length)
  <2> HIDE DEF Round, n
  <2> QED BY <1>6
<1>8. length[0] = 0 /\ \A i \in 1..n : length[i] = length[i - 1] + Size(t[i])
  <2> HIDE DEF length
  <2>1. \A i \in 0..n : length[i] = Round(length)[i]
    BY <1>7
  <2>2. length[0] = 0
    BY <1>0, <2>1
  <2>3. ASSUME NEW i \in 1..n PROVE length[i] = length[i - 1] + Size(t[i])
    BY <1>0, <2>1
  <2> QED BY <2>2, <2>3
<1>9. length \in [0..n -> Nat]
  <2> DEFINE Good == {i \in 0..n : length[i] \in Nat}
  <2> HIDE DEF length
  <2>1. 0 \in Good
    <3> HIDE DEF n
    <3> QED BY <1>0, <1>8
  <2>2. ASSUME NEW i \in 1..n, i - 1 \in Good PROVE i \in Good
    <3> HIDE DEF n
    <3> QED BY <1>0, <1>2, <1>8, <2>2
  <2>3. \A i \in 0..n : i \in Good
    <3> HIDE DEF Good
    <3> QED BY <1>0, <2>1, <2>2, InductionUpTo
  <2>4. length = [i \in 0..n |-> length[i]]
    <3>1. length = [i \in 0..n |-> Round(length)[i]]
      BY <1>7
    <3>2. [i \in 0..n |-> Round(length)[i]] = [i \in 0..n |-> length[i]]
      BY <1>7
    <3> QED BY <3>1, <3>2
  <2> HIDE DEF n
  <2> QED BY <2>3, <2>4
<1> HIDE DEF length
<1> QED BY <1>1, <1>8, <1>9 DEF AreLengths

\* The padding of a text counts for one byte a token.
LEMMA PaddingLength ==
    ASSUME NEW t \in Text, NEW m \in 0..Len(t), \A i \in (m + 1)..Len(t) : t[i] = "="
    PROVE  /\ Length(t) \in Nat /\ Length(SubSeq(t, 1, m)) \in Nat
           /\ Length(t) = Length(SubSeq(t, 1, m)) + (Len(t) - m)
<1>0. Len(t) \in Nat /\ m \in Nat /\ m <= Len(t)
  BY TextLen
<1>1. PICK u : u = SubSeq(t, 1, m)
  OBVIOUS
<1>2. u \in Text /\ Len(u) = m /\ \A i \in 1..m : u[i] = t[i]
  BY <1>1, BeginsIs
<1>3. PICK f : AreLengths(t, f) /\ Length(t) = f[Len(t)]
  BY LengthIs
<1>4. PICK g : AreLengths(u, g) /\ Length(u) = g[Len(u)]
  BY <1>2, LengthIs
<1>5. \A i \in 0..m : f[i] = g[i]
  <2> DEFINE Same == {i \in 0..m : f[i] = g[i]}
  <2>1. 0 \in Same
    BY <1>0, <1>3, <1>4 DEF AreLengths
  <2>2. ASSUME NEW i \in 1..m, i - 1 \in Same PROVE i \in Same
    <3>1. i \in 1..Len(t) /\ i \in 1..Len(u)
      BY <1>0, <1>2
    <3>2. f[i] = f[i - 1] + Size(t[i]) /\ g[i] = g[i - 1] + Size(u[i]) /\ u[i] = t[i]
      BY <1>2, <1>3, <1>4, <3>1 DEF AreLengths
    <3> QED BY <2>2, <3>2
  <2>3. \A i \in 0..m : i \in Same
    <3> HIDE DEF Same
    <3> QED BY <1>0, <2>1, <2>2, InductionUpTo
  <2> QED BY <2>3
<1>6. \A k \in 0..(Len(t) - m) : f[m + k] = f[m] + k
  <2> DEFINE n == Len(t) - m
             Same == {k \in 0..n : f[m + k] = f[m] + k}
  <2>1. n \in Nat
    BY <1>0
  <2>2. f[m] \in Nat
    BY <1>0, <1>3 DEF AreLengths
  <2>3. 0 \in Same
    <3>1. m + 0 = m /\ f[m] + 0 = f[m]
      BY <1>0, <2>2
    <3> HIDE DEF n
    <3> QED BY <2>1, <3>1
  <2>4. ASSUME NEW k \in 1..n, k - 1 \in Same PROVE k \in Same
    <3>1. /\ m + k \in 1..Len(t) /\ m + k \in (m + 1)..Len(t)
          /\ (m + k) - 1 = m + (k - 1) /\ k \in Nat /\ k \in 0..n
      BY <1>0
    <3>2. f[m + k] = f[(m + k) - 1] + Size(t[m + k])
      BY <1>3, <3>1 DEF AreLengths
    <3>3. t[m + k] = "=" /\ Size("=") = 1
      BY <3>1, TokenSizes
    <3>4. f[m + (k - 1)] = f[m] + (k - 1)
      BY <2>4
    <3>5. f[m + k] = (f[m] + (k - 1)) + 1
      BY <3>1, <3>2, <3>3, <3>4
    <3>6. f[m + k] = f[m] + k
      BY <2>2, <3>1, <3>5
    <3> HIDE DEF n
    <3> QED BY <3>1, <3>6
  <2>5. \A k \in 0..n : k \in Same
    <3> HIDE DEF Same, n
    <3> QED BY <2>1, <2>3, <2>4, InductionUpTo
  <2> QED BY <2>5
<1>7. f[Len(t)] = f[m] + (Len(t) - m)
  <2>1. Len(t) - m \in 0..(Len(t) - m) /\ m + (Len(t) - m) = Len(t)
    BY <1>0
  <2> QED BY <1>6, <2>1
<1>8. f[m] = g[m] /\ f[m] \in Nat /\ f[Len(t)] \in Nat
  <2>1. m \in 0..m /\ m \in 0..Len(t) /\ Len(t) \in 0..Len(t)
    BY <1>0
  <2> QED BY <1>3, <1>5, <2>1 DEF AreLengths
<1> QED BY <1>1, <1>2, <1>3, <1>4, <1>7, <1>8

LEMMA OneTokenLength ==
    ASSUME NEW x \in Token
    PROVE  Length(<<x>>) = Size(x)
<1>1. PICK t : t = <<x>>
  OBVIOUS
<1>2. t \in Text /\ Len(t) = 1 /\ t[1] = x
  BY <1>1 DEF Text
<1>3. PICK f : AreLengths(t, f) /\ Length(t) = f[Len(t)]
  BY <1>2, LengthIs
<1>4. f[0] = 0 /\ f[1] = f[1 - 1] + Size(t[1])
  BY <1>2, <1>3 DEF AreLengths
<1>5. Size(x) \in Nat
  BY TokenSizes
<1>6. Length(t) = Size(x)
  BY <1>2, <1>3, <1>4, <1>5
<1> QED BY <1>1, <1>6

-----------------------------------------------------------------------------
(***************************************************************************)
(* The lengths of base64 text.  The lengths csp-policy computes in two     *)
(* ways agree for any number of bytes: what encode of base64.rs emits,     *)
(* group by group, is what hash.rs expects by rounded divisions.           *)
(***************************************************************************)
\* A number is so many whole groups of three and a remainder.
LEMMA Groups ==
    ASSUME NEW n \in Nat
    PROVE  \E q, r \in Nat : /\ r < 3 /\ n = 3 * q + r
                             /\ n \div 3 = q /\ n % 3 = r
<1>1. n \div 3 \in Nat /\ n % 3 \in Nat
  BY SMT
<1>2. n % 3 < 3 /\ n = 3 * (n \div 3) + (n % 3)
  BY SMT
<1> QED
  BY <1>1, <1>2

\* What is emitted for q groups and a remainder of r bytes.
LEMMA Emitted ==
    ASSUME NEW n \in Nat, NEW q \in Nat, NEW r \in Nat,
           r < 3, n = 3 * q + r, n \div 3 = q, n % 3 = r
    PROVE  /\ ContentLen(n) = 4 * q + (IF r = 0 THEN 0 ELSE r + 1)
           /\ PaddingLen(n) = IF r = 0 THEN 0 ELSE 3 - r
<1>1. CASE r = 0
  <2>1. (3 - (n % 3)) % 3 = 0
    BY <1>1, SMT
  <2> QED
    BY <1>1, <2>1, SMT DEF ContentLen, PaddingLen
<1>2. CASE r = 1
  <2>1. (3 - (n % 3)) % 3 = 2
    BY <1>2, SMT
  <2> QED
    BY <1>2, <2>1, SMT DEF ContentLen, PaddingLen
<1>3. CASE r = 2
  <2>1. (3 - (n % 3)) % 3 = 1
    BY <1>3, SMT
  <2> QED
    BY <1>3, <2>1, SMT DEF ContentLen, PaddingLen
<1> QED
  BY <1>1, <1>2, <1>3, SMT

\* The rounded division of four times the bytes by three counts the characters of the
\* encoding (HashAlgorithm::unpadded_len and encode).
THEOREM UnpaddedIsContent ==
    \A n \in Nat : UnpaddedLen(n) = ContentLen(n)
<1> SUFFICES ASSUME NEW n \in Nat
             PROVE  UnpaddedLen(n) = ContentLen(n)
  OBVIOUS
<1>1. PICK q, r \in Nat : r < 3 /\ n = 3 * q + r /\ n \div 3 = q /\ n % 3 = r
  BY Groups
<1>2. ContentLen(n) = 4 * q + (IF r = 0 THEN 0 ELSE r + 1)
  BY <1>1, Emitted
<1>3. UnpaddedLen(n) = (12 * q + 4 * r + 2) \div 3
  BY <1>1, SMT DEF UnpaddedLen, CeilDiv
<1> QED
  BY <1>1, <1>2, <1>3, SMT

\* The rounded division of the bytes by three counts the groups of the encoding, with
\* what completes the last one (HashAlgorithm::padded_len and encode).
THEOREM PaddedIsTheWhole ==
    \A n \in Nat : PaddedLen(n) = ContentLen(n) + PaddingLen(n) /\ PaddingLen(n) \in 0..2
<1> SUFFICES ASSUME NEW n \in Nat
             PROVE  PaddedLen(n) = ContentLen(n) + PaddingLen(n) /\ PaddingLen(n) \in 0..2
  OBVIOUS
<1>1. PICK q, r \in Nat : r < 3 /\ n = 3 * q + r /\ n \div 3 = q /\ n % 3 = r
  BY Groups
<1>2. /\ ContentLen(n) = 4 * q + (IF r = 0 THEN 0 ELSE r + 1)
      /\ PaddingLen(n) = IF r = 0 THEN 0 ELSE 3 - r
  BY ZenonT(60), <1>1, Emitted
<1>3. PaddedLen(n) = 4 * ((3 * q + r + 2) \div 3)
  BY <1>1, SMT DEF PaddedLen, CeilDiv
<1>4. (3 * q + r + 2) \div 3 = IF r = 0 THEN q ELSE q + 1
  BY <1>1, SMT
<1> QED
  BY <1>1, <1>2, <1>3, <1>4, SMT

\* The floor on the characters of a nonce is exact: so many characters of six bits carry
\* 128 bits and one fewer does not (MIN_NONCE_CHARS).
THEOREM NonceFloorIsExact ==
    \A chars \in Nat : chars >= MinNonceChars <=> 6 * chars >= 128
<1>1. MinNonceChars = 22
  BY SMT DEF MinNonceChars, CeilDiv
<1> QED
  BY <1>1, SMT

\* A nonce minted from any number of bytes that compiles is one that NonceSource::parse
\* accepts (from_entropy and MIN_NONCE_CHARS).
THEOREM MintedNoncesAreAccepted ==
    \A bytes \in Nat : bytes * 8 >= 128 => ContentLen(bytes) >= MinNonceChars
<1> SUFFICES ASSUME NEW bytes \in Nat, bytes * 8 >= 128
             PROVE  ContentLen(bytes) >= MinNonceChars
  OBVIOUS
<1>1. PICK q, r \in Nat : /\ r < 3 /\ bytes = 3 * q + r
                          /\ bytes \div 3 = q /\ bytes % 3 = r
  BY Groups
<1>2. ContentLen(bytes) = 4 * q + (IF r = 0 THEN 0 ELSE r + 1)
  BY <1>1, Emitted
<1>3. ContentLen(bytes) \in Nat /\ 6 * ContentLen(bytes) >= 8 * bytes
  BY <1>1, <1>2, SMT
<1>4. 6 * ContentLen(bytes) >= 128
  BY <1>3, SMT
<1> QED
  BY <1>3, <1>4, NonceFloorIsExact

-----------------------------------------------------------------------------
(***************************************************************************)
(* Nonces and digests: what is accepted or encoded reads back.             *)
(***************************************************************************)
GoodNonce(e) ==
    /\ e = [kind |-> "Nonce", value |-> e.value]
    /\ e.value \in Text /\ IsBase64(e.value) /\ Length(Unpadded(e.value)) >= MinNonceChars

GoodHash(e) ==
    /\ e = [kind |-> "Hash", algorithm |-> e.algorithm, value |-> e.value]
    /\ e.algorithm \in HashAlgorithm
    /\ e.value \in Text /\ IsBase64(e.value)
    /\ Length(e.value) \in {UnpaddedLen(DigestLen[e.algorithm]),
                            PaddedLen(DigestLen[e.algorithm])}

LEMMA TagsAre ==
    ASSUME NEW a \in HashAlgorithm \cup {"nonce"}
    PROVE  a \in PolicyByte /\ a \in Token /\ Small(a) = a /\ a # "-"
<1>1. a \in Wording
  BY DEF Wording, Vocabulary, HashAlgorithm
<1>2. a # "-"
  BY DEF HashAlgorithm
<1> QED BY <1>1, <1>2, WordingIs

LEMMA TaggedClean ==
    ASSUME NEW a \in HashAlgorithm \cup {"nonce"}, NEW v \in Clean
    PROVE  Tagged(a, v) \in Clean
<1>1. <<"'", a, "-">> \in Clean /\ <<"'">> \in Clean
  <2>1. "'" \in PolicyByte /\ "-" \in PolicyByte
    BY PunctuationMarks, PunctuationIs
  <2> QED BY <2>1, TagsAre DEF Clean
<1>2. <<"'", a, "-">> \o v \in Clean
  BY <1>1, CleanJoined
<1> QED BY <1>1, <1>2, CleanJoined DEF Tagged

\* No keyword begins like a nonce or a digest.
LEMMA TaggedIsNoKeyword ==
    ASSUME NEW a \in HashAlgorithm \cup {"nonce"}, NEW v \in Text, NEW t, t = Tagged(a, v)
    PROVE  ParseKeyword(t) = {}
<1>1. a \in Token /\ Small(a) = a
  BY TagsAre
<1>2. t \in Text /\ Len(t) = Len(v) + 4 /\ t[2] = a
  BY <1>1, TaggedIs
<1>3. PICK u : u = Lower(t)
  OBVIOUS
<1>4. u[2] = a
  <2>1. 2 \in 1..Len(t)
    BY <1>2, TextLen
  <2>2. u[2] = Small(t[2])
    BY <1>2, <1>3, <2>1, LowerIs
  <2> QED BY <1>1, <1>2, <2>2
<1>5. u \notin KeywordText
  BY <1>4, KeywordsAre DEF IsQuotedWord
<1> QED BY <1>3, <1>5 DEF ParseKeyword

NoncePrefix == <<"nonce", "-">>

LEMMA NoncePrefixIs ==
    ASSUME NEW w \in Text
    PROVE  /\ NoncePrefix \in Text /\ Len(NoncePrefix) = 2
           /\ IsPrefix(NoncePrefix, w) <=> Len(w) >= 2 /\ w[1] = "nonce" /\ w[2] = "-"
<1>1. "nonce" \in Token /\ "-" \in Token
  BY TagsAre, PunctuationMarks, PunctuationIs
<1>2. /\ NoncePrefix \in Text /\ Len(NoncePrefix) = 2
      /\ NoncePrefix[1] = "nonce" /\ NoncePrefix[2] = "-"
  BY <1>1 DEF NoncePrefix, Text
<1>3. IsPrefix(NoncePrefix, w)
        <=> Len(NoncePrefix) <= Len(w) /\ \A k \in 1..Len(NoncePrefix) : w[k] = NoncePrefix[k]
  BY <1>2, PrefixIs DEF Text
<1>4. Len(w) \in Nat
  BY TextLen
<1> QED BY <1>2, <1>3, <1>4

LEMMA NonceParsed ==
    ASSUME NEW t, NEW w, w = Unquote(t), NEW v, v = WithoutPrefix(w, NoncePrefix)
    PROVE  ParseNonce(t) = [kind : {"Nonce"},
              value : When(IsBase64(v) /\ Length(Unpadded(v)) >= MinNonceChars, v)]
  BY DEF ParseNonce, NoncePrefix

LEMMA UnquoteIsText ==
    ASSUME NEW t \in Text
    PROVE  Unquote(t) \in Text
<1>1. CASE Quoted(t)
  BY <1>1, UnquotedIs
<1>2. CASE ~Quoted(t)
  BY <1>2 DEF Unquote
<1> QED BY <1>1, <1>2

LEMMA FromIsText ==
    ASSUME NEW t \in Text, NEW m \in 1..(Len(t) + 1)
    PROVE  From(t, m) \in Text
  BY FromIs DEF Text

LEMMA NoncesGood ==
    ASSUME NEW t \in Text, NEW e \in ParseNonce(t)
    PROVE  GoodNonce(e)
<1>1. PICK w : w = Unquote(t)
  OBVIOUS
<1>2. PICK v : v = WithoutPrefix(w, NoncePrefix)
  OBVIOUS
<1>3. w \in Text
  BY <1>1, UnquoteIsText
<1>4. v \in Text
  <2>1. CASE IsPrefix(NoncePrefix, w)
    <3>1. Len(NoncePrefix) = 2 /\ Len(w) >= 2 /\ Len(w) \in Nat
      BY <1>3, <2>1, NoncePrefixIs, TextLen
    <3>2. v = From(w, Len(NoncePrefix) + 1)
      BY <1>2, <2>1 DEF WithoutPrefix
    <3>3. Len(NoncePrefix) + 1 \in 1..(Len(w) + 1)
      BY <3>1
    <3> QED BY <1>3, <3>2, <3>3, FromIsText
  <2>2. CASE ~IsPrefix(NoncePrefix, w)
    BY <1>2, <1>3, <2>2 DEF WithoutPrefix
  <2> QED BY <2>1, <2>2
<1>5. e \in [kind : {"Nonce"},
             value : When(IsBase64(v) /\ Length(Unpadded(v)) >= MinNonceChars, v)]
  BY <1>1, <1>2, NonceParsed
<1>6. e.value = v /\ IsBase64(v) /\ Length(Unpadded(v)) >= MinNonceChars
  BY <1>5 DEF When
<1>7. e = [kind |-> "Nonce", value |-> e.value]
  BY <1>5
<1> QED BY <1>4, <1>6, <1>7 DEF GoodNonce

LEMMA NonceReadsBack ==
    ASSUME NEW e, GoodNonce(e)
    PROVE  /\ Tagged("nonce", e.value) \in Clean
           /\ ParseSource(Tagged("nonce", e.value)) = {e}
<1>1. PICK v : v = e.value
  OBVIOUS
<1>2. PICK t : t = Tagged("nonce", v)
  OBVIOUS
<1>3. PICK w : w = Unquote(t)
  OBVIOUS
<1>4. v \in Text /\ IsBase64(v) /\ Length(Unpadded(v)) >= MinNonceChars
  BY <1>1 DEF GoodNonce
<1>5. "nonce" \in Token /\ Small("nonce") = "nonce" /\ "nonce" \in HashAlgorithm \cup {"nonce"}
  BY TagsAre
<1>6. /\ t \in Text /\ Quoted(t)
      /\ w \in Text /\ Len(w) = Len(v) + 2 /\ w[1] = "nonce" /\ w[2] = "-"
      /\ From(w, 3) = v
  BY <1>2, <1>3, <1>4, <1>5, TaggedBody
<1>7. Len(w) >= 2 /\ Len(v) \in Nat
  BY <1>4, <1>6, TextLen
<1>8. IsPrefix(NoncePrefix, w)
  BY <1>6, <1>7, NoncePrefixIs
<1>9. WithoutPrefix(w, NoncePrefix) = v
  <2>1. Len(NoncePrefix) + 1 = 3
    <3>1. Len(NoncePrefix) = 2
      BY <1>6, NoncePrefixIs
    <3> QED BY <3>1
  <2> QED BY <1>6, <1>8, <2>1 DEF WithoutPrefix
<1>10. IsPrefix(NoncePrefix, Lower(w))
  <2>1. PICK u : u = Lower(w)
    OBVIOUS
  <2>2. u \in Text /\ Len(u) = Len(w) /\ \A i \in 1..Len(w) : u[i] = Small(w[i])
    BY <1>6, <2>1, LowerIs
  <2>3. 1 \in 1..Len(w) /\ 2 \in 1..Len(w)
    BY <1>6, <1>7
  <2>4. u[1] = "nonce" /\ u[2] = "-"
    BY <1>5, <1>6, <2>2, <2>3, SmallMark, PunctuationMarks
  <2> QED BY <1>7, <2>1, <2>2, <2>4, NoncePrefixIs
<1>11. ParseSource(t) = ParseNonce(t)
  <2>1. ParseKeyword(t) = {}
    BY <1>2, <1>4, <1>5, TaggedIsNoKeyword
  <2>2. IsPrefix(<<"nonce", "-">>, Lower(Unquote(t)))
    BY <1>3, <1>10 DEF NoncePrefix
  <2> QED BY <1>6, <2>1, <2>2 DEF ParseSource, ParseQuoted
<1>12. ParseNonce(t) = [kind : {"Nonce"}, value : {v}]
  BY <1>3, <1>4, <1>9, NonceParsed DEF When
<1>13. e = [kind |-> "Nonce", value |-> v]
  BY <1>1 DEF GoodNonce
<1>14. ParseSource(t) = {e}
  BY <1>11, <1>12, <1>13, OneValue
<1>15. t \in Clean
  BY <1>2, <1>4, <1>5, Base64Clean, TaggedClean
<1> QED BY <1>1, <1>2, <1>14, <1>15

LEMMA HashesGood ==
    ASSUME NEW a \in HashAlgorithm, NEW v \in Text, NEW e \in HashOf(a, v)
    PROVE  GoodHash(e)
<1>1. e \in [kind : {"Hash"}, algorithm : {a},
             value : When(/\ IsBase64(v)
                          /\ Length(v) \in {UnpaddedLen(DigestLen[a]), PaddedLen(DigestLen[a])},
                          v)]
  BY DEF HashOf
<1>2. /\ e.algorithm = a /\ e.value = v /\ IsBase64(v)
      /\ Length(v) \in {UnpaddedLen(DigestLen[a]), PaddedLen(DigestLen[a])}
  BY <1>1 DEF When
<1>3. e = [kind |-> "Hash", algorithm |-> e.algorithm, value |-> e.value]
  BY <1>1
<1> QED BY <1>2, <1>3 DEF GoodHash

Dash == <<"-">>

LEMMA DashAt ==
    ASSUME NEW w \in Text, NEW p, p = FirstPlace(w, Dash)
    PROVE  \/ p = 0 /\ \A i \in 1..Len(w) : w[i] # "-"
           \/ p \in 1..Len(w) /\ w[p] = "-" /\ \A i \in 1..Len(w) : w[i] = "-" => p <= i
<1>1. "-" \in Token
  BY PunctuationMarks, PunctuationIs
<1>2. \A i : i \in Places(w, Dash) <=> i \in 1..Len(w) /\ w[i] = "-"
  BY <1>1, MarkAt DEF Dash
<1>3. \/ p = 0 /\ Places(w, Dash) = {}
      \/ p \in Places(w, Dash) /\ \A k \in Places(w, Dash) : p <= k
  BY FirstPlaceIs DEF Text
<1> QED BY <1>2, <1>3

LEMMA ParsedHashesGood ==
    ASSUME NEW t \in Text, NEW e \in ParseHash(t)
    PROVE  GoodHash(e)
<1>1. PICK w : w = Unquote(t)
  OBVIOUS
<1>2. w \in Text
  BY <1>1, UnquoteIsText
<1>3. PICK a \in AlgorithmOf(w) : e \in HashOf(a, From(w, FirstPlace(w, Dash) + 1))
  BY <1>1 DEF ParseHash, Dash
<1>4. a \in HashAlgorithm
  BY <1>3 DEF AlgorithmOf
<1>5. From(w, FirstPlace(w, Dash) + 1) \in Text
  <2>1. PICK p : p = FirstPlace(w, Dash)
    OBVIOUS
  <2>2. p + 1 \in 1..(Len(w) + 1)
    BY <1>2, <2>1, DashAt, TextLen
  <2> QED BY <1>2, <2>1, <2>2, FromIsText
<1> QED BY <1>3, <1>4, <1>5, HashesGood

LEMMA HashReadsBack ==
    ASSUME NEW e, GoodHash(e)
    PROVE  /\ Tagged(e.algorithm, e.value) \in Clean
           /\ ParseSource(Tagged(e.algorithm, e.value)) = {e}
<1>1. PICK v, a : v = e.value /\ a = e.algorithm
  OBVIOUS
<1>2. PICK t : t = Tagged(a, v)
  OBVIOUS
<1>3. PICK w : w = Unquote(t)
  OBVIOUS
<1>4. /\ v \in Text /\ IsBase64(v) /\ a \in HashAlgorithm
      /\ Length(v) \in {UnpaddedLen(DigestLen[a]), PaddedLen(DigestLen[a])}
  BY <1>1 DEF GoodHash
<1>5. a \in Token /\ Small(a) = a /\ a # "-" /\ a # "nonce" /\ a \in HashAlgorithm \cup {"nonce"}
  BY <1>4, TagsAre DEF HashAlgorithm
<1>6. /\ t \in Text /\ Quoted(t)
      /\ w \in Text /\ Len(w) = Len(v) + 2 /\ w[1] = a /\ w[2] = "-"
      /\ From(w, 3) = v
  BY <1>2, <1>3, <1>4, <1>5, TaggedBody
<1>7. Len(w) >= 2 /\ Len(v) \in Nat /\ Len(w) \in Nat /\ 1 \in 1..Len(w) /\ 2 \in 1..Len(w)
  BY <1>4, <1>6, TextLen
<1>8. ~IsPrefix(NoncePrefix, Lower(w))
  <2>1. PICK u : u = Lower(w)
    OBVIOUS
  <2>2. u \in Text /\ u[1] = Small(w[1])
    BY <1>6, <1>7, <2>1, LowerIs
  <2>3. u[1] # "nonce"
    BY <1>5, <1>6, <2>2
  <2> QED BY <2>1, <2>2, <2>3, NoncePrefixIs
<1>9. FirstPlace(w, Dash) = 2
  <2>1. PICK p : p = FirstPlace(w, Dash)
    OBVIOUS
  <2>2. \/ p = 0 /\ \A i \in 1..Len(w) : w[i] # "-"
        \/ p \in 1..Len(w) /\ w[p] = "-" /\ \A i \in 1..Len(w) : w[i] = "-" => p <= i
    BY <1>6, <2>1, DashAt
  <2>3. p \in 1..Len(w) /\ w[p] = "-" /\ p <= 2
    BY <1>6, <1>7, <2>2
  <2>4. p # 1
    BY <1>5, <1>6, <2>3
  <2>5. p = 2
    BY <1>7, <2>3, <2>4
  <2> QED BY <2>1, <2>5
<1>10. Lower(Before(w, 2)) = <<a>>
  <2>1. PICK u : u = Before(w, 2)
    OBVIOUS
  <2>2. u \in Text /\ Len(u) = 1 /\ u[1] = a
    <3>1. PICK m : m = 1 /\ m = 2 - 1 /\ m \in 0..Len(w) /\ m \in 1..m
      BY <1>7
    <3>2. u = SubSeq(w, 1, m)
      BY <2>1, <3>1 DEF Before
    <3>3. w \in Text /\ m \in 0..Len(w)
      BY <1>6, <3>1
    <3>4. u \in Text /\ Len(u) = m /\ \A i \in 1..m : u[i] = w[i]
      BY <3>2, <3>3, BeginsIs
    <3>5. u[1] = w[1]
      BY <3>1, <3>4
    <3> QED BY <1>6, <3>1, <3>4, <3>5
  <2>3. Lower(u) = u
    <3>1. \A i \in 1..Len(u) : Small(u[i]) = u[i]
      BY <1>5, <2>2
    <3> QED BY <2>2, <3>1, LowerSame
  <2>4. u = <<a>>
    <3>1. <<a>> \in Text /\ Len(<<a>>) = 1 /\ <<a>>[1] = a
      BY <1>5 DEF Text
    <3>2. \A i \in 1..Len(u) : u[i] = <<a>>[i]
      BY <2>2, <3>1
    <3> QED BY <2>2, <3>1, <3>2, TextEqual
  <2> QED BY <2>1, <2>3, <2>4
<1>11. AlgorithmOf(w) = {a}
  <2>1. AlgorithmOf(w) = {b \in HashAlgorithm : <<a>> = <<b>>}
    BY <1>9, <1>10 DEF AlgorithmOf, Dash
  <2>2. \A b : <<a>> = <<b>> => a = b
    OBVIOUS
  <2> QED BY <1>4, <2>1, <2>2
<1>12. ParseHash(t) = HashOf(a, v)
  <2>1. From(w, FirstPlace(w, Dash) + 1) = v
    <3>1. FirstPlace(w, Dash) + 1 = 3
      BY <1>9
    <3> QED BY <1>6, <3>1
  <2>2. ParseHash(t) = UNION {HashOf(b, v) : b \in {a}}
    BY <1>3, <1>11, <2>1 DEF ParseHash, Dash
  <2> QED BY <2>2
<1>13. HashOf(a, v) = [kind : {"Hash"}, algorithm : {a}, value : {v}]
  BY <1>4 DEF HashOf, When
<1>14. e = [kind |-> "Hash", algorithm |-> a, value |-> v]
  BY <1>1 DEF GoodHash
<1>15. ParseSource(t) = ParseHash(t)
  <2>1. ParseKeyword(t) = {}
    BY <1>2, <1>4, <1>5, TaggedIsNoKeyword
  <2>2. ~IsPrefix(<<"nonce", "-">>, Lower(Unquote(t)))
    BY <1>3, <1>8 DEF NoncePrefix
  <2> QED BY <1>6, <2>1, <2>2 DEF ParseSource, ParseQuoted
<1>16. ParseSource(t) = {e}
  <2>1. ParseSource(t) = [kind : {"Hash"}, algorithm : {a}, value : {v}]
    BY <1>12, <1>13, <1>15
  <2>2. [kind : {"Hash"}, algorithm : {a}, value : {v}]
            = {[kind |-> "Hash", algorithm |-> a, value |-> v]}
    BY OneHash
  <2> QED BY <1>14, <2>1, <2>2, Zenon
<1>17. t \in Clean
  BY <1>2, <1>4, <1>5, Base64Clean, TaggedClean
<1> QED BY <1>1, <1>2, <1>16, <1>17

-----------------------------------------------------------------------------
(***************************************************************************)
(* Any source, and any source of frame-ancestors.                          *)
(***************************************************************************)
GoodSource(e) ==
    \/ GoodKeyword(e) \/ GoodScheme(e) \/ GoodHost(e) \/ GoodNonce(e) \/ GoodHash(e)

SelfText == <<"'", "self", "'">>

IsAncestor(e) == e.kind \in {"Scheme", "Host"} \/ (e.kind = "Keyword" /\ e.text = SelfText)

LEMMA AncestorsAre ==
    ASSUME NEW t, NEW e
    PROVE  e \in ParseAncestor(t) <=> e \in ParseSource(t) /\ IsAncestor(e)
  BY DEF ParseAncestor, IsAncestor, SelfText

LEMMA SourcesGood ==
    ASSUME NEW t \in Text, NEW e \in ParseSource(t)
    PROVE  GoodSource(e)
<1>1. \/ e \in ParseKeyword(t) \/ e \in ParseNonce(t) \/ e \in ParseHash(t)
      \/ e \in ParseSchemeSource(t) \/ e \in ParseHostSource(t)
  BY DEF ParseSource, ParseQuoted
<1>2. CASE e \in ParseKeyword(t)
  BY <1>2, KeywordsGood DEF GoodSource
<1>3. CASE e \in ParseNonce(t)
  BY <1>3, NoncesGood DEF GoodSource
<1>4. CASE e \in ParseHash(t)
  BY <1>4, ParsedHashesGood DEF GoodSource
<1>5. CASE e \in ParseSchemeSource(t)
  BY <1>5, SchemeSourcesGood DEF GoodSource
<1>6. CASE e \in ParseHostSource(t)
  BY <1>6, HostSourcesGood DEF GoodSource
<1> QED BY <1>1, <1>2, <1>3, <1>4, <1>5, <1>6

LEMMA GoodKinds ==
    ASSUME NEW e
    PROVE  /\ GoodKeyword(e) => e.kind = "Keyword"
           /\ GoodScheme(e) => e.kind = "Scheme"
           /\ GoodHost(e) => e.kind = "Host"
           /\ GoodNonce(e) => e.kind = "Nonce"
           /\ GoodHash(e) => e.kind = "Hash"
<1>1. GoodKeyword(e) => e.kind = "Keyword"
  BY DEF GoodKeyword
<1>2. GoodScheme(e) => e.kind = "Scheme"
  BY DEF GoodScheme
<1>3. GoodHost(e) => e.kind = "Host"
  BY DEF GoodHost, HostTerm
<1>4. GoodNonce(e) => e.kind = "Nonce"
  BY DEF GoodNonce
<1>5. GoodHash(e) => e.kind = "Hash"
  BY DEF GoodHash
<1> QED BY <1>1, <1>2, <1>3, <1>4, <1>5

LEMMA DisplayIs ==
    ASSUME NEW e
    PROVE  /\ e.kind = "Scheme" => Display(e) = e.scheme \o <<":">>
           /\ e.kind = "Host" => Display(e) = HostText(e)
           /\ e.kind = "Nonce" => Display(e) = Tagged("nonce", e.value)
           /\ e.kind = "Hash" => Display(e) = Tagged(e.algorithm, e.value)
           /\ e.kind \notin {"Scheme", "Host", "Nonce", "Hash"} => Display(e) = e.text
<1>1. e.kind = "Scheme" => Display(e) = e.scheme \o <<":">>
  BY DEF Display
<1>2. e.kind = "Host" => Display(e) = HostText(e)
  BY DEF Display
<1>3. e.kind = "Nonce" => Display(e) = Tagged("nonce", e.value)
  BY DEF Display, Tagged
<1>4. e.kind = "Hash" => Display(e) = Tagged(e.algorithm, e.value)
  BY DEF Display, Tagged
<1>5. e.kind \notin {"Scheme", "Host", "Nonce", "Hash"} => Display(e) = e.text
  BY DEF Display
<1> QED BY <1>1, <1>2, <1>3, <1>4, <1>5

\* A source that was accepted is written in bytes a policy may carry and is read back
\* as itself, and so is one of frame-ancestors (Display for Source, Source::parse).
LEMMA SourceReadsBack ==
    ASSUME NEW e, GoodSource(e)
    PROVE  Display(e) \in Clean /\ ParseSource(Display(e)) = {e}
<1>1. CASE GoodKeyword(e)
  <2>1. Display(e) = e.text
    BY <1>1, GoodKinds, DisplayIs
  <2> QED BY <1>1, <2>1, KeywordReadsBack
<1>2. CASE GoodScheme(e)
  <2>1. Display(e) = e.scheme \o <<":">>
    BY <1>2, GoodKinds, DisplayIs
  <2> QED BY <1>2, <2>1, SchemeSourceReadsBack
<1>3. CASE GoodHost(e)
  <2>1. Display(e) = HostText(e)
    BY <1>3, GoodKinds, DisplayIs
  <2> QED BY <1>3, <2>1, HostClean, HostSourceReadsBack
<1>4. CASE GoodNonce(e)
  <2>1. Display(e) = Tagged("nonce", e.value)
    BY <1>4, GoodKinds, DisplayIs
  <2> QED BY <1>4, <2>1, NonceReadsBack
<1>5. CASE GoodHash(e)
  <2>1. Display(e) = Tagged(e.algorithm, e.value)
    BY <1>5, GoodKinds, DisplayIs
  <2> QED BY <1>5, <2>1, HashReadsBack
<1> QED BY <1>1, <1>2, <1>3, <1>4, <1>5 DEF GoodSource

LEMMA AncestorReadsBack ==
    ASSUME NEW e, GoodSource(e), IsAncestor(e)
    PROVE  ParseAncestor(Display(e)) = {e}
<1>1. ParseSource(Display(e)) = {e}
  BY SourceReadsBack
<1> QED BY <1>1, AncestorsAre

\* Whatever a text spells, the source Source::parse makes of it is written in bytes a
\* policy may carry and read back as that source, so that its spelling is canonical; and
\* the same of a source that AncestorSource::parse makes (the oracle parse_source).
THEOREM AcceptedSourcesReadBack ==
    ASSUME NEW t \in Text, NEW e \in ParseSource(t)
    PROVE  /\ Display(e) \in Clean /\ ParseSource(Display(e)) = {e}
           /\ e \in ParseAncestor(t) => ParseAncestor(Display(e)) = {e}
<1>1. GoodSource(e)
  BY SourcesGood
<1>2. e \in ParseAncestor(t) => IsAncestor(e)
  BY AncestorsAre
<1> QED BY <1>1, <1>2, SourceReadsBack, AncestorReadsBack

-----------------------------------------------------------------------------
(***************************************************************************)
(* What is encoded is accepted.                                            *)
(***************************************************************************)
LEMMA RunIs ==
    ASSUME NEW n \in Run
    PROVE  /\ RunOf(n) \in Base64Char /\ RunOf(n) \in Token
           /\ Size(RunOf(n)) = n /\ n \in Nat
<1>1. RunOf(n) \in DOMAIN LengthOfRun
  BY DEF LengthOfRun
<1>2. RunOf(n) \in Letters
  BY <1>1 DEF Letters
<1>3. RunOf(n) \notin Uppercase
  BY <1>1, DistinctTokens
<1>4. Size(RunOf(n)) = LengthOfRun[RunOf(n)]
  BY <1>1, <1>3 DEF Size
<1>5. RunOf(n) \in Alphanumeric
  BY <1>2, LetterIs
<1>6. RunOf(n) \in Token
  BY <1>5, AlphanumericIs
<1> QED BY <1>4, <1>5, <1>6, TokenSizes DEF Base64Char

LEMMA EncodedIs ==
    ASSUME NEW bytes \in Nat, ContentLen(bytes) \in Run, NEW v, v = Encoded(bytes)
    PROVE  /\ v \in Text /\ IsBase64(v)
           /\ Length(Unpadded(v)) = ContentLen(bytes)
           /\ Length(v) = ContentLen(bytes) + PaddingLen(bytes)
<1>1. PICK x, c, p : x = RunOf(c) /\ c = ContentLen(bytes) /\ p = PaddingLen(bytes)
  OBVIOUS
<1>2. PICK y, z : y = <<x>> /\ z = [i \in 1..p |-> "="]
  OBVIOUS
<1>3. v = y \o z
  BY <1>1, <1>2 DEF Encoded
<1>4. x \in Base64Char /\ x \in Token /\ Size(x) = c /\ c \in Nat
  BY <1>1, RunIs
<1>5. p \in Nat /\ p <= 2
  <2>1. p \in 0..2
    BY <1>1, PaddedIsTheWhole
  <2> QED BY <2>1
<1>6. "=" \in Token
  BY PunctuationMarks, PunctuationIs
<1>7. z \in Text /\ Len(z) = p /\ \A i \in 1..p : z[i] = "="
  <2>1. z \in [1..p -> Token] /\ \A i \in 1..p : z[i] = "="
    BY <1>2, <1>6
  <2>2. z \in Seq(Token)
    BY <1>5, <2>1, SeqDef
  <2>3. DOMAIN z = 1..Len(z) /\ DOMAIN z = 1..p /\ Len(z) \in Nat
    BY <1>2, <2>2, LenProperties
  <2>4. Len(z) = p
    BY <1>5, <2>3, SameInterval
  <2> QED BY <2>1, <2>2, <2>4 DEF Text
<1>8. y \in Text /\ Len(y) = 1 /\ y[1] = x
  BY <1>2, <1>4 DEF Text
<1>9. v \in Text /\ Len(v) = Len(y) + Len(z) /\ Holds(v, 0, y) /\ Holds(v, Len(y), z)
  BY <1>3, <1>7, <1>8, JoinedHolds
<1>10. Len(v) = 1 + p
  BY <1>7, <1>8, <1>9
<1>11. v[1] = x
  <2>1. 1 \in 1..Len(y) /\ 0 + 1 = 1
    BY <1>8
  <2> QED BY <1>8, <1>9, <2>1 DEF Holds
<1>12. ASSUME NEW i \in (1 + 1)..Len(v) PROVE v[i] = "="
  <2>1. i - 1 \in 1..p /\ 1 + (i - 1) = i
    BY <1>5, <1>10
  <2>2. v[Len(y) + (i - 1)] = z[i - 1]
    BY <1>7, <1>9, <2>1 DEF Holds
  <2> QED BY <1>7, <1>8, <2>1, <2>2
<1>13. 1 \in 0..Len(v) /\ Len(v) - 1 = p
  BY <1>5, <1>10
<1>14. IsPaddedAt(v, 1)
  <2>1. ASSUME NEW i \in 1..1 PROVE v[i] \in Base64Char
    BY <1>4, <1>11
  <2>2. Len(v) - 1 <= 2
    BY <1>5, <1>13
  <2> QED BY <1>12, <1>13, <2>1, <2>2 DEF IsPaddedAt
<1>15. IsBase64(v) /\ Unpadded(v) = SubSeq(v, 1, 1)
  BY <1>9, <1>14, Base64Is
<1>16. SubSeq(v, 1, 1) = y
  <2>1. PICK u : u = SubSeq(v, 1, 1)
    OBVIOUS
  <2>2. u \in Text /\ Len(u) = 1 /\ \A i \in 1..1 : u[i] = v[i]
    BY <1>9, <1>13, <2>1, BeginsIs
  <2>3. \A i \in 1..Len(u) : u[i] = y[i]
    BY <1>8, <1>11, <2>2
  <2>4. u = y
    BY <1>8, <2>2, <2>3, TextEqual
  <2> QED BY <2>1, <2>4
<1>17. Length(y) = c
  BY <1>2, <1>4, OneTokenLength
<1>18. Length(v) = Length(SubSeq(v, 1, 1)) + (Len(v) - 1)
  BY <1>9, <1>12, <1>13, PaddingLength
<1>19. Length(v) = c + p
  BY <1>13, <1>16, <1>17, <1>18
<1> QED BY <1>1, <1>9, <1>15, <1>16, <1>17, <1>19

LEMMA DigestsGood ==
    ASSUME NEW a \in HashAlgorithm, NEW bytes \in Nat, ContentLen(bytes) \in Run,
           NEW e \in HashFromDigest(a, bytes)
    PROVE  GoodHash(e)
<1>1. e \in [kind : {"Hash"}, algorithm : {a},
             value : When(bytes = DigestLen[a], Encoded(bytes))]
  BY DEF HashFromDigest
<1>2. bytes = DigestLen[a] /\ e.value = Encoded(bytes) /\ e.algorithm = a
  BY <1>1 DEF When
<1>3. e = [kind |-> "Hash", algorithm |-> e.algorithm, value |-> e.value]
  BY <1>1
<1>4. /\ e.value \in Text /\ IsBase64(e.value)
      /\ Length(e.value) = ContentLen(bytes) + PaddingLen(bytes)
  BY <1>2, EncodedIs
<1>5. Length(e.value) = PaddedLen(DigestLen[a])
  BY <1>2, <1>4, PaddedIsTheWhole
<1> QED BY <1>2, <1>3, <1>4, <1>5 DEF GoodHash

\* HashSource::from_digest makes an expression of a digest of the length of its algorithm,
\* and HashSource::new, given the text of that digest, accepts it as the same expression:
\* the alphabet, the padding and the length of what is encoded are those it asks for.
THEOREM DigestsAreAccepted ==
    ASSUME NEW a \in HashAlgorithm, ContentLen(DigestLen[a]) \in Run
    PROVE  \E e : HashFromDigest(a, DigestLen[a]) = {e} /\ HashOf(a, e.value) = {e}
<1> DEFINE bytes == DigestLen[a]
           e == [kind |-> "Hash", algorithm |-> a, value |-> Encoded(bytes)]
<1>1. bytes \in Nat
  BY DEF HashAlgorithm, DigestLen
<1>2. HashFromDigest(a, bytes) = {e}
  <2>1. HashFromDigest(a, bytes) = [kind : {"Hash"}, algorithm : {a}, value : {Encoded(bytes)}]
    BY DEF HashFromDigest, When
  <2>2. [kind : {"Hash"}, algorithm : {a}, value : {Encoded(bytes)}] = {e}
    BY OneHash
  <2> QED BY <2>1, <2>2, Zenon
<1>3. GoodHash(e)
  BY <1>1, <1>2, DigestsGood
<1>4. /\ IsBase64(e.value)
      /\ Length(e.value) \in {UnpaddedLen(bytes), PaddedLen(bytes)}
  BY <1>3 DEF GoodHash
<1>5. HashOf(a, e.value) = {e}
  <2>1. HashOf(a, e.value) = [kind : {"Hash"}, algorithm : {a}, value : {e.value}]
    BY <1>4 DEF HashOf, When
  <2>2. [kind : {"Hash"}, algorithm : {a}, value : {e.value}] = {e}
    BY OneHash
  <2> QED BY <2>1, <2>2, Zenon
<1> QED BY <1>2, <1>5

LEMMA MintedGood ==
    ASSUME NEW bytes \in Nat, ContentLen(bytes) \in Run, NEW e \in NonceFromEntropy(bytes)
    PROVE  GoodNonce(e)
<1>1. e \in [kind : {"Nonce"}, value : When(bytes * 8 >= 128, Encoded(bytes))]
  BY DEF NonceFromEntropy
<1>2. bytes * 8 >= 128 /\ e.value = Encoded(bytes)
  BY <1>1 DEF When
<1>3. e = [kind |-> "Nonce", value |-> e.value]
  BY <1>1
<1>4. /\ e.value \in Text /\ IsBase64(e.value)
      /\ Length(Unpadded(e.value)) = ContentLen(bytes)
  BY <1>2, EncodedIs
<1>5. ContentLen(bytes) >= MinNonceChars
  BY <1>2, MintedNoncesAreAccepted
<1> QED BY <1>3, <1>4, <1>5 DEF GoodNonce

-----------------------------------------------------------------------------
(***************************************************************************)
(* The other terms.                                                        *)
(***************************************************************************)
LEMMA LiftedAre ==
    ASSUME NEW t \in Lifted
    PROVE  t \in Seq(Wording)
<1>1. CASE t = <<"downloads">>
  BY <1>1 DEF Wording, Vocabulary
<1>2. CASE t = <<"downloads", "-", "without", "-", "user", "-", "activation">>
  BY <1>2 DEF Wording, Vocabulary
<1>3. CASE t = <<"forms">>
  BY <1>3 DEF Wording, Vocabulary
<1>4. CASE t = <<"modals">>
  BY <1>4 DEF Wording, Vocabulary
<1>5. CASE t = <<"orientation", "-", "lock">>
  BY <1>5 DEF Wording, Vocabulary
<1>6. CASE t = <<"pointer", "-", "lock">>
  BY <1>6 DEF Wording, Vocabulary
<1>7. CASE t = <<"popups">>
  BY <1>7 DEF Wording, Vocabulary
<1>8. CASE t = <<"popups", "-", "to", "-", "escape", "-", "sandbox">>
  BY <1>8 DEF Wording, Vocabulary
<1>9. CASE t = <<"presentation">>
  BY <1>9 DEF Wording, Vocabulary
<1>10. CASE t = <<"same", "-", "origin">>
  BY <1>10 DEF Wording, Vocabulary
<1>11. CASE t = <<"scripts">>
  BY <1>11 DEF Wording, Vocabulary
<1>12. CASE t = <<"storage", "-", "access", "-", "by", "-", "user", "-", "activation">>
  BY <1>12 DEF Wording, Vocabulary
<1>13. CASE t = <<"top", "-", "navigation">>
  BY <1>13 DEF Wording, Vocabulary
<1>14. CASE t = <<"top", "-", "navigation", "-", "by", "-", "user", "-", "activation">>
  BY <1>14 DEF Wording, Vocabulary
<1>15. CASE t = <<"top", "-", "navigation", "-", "to", "-", "custom", "-", "protocols">>
  BY <1>15 DEF Wording, Vocabulary
<1> QED
  BY <1>1, <1>2, <1>3, <1>4, <1>5, <1>6, <1>7, <1>8,
     <1>9, <1>10, <1>11, <1>12, <1>13, <1>14, <1>15
  DEF Lifted

LEMMA SandboxTextsAre ==
    ASSUME NEW t \in SandboxText
    PROVE  t \in Seq(Wording)
<1>1. PICK lifted \in Lifted : t = <<"allow", "-">> \o lifted
  BY DEF SandboxText
<1>2. <<"allow", "-">> \in Seq(Wording)
  BY DEF Wording, Vocabulary
<1> QED BY <1>1, <1>2, LiftedAre, ConcatProperties

LEMMA NamedIs ==
    ASSUME NEW t, NEW names
    PROVE  /\ \A e \in Named(t, names) : e = [kind |-> "Named", text |-> e.text] /\ e.text \in names
           /\ Lower(t) \in names => Named(t, names) = {[kind |-> "Named", text |-> Lower(t)]}
<1>1. ASSUME NEW e \in Named(t, names)
      PROVE  e = [kind |-> "Named", text |-> e.text] /\ e.text \in names
  BY <1>1 DEF Named
<1>2. ASSUME Lower(t) \in names
      PROVE  Named(t, names) = {[kind |-> "Named", text |-> Lower(t)]}
  <2>1. {Lower(t)} \cap names = {Lower(t)}
    BY <1>2
  <2> QED BY <2>1, OneText DEF Named
<1> QED BY <1>1, <1>2

LEMMA SandboxReadsBack ==
    ASSUME NEW t, NEW e \in ParseSandboxToken(t)
    PROVE  e.kind = "Named" /\ e.text \in Clean /\ ParseSandboxToken(e.text) = {e}
<1>1. e = [kind |-> "Named", text |-> e.text] /\ e.text \in SandboxText
  BY NamedIs DEF ParseSandboxToken
<1>2. e.text \in Clean /\ Lower(e.text) = e.text
  BY <1>1, SandboxTextsAre, WordsAre
<1>3. ParseSandboxToken(e.text) = {[kind |-> "Named", text |-> e.text]}
  BY <1>1, <1>2, NamedIs DEF ParseSandboxToken
<1>4. e.kind = "Named"
  BY <1>1
<1> QED BY <1>1, <1>2, <1>3, <1>4, Zenon

\* One word in quotes.
LEMMA OneWordIs ==
    ASSUME NEW x \in Vocabulary, NEW t, t = <<"'", x, "'">>
    PROVE  /\ t \in Seq(Wording) /\ t \in Text /\ t \in Clean /\ Lower(t) = t
           /\ Len(t) = 3 /\ t[1] = "'" /\ t[2] = x /\ t[3] = "'"
<1>1. t \in Seq(Wording)
  BY DEF Wording
<1>2. Len(t) = 3 /\ t[1] = "'" /\ t[2] = x /\ t[3] = "'"
  OBVIOUS
<1> QED BY <1>1, <1>2, WordsAre

LEMMA OneWordQuoted ==
    ASSUME NEW t \in Text, Len(t) = 3, t[1] = "'", t[3] = "'"
    PROVE  Quoted(t)
<1>1. t[Len(t)] = "'" /\ Len(t) >= 2
  OBVIOUS
<1> QED BY <1>1, QuotedIs

LEMMA OneWordJoined ==
    ASSUME NEW x \in Vocabulary, NEW t, t = <<"'", x, "'">>
    PROVE  <<"'">> \o <<x>> \o <<"'">> = t
<1>1. PICK q : q = <<"'">>
  OBVIOUS
<1>2. PICK y : y = <<x>>
  OBVIOUS
<1>3. q \in Text /\ Len(q) = 1 /\ q[1] = "'" /\ y \in Text /\ Len(y) = 1 /\ y[1] = x
  <2>1. x \in Token /\ "'" \in Token
    BY WordingIs DEF Wording
  <2> QED BY <1>1, <1>2, <2>1 DEF Text
<1>4. PICK w : w = q \o y
  OBVIOUS
<1>5. w \in Text /\ Len(w) = 2 /\ w[1] = "'" /\ w[2] = x
  BY <1>3, <1>4, ConcatProperties DEF Text
<1>6. PICK u : u = w \o q
  OBVIOUS
<1>7. u \in Text /\ Len(u) = 3 /\ u[1] = "'" /\ u[2] = x /\ u[3] = "'"
  <2>1. /\ u \in Text /\ Len(u) = Len(w) + Len(q)
        /\ \A k \in 1..Len(w) + Len(q) : u[k] = IF k <= Len(w) THEN w[k] ELSE q[k - Len(w)]
    BY <1>3, <1>5, <1>6, ConcatProperties DEF Text
  <2>2. u \in Text /\ Len(u) = 3
    BY <1>3, <1>5, <2>1
  <2>3. \A k \in 1..3 : u[k] = IF k <= 2 THEN w[k] ELSE q[k - 2]
    BY <1>3, <1>5, <2>1
  <2> QED BY <1>3, <1>5, <2>2, <2>3
<1>8. t \in Text /\ Len(t) = 3 /\ t[1] = "'" /\ t[2] = x /\ t[3] = "'"
  BY OneWordIs
<1>9. u = t
  <2>1. \A i \in 1..Len(u) : u[i] = t[i]
    BY <1>7, <1>8
  <2> QED BY <1>7, <1>8, <2>1, TextEqual
<1> QED BY <1>1, <1>2, <1>4, <1>6, <1>9

LEMMA OneWordUnquoted ==
    ASSUME NEW x \in Vocabulary, NEW t, t = <<"'", x, "'">>
    PROVE  Unquote(t) = <<x>>
<1>1. t \in Text /\ Len(t) = 3 /\ t[1] = "'" /\ t[2] = x /\ t[3] = "'"
  BY OneWordIs
<1>2. Quoted(t)
  BY <1>1, OneWordQuoted
<1>3. PICK w : w = Unquote(t)
  OBVIOUS
<1>4. w \in Text /\ Len(w) = Len(t) - 2 /\ \A i \in 1..Len(w) : w[i] = t[i + 1]
  BY <1>1, <1>2, <1>3, UnquotedIs
<1>5. Len(w) = 1
  BY <1>1, <1>4
<1>6. w[1] = x
  <2>1. 1 \in 1..Len(w)
    BY <1>5
  <2>2. w[1] = t[1 + 1]
    BY <1>4, <2>1
  <2> QED BY <1>1, <2>2
<1>7. w = <<x>>
  <2>1. x \in Token
    BY WordingIs DEF Wording
  <2>2. <<x>> \in Text /\ Len(<<x>>) = 1 /\ <<x>>[1] = x
    BY <2>1 DEF Text
  <2>3. \A i \in 1..Len(w) : w[i] = <<x>>[i]
    BY <1>5, <1>6, <2>2
  <2> QED BY <1>4, <1>5, <2>2, <2>3, TextEqual
<1> QED BY <1>3, <1>7

LEMMA SinkReadsBack ==
    ASSUME NEW t, NEW e \in ParseSink(t)
    PROVE  e.kind = "Named" /\ e.text \in Clean /\ ParseSink(e.text) = {e}
<1>1. e = [kind |-> "Named", text |-> e.text] /\ e.text = <<"'", "script", "'">>
  BY NamedIs DEF ParseSink
<1>2. "script" \in Vocabulary
  BY DEF Vocabulary
<1>3. e.text \in Clean /\ Lower(e.text) = e.text
  BY <1>1, <1>2, OneWordIs
<1>4. <<"'">> \o Unquote(e.text) \o <<"'">> = e.text
  <2>1. Unquote(e.text) = <<"script">>
    BY <1>1, <1>2, OneWordUnquoted
  <2>2. <<"'">> \o <<"script">> \o <<"'">> = <<"'", "script", "'">>
    BY <1>2, OneWordJoined
  <2> QED BY <1>1, <2>1, <2>2
<1>5. ParseSink(e.text) = {[kind |-> "Named", text |-> e.text]}
  BY <1>1, <1>3, <1>4, NamedIs DEF ParseSink
<1>6. e.kind = "Named"
  BY <1>1
<1> QED BY <1>1, <1>3, <1>5, <1>6, Zenon

LEMMA OneWordTrimmed ==
    ASSUME NEW x \in Vocabulary, x # "'", NEW t, t = <<"'", x, "'">>
    PROVE  Trimmed(t, "'") = <<x>>
<1>1. t \in Text /\ Len(t) = 3 /\ t[1] = "'" /\ t[2] = x /\ t[3] = "'"
  BY OneWordIs
<1>2. {i \in DOMAIN t : t[i] # "'"} = {2}
  <2>1. DOMAIN t = 1..3
    BY <1>1, TextDomain
  <2> QED BY <1>1, <2>1
<1>3. Min({2}) = 2
  <2>1. {2} \in SUBSET Nat /\ {2} # {}
    OBVIOUS
  <2>2. Min({2}) \in {2}
    BY <2>1, LeastIs
  <2> QED BY <2>2
<1>4. Max({2}) = 2
  <2>1. {2} \in SUBSET Nat /\ {2} # {} /\ 2 \in Nat /\ \A k \in {2} : k <= 2
    OBVIOUS
  <2>2. Max({2}) \in {2}
    BY <2>1, GreatestIs
  <2> QED BY <2>2
<1>5. Trimmed(t, "'") = SubSeq(t, 2, 2)
  BY <1>2, <1>3, <1>4 DEF Trimmed
<1>6. Unquote(t) = SubSeq(t, 2, 2)
  <2>1. Quoted(t)
    BY <1>1, OneWordQuoted
  <2>2. Len(t) - 1 = 2
    BY <1>1
  <2> QED BY <2>1, <2>2 DEF Unquote
<1> QED BY <1>5, <1>6, OneWordUnquoted

LEMMA WebrtcReadsBack ==
    ASSUME NEW t, NEW e \in ParseWebrtc(t)
    PROVE  e.kind = "Named" /\ e.text \in Clean /\ ParseWebrtc(e.text) = {e}
<1> DEFINE names == {<<"'", "allow", "'">>, <<"'", "block", "'">>}
<1>1. e = [kind |-> "Named", text |-> e.text] /\ e.text \in names
  BY NamedIs DEF ParseWebrtc
<1>2. PICK x \in Vocabulary : x # "'" /\ e.text = <<"'", x, "'">>
  BY <1>1 DEF Vocabulary
<1>3. e.text \in Clean /\ Lower(e.text) = e.text
  BY <1>2, OneWordIs
<1>4. <<"'">> \o Trimmed(e.text, "'") \o <<"'">> = e.text
  <2>1. Trimmed(e.text, "'") = <<x>>
    BY <1>2, OneWordTrimmed
  <2>2. <<"'">> \o <<x>> \o <<"'">> = <<"'", x, "'">>
    BY OneWordJoined
  <2> QED BY <1>2, <2>1, <2>2
<1>5. ParseWebrtc(e.text) = {[kind |-> "Named", text |-> e.text]}
  <2>1. ParseWebrtc(e.text) = Named(e.text, names)
    BY <1>4 DEF ParseWebrtc
  <2>2. Lower(e.text) \in names
    BY <1>1, <1>3, Zenon
  <2> HIDE DEF names
  <2> QED BY <1>3, <2>1, <2>2, NamedIs
<1>6. e.kind = "Named"
  BY <1>1
<1> QED BY <1>1, <1>3, <1>5, <1>6, Zenon

LEMMA ReportReadsBack ==
    ASSUME NEW t \in Text, NEW e \in ParseReport(t)
    PROVE  e.kind = "Report" /\ e.text \in Clean /\ ParseReport(e.text) = {e}
<1>1. e \in [kind : {"Report"}, text : When(t # <<>> /\ In(t, PolicyByte), t)]
  BY DEF ParseReport
<1>2. e.kind = "Report" /\ e.text = t /\ t # <<>> /\ In(t, PolicyByte)
  BY <1>1 DEF When
<1>3. e = [kind |-> "Report", text |-> e.text]
  BY <1>1
<1>4. t \in Clean
  BY <1>2, InSeq DEF Text, Clean
<1>5. ParseReport(t) = [kind : {"Report"}, text : {t}]
  BY <1>2 DEF ParseReport, When
<1>6. ParseReport(t) = {[kind |-> "Report", text |-> t]}
  BY <1>5, OneText
<1> QED BY <1>2, <1>3, <1>4, <1>6, Zenon

LEMMA PolicyNameIs ==
    ASSUME NEW t \in Text
    PROVE  /\ \A e \in ParsePolicyName(t) :
                 /\ e = [kind |-> "Name", text |-> t]
                 /\ t \in Clean /\ Len(t) > 0 /\ t[1] \notin {"'", "*"}
<1> SUFFICES ASSUME NEW e \in ParsePolicyName(t)
             PROVE  /\ e = [kind |-> "Name", text |-> t]
                    /\ t \in Clean /\ Len(t) > 0 /\ t[1] \notin {"'", "*"}
  OBVIOUS
<1>1. e \in [kind : {"Name"}, text : When(t # <<>> /\ In(t, NameByte), t)]
  BY DEF ParsePolicyName
<1>2. e.kind = "Name" /\ e.text = t /\ t # <<>> /\ In(t, NameByte)
  BY <1>1 DEF When
<1>3. e = [kind |-> "Name", text |-> e.text]
  BY <1>1
<1>4. Len(t) > 0
  BY <1>2, TextLen
<1>5. \A i \in 1..Len(t) : t[i] \in NameByte
  BY <1>2, InIs DEF Text
<1>6. \A i \in 1..Len(t) : t[i] \in PolicyByte
  BY <1>5, NameByteIs
<1>7. t[1] \notin {"'", "*"}
  <2>1. 1 \in 1..Len(t)
    BY <1>4, TextLen
  <2> QED BY <1>5, <2>1, NameByteIs
<1>8. t \in Clean
  BY <1>6, IsClean
<1> QED BY <1>2, <1>3, <1>4, <1>7, <1>8
=============================================================================
