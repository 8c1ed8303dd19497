------------------------------ MODULE TermText ------------------------------
(***************************************************************************)
(* The text the parsers of csp-policy read and the renderers write.        *)
(*                                                                         *)
(* A text is a sequence of tokens: a byte with a part in some grammar, a   *)
(* word, a numeral, or a run of base64 characters of which only the length *)
(* is kept.  No two sequences spell the same text, so that a text is its   *)
(* sequence.  Words and runs begin with a letter.  A blank stands for any  *)
(* byte a policy cannot carry.                                             *)
(***************************************************************************)
EXTENDS Naturals, SequencesExt, FiniteSetsExt

CONSTANTS
    Name,       \* alphanumeric words of no meaning to csp-policy, in lower case
    Numeral,    \* the numerals, as a function to the number each one writes
    Run         \* the lengths of the runs

\* The words of the keywords, algorithms and tokens csp-policy knows.
Vocabulary ==
    {"self", "unsafe", "inline", "eval", "wasm", "hashes", "strict", "dynamic", "report",
     "sample", "speculation", "rules", "nonce", "sha256", "sha384", "sha512", "allow",
     "downloads", "without", "user", "activation", "forms", "modals", "orientation", "lock",
     "pointer", "popups", "to", "escape", "sandbox", "presentation", "same", "origin",
     "scripts", "storage", "access", "by", "top", "navigation", "custom", "protocols",
     "block", "script"}

Word == Vocabulary \cup Name

Upper(word) == "^" \o word

Uppercase == {Upper(word) : word \in Word}

InLowercase == [upper \in Uppercase |-> CHOOSE word \in Word : upper = Upper(word)]

RunOf(length) == "c" \o ToString(length)

LengthOfRun ==
    [run \in {RunOf(length) : length \in Run} |-> CHOOSE length \in Run : run = RunOf(length)]

Letters == Word \cup Uppercase \cup DOMAIN LengthOfRun

Alphanumeric == Letters \cup DOMAIN Numeral

Blank == " "

\* The bytes that end a source expression, a directive and a policy.
Separators == {Blank, ";", ","}

Punctuation == {":", "/", ".", "*", "-", "'", "?", "#", "=", "_", "+", "@"}

\* util.rs: is_policy_byte.
PolicyByte == Alphanumeric \cup Punctuation

Token == PolicyByte \cup Separators

\* The bytes a token stands for.
Size(token) ==
    CASE token \in Uppercase          -> Len(InLowercase[token])
      [] token \in DOMAIN LengthOfRun -> LengthOfRun[token]
      [] OTHER                        -> Len(token)

\* No token is spelt like another: the constants keep letters, numerals and
\* punctuation apart, and the word of an empty list is one of the names.
ASSUME DistinctTokens ==
    /\ Word \cap Uppercase = {}
    /\ (Word \cup Uppercase) \cap DOMAIN LengthOfRun = {}
    /\ Letters \cap DOMAIN Numeral = {}
    /\ Alphanumeric \cap (Punctuation \cup Separators) = {}
    /\ "none" \in Name

ASSUME TokenSizes ==
    /\ \A token \in Token : Size(token) \in Nat
    /\ Size("=") = 1
    /\ Run \subseteq Nat
    /\ \A length \in Run : LengthOfRun[RunOf(length)] = length

ASSUME NumeralTypes == \A numeral \in DOMAIN Numeral : Numeral[numeral] \in Nat

In(t, bytes) == ToSet(t) \subseteq bytes

\* str::len.
Length(t) ==
    LET length[i \in 0..Len(t)] == IF i = 0 THEN 0 ELSE length[i - 1] + Size(t[i])
    IN  length[Len(t)]

\* to_ascii_lowercase, which makes eq_ignore_ascii_case an equality.
Lower(t) == [i \in DOMAIN t |-> IF t[i] \in Uppercase THEN InLowercase[t[i]] ELSE t[i]]

Before(t, i) == SubSeq(t, 1, i - 1)

From(t, i) == SubSeq(t, i, Len(t))

\* Where the text s first and last stands in t, 0 if it does not.
Places(t, s) == {i \in DOMAIN t : i + Len(s) - 1 <= Len(t) /\ IsPrefix(s, From(t, i))}

FirstPlace(t, s) == IF Places(t, s) = {} THEN 0 ELSE Min(Places(t, s))

LastPlace(t, s) == IF Places(t, s) = {} THEN 0 ELSE Max(Places(t, s))

\* strip_suffix(..).unwrap_or(..), for one byte.
WithoutSuffix(t, byte) == IF t # <<>> /\ Last(t) = byte THEN Front(t) ELSE t

WithoutPrefix(t, s) == IF IsPrefix(s, t) THEN From(t, Len(s) + 1) ELSE t

Quoted(t) == Len(t) >= 2 /\ Head(t) = "'" /\ Last(t) = "'"

\* hash.rs: unquote, which strips one layer of quotes.
Unquote(t) == IF Quoted(t) THEN SubSeq(t, 2, Len(t) - 1) ELSE t

\* str::trim_end_matches, for one byte.
TrimmedEnd(t, byte) ==
    SubSeq(t, 1, Max({0} \cup {i \in DOMAIN t : t[i] # byte}))

\* str::trim_matches, for one byte.
Trimmed(t, byte) ==
    LET kept == {i \in DOMAIN t : t[i] # byte}
    IN  IF kept = {} THEN <<>> ELSE SubSeq(t, Min(kept), Max(kept))

(***************************************************************************)
(* Numbers.  Leading zeros are a matter of spelling.                       *)
(***************************************************************************)
Stripped(t) == From(t, Min({Len(t)} \cup {i \in DOMAIN t : Numeral[t[i]] # 0}))

\* The number a text of numerals writes, in decimal; the text is at most five digits.
NumberOf(t) == FoldLeft(LAMBDA n, d : n * (10 ^ Len(d)) + Numeral[d], 0, t)

FitsIn16Bits(t) == Length(Stripped(t)) <= 5 /\ NumberOf(Stripped(t)) < 2 ^ 16
=============================================================================
