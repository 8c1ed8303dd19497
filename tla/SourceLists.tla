---------------------------- MODULE SourceLists ----------------------------
(***************************************************************************)
(* SourceList of csp-policy/src/source.rs: the value of a source-list      *)
(* directive, which is 'none' or a vector of source expressions in the     *)
(* order they were added.  The two variants are told apart by "kind"; a    *)
(* vector may be empty, and then matches nothing just as 'none' does.      *)
(*                                                                         *)
(* Both loops of the code (extending a list, retaining a part of it) are   *)
(* functions of the number of elements visited so far.                     *)
(***************************************************************************)
EXTENDS CspTerms, Naturals, Sequences

NoneList == [kind |-> "None", terms |-> <<>>]

SourcesList(v) == [kind |-> "Sources", terms |-> v]

SourceList == {NoneList} \cup [kind : {"Sources"}, terms : Seq(Source)]

\* The elements of a sequence.
Elements(s) == {s[i] : i \in DOMAIN s}

HasNoRepeats(s) == \A i, j \in DOMAIN s : s[i] = s[j] => i = j

\* A faulty push_unique: the membership test is missing.
AlwaysAppends(v, s) == Append(v, s)

\* util.rs: push_unique.
PushUnique(v, s) == IF s \in Elements(v) THEN v ELSE Append(v, s)

\* Two faulty pushes: the variant stays None, or a 'none' is left alone.
StaysMarkedNone(list, s) == [list EXCEPT !.terms = PushUnique(list.terms, s)]

KeepsNone(list, s) ==
    IF list.kind = "None" THEN list ELSE SourcesList(PushUnique(list.terms, s))

\* SourceList::push: a 'none' is replaced by the one expression.
Push(list, s) ==
    IF list.kind = "None"
    THEN SourcesList(<<s>>)
    ELSE SourcesList(PushUnique(list.terms, s))

\* Every element of the sequence ss pushed in turn.
PushEach(list, ss) ==
    LET pushed[i \in 0..Len(ss)] ==
            IF i = 0 THEN list ELSE Push(pushed[i - 1], ss[i])
    IN  pushed[Len(ss)]

\* SourceList::of and the From conversions.
Of(ss) == PushEach(SourcesList(<<>>), ss)

\* The elements of v that are in keep, in order.
Kept(v, keep) ==
    LET kept[i \in 0..Len(v)] ==
            IF i = 0 THEN <<>>
            ELSE IF v[i] \in keep THEN Append(kept[i - 1], v[i])
            ELSE kept[i - 1]
    IN  kept[Len(v)]

\* SourceList::retain: 'none' stays 'none'.
Retain(list, keep) == [list EXCEPT !.terms = Kept(list.terms, keep)]

MatchesNothing(list) == list.terms = <<>>

\* Display for SourceList: an empty list is spelt out as 'none'.
ListTokens(list) == IF MatchesNothing(list) THEN <<"'none'">> ELSE list.terms
=============================================================================
