---------------------------- MODULE TypedPolicy ----------------------------
(***************************************************************************)
(* Policy of csp-policy/src/policy.rs: a vector of directives, addressed   *)
(* by name.  Nothing but these operations keeps a name from occurring      *)
(* twice, and a browser ignores the second occurrence.                     *)
(*                                                                         *)
(* A directive is a name and a value.  The value of a source-list          *)
(* directive is a SourceList; the value of any other directive (sandbox,   *)
(* report-uri, ...) is the sequence of words it renders, which the builder *)
(* stores and renders without looking at it.                               *)
(***************************************************************************)
EXTENDS SourceLists

CONSTANT Word    \* the words of directives that are not source lists

\* No term holds the byte that ends a directive: "Every leaf type in this crate
\* validates against this set", which leaves it out (util.rs, is_policy_byte).
ASSUME SeparatorIsNoTerm == ";" \notin Host \cup Scheme \cup Hash \cup Nonce \cup Word

TermsValue == [kind : {"Terms"}, terms : Seq(Word)]

Directive ==
    [name : SourceDirective, value : SourceList]
        \cup [name : DirectiveName \ SourceDirective, value : TermsValue]

Sources(n, list) == [name |-> n, value |-> list]

HasUniqueNames(p) == \A i, j \in DOMAIN p : p[i].name = p[j].name => i = j

\* The index of the first directive stored under n, 0 if there is none.
Position(p, n) ==
    IF \E i \in DOMAIN p : p[i].name = n
    THEN CHOOSE i \in DOMAIN p :
            p[i].name = n /\ \A j \in 1..(i - 1) : p[j].name # n
    ELSE 0

Contains(p, n) == Position(p, n) # 0

\* Policy::source_list, for an n the policy sets.
ListOf(p, n) == p[Position(p, n)].value

\* A faulty set: removes the old directive and appends the new one.
SetByRemoving(p, d) ==
    Append(SelectSeq(p, LAMBDA e : e.name # d.name), d)

\* Policy::set: replaces in place, or appends.
Set(p, d) ==
    IF Contains(p, d.name)
    THEN [p EXCEPT ![Position(p, d.name)] = d]
    ELSE Append(p, d)

\* A faulty extend_sources: does not look for the directive first.
ExtendByAppending(p, n, ss) ==
    Append(p, Sources(n, Of(ss)))

\* Policy::extend_sources.
ExtendSources(p, n, ss) ==
    IF Contains(p, n)
    THEN [p EXCEPT ![Position(p, n)] = Sources(n, PushEach(ListOf(p, n), ss))]
    ELSE Append(p, Sources(n, Of(ss)))

\* Policy::source_list_mut, then SourceList::retain, as Csp::retain_sources uses them.
RetainIn(p, n, keep) ==
    IF Contains(p, n)
    THEN [p EXCEPT ![Position(p, n)] = Sources(n, Retain(ListOf(p, n), keep))]
    ELSE p

\* Policy::remove: the rest keeps its order.
Remove(p, n) ==
    LET i == Position(p, n)
    IN  IF i = 0 THEN p
        ELSE SubSeq(p, 1, i - 1) \o SubSeq(p, i + 1, Len(p))

-----------------------------------------------------------------------------
(***************************************************************************)
(* Rendering.  A header value is a sequence of tokens: ";" ends a          *)
(* directive, and single spaces are not represented.                       *)
(***************************************************************************)

Separator == <<";">>

\* Display for Directive.
DirectiveTokens(d) ==
    <<d.name>> \o (IF d.name \in SourceDirective THEN ListTokens(d.value)
                   ELSE d.value.terms)

\* The directives from..to of p, a separator before every one but the policy's first.
Rendered(p, from, to) ==
    LET text[i \in 0..to] ==
            IF i < from THEN <<>>
            ELSE text[i - 1] \o (IF i > 1 THEN Separator ELSE <<>>)
                             \o DirectiveTokens(p[i])
    IN  text[to]

\* Policy::to_header_value.
ToHeaderValue(p) == Rendered(p, 1, Len(p))
=============================================================================
