--------------------------- MODULE PolicyContract ---------------------------
(***************************************************************************)
(* What the builder promises its caller, without the vector of directives, *)
(* the order of anything, or the way a fallback is found: a policy is a    *)
(* set of expressions for every directive it sets, and a call changes one  *)
(* of these sets in the one way its name says.  What a preset or a scan    *)
(* may do is bounded from both sides: it takes nothing away, it starts a   *)
(* directive from the set that was in force for it, and it adds no         *)
(* expression that has a method of its own.                                *)
(***************************************************************************)
EXTENDS CspTerms, Sequences, Naturals

VARIABLES
    lists,   \* directive name -> set of the expressions (or words) it lists
    slot     \* whether a nonce slot is reserved

\* The directives an absent one inherits from, nearest first (csp.rs, fallback_chain).
Nearest(n) ==
    CASE n \in {"default-src", "base-uri", "form-action"} -> {}
      [] n \in {"script-src-attr", "script-src-elem"} -> {"script-src"}
      [] n \in {"style-src-attr", "style-src-elem"} -> {"style-src"}
      [] n \in {"frame-src", "worker-src"} -> {"child-src"}
      [] OTHER -> {"default-src"}

Last(n) == IF n \in {"default-src", "base-uri", "form-action"} THEN {} ELSE {"default-src"}

Routed(n) ==
    IF n = "script-src" THEN {"'unsafe-eval'", "'unsafe-inline'", "'strict-dynamic'"}
    ELSE {"'unsafe-eval'"}

\* The set in force for n: its own, or that of the nearest directive set.
InForce(n) ==
    IF n \in DOMAIN lists THEN lists[n]
    ELSE IF Nearest(n) \cap DOMAIN lists # {} THEN UNION {lists[m] : m \in Nearest(n)}
    ELSE UNION {lists[m] : m \in Last(n) \cap DOMAIN lists}

\* Nothing but the entry of n differs.
OnlyAt(n) ==
    /\ DOMAIN lists' \ {n} = DOMAIN lists \ {n}
    /\ \A m \in DOMAIN lists \ {n} : lists'[m] = lists[m]
    /\ UNCHANGED slot

\* A constructor lists nothing that has a method of its own.
Init ==
    /\ DOMAIN lists \subseteq DirectiveName
    /\ \A n \in DOMAIN lists \cap SourceDirective : lists[n] \cap Routed(n) = {}
    /\ slot = FALSE

\* directive, set: n is set to a list without routed expressions.
Replace(n) ==
    /\ n \in DOMAIN lists'
    /\ n \in SourceDirective => lists'[n] \cap Routed(n) = {}
    /\ OnlyAt(n)

\* extend: expressions that are not routed join the list of n, or start one.
Grow(n) ==
    /\ n \in DOMAIN lists'
    /\ n \in DOMAIN lists => lists[n] \subseteq lists'[n]
    /\ (lists'[n] \ (IF n \in DOMAIN lists THEN lists[n] ELSE {})) \cap Routed(n) = {}
    /\ OnlyAt(n)

\* remove: n is no longer set.
Drop(n) == n \notin DOMAIN lists' /\ OnlyAt(n)

\* retain_sources, remove_source: the list of n shrinks, and n stays set.
Narrow(n) ==
    /\ n \in DOMAIN lists /\ n \in DOMAIN lists'
    /\ lists'[n] \subseteq lists[n]
    /\ OnlyAt(n)

\* with_scan and the origins presets, several directives at once.
Widen ==
    /\ DOMAIN lists \subseteq DOMAIN lists'
    /\ \A n \in DOMAIN lists' :
        /\ InForce(n) \subseteq lists'[n]
        /\ lists'[n] \cap Routed(n) \subseteq InForce(n)
    /\ UNCHANGED slot

\* allow_unsafe_eval, allow_unsafe_inline_script, strict_dynamic: exactly the
\* named expression joins what was in force for scripts.
Name(s) ==
    /\ "script-src" \in DOMAIN lists'
    /\ lists'["script-src"] = InForce("script-src") \cup {s}
    /\ OnlyAt("script-src")

\* per_response_nonce.
Reserve == UNCHANGED lists /\ slot' \in BOOLEAN

Next ==
    \/ \E n \in DirectiveName : Replace(n) \/ Grow(n) \/ Drop(n) \/ Narrow(n)
    \/ Widen
    \/ \E s \in Routed("script-src") : Name(s)
    \/ Reserve

Spec == Init /\ [][Next]_<<lists, slot>>
=============================================================================
