-------------------------- MODULE CspBuilderRefines --------------------------
(***************************************************************************)
(* The builder keeps the contract: the vector of directives, read by name, *)
(* is a set of expressions per directive.  The mapping is only a function  *)
(* of the vector because no name occurs in it twice.                       *)
(***************************************************************************)
EXTENDS CspBuilder

Contract ==
    INSTANCE PolicyContract WITH
        lists <- [n \in {policy[i].name : i \in DOMAIN policy} |->
                    Elements(ListOf(policy, n).terms)],
        slot  <- per_response_nonce

\* Every call of the builder is a step its contract allows: one directive at a
\* time except for scans and presets, which take nothing away, start what they
\* create from what was in force, and add no routed expression; rendering and
\* serving change nothing (csp.rs, all of impl Csp).
KeepsContract == Contract!Spec
=============================================================================
