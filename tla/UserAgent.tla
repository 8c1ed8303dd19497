----------------------------- MODULE UserAgent -----------------------------
(***************************************************************************)
(* The browser that reads the header: not code of this repository, but     *)
(* every promise the repository makes about a policy is a promise about    *)
(* what a browser does with it.  It is modelled from what the code and its *)
(* comments rely on: the first directive of a name wins, an absent         *)
(* directive is resolved through a fallback chain and is unrestricted at   *)
(* the end of it, a load is allowed if any expression of the list allows   *)
(* it, a hash or a nonce switches 'unsafe-inline' off, and                 *)
(* 'strict-dynamic' switches the URL expressions of scripts off.           *)
(*                                                                         *)
(* What a list allows is a set of capabilities: a URL expression stands    *)
(* for "a load that only this expression matches", a hash or a nonce for   *)
(* "an inline script or style with this digest or this nonce", AnyInline   *)
(* for one that has neither, a keyword for what the keyword enables.  A    *)
(* load of each class has the capabilities that class has: a worker, say,  *)
(* is loaded from a URL and by nothing else.  What a 'strict-dynamic' or a *)
(* nonce of the script-src that governs a worker does to the worker's load *)
(* is left out, and so are nonces of external scripts and styles.          *)
(***************************************************************************)
EXTENDS TypedPolicy

UrlExpression == {"'self'"} \cup Host \cup Scheme

AnyInline == "inline script or style with no listed digest and no nonce"

ASSUME AnyInlineIsNoSource == AnyInline \notin Source

\* Keywords whose effect no other expression of the list takes away.
PlainKeyword == {"'unsafe-eval'", "'wasm-unsafe-eval'", "'unsafe-hashes'",
                 "'inline-speculation-rules'"}

\* The loads whose expressions 'strict-dynamic' narrows.
ScriptLoad == {"script-src", "script-src-elem", "script-src-attr"}

StyleLoad == {"style-src", "style-src-elem", "style-src-attr"}

\* What may stand inline in a page under a directive of scripts or styles.
InlineContent(n) ==
    IF n \in ScriptLoad \cup StyleLoad THEN Hash \cup Nonce \cup {AnyInline} ELSE {}

\* The keywords that enable something for a load of class n: no keyword grants a
\* worker, an image or any other load by URL.
Enabled(n) ==
    CASE n = "script-src" -> PlainKeyword
      [] n = "script-src-elem" -> {"'unsafe-hashes'", "'inline-speculation-rules'"}
      [] n \in {"script-src-attr", "style-src", "style-src-attr"} -> {"'unsafe-hashes'"}
      [] OTHER -> {}

Everything(n) == UrlExpression \cup InlineContent(n) \cup Enabled(n)

\* What the expressions ss allow to a load of class n.
Allows(n, ss) ==
    LET strict == n \in ScriptLoad /\ "'strict-dynamic'" \in ss
        inline == /\ "'unsafe-inline'" \in ss
                  /\ ss \cap (Hash \cup Nonce) = {}
                  /\ ~strict
    IN  (IF strict THEN {} ELSE ss \cap UrlExpression)
            \cup (ss \cap (InlineContent(n) \cup Enabled(n)))
            \cup (IF "'unsafe-eval'" \in ss
                  THEN {"'wasm-unsafe-eval'"} \cap Enabled(n) ELSE {})
            \cup (IF inline THEN InlineContent(n) ELSE {})

\* The chain this repository takes a browser to walk (csp.rs, fallback_chain).
ChainOfTheCode(n) ==
    CASE n \in {"default-src", "base-uri", "form-action"} -> <<>>
      [] n \in {"script-src-attr", "script-src-elem"} -> <<"script-src", "default-src">>
      [] n \in {"style-src-attr", "style-src-elem"} -> <<"style-src", "default-src">>
      [] n \in {"frame-src", "worker-src"} -> <<"child-src", "default-src">>
      [] OTHER -> <<"default-src">>

\* The chain CSP Level 3 prescribes ("Get fetch directive fallback list"),
\* which goes through script-src for a worker.
ChainOfTheStandard(n) ==
    IF n = "worker-src" THEN <<"child-src", "script-src", "default-src">>
    ELSE ChainOfTheCode(n)

\* The directive of p that governs a load of class n under a chain; "" if none.
Governing(p, n, chain) ==
    LET candidates == <<n>> \o chain
        set        == {i \in DOMAIN candidates : Contains(p, candidates[i])}
    IN  IF set = {} THEN ""
        ELSE candidates[CHOOSE i \in set : \A j \in set : i <= j]

PermittedUnder(p, n, chain) ==
    LET g == Governing(p, n, chain)
    IN  IF g = "" THEN Everything(n) ELSE Allows(n, Elements(ListOf(p, g).terms))

\* What the policy p permits to a load of class n.
Permitted(p, n) == PermittedUnder(p, n, ChainOfTheCode(n))

PermittedByStandard(p, n) == PermittedUnder(p, n, ChainOfTheStandard(n))

\* Whether any directive restricts a load of class n.
Restricted(p, n) == Governing(p, n, ChainOfTheCode(n)) # ""

-----------------------------------------------------------------------------
(***************************************************************************)
(* Reading a header value: segments between ";", the first segment of a    *)
(* name wins, and a 'none' permits nothing, alone or not.                  *)
(***************************************************************************)
SegmentStarts(h) ==
    IF h = <<>> THEN {} ELSE {1} \cup {i + 1 : i \in {j \in DOMAIN h : h[j] = ";"}}

SegmentEnd(h, start) ==
    LET ends == {i \in DOMAIN h : i >= start /\ h[i] = ";"}
    IN  IF ends = {} THEN Len(h)
        ELSE (CHOOSE i \in ends : \A j \in ends : i <= j) - 1

NamesRead(h) == {h[i] : i \in SegmentStarts(h)}

\* The words a browser looks at: it passes over a 'none'.
WithoutNone(words) == Kept(words, Elements(words) \ {"'none'"})

\* The words a browser reads for the directive n, which h names.
TermsRead(h, n) ==
    LET starts == {i \in SegmentStarts(h) : h[i] = n}
        first  == CHOOSE i \in starts : \A j \in starts : i <= j
        words  == SubSeq(h, first + 1, SegmentEnd(h, first))
    IN  WithoutNone(words)
=============================================================================
