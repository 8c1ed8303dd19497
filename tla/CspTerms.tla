------------------------------ MODULE CspTerms ------------------------------
(***************************************************************************)
(* The vocabulary of a Content-Security-Policy, as the crate csp-policy    *)
(* types it: directive names (name.rs) and source expressions (source.rs). *)
(* A host, a scheme, a digest or a nonce is an element of a set: what is   *)
(* inside one is decided by the parsers of csp-policy and no definition of *)
(* the builder looks at it.                                                *)
(***************************************************************************)
CONSTANTS
    Host,      \* host sources a policy may name (Source::Host)
    Scheme,    \* scheme sources (Source::Scheme)
    Hash,      \* digests of inline scripts (Source::Hash)
    Nonce      \* nonces (Source::Nonce)

(***************************************************************************)
(* The keyword sources.  'none' is not one of them: it is a whole list.    *)
(***************************************************************************)
Keyword == {"'self'", "'unsafe-inline'", "'unsafe-eval'", "'wasm-unsafe-eval'",
            "'unsafe-hashes'", "'strict-dynamic'", "'report-sample'",
            "'inline-speculation-rules'"}

Source == Keyword \cup Host \cup Scheme \cup Hash \cup Nonce

ASSUME DistinctTerms ==
    /\ Keyword \cap (Host \cup Scheme \cup Hash \cup Nonce) = {}
    /\ Host \cap (Scheme \cup Hash \cup Nonce) = {}
    /\ Scheme \cap (Hash \cup Nonce) = {}
    /\ Hash \cap Nonce = {}

\* No source expression parses from it (source.rs, parse_quoted).
ASSUME NoneIsNoSource == "'none'" \notin Source

(***************************************************************************)
(* The directives whose value is a source list, and the others.            *)
(***************************************************************************)
SourceDirective ==
    {"child-src", "connect-src", "default-src", "fenced-frame-src", "font-src",
     "frame-src", "img-src", "manifest-src", "media-src", "object-src",
     "prefetch-src", "script-src", "script-src-attr", "script-src-elem",
     "style-src", "style-src-attr", "style-src-elem", "worker-src",
     "base-uri", "form-action"}

DirectiveName ==
    SourceDirective \cup
    {"sandbox", "frame-ancestors", "report-to", "report-uri",
     "block-all-mixed-content", "require-trusted-types-for", "trusted-types",
     "upgrade-insecure-requests", "webrtc"}
=============================================================================
