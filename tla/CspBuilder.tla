----------------------------- MODULE CspBuilder -----------------------------
(***************************************************************************)
(* Csp of csp-shell/src/csp.rs: the builder a server program calls once at *)
(* startup, in whatever order it likes, and the Policy it renders, whose   *)
(* headers() the program then calls once per response.                     *)
(*                                                                         *)
(* One action is one call.  A call that is refused returns an error and    *)
(* the caller goes on with the builder it had (Csp is Clone).  The         *)
(* variables after the first three exist so that the properties can speak  *)
(* of what was called: the code has no counterpart of them.                *)
(***************************************************************************)
EXTENDS TypedPolicy, Presets

CONSTANTS
    Start,            \* the constructors the program may use: "new", "spa_wasm"
    GivenDirectives,  \* the directives it passes to Csp::directive and Csp::set
    GivenSources,     \* <<directive, expressions>> it passes to Csp::extend
    RemovedNames,     \* the names it passes to Csp::remove
    Retained,         \* <<directive, expressions kept>> for Csp::retain_sources
    Scans,            \* the hash vectors of the shells it scans
    PresetNames,      \* the presets it applies
    Services,         \* the presets it applies with an origin of its own ...
    OwnOrigins,       \* ... and those origins
    MintedNonces,     \* the values Nonce::mint may still return
    MaxCalls          \* bound on the number of builder calls

\* The inputs have the types the signatures give them.
ASSUME InputTypes ==
    /\ Start \subseteq {"new", "spa_wasm"}
    /\ "spa_wasm" \in Start => {"https:", "data:"} \subseteq Scheme /\ "'none'" \in Word
    /\ GivenDirectives \subseteq Directive
    /\ GivenSources \subseteq SourceDirective \X Seq(Source)
    /\ RemovedNames \subseteq DirectiveName
    /\ Retained \subseteq SourceDirective \X SUBSET Source
    /\ Scans \subseteq Seq(Hash)
    /\ MaxCalls \in Nat

\* Every literal of a preset parses as a host or names a scheme (presets/mod.rs,
\* the test every_preset_origin_parses_and_round_trips), and so does an origin
\* the caller supplies: one that does not is refused before anything is stored.
ASSUME PresetTypes ==
    /\ \A preset \in DOMAIN Origins : Origins[preset] \in
            Seq([directive : SourceDirective, sources : Seq(Host \cup Scheme)])
    /\ PresetNames \subseteq DOMAIN Origins
    /\ Services \subseteq DOMAIN OriginDirectives
    /\ OwnOrigins \subseteq Host

\* A minted nonce is 128 fresh random bits: no caller has written it down.
ASSUME NoncesAreFresh ==
    /\ MintedNonces \subseteq Nonce
    /\ \A d \in GivenDirectives : Elements(d.value.terms) \cap MintedNonces = {}
    /\ \A g \in GivenSources : Elements(g[2]) \cap MintedNonces = {}

VARIABLES
    policy,              \* Csp.policy
    per_response_nonce,  \* Csp.per_response_nonce
    rendered,            \* Policy.rendered, Unbuilt before Csp::build
    response,            \* what the last Policy::headers returned
    minted,              \* the nonces minted so far
    named,               \* the methods of ROUTED_SOURCES that were called
    handed,              \* a list that repeats an expression was handed in whole
    calls                \* the number of builder calls so far

vars == <<policy, per_response_nonce, rendered, response, minted, named,
          handed, calls>>

served == <<rendered, response, minted>>

Unbuilt == [kind |-> "Unbuilt"]
NoResponse == [csp |-> <<>>, cache_control |-> "absent", nonce |-> {}]

-----------------------------------------------------------------------------
\* Csp::spa_wasm.
SpaWasm ==
    << Sources("default-src", Of(<<"'self'">>)),
       Sources("script-src", Of(<<"'self'", "'wasm-unsafe-eval'">>)),
       Sources("style-src", Of(<<"'self'", "'unsafe-inline'">>)),
       Sources("connect-src", Of(<<"'self'">>)),
       Sources("img-src", Of(<<"'self'", "https:", "data:">>)),
       Sources("font-src", Of(<<"'self'", "data:">>)),
       Sources("object-src", NoneList),
       Sources("base-uri", NoneList),
       Sources("form-action", Of(<<"'self'">>)),
       [name |-> "frame-ancestors",
        value |-> [kind |-> "Terms", terms |-> <<"'none'">>]] >>

Constructed(c) == IF c = "new" THEN <<>> ELSE SpaWasm

\* ROUTED_SOURCES: the expressions a named method stands for, and where.
RoutedIn(n) ==
    {"'unsafe-eval'"} \cup
    (IF n = "script-src" THEN {"'unsafe-inline'", "'strict-dynamic'"} ELSE {})

\* A faulty check_routing: looks at script-src only.
RoutesByDirective(n, ss) ==
    n = "script-src" => Elements(ss) \cap RoutedIn(n) = {}

\* check_routing accepts.
CheckRouting(n, ss) == Elements(ss) \cap RoutedIn(n) = {}

\* A faulty fallback_chain: everything falls straight back to default-src.
SkipsNearest(n) ==
    IF n \in {"default-src", "base-uri", "form-action"} THEN <<>> ELSE <<"default-src">>

\* fallback_chain, nearest first.
FallbackChain(n) ==
    CASE n \in {"default-src", "base-uri", "form-action"} -> <<>>
      [] n \in {"script-src-attr", "script-src-elem"} -> <<"script-src", "default-src">>
      [] n \in {"style-src-attr", "style-src-elem"} -> <<"style-src", "default-src">>
      [] n \in {"frame-src", "worker-src"} -> <<"child-src", "default-src">>
      [] OTHER -> <<"default-src">>

\* The list an absent n falls back to: the first one set in its chain.
Inherited(p, n) ==
    LET chain == FallbackChain(n)
        set   == {i \in DOMAIN chain : Contains(p, chain[i])}
    IN  IF set = {} THEN SourcesList(<<>>)
        ELSE ListOf(p, chain[CHOOSE i \in set : \A j \in set : i <= j])

\* Csp::ensure_seeded.
EnsureSeeded(p, n) ==
    IF Contains(p, n) THEN p ELSE Set(p, Sources(n, Inherited(p, n)))

\* A faulty extend_unrouted: creates the directive without what it inherits.
ExtendUnseeded(p, n, ss) == ExtendSources(p, n, ss)

\* Csp::extend_unrouted; with n = "script-src" also Csp::push_script_source.
ExtendUnrouted(p, n, ss) == ExtendSources(EnsureSeeded(p, n), n, ss)

\* presets::admit: the entries of a table, in order.
Admitted(p, table) ==
    LET admitted[i \in 0..Len(table)] ==
            IF i = 0 THEN p
            ELSE ExtendUnrouted(admitted[i - 1], table[i].directive, table[i].sources)
    IN  admitted[Len(table)]

-----------------------------------------------------------------------------
Init ==
    /\ policy \in {Constructed(c) : c \in Start}
    /\ per_response_nonce = FALSE
    /\ rendered = Unbuilt
    /\ response = NoResponse
    /\ minted = {}
    /\ named = {}
    /\ handed = FALSE
    /\ calls = 0

\* A builder call: the builder has not been consumed by Csp::build.
Call ==
    /\ rendered = Unbuilt
    /\ calls < MaxCalls
    /\ calls' = calls + 1
    /\ UNCHANGED served

\* Csp::directive and Csp::set.
SetDirective(d) ==
    /\ Call
    /\ IF d.name \in SourceDirective /\ ~CheckRouting(d.name, d.value.terms)
       THEN UNCHANGED <<policy, handed>>
       ELSE /\ policy' = Set(policy, d)
            /\ handed' = (handed \/ ~HasNoRepeats(d.value.terms))
    /\ UNCHANGED <<per_response_nonce, named>>

\* Csp::extend.
Extend(n, ss) ==
    /\ Call
    /\ policy' = IF CheckRouting(n, ss) THEN ExtendSources(policy, n, Of(ss).terms)
                 ELSE policy
    /\ UNCHANGED <<per_response_nonce, named, handed>>

\* Csp::remove.
RemoveDirective(n) ==
    /\ Call
    /\ policy' = Remove(policy, n)
    /\ UNCHANGED <<per_response_nonce, named, handed>>

\* Csp::retain_sources; Csp::remove_source keeps everything but one expression.
RetainSources(n, keep) ==
    /\ Call
    /\ policy' = RetainIn(policy, n, keep)
    /\ UNCHANGED <<per_response_nonce, named, handed>>

\* Csp::with_scan.
WithScan(hashes) ==
    /\ Call
    /\ policy' = ExtendUnrouted(policy, "script-src", hashes)
    /\ UNCHANGED <<per_response_nonce, named, handed>>

\* Csp::push_script_source, for the method that names the expression s.
PushScriptSource(method, s) ==
    /\ Call
    /\ policy' = ExtendUnrouted(policy, "script-src", <<s>>)
    /\ named' = named \cup {method}
    /\ UNCHANGED <<per_response_nonce, handed>>

AllowUnsafeEval == PushScriptSource("allow_unsafe_eval", "'unsafe-eval'")

AllowUnsafeInlineScript ==
    PushScriptSource("allow_unsafe_inline_script", "'unsafe-inline'")

StrictDynamic == PushScriptSource("strict_dynamic", "'strict-dynamic'")

\* Csp::per_response_nonce, and the two nonce presets with enabled = TRUE.
PerResponseNonce(enabled) ==
    /\ Call
    /\ per_response_nonce' = enabled
    /\ UNCHANGED <<policy, named, handed>>

\* An origins preset.
Admit(preset) ==
    /\ Call
    /\ policy' = Admitted(policy, Origins[preset])
    /\ UNCHANGED <<per_response_nonce, named, handed>>

\* An origins preset whose origin the caller supplies, and which parses.
AdmitOrigin(service, origin) ==
    /\ Call
    /\ policy' = Admitted(policy, OriginTable(service, origin))
    /\ UNCHANGED <<per_response_nonce, named, handed>>

-----------------------------------------------------------------------------
\* A faulty split: spells out an empty script-src as 'none'.
SplitSpellingNone(p) ==
    LET at == Position(p, "script-src")
    IN  [kind |-> "PerResponse",
         head |-> Rendered(p, 1, at),
         tail |-> Rendered(p, at + 1, Len(p))]

\* Csp::split_around_script_src, for a p that sets script-src.  An empty
\* script-src is a bare name: the nonce is what its list will hold.
SplitAroundScriptSrc(p) ==
    LET at   == Position(p, "script-src")
        last == IF MatchesNothing(p[at].value) THEN <<"script-src">>
                ELSE DirectiveTokens(p[at])
    IN  [kind |-> "PerResponse",
         head |-> Rendered(p, 1, at - 1) \o (IF at > 1 THEN Separator ELSE <<>>) \o last,
         tail |-> Rendered(p, at + 1, Len(p))]

\* Csp::build.
Build ==
    /\ rendered = Unbuilt
    /\ rendered' = IF per_response_nonce
                   THEN SplitAroundScriptSrc(EnsureSeeded(policy, "script-src"))
                   ELSE [kind |-> "Constant", text |-> ToHeaderValue(policy)]
    /\ UNCHANGED <<policy, per_response_nonce, response, minted, named, handed, calls>>

\* Policy::headers of a constant policy.
ConstantHeaders ==
    /\ rendered.kind = "Constant"
    /\ response' = [csp |-> rendered.text, cache_control |-> "absent", nonce |-> {}]
    /\ UNCHANGED <<policy, per_response_nonce, rendered, minted, named, handed, calls>>

\* A faulty headers: renders the header once and hands out new nonces beside it.
ReusesTheHeader(n) ==
    /\ rendered.kind = "PerResponse"
    /\ n \in MintedNonces \ minted
    /\ minted' = minted \cup {n}
    /\ response' = [csp |-> IF response # NoResponse THEN response.csp
                            ELSE rendered.head \o <<n>> \o rendered.tail,
                    cache_control |-> "no-cache", nonce |-> {n}]
    /\ UNCHANGED <<policy, per_response_nonce, rendered, named, handed, calls>>

\* Policy::headers of a per-response policy, minting n.
PerResponseHeaders(n) ==
    /\ rendered.kind = "PerResponse"
    /\ n \in MintedNonces \ minted
    /\ minted' = minted \cup {n}
    /\ response' = [csp |-> rendered.head \o <<n>> \o rendered.tail,
                    cache_control |-> "no-cache", nonce |-> {n}]
    /\ UNCHANGED <<policy, per_response_nonce, rendered, named, handed, calls>>

Next ==
    \/ \E d \in GivenDirectives : SetDirective(d)
    \/ \E g \in GivenSources : Extend(g[1], g[2])
    \/ \E n \in RemovedNames : RemoveDirective(n)
    \/ \E k \in Retained : RetainSources(k[1], k[2])
    \/ \E hashes \in Scans : WithScan(hashes)
    \/ AllowUnsafeEval
    \/ AllowUnsafeInlineScript
    \/ StrictDynamic
    \/ \E enabled \in BOOLEAN : PerResponseNonce(enabled)
    \/ \E preset \in PresetNames : Admit(preset)
    \/ \E service \in Services, origin \in OwnOrigins : AdmitOrigin(service, origin)
    \/ Build
    \/ ConstantHeaders
    \/ \E n \in MintedNonces : PerResponseHeaders(n)

Spec == Init /\ [][Next]_vars
=============================================================================
