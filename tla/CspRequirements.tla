-------------------------- MODULE CspRequirements --------------------------
(***************************************************************************)
(* What the builder and the policy it renders have to get right.  The      *)
(* requirements that hold come first; those that a comment of the code     *)
(* states and the code does not meet are at the end, each with the line it *)
(* is taken from.                                                          *)
(***************************************************************************)
EXTENDS CspBuilder, UserAgent

HeaderToken == Source \cup Word \cup DirectiveName \cup {";", "'none'"}

\* Types: the builder only ever holds directives of the right shape, and what
\* it renders are tokens.
TypeOK ==
    /\ policy \in Seq(Directive)
    /\ per_response_nonce \in BOOLEAN
    /\ \/ rendered = Unbuilt
       \/ rendered.kind = "Constant" /\ rendered.text \in Seq(HeaderToken)
       \/ /\ rendered.kind = "PerResponse"
          /\ rendered.head \in Seq(HeaderToken) /\ rendered.tail \in Seq(HeaderToken)
    /\ response \in [csp : Seq(HeaderToken), cache_control : {"absent", "no-cache"},
                     nonce : SUBSET MintedNonces]
    /\ minted \subseteq MintedNonces
    /\ named \subseteq {"allow_unsafe_eval", "allow_unsafe_inline_script",
                        "strict_dynamic"}
    /\ handed \in BOOLEAN
    /\ calls \in 0..MaxCalls

\* A directive name occurs at most once, whatever was called in whatever order:
\* a browser ignores the second occurrence (policy.rs, the comment on Policy).
UniqueNames == HasUniqueNames(policy)

\* No expression is listed twice in one directive, unless the caller itself
\* handed in a whole list that repeats it: neither extending, seeding from a
\* fallback, a preset, a scan nor a named method adds one twice.
UniqueSources ==
    ~handed => \A i \in DOMAIN policy : HasNoRepeats(policy[i].value.terms)

\* 'unsafe-eval' is in no list unless allow_unsafe_eval was called: no list
\* handed in, no seeding and no preset brings it in (csp.rs, ROUTED_SOURCES).
EvalOnlyByName ==
    (\E i \in DOMAIN policy : /\ policy[i].name \in SourceDirective
                              /\ "'unsafe-eval'" \in Elements(policy[i].value.terms))
        => "allow_unsafe_eval" \in named

\* A directive never moves: directives keep the order in which they were first
\* introduced, and new ones come last (csp.rs, Csp::directive; policy.rs, Policy).
OrderKeptStep ==
    \A i, j \in DOMAIN policy' :
        (i < j /\ Contains(policy, policy'[j].name))
            => /\ Contains(policy, policy'[i].name)
               /\ Position(policy, policy'[i].name) < Position(policy, policy'[j].name)

OrderKept == [][OrderKeptStep]_vars

-----------------------------------------------------------------------------
PresetStep ==
    \/ \E preset \in PresetNames : Admit(preset)
    \/ \E service \in Services, origin \in OwnOrigins : AdmitOrigin(service, origin)

\* A preset never takes away what a restricted load was permitted, although it
\* creates directives that cut other loads off their fallback, its own earlier
\* entries included (presets/mod.rs, "A preset only ever widens").
PresetsWidenRestrictedStep ==
    PresetStep => \A n \in SourceDirective :
        Restricted(policy, n) => Permitted(policy, n) \subseteq Permitted(policy', n)

PresetsWidenRestricted == [][PresetsWidenRestrictedStep]_vars

SameLists(p, q) ==
    /\ {p[i].name : i \in DOMAIN p} = {q[i].name : i \in DOMAIN q}
    /\ \A i \in DOMAIN p :
        Elements(p[i].value.terms) = Elements(ListOf(q, p[i].name).terms)

Tables ==
    {Origins[preset] : preset \in DOMAIN Origins}
        \cup {OriginTable(service, origin) :
                  service \in DOMAIN OriginDirectives, origin \in OwnOrigins}

\* Presets compose in any order and are idempotent (presets/mod.rs): on every
\* policy the builder can hold, any two tables give the same lists in both orders,
\* and a table admitted twice changes nothing more, not even the order.
PresetsCompose ==
    rendered = Unbuilt => \A a \in Tables :
        LET once == Admitted(policy, a)
        IN  /\ Admitted(once, a) = once
            /\ \A b \in Tables :
                   SameLists(Admitted(once, b), Admitted(Admitted(policy, b), a))

\* What the expressions other than 'unsafe-inline' permit.
PermittedByList(p, n) ==
    LET g == Governing(p, n, ChainOfTheCode(n))
    IN  Allows(n, Elements(ListOf(p, g).terms) \ {"'unsafe-inline'"})

\* Adding a scan's hashes runs every scanned script that script-src governs, and
\* costs a restricted load nothing but what 'unsafe-inline' gave it
\* (csp.rs, Csp::with_scan).
ScanAddsItsHashesStep ==
    \A hashes \in Scans : WithScan(hashes) =>
        /\ \A n \in ScriptLoad : Governing(policy', n, ChainOfTheCode(n)) = "script-src"
                => Elements(hashes) \subseteq Permitted(policy', n)
        /\ \A n \in SourceDirective : Restricted(policy, n)
                => PermittedByList(policy, n) \subseteq Permitted(policy', n)

ScanAddsItsHashes == [][ScanAddsItsHashesStep]_vars

-----------------------------------------------------------------------------
\* The policy a response states: the one built, with the nonce of the response
\* added to script-src as any other expression would be.
Stated ==
    IF per_response_nonce
    THEN ExtendUnrouted(policy, "script-src", <<CHOOSE n \in response.nonce : TRUE>>)
    ELSE policy

\* Splicing a nonce between the two halves gives the text that rendering the
\* policy with the nonce in script-src would give, wherever script-src stands
\* and whatever its list is (csp.rs, split_around_script_src and headers).
SpliceIsAppend == response # NoResponse => response.csp = ToHeaderValue(Stated)

\* A browser that reads the header back finds the directives of the policy, each
\* with the builder's expressions in order: nothing is shadowed, lost or joined.
HeaderReadsAsThePolicy ==
    response # NoResponse =>
        /\ NamesRead(response.csp) = {Stated[i].name : i \in DOMAIN Stated}
        /\ \A i \in DOMAIN Stated :
            TermsRead(response.csp, Stated[i].name)
                = WithoutNone(Stated[i].value.terms)

\* A response of a per-response policy lets its own nonce run a script, and no
\* nonce of another response: the nonce is neither dropped, nor shared, nor
\* drowned by an 'unsafe-inline' (csp.rs, Policy::headers and its comments).
NonceIsPerResponse ==
    rendered.kind = "PerResponse" /\ response # NoResponse =>
        /\ Allows("script-src", Elements(TermsRead(response.csp, "script-src")))
               \cap MintedNonces = response.nonce
        /\ response.cache_control = "no-cache"

-----------------------------------------------------------------------------
(***************************************************************************)
(* Statements of the repository that the code does not meet.               *)
(***************************************************************************)

\* csp.rs:194: "removal can only loosen a policy".
RemovalLoosens ==
    [][\A n \in RemovedNames : RemoveDirective(n) =>
         \A m \in SourceDirective : Permitted(policy, m) \subseteq Permitted(policy', m)]_vars

\* csp.rs:221: "a routed source expression that is already in the policy arrived
\* through the method that names it".
MethodOf == [s \in {"'unsafe-inline'", "'strict-dynamic'"} |->
                IF s = "'unsafe-inline'" THEN "allow_unsafe_inline_script"
                ELSE "strict_dynamic"]

RoutedArrivedByName ==
    Contains(policy, "script-src") =>
        \A s \in DOMAIN MethodOf :
            s \in Elements(ListOf(policy, "script-src").terms) => MethodOf[s] \in named

\* csp.rs:325: without a script-src the nonce goes into one seeded from default-src,
\* which "permits exactly what the policy permitted before, plus the nonce".
NonceKeepsWhatWasPermitted ==
    (/\ rendered.kind = "PerResponse" /\ response # NoResponse
     /\ Contains(policy, "default-src") /\ ~Contains(policy, "script-src"))
        => Permitted(policy, "script-src")
               \subseteq Allows("script-src", Elements(TermsRead(response.csp, "script-src")))

\* csp.rs:463: "A browser walks this chain, so seeding a directive this crate is
\* about to create has to walk the same one".
PresetsWidenInABrowser ==
    [][PresetStep => \A n \in SourceDirective : Restricted(policy, n) =>
            PermittedByStandard(policy, n) \subseteq PermittedByStandard(policy', n)]_vars
=============================================================================
