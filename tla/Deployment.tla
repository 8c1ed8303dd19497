----------------------------- MODULE Deployment -----------------------------
(***************************************************************************)
(* A server that uses both crates as csp-shell/fuzz's oracle               *)
(* shell_to_header and the README describe: it reads the shell from disk   *)
(* and scans it, builds the policy of a single-page application around the *)
(* digests, and answers requests with its headers, while the file may be   *)
(* replaced under it.                                                      *)
(*                                                                         *)
(* The scanner and the builder are the modules of their own; what the      *)
(* scanner calls the digest of a script is its text, and becomes a source  *)
(* expression here.                                                        *)
(***************************************************************************)
EXTENDS Naturals, Sequences

CONSTANTS
    Letter, Documents,                  \* of the scanner
    Host, Scheme, Hash, Nonce, Word,    \* of the builder
    Sha256(_),       \* the source expression for a script with that text
    Unreadable,      \* what is on disk when scan_shell_at fails
    ExtraSources,    \* the origins the configuration adds to connect-src
    Replacements     \* the shells that may replace the first one

VARIABLES
    shell, html, cursor, digest, hashes, warnings, phase,    \* of the scanner
    policy, per_response_nonce, rendered, response, minted,  \* of the builder ...
    named, handed, calls,
    disk,       \* the shell on disk
    turnstile,  \* whether the preset was applied
    step        \* what the server has done last

scan == <<shell, html, cursor, digest, hashes, warnings, phase>>
csp == <<policy, per_response_nonce, rendered, response, minted, named, handed, calls>>
vars == <<scan, csp, disk, turnstile, step>>

Scanner == INSTANCE ScannerRequirements

Builder == INSTANCE CspBuilder WITH
    Start <- {"spa_wasm"}, GivenDirectives <- {},
    GivenSources <- {<<"connect-src", ss>> : ss \in ExtraSources},
    RemovedNames <- {}, Retained <- {}, Scans <- {}, PresetNames <- {"turnstile"},
    Services <- {}, OwnOrigins <- {}, MintedNonces <- Nonce, MaxCalls <- 4

\* The inputs are what the scanner and the builder take them to be, and no origin of
\* the configuration is a nonce.
ASSUME ServerInputs ==
    /\ Scanner!DocumentTypes
    /\ Builder!DistinctTerms /\ Builder!NoneIsNoSource /\ Builder!SeparatorIsNoTerm
    /\ Builder!InputTypes /\ Builder!PresetTypes /\ Builder!NoncesAreFresh

\* The digest of what the scan hashes is a hash source (scan.rs, sha256_source).
ASSUME DigestsAreSources ==
    \A text \in Documents :
        \A script \in Scanner!Enclosed(Scanner!InputStream(text)) : Sha256(script) \in Hash

Init ==
    /\ Scanner!Init
    /\ Builder!Init
    /\ disk = Unreadable
    /\ turnstile = FALSE
    /\ step = "started"

-----------------------------------------------------------------------------
After(done, next) == step = done /\ step' = next

\* A shell is put in its place, for the server to read ...
Deploy ==
    /\ step = "started" /\ disk = Unreadable
    /\ \E text \in Documents : disk' = text
    /\ UNCHANGED <<scan, csp, turnstile, step>>

\* ... and another one under the policy that was built around it.
Replace ==
    /\ step \in {"built", "serving"}
    /\ \E text \in Replacements : disk' = text
    /\ UNCHANGED <<scan, csp, turnstile, step>>

\* scan_shell_at, of a file that can be read, up to the walk.
ReadShell ==
    /\ After("started", "read")
    /\ disk # Unreadable
    /\ Scanner!ScanShell(disk)
    /\ UNCHANGED <<csp, disk, turnstile>>

\* scan_shell_at returns an error, and the server goes on without digests.
CannotRead ==
    /\ After("started", "scanned")
    /\ disk = Unreadable
    /\ UNCHANGED <<scan, csp, disk, turnstile>>

\* A turn of the loop of scan_normalised.
Walk ==
    /\ Scanner!Walk
    /\ UNCHANGED <<csp, disk, turnstile, step>>

\* A faulty use of the scan: the text that was hashed last is all that is admitted.
AdmitLast ==
    /\ phase = "done" /\ After("read", "scanned")
    /\ Builder!WithScan(IF hashes = <<>> THEN <<>> ELSE <<Sha256(hashes[Len(hashes)])>>)
    /\ UNCHANGED <<scan, disk, turnstile>>

\* Csp::with_scan, with the result of the scan.
AdmitScan ==
    /\ phase = "done" /\ After("read", "scanned")
    /\ Builder!WithScan([i \in DOMAIN hashes |-> Sha256(hashes[i])])
    /\ UNCHANGED <<scan, disk, turnstile>>

\* cloudflare::script_nonce, or not.
ChooseNonce ==
    /\ After("scanned", "nonce chosen")
    /\ Builder!PerResponseNonce(TRUE) \/ UNCHANGED csp
    /\ UNCHANGED <<scan, disk, turnstile>>

\* cloudflare::turnstile, or not.
ChoosePreset ==
    /\ After("nonce chosen", "preset chosen")
    /\ \/ Builder!Admit("turnstile") /\ turnstile' = TRUE
       \/ UNCHANGED <<csp, turnstile>>
    /\ UNCHANGED <<scan, disk>>

\* Csp::extend with the origins of the configuration.
AddOrigins(sources) ==
    /\ After("preset chosen", "configured")
    /\ Builder!Extend("connect-src", sources)
    /\ UNCHANGED <<scan, disk, turnstile>>

\* Csp::build.
BuildPolicy ==
    /\ After("configured", "built")
    /\ Builder!Build
    /\ UNCHANGED <<scan, disk, turnstile>>

\* Policy::headers, for a response.
Respond ==
    /\ step \in {"built", "serving"} /\ step' = "serving"
    /\ Builder!ConstantHeaders \/ \E n \in Nonce : Builder!PerResponseHeaders(n)
    /\ UNCHANGED <<scan, disk, turnstile>>

\* What the server does of its own accord before it serves.
Startup ==
    \/ ReadShell
    \/ CannotRead
    \/ Walk
    \/ AdmitScan
    \/ ChooseNonce
    \/ ChoosePreset
    \/ \E sources \in ExtraSources : AddOrigins(sources)
    \/ BuildPolicy

Next ==
    \/ Startup
    \/ Respond
    \/ Deploy
    \/ Replace

\* Nothing keeps a server that was started from going on, while nobody need replace its
\* shell or ask it for a response.  The second conjunct is weak fairness of Startup outside
\* the loop, where it is enabled until the policy is built (which checking for deadlocks
\* shows), spelt out because TLC is slow to tell whether the builder's calls are enabled.
Fairness ==
    /\ WF_vars(Walk)
    /\ \/ []<>(step \in {"built", "serving"} \/ phase = "scanning")
       \/ []<><<Startup>>_vars

Spec == Init /\ [][Next]_vars /\ Fairness
=============================================================================
