----------------------- MODULE DeploymentRequirements -----------------------
(***************************************************************************)
(* What the header of a deployed server owes the shell it serves.          *)
(***************************************************************************)
EXTENDS Deployment

Browser == INSTANCE UserAgent

\* What stands for an inline script that nothing lists is no expression.
ASSUME MarkerIsNoSource == Browser!AnyInlineIsNoSource

Responded == response # Builder!NoResponse

ScriptTerms == Browser!TermsRead(response.csp, "script-src")

\* What the header lets run.
Runs == Browser!Allows("script-src", Builder!Elements(ScriptTerms))

\* Whoever compares the digest of the scan with the shell on disk and finds them equal
\* serves a shell whose inline scripts all run: neither the builder nor the rendering loses
\* one the scanner found, and a shell replaced under the policy is told by its digest
\* (scan_shell_at, ScanResult::digest, Csp::with_scan, Policy::headers).
FreshShellRuns ==
    Responded /\ digest = disk /\ warnings = {} /\ Scanner!Ordinary(disk)
        => {Sha256(script) : script \in Scanner!InlineScripts(disk)} \subseteq Runs

\* The directives that neither a scan nor a preset of this application adds to.
KeptRestrictions == {"default-src", "object-src", "base-uri", "form-action", "frame-ancestors"}

\* No shell steers the header: it names the directives of the application and of the
\* preset, a browser reads the restrictions as the application wrote them, and the only
\* inline scripts it lets run are those the scan found and the one with the nonce of the
\* response (the oracle shell_to_header).
ShellCannotSteer ==
    Responded =>
        /\ Browser!NamesRead(response.csp) =
              {Builder!SpaWasm[i].name : i \in DOMAIN Builder!SpaWasm}
                  \cup (IF turnstile THEN {"frame-src"} ELSE {})
        /\ \A i \in DOMAIN Builder!SpaWasm :
              LET d == Builder!SpaWasm[i]
              IN  d.name \in KeptRestrictions =>
                    Browser!TermsRead(response.csp, d.name)
                        = Browser!WithoutNone(d.value.terms)
        /\ Runs \cap (Hash \cup Nonce \cup {Browser!AnyInline, "'unsafe-eval'"})
              = {Sha256(hashes[i]) : i \in DOMAIN hashes} \cup response.nonce
        /\ response.cache_control = "no-cache" <=> per_response_nonce

\* A server that is started gets to the policy it serves, whatever the shell holds or
\* whether it can be read at all (the loop of scan_normalised, scan_shell_at).
StartupEnds == <>[](step \in {"built", "serving"})
=============================================================================
