\* Seeding worker-src past a script-src that lists a host: the host is lost to workers.
CONSTANTS
    h1 = h1  h2 = h2  n1 = n1  n2 = n2  cdn = cdn  own = own  w1 = w1
    Host <- MCHost
    Scheme <- MCScheme
    Hash <- MCHash
    Nonce <- MCNonce
    Word <- MCWord
    Start = {"spa_wasm"}
    GivenDirectives <- WorkerDirectives
    GivenSources <- NoDirectives
    RemovedNames = {}
    Retained <- NoDirectives
    Scans <- NoDirectives
    PresetNames = {"session_replay"}
    Services = {}
    OwnOrigins <- MCOwn
    MintedNonces <- MCNonce
    MaxCalls = 2
SPECIFICATION Spec
PROPERTY PresetsWidenInABrowser
CHECK_DEADLOCK FALSE
