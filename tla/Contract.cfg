\* Over every sequence of three calls, the builder implements its contract and any two
\* presets compose.
CONSTANTS
    h1 = h1  h2 = h2  n1 = n1  n2 = n2  cdn = cdn  own = own  w1 = w1
    Host <- MCHost
    Scheme <- MCScheme
    Hash <- MCHash
    Nonce <- MCNonce
    Word <- MCWord
    Start = {"new", "spa_wasm"}
    GivenDirectives <- MeaningDirectives
    GivenSources <- MeaningSources
    RemovedNames = {"script-src", "default-src"}
    Retained <- MeaningRetained
    Scans <- MCScans
    PresetNames = {"turnstile", "session_replay"}
    Services = {"matomo"}
    OwnOrigins <- MCOwn
    MintedNonces <- MCNonce
    MaxCalls = 3
SPECIFICATION Spec
INVARIANT PresetsCompose
PROPERTY KeepsContract
CHECK_DEADLOCK FALSE
