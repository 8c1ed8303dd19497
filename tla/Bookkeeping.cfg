\* Names, order, duplicates and routing over every sequence of four calls.
CONSTANTS
    h1 = h1  h2 = h2  n1 = n1  n2 = n2  cdn = cdn  own = own  w1 = w1
    Host <- MCHost
    Scheme <- MCScheme
    Hash <- MCHash
    Nonce <- MCNonce
    Word <- MCWord
    Start = {"new", "spa_wasm"}
    GivenDirectives <- BookkeepingDirectives
    GivenSources <- BookkeepingSources
    RemovedNames = {"script-src", "default-src"}
    Retained <- BookkeepingRetained
    Scans <- MCScans
    PresetNames = {"turnstile", "session_replay"}
    Services = {"self_hosted"}
    OwnOrigins <- MCOwn
    MintedNonces <- MCNonce
    MaxCalls = 4
SPECIFICATION Spec
INVARIANTS
    TypeOK
    UniqueNames
    UniqueSources
    EvalOnlyByName
PROPERTY OrderKept
CHECK_DEADLOCK FALSE
