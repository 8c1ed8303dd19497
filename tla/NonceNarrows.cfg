\* A nonce beside an inherited unsafe-inline.
CONSTANTS
    h1 = h1  h2 = h2  n1 = n1  n2 = n2  cdn = cdn  own = own  w1 = w1
    Host <- MCHost
    Scheme <- MCScheme
    Hash <- MCHash
    Nonce <- MCNonce
    Word <- MCWord
    Start = {"new", "spa_wasm"}
    GivenDirectives <- MeaningDirectives
    GivenSources <- NoDirectives
    RemovedNames = {}
    Retained <- NoDirectives
    Scans <- NoDirectives
    PresetNames = {}
    Services = {}
    OwnOrigins <- MCOwn
    MintedNonces <- MCNonce
    MaxCalls = 2
SPECIFICATION Spec
INVARIANT NonceKeepsWhatWasPermitted
CHECK_DEADLOCK FALSE
