\* A routed expression reaches script-src through default-src.
CONSTANTS
    h1 = h1  h2 = h2  n1 = n1  n2 = n2  cdn = cdn  own = own  w1 = w1
    Host <- MCHost
    Scheme <- MCScheme
    Hash <- MCHash
    Nonce <- MCNonce
    Word <- MCWord
    Start = {"new", "spa_wasm"}
    GivenDirectives <- MeaningDirectives
    GivenSources <- MeaningSources
    RemovedNames = {"script-src"}
    Retained <- MeaningRetained
    Scans <- MCScans
    PresetNames = {}
    Services = {}
    OwnOrigins <- MCOwn
    MintedNonces <- MCNonce
    MaxCalls = 2
SPECIFICATION Spec
INVARIANT RoutedArrivedByName
CHECK_DEADLOCK FALSE
