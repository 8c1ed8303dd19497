\* A server that scans, builds and responds, for every shell of up to three pieces.
CONSTANTS
    a = a
    own = own
    n1 = n1
    n2 = n2
    Letter = {a}
    MaxPieces = 3
    Documents <- MCDocuments
    Host <- MCHost
    Scheme <- MCScheme
    Hash <- MCHash
    Nonce <- MCNonce
    Word <- MCWord
    Sha256 <- MCSha256
    Unreadable <- MCUnreadable
    ExtraSources <- MCExtraSources
    Replacements <- MCReplacements
SPECIFICATION Spec
INVARIANTS
    FreshShellRuns
    ShellCannotSteer
PROPERTY StartupEnds
