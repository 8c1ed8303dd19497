\* What a scan without warnings has found, on every document of up to five pieces.
CONSTANTS
    a = a
    Letter = {a}
    MaxPieces = 5
    Documents <- AllDocuments
SPECIFICATION Spec
INVARIANTS
    ScannerTypeOK
    FindsEveryInlineScript
    HashesAreOfScripts
CHECK_DEADLOCK FALSE
