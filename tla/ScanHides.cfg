\* The opening of a comment or of a script inside a script, or a script opened inside a
\* comment: what hides a script from the scanner.
CONSTANTS
    a = a
    Letter = {a}
    MaxPieces = 5
    Documents <- Comments
SPECIFICATION Spec
INVARIANT LimitsAreReported
CHECK_DEADLOCK FALSE
