\* Directives filled from every text of a few tokens.
CONSTANTS
    Name <- MCName
    Numeral <- MCNumeral
    Run <- MCRun
    MaxTokens = 5
    Texts <- MCTexts
    Paired <- MCPaired
    MaxOffers = 2
    Digests = {31, 32, 33, 48, 64}
    Entropies = {15, 16, 17, 18}
SPECIFICATION Spec
INVARIANTS
    ConfigurationTypeOK
    LineReadsBack
    ListIsWhatTheTextsMean
    WrittenByTheGrammar
    TrustedTypesPermitsTheNames
CHECK_DEADLOCK FALSE
