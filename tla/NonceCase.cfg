\* A nonce whose prefix is not in lower case.
CONSTANTS
    Name <- MCName
    Numeral <- MCNumeral
    Run <- MCRun
    MaxTokens = 2
    Texts <- MCTexts
    Paired <- MCPaired
    MaxOffers = 1
    Digests = {31, 32, 33, 48, 64}
    Entropies = {15, 16, 17, 18}
SPECIFICATION Spec
INVARIANT NonceCarriesItsBits
CHECK_DEADLOCK FALSE
