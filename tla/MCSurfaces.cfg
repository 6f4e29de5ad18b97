SPECIFICATION SSpec
CONSTANTS
    MEM = 3
    Cells <- MCCells
    Lengths = {0, 1, 2}
    CurveCodes = {0, 1, 2}
    WebauthnArgs <- MCWebauthnArgs
    IsUtf8 <- MCIsUtf8
    Core <- MCCore
    NULLIFIER_LEN = 2
    Questions <- MCQuestions
INVARIANTS
    ChainAcceptsWhatAppsAccept
    NullifierLandsInOut
    BrowserAgreesWithPhone
CHECK_DEADLOCK FALSE
