CONSTANTS
    SessionIds = {main, s1}
    Default = main
    Nonces = {1, 2}
    Prints = {p1, p2}
    MaxLoopTicks = 0
    MaxTokenUsage = 1
    MaxTokensPerCall = 1
    RepetitiveFailThreshold = 2
    FrustrationThreshold = 3
    ErrorWindowSize = 4
    RateNum = 3
    RateDen = 4
    MaxToolRounds = 1
    MaxCalls = 2
    MaxInputs = 1
    MaxResets = 1
SPECIFICATION Spec
CHECK_DEADLOCK FALSE
INVARIANTS
    TypeOK
    OnlyConfirmedToolsRun
    BudgetOverrunIsOneCall
    ResultsAnswerCalls
    TurnStaysInOneSession
