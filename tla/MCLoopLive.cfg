CONSTANTS
    SessionIds = {main}
    Default = main
    Nonces = {1}
    Prints = {p1}
    MaxLoopTicks = 2
    MaxTokenUsage = 1
    MaxTokensPerCall = 1
    RepetitiveFailThreshold = 1
    FrustrationThreshold = 2
    ErrorWindowSize = 2
    RateNum = 1
    RateDen = 2
    MaxToolRounds = 2
    MaxCalls = 1
    MaxInputs = 2
    MaxResets = 1
SPECIFICATION Spec
CHECK_DEADLOCK FALSE
INVARIANTS
    NoWorkInLockout
    TurnIsReported
PROPERTIES
    UnlockClearsCounters
    InputsSettle
    ImplementsLifecycle
