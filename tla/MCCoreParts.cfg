CONSTANTS
    None = none
    Events = {e1, e2}
    MaxPushes = 5
    \* The monitor of two tools.
    Prints = {"p1", "p2"}
    MaxLoopTicks = 3
    MaxTokenUsage = 3
    RepetitiveFailThreshold = 2
    FrustrationThreshold = 3
    ErrorWindowSize = 4
    RateNum = 3
    RateDen = 4
    MaxLog = 7
    \* Two plugins in a pool of one worker.
    LoadOrder <- TwoPlugins
    Dedicated = {}
    PoolSize = 1
    MaxRestarts = 1
    MaxLoads = 4
    MaxToolCalls = 1
    \* Two plugins that own a worker, one after the other.
    Types = {"t"}
    Blocked = "b"
    Tenants = 2
    RateLimit = 1
    MaxSubs = 2
    MaxBusEvents = 2
    MaxRequests = 3
    MaxWire = 2
    \* Three plugins that may name each other or one service.
    Count = 3
    Services = {"s"}
    HookSets = {{}, {"tool", "manager"}, {"tool", "guide"}, {"listener", "manager"},
                {"guide", "listener"}}
    BufferSize = 2
    MaxFileSize = 2
    AuditFiles = 1
    MaxLogged = 5
    MaxFlushes = 2
    MaxSize = 2
    TrailFiles = 3
    MaxEntries = 10
    MaxTrouble = 2
    \* Three gears.
    Gears = {1, 2, 3}
    DefaultGear = 2
    Risks = {"destructive"}
    NoRisk = "none"
    Destructive = "destructive"
    RiskDelta <- DestructiveDelta
    BaseThreshold = 60
    MinThreshold = 30
    MaxThreshold = 90
    Floor = 30
    Ceiling = 90
    SnehaWeight <- Sneha
    ManaWeight = 15
    Signals = {0}
    SustainedTicks = 2
    CooldownTicks = 2
    MaxBoost = 15
    QualityAlpha = 10
    Qualities = {0, 100}
    Caps <- GearCaps
    MaxAuditDelta = 5
    Deltas <- AuditDeltas
    Confidences = {58, 99}
    MaxHistory = 1
    MaxCycles <- GearCycles
    ExtraKeys = {"k"}
    MaxArbiters = 2
    MaxRoutes = 5
    \* Two commands beside plain inputs.
    Names = {"n1", "n2"}
    PlainInput = "plain"
    MaxInputs = 3
    MaxHandlers = 2
SPECIFICATION PartsSpec
CHECK_DEADLOCK FALSE
INVARIANTS
    Fifo
    NoLostWakeup
    EvidenceHalts
    PluginsKeepWorkers
    PluginsHearTheirs
    LoadingIsSound
    
    GearsAnswer
PROPERTIES
    InputsArrive
