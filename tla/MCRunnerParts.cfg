CONSTANTS
    None = none
    \* Two commands and two processes.
    Pids = {1, 2}
    Terminals = {"k1", "k2"}
    \* Two processes with two tasks each.
    LockProcs = {"p", "q"}
    Tasks = {1, 2}
    MaxUpdates = 3
    MaxAgeings = 1
    \* Two runs in the foreground.
    RunKeys = {"k"}
    Denials = {"x", "y"}
    BufferSize = 1
    DedupeWindow = 1
    MaxRuns = 2
    MaxWork = 1
    MaxLogged = 1
    MaxDenied = 3
    Parents = {"a", "b", "c"}
    Stem <- SharedStem
    MaxNumbers = 2
    MaxRestarts = 3
    Catalog <- TwoPlugins
    Workspace = {"q"}
    Versions = {1, 2}
    MaxCommands = 2
    MaxFaults = 1
    MaxBoots = 1
    Dirs <- Tree
    ToolNames = {"t"}
    Limits = {1}
    MaxPaths = 1
    NoOne = nobody
    \* Two clients of a daemon with a new session and one on disk.
    Clients = {"c1", "c2"}
    Ids = {"d", "s1", "o"}
    Default = "d"
    OnDisk = {"o"}
    ReplayCount = 1
    HighWater = 2
    MaxSaid = 3
    \* Two daemons, two types of coordination events and one service.
    Members = {"d1", "d2"}
    EventTypes = {"t1", "t2"}
    Services = {"s"}
    InboxMax = 2
    MaxCoordination = 3
    MaxWire = 2
    \* Two agents of the channel application.
    Agents = {"a", "b"}
    MissThreshold = 2
    MaxRegistryOps = 4
    MaxAtOnce = 3
    \* Three channels.
    Kids = 3
    MaxConnects = 2
    MaxSends = 1
    MaxRefusals = 2
    ForkIds = {"p", "q"}
    MaxEvents = 2
    MaxTerminations = 1
    \* Two targets.
    Targets = {"t1", "t2"}
    AgentLimit = 2
    TargetLimit = 1
    LimitWindow = 2
    MaxNow = 6
    MaxChecks = 5
SPECIFICATION BothSpec
CHECK_DEADLOCK FALSE
INVARIANTS
    
    
    
    SubscribersGetTheirs
    LimitsHold
PROPERTIES
    RestartsGoOn
    ChannelsAreOrderly
