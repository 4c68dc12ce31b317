CONSTANTS
    p1 = p1
    p2 = p2
    p3 = p3
    LoadOrder <- Pooled2
    Dedicated = {}
    PoolSize = 1
    MaxRestarts = 1
    MaxLoads = 4
    MaxCalls = 1
    None = None
SPECIFICATION Spec
CHECK_DEADLOCK FALSE
INVARIANTS
    RestartBudget
