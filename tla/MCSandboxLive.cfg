CONSTANTS
    p1 = p1
    p2 = p2
    p3 = p3
    LoadOrder <- Mixed
    Dedicated = {p2}
    PoolSize = 1
    MaxRestarts = 1
    MaxLoads = 4
    MaxCalls = 1
    None = None
SPECIFICATION Spec
CHECK_DEADLOCK FALSE
INVARIANTS
    WorkersAreAccountedFor
PROPERTIES
    SandboxSettles
