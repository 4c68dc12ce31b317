CONSTANTS
    Sessions = {s1}
    SaveEvery = 2
    IdleTTL = 0
    MaxCalls = 3
    MaxFailures = 0
    MaxDay = 0
    MaxJobs = 2
SPECIFICATION Spec
CHECK_DEADLOCK FALSE
INVARIANT
    ShutdownSaves
