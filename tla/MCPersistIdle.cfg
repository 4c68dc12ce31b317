CONSTANTS
    Sessions = {s1}
    SaveEvery = 2
    IdleTTL = 1
    MaxCalls = 3
    MaxFailures = 0
    MaxDay = 2
    MaxJobs = 2
SPECIFICATION Spec
CHECK_DEADLOCK FALSE
INVARIANT
    OnlyIdleExpire
