CONSTANTS
    s1 = s1
    s2 = s2
    Sessions = {s1, s2}
    SaveEvery = 2
    IdleTTL = 0
    MaxCalls = 3
    MaxFailures = 1
    MaxDay = 1
    MaxJobs = 2
SPECIFICATION HalvesSpec
CHECK_DEADLOCK FALSE
INVARIANTS
    FilesAreWhole
    LossIsBounded
    AtRestIsSaved
    IndexAgrees
PROPERTY
    CallsLand
