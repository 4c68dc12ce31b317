CONSTANTS
    a1 = a1
    a2 = a2
    a3 = a3
    Agents <- Three
    CanSend <- ThreeSend
    CanReceive <- ThreeReceive
    Routes <- ThreeRoutes
    MaxAge = 0
    MaxSkew = 0
    MaxTraceDepth = 2
    InboxMax = 1
    MaxMessages = 2
    MaxTime = 1
    MaxRestarts = 1
SPECIFICATION Spec
CHECK_DEADLOCK FALSE
INVARIANTS
    AcceptedOnce
    HandledOnce
    NoOrphans
    RepliesMatch
PROPERTY
    RequestsEnd
