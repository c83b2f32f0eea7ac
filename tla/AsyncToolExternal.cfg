SPECIFICATION Spec
CONSTANTS
    Node = {n1, n2}
    Call = {c1, c2}
    NoNode = NoNode
    NoCall = NoCall
    Thread = {t1, t2}
    Delay = {1, 2}
    MinDelay = 2
    Slack = 1
    MaxClock = 1
    Burst = 1
    TaskCapacity = 1
    CookieMod = 3
    Internal = FALSE
    Recycle = FALSE
    Destroyable = TRUE
    Releasable = TRUE
VIEW LiveView
SYMMETRY Symmetry
INVARIANTS
    HandleIdentity
    PendingIsQueued
    ExternalLoopMayWait
    NodeOwnership
    CancelAccounting
PROPERTIES
    NotEarly
CHECK_DEADLOCK FALSE
