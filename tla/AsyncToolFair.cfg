SPECIFICATION FairSpec
CONSTANTS
    Node = {n1, n2}
    Call = {c1, c2}
    NoNode = NoNode
    NoCall = NoCall
    Thread = {t1}
    Delay = {}
    MinDelay = 2
    Slack = 1
    MaxClock = 0
    Burst = 1
    TaskCapacity = 1
    CookieMod = 4
    Internal = TRUE
    Recycle = TRUE
    Destroyable = TRUE
    Releasable = FALSE
INVARIANTS
    NoLostWakeup
PROPERTIES
    RequestsReturn
    ShutdownJoins
CHECK_DEADLOCK FALSE
