SPECIFICATION FairSpec
CONSTANTS
    Node = {n1, n2}
    Call = {c1, c2}
    NoNode = NoNode
    NoCall = NoCall
    Thread = {t1}
    Delay = {2}
    MinDelay = 2
    Slack = 1
    MaxClock = 0
    Burst = 1
    TaskCapacity = 1
    CookieMod = 16
    Internal = TRUE
    Recycle = FALSE
    Destroyable = FALSE
    Releasable = FALSE
PROPERTIES
    CallsComplete
