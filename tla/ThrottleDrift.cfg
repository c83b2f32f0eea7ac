SPECIFICATION Spec
CONSTANTS
    Flow = {f1, f2}
    Max = 1
    QueueMax = 1
    MaxDepth = 1
    Period = 8
    MinDelay = 2
    Res = 2
    MaxLate = 1
    MaxLag = 0
    Timer = {t1, t2}
    Off = Off
    Resets = FALSE
INVARIANTS
    DelaysAccepted
CHECK_DEADLOCK FALSE
