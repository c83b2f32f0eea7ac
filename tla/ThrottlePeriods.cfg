SPECIFICATION FairSpec
CONSTANTS
    Flow = {f1, f2, f3}
    Max = 1
    QueueMax = 2
    MaxDepth = 2
    Period = 4
    MinDelay = 1
    Res = 2
    MaxLate = 1
    MaxLag = 1
    Timer = {t1, t2}
    Off = Off
    Resets = TRUE
PROPERTIES
    RateKept
    NoOvertaking
    WaitersServed
    TimerStops
CHECK_DEADLOCK FALSE
