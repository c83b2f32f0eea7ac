SPECIFICATION FairSpec
CONSTANTS
    f1 = f1
    f2 = f2
    f3 = f3
    f4 = f4
    f5 = f5
    r1 = r1
    r2 = r2
    Flow = {f1, f3, f2}
    Reactor = {r1, r2}
    Home <- TwoReactors
    Max = 1
    QueueMax = 2
    MaxDepth = 1
    None = None
PROPERTIES
    MutexReturned
CHECK_DEADLOCK FALSE
