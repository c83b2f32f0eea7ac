SPECIFICATION Spec
CONSTANTS
    f1 = f1
    f2 = f2
    f3 = f3
    f4 = f4
    f5 = f5
    r1 = r1
    r2 = r2
    Flow = {f1, f2, f3, f4, f5}
    Reactor = {r1, r2}
    Home <- TwoReactors
    Max = 2
    QueueMax = 2
    MaxDepth = 2
    None = None
INVARIANTS
    MutualExclusion
    CountIsDepth
    NothingLeftBehind
    NoIdleRoom
PROPERTIES
    RefusedWhenFull
    OrderedAdmission
SYMMETRY Alike
CHECK_DEADLOCK FALSE
