SPECIFICATION Spec
CONSTANTS
    s1 = s1
    s2 = s2
    s3 = s3
    s4 = s4
    t1 = t1
    Step = {s1, s2, s3, s4}
    Timer = {t1}
    None = None
    MaxSub = 2
    BurstSize = 2
    MaxAllocs = 1
    Mixes = {{"loop", "wait", "timeout", "cancel", "await"},
             {"loop", "wait", "stack", "cancel"}, {"await", "wait", "foreign"}}
SYMMETRY Symmetry
INVARIANTS
    DequeIsTree
    NoStall
    ResourcesFollowPath
    NoStaleError
    NoInvalidCall
PROPERTIES
    RunsInOrder
CHECK_DEADLOCK FALSE
