SPECIFICATION Spec
CONSTANTS
    MaxSteps = 6
    MaxTimeouts = 2
    MaxCancels = 2
    MaxExtended = 2
    MaxStackAllocs = 2
    BurstSize = 2
    o1 = o1
    o2 = o2
    Object = {o1, o2}
    None = None
    MaxSub = 2
    Mixes <- MCMixes
INVARIANTS
    RingIsTree
    OneReasonToGoOn
    ResourcesFollowPath
    LocksAreReturned
PROPERTIES
    RunsInOrder
SYMMETRY Alike
CHECK_DEADLOCK FALSE
