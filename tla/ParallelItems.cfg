SPECIFICATION FairSpec
CONSTANTS
    Item = {i1, i2, i3}
    Code <- MCCodes
    Engines = {"AsyncSteps", "NitroSteps"}
    Allow = {}
INVARIANTS
    FinalCallIsDue
    NoOrphans
PROPERTIES
    ImplementsForkJoin
    ParallelEnds
CHECK_DEADLOCK FALSE
