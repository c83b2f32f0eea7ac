SPECIFICATION LFairSpec
CONSTANTS
    r1 = r1
    Flow = {f1, f2, f3}
    Reactor = {r1}
    Home <- OneReactor
    Max = 2
    QueueMax = 1
    MaxDepth = 1
    None = None
    Rate = 1
    Burst = 1
INVARIANTS
    PlacesAreHeld
PROPERTIES
    FairAdmission
    EntrySettles
