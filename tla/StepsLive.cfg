SPECIFICATION FairSpec
CONSTANTS
    s1 = s1
    s2 = s2
    s3 = s3
    t1 = t1
    Step = {s1, s2, s3}
    Timer = {t1}
    None = None
    MaxSub = 2
    BurstSize = 2
    MaxAllocs = 0
    Mixes = {{"loop", "wait", "foreign"}, {"await", "wait", "foreign"}}
PROPERTIES
    FlowEnds
    BurstEnds
CHECK_DEADLOCK FALSE
