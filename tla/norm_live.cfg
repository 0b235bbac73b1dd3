CONSTANTS
    s1 = s1
    s2 = s2
    t1 = t1
    t2 = t2
    t3 = t3
    Shards = {s1}
    Tasks = {t1, t2, t3}
    Pinned = {}
    Home = s1
    Cap = 2
    InjectCap = 1
    IndexMod = 6
    Start = 5
    Burst = 1
    Budget = 0
    KeepTurns = 1
    StealMin = 2
    StealShare = 4
    Lanes = {TRUE}
    MaxWakes = 4
    None = None
SPECIFICATION FairSpec
PROPERTIES
    YieldersDoNotStarve
