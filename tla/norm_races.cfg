CONSTANTS
    s1 = s1
    s2 = s2
    t1 = t1
    t2 = t2
    t3 = t3
    Shards = {s1, s2}
    Tasks = {t1, t2, t3}
    Pinned = {t3}
    Home = s1
    Cap = 2
    InjectCap = 1
    IndexMod = 6
    Start = 5
    Burst = 1
    Budget = 0
    KeepTurns = 0
    StealMin = 2
    StealShare = 4
    Lanes = {TRUE, FALSE}
    MaxWakes = 3
    None = None
SPECIFICATION Spec
SYMMETRY FreeTasks
INVARIANTS
    TypeOK
    TaskOnce
    DepthExact
    PinnedHome
