\* The program may stop calling; a runtime with no task left is idle.
CONSTANTS
    t1 = t1
    w1 = w1
    w2 = w2
    c1 = c1
    c2 = c2
    h1 = h1
    Tasks = {t1}
    Workers = {w1, w2}
    Clients = {c1, c2, h1}
    HostClients = {h1}
    Modes = {"managed", "legacy"}
    MaxLife = 2
    LegacyLife = 1
    None = None
SPECIFICATION FairSpec
CHECK_DEADLOCK FALSE
INVARIANTS
    TypeOK
    BorrowValid
    HandleExact
    ConsumedOnce
    ReclaimReturned
    OneReclaimer
PROPERTIES
    JoinReturns
