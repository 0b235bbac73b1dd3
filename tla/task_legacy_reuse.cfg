\* The program may stop calling; a runtime with no task left is idle.
CONSTANTS
    t1 = t1
    w1 = w1
    w2 = w2
    c1 = c1
    c2 = c2
    Tasks = {t1}
    Workers = {w1, w2}
    Clients = {c1, c2}
    HostClients = {}
    Modes = {"legacy"}
    MaxLife = 2
    LegacyLife = 2
    None = None
SPECIFICATION Spec
CHECK_DEADLOCK FALSE
INVARIANTS
    ReclaimReturned
