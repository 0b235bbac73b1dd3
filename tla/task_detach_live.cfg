\* The program may stop calling; a runtime with no task left is idle.
CONSTANTS
    t1 = t1
    w1 = w1
    c1 = c1
    h1 = h1
    Tasks = {t1}
    Workers = {w1}
    Clients = {c1, h1}
    HostClients = {h1}
    Modes = {"managed"}
    MaxLife = 1
    LegacyLife = 1
    None = None
SPECIFICATION FairSpec
CHECK_DEADLOCK FALSE
PROPERTIES
    DetachReleases
