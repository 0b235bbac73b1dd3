\* The program may stop calling.
CONSTANTS
    o1 = o1
    o2 = o2
    a1 = a1
    a2 = a2
    Objects = {o1, o2}
    Threads = {a1, a2}
    TimerThreads = {a2}
    MaxSlots = 2
    MaxEpoch = 3
    Multipliers = {1, 2}
    Addends = {0, 2}
    Tables = {FALSE, TRUE}
    FamilySpan = 4
    Family = 2
    ShiftSpan = 64
    BeginLimit = 1
    BusySentinel = 5
    MaxBirth = 4
    None = None
SPECIFICATION Spec
SYMMETRY HandleSymmetry
CHECK_DEADLOCK FALSE
INVARIANTS
    SlotTypeOK
    StaleNeverResolves
    HandlesUnique
    FreeListExact
    
PROPERTIES
    SaturationPermanent
