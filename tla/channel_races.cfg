\* A program whose tasks all wait for a channel stops.
CONSTANTS
    t1 = t1
    t2 = t2
    t3 = t3
    TimerM = TimerM
    CancelM = CancelM
    None = None
    Tasks = {t1, t2, t3}
    Channels <- MCChannels
    Capacity = 1
    Programs <- RacePrograms
    MaxCalls <- RaceCalls
    TimedTasks = {t1}
    TokenTasks = {t1}
SPECIFICATION FairSpec
CHECK_DEADLOCK FALSE
INVARIANTS
    TypeOK
    NoMissedTransfer
    FrameAlive
    InflightExact
PROPERTIES
    ImplementsFifo
    
    LocksReleased
