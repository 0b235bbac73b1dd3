CONSTANTS
    t1 = t1
    t2 = t2
    Tasks = {t1, t2}
    mq = mq
    Queues = {mq}
    MQ = mq
    TimedTasks = {t1}
    TokenTasks = {t1}
    MayStop = TRUE
    TimerM = TimerM
    CancelM = CancelM
    StopM = StopM
    None = None
    MaxGen = 2
SPECIFICATION FairSpec
INVARIANTS
    MutexInv
    ResolvedOnce
    QueuedOnce
    ResolverPinsWait
    
PROPERTIES
    StopEndsWaits
