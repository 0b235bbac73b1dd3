CONSTANTS
    t1 = t1
    t2 = t2
    Tasks = {t1, t2}
    mq = mq
    cq = cq
    Queues = {mq, cq}
    MQ = mq
    CQ = cq
    TimedTasks = {}
    TokenTasks = {}
    MayStop = TRUE
    TimerM = TimerM
    CancelM = CancelM
    StopM = StopM
    None = None
    MaxGen = 1
    Outsiders = {}
SPECIFICATION CondFairSpec
INVARIANTS
    ReacquireSucceeds
PROPERTIES
    EveryLockReturns
    SignalledReturns
    StopEndsCondWaits
