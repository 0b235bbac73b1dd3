\* A program whose tasks all wait on the condition variable stops.
CONSTANTS
    t1 = t1
    t2 = t2
    t3 = t3
    Tasks = {t1, t2, t3}
    mq = mq
    cq = cq
    Queues = {mq, cq}
    MQ = mq
    CQ = cq
    TimedTasks = {t1}
    TokenTasks = {t1}
    MayStop = FALSE
    TimerM = TimerM
    CancelM = CancelM
    StopM = StopM
    None = None
    MaxGen = 1
    Outsiders = {t3}
SPECIFICATION OutsiderSpec
CHECK_DEADLOCK FALSE
INVARIANTS
    CondTypeOK
    CondResolvedOnce
    ReacquireSucceeds
    SignalNotLost
    OwnerExact
