CONSTANTS
    t1 = t1
    t2 = t2
    Tasks = {t1, t2}
    mq = mq
    Queues = {mq}
    MQ = mq
    TimedTasks = {}
    TokenTasks = {t1}
    MayStop = FALSE
    TimerM = TimerM
    CancelM = CancelM
    StopM = StopM
    None = None
    MaxGen = 4
SPECIFICATION FairSpec
PROPERTIES
    CancelEndsWaits
