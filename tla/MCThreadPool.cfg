SPECIFICATION FairSpec
CONSTANTS
    Workers = {w1, w2, w3}
    Tasks = {t1, t2, big}
    Oversized = {big}
    NoTask = NoTask
    MaxDropped = 2
    MaxEmpty = 1
    cQueueSize = 2
INVARIANTS
    TypeOK
    PendingIsCounted
    NoIdleWorker
    WaitMeansFinished
PROPERTIES
    ShutdownEnds
    QueuedIsTaken
    WaitReturns
