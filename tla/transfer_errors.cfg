\* Two tasks, both in the queue; a copy may throw.
CONSTANTS
    t1 = t1
    t2 = t2
    t3 = t3
    NoTask = NoTask
    Nobody = Nobody
    Mixed = Mixed
    Queue = Queue
    NoQueue = NoQueue
    NoMemory = NoMemory
    Tasks = {t1, t2}
    EventCapacity = 2
    ResultCapacity = 1
    WorkCapacity = 2
    SubmitMayThrow = TRUE
SPECIFICATION FairTransferSpec
PROPERTY
    ErrorsDoNotBlock
