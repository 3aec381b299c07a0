\* Two tasks; copies do not throw.
CONSTANTS
    t1 = t1
    t2 = t2
    t3 = t3
    NoTask = NoTask
    Nobody = Nobody
    Mixed = Mixed
    Queue = Queue
    NoQueue = NoQueue
    NoMemory = NoMemory
    Tasks = {t1, t2}
    EventCapacity = 1
    ResultCapacity = 1
    WorkCapacity = 1
    SubmitMayThrow = FALSE
SPECIFICATION TransferSpec
INVARIANT
    SolutionsAreOnHost
