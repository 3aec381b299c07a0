\* Three tasks, two in the queue; they share two event groups and one result group.
CONSTANTS
    t1 = t1
    t2 = t2
    t3 = t3
    NoTask = NoTask
    Nobody = Nobody
    Mixed = Mixed
    Queue = Queue
    NoQueue = NoQueue
    NoMemory = NoMemory
    Tasks = {t1, t2, t3}
    EventCapacity = 2
    ResultCapacity = 1
    WorkCapacity = 2
    SubmitMayThrow = FALSE
SPECIFICATION TransferSpec
SYMMETRY Symmetry
INVARIANTS
    GroupsHoldOwnData
    NothingOutlivesTheLoan
