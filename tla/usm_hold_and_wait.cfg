\* Three tasks admitted to a queue with one group of each kind.
CONSTANTS
    t1 = t1
    t2 = t2
    t3 = t3
    t4 = t4
    Tasks = {t1, t2, t3}
    NoTask = NoTask
    Nobody = Nobody
    EventCapacity = 1
    ResultCapacity = 1
    WorkCapacity = 3
SPECIFICATION FairSpec
PROPERTIES
    EventGroupReturned
