\* Work capacity within the event capacity, as in UsmWorkflowDemo.
CONSTANTS
    t1 = t1
    t2 = t2
    t3 = t3
    t4 = t4
    Tasks = {t1, t2, t3}
    NoTask = NoTask
    Nobody = Nobody
    EventCapacity = 2
    ResultCapacity = 1
    WorkCapacity = 2
SPECIFICATION FairSpec
PROPERTIES
    EveryTaskCompletes
    ImplementsDeviceQueue
