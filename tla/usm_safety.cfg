\* More tasks than the queue admits, more tasks admitted than groups.
CONSTANTS
    t1 = t1
    t2 = t2
    t3 = t3
    t4 = t4
    Tasks = {t1, t2, t3, t4}
    NoTask = NoTask
    Nobody = Nobody
    EventCapacity = 2
    ResultCapacity = 1
    WorkCapacity = 3
SPECIFICATION Spec
SYMMETRY Symmetry
INVARIANTS
    TypeOK
    TasksAccountedFor
    OnlyOwnedTasksMove
    NotManipulatedWhileChanging
    ResourcesAccountedFor
    DeviceUsesHeldGroups
PROPERTIES
    OneChangePerNotification
