\* runOnCpu and runOnGpu, SYCL build.
CONSTANTS
    e1 = e1
    e2 = e2
    e3 = e3
    e4 = e4
    Events = {e1, e2, e3, e4}
    EventList <- FourEvents
    NoEvent = NoEvent
    Async = TRUE
    NumBuffers = 3
    NumWorkers = 2
SPECIFICATION FairAppSpec
INVARIANTS
    SavedExactlyOnce
    DrainedBeforeCollecting
PROPERTIES
    UsesManagerByItsInterface
    Finishes
