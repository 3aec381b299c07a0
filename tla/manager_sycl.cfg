\* SYCL build: more events than buffers, more buffers than workers.
CONSTANTS
    e1 = e1
    e2 = e2
    e3 = e3
    e4 = e4
    Events = {e1, e2, e3, e4}
    NoEvent = NoEvent
    Async = TRUE
    NumBuffers = 3
    NumWorkers = 2
SPECIFICATION FairSpec
INVARIANTS
    TypeOK
    NothingMislaid
    CallsAreSafe
    SolutionsMatchTheirEvent
    EveryEventExactlyOnce
PROPERTIES
    InputNotOverwritten
    ImplementsPipeline
    DrainReturns
