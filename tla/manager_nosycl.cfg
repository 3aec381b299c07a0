\* Build without SYCL: the kernel runs inside assignBuffer; fewer buffers than workers.
CONSTANTS
    e1 = e1
    e2 = e2
    e3 = e3
    e4 = e4
    Events = {e1, e2, e3, e4}
    NoEvent = NoEvent
    Async = FALSE
    NumBuffers = 2
    NumWorkers = 3
SPECIFICATION Spec
SYMMETRY Symmetry
INVARIANTS
    EveryEventExactlyOnce
