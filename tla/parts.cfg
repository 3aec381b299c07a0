\* Each of the parts that run on their own, in a small instance.
CONSTANTS
    \* EventUsm objects, a pool of two groups, two queues, three allocations
    NoQueue = NoQueue
    NoMemory = NoMemory
    NoGroup = NoGroup
    Class = "EventUsm"
    Objects = {o1, o2}
    Queues = {q1, q2}
    Groups = {g1, g2}
    Blocks = {b1, b2, b3}
    \* trees of up to four entries of three events
    Trees <- SomeTrees
    NoTree = NoTree
    Configs <- SomeConfigs
    NotSet = NotSet
    \* four points, six regions, two work items
    PI = 4
    Tilt = 1
    MinEta = 1
    ZUnitSquared = 4
    SplitterData <- SomeData
    phiSplit = 2
    etaSplit = 3
    EtaLimit = 6
    BeamWidth = 1
    ConvertItems = 2
    WorkItems = 2
    Unset = Unset
    \* arrays of two and three elements, two iterations
    InputSize = 2
    LargeInputSize = 3
    iterations = 2
    \* two vectors of up to two values
    Vectors = {v1, v2}
    Values = {x, y}
    MaxSize = 2
    Garbage = Garbage
    \* an accumulator of 5 x 6 cells and three layers
    PointSets <- SomePointSets
    layers = 3
    x_begin <- MinusFour
    dx = 2
    x_dpi = 5
    y_begin <- MinusSix
    dy = 4
    y_dpi = 6
    threshold = 1
    \* two loggers, two paths, two messages to each
    Loggers = {l1, l2}
    OstreamLogger = OstreamLogger
    NoLogger = NoLogger
    Paths = {p1, p2}
    NoPath = NoPath
    Stream = Stream
    Messages <- SomeMessages
    MaxMessages = 2
    \* lists of up to three lines that name two executables
    Executables = {e1, e2}
    MaxSuites = 3
    NoResult = NoResult
SPECIFICATION PartsSpec
INVARIANTS
    MemoryIsOwnOrLent
    NothingLeaks
    LoadsSelectedEvents
    SplitsRegion
    MeasuresWholeKernels
    AccumulatorsAgree
    LogsAreFramed
    SuitesAreAccountedFor
PROPERTIES
    ImplementsStdVector
