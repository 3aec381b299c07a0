\* Two ResultUsm objects, a pool of two groups, two queues, three allocations.
CONSTANTS
    NoQueue = NoQueue
    NoMemory = NoMemory
    NoGroup = NoGroup
    Class = "ResultUsm"
    Objects = {o1, o2}
    Queues = {q1, q2}
    Groups = {g1, g2}
    Blocks = {b1, b2, b3}
SPECIFICATION Spec
INVARIANT
    NothingLeaks
