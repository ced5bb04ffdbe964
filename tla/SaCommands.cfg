SPECIFICATION Spec
CONSTANTS
    t1 = t1
    t2 = t2
    x1 = x1
    x2 = x2
    p1 = p1
    p2 = p2
    Threads = {t1, t2}
    Executors = {x1, x2}
    Processors = {p1, p2}
    NoExecutor = NoExecutor
    CommandsOf <- MCCommandsOf
    Lists <- MCLists
    MaxCalls = 2
    MaxStarts = 2
SYMMETRY Symmetric
INVARIANTS
    TypeOK
    AppliedInOrder
    OwnerReleased
    NoneForgotten
CHECK_DEADLOCK FALSE
