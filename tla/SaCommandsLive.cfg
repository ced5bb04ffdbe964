SPECIFICATION FairSpec
CONSTANTS
    t1 = t1
    t2 = t2
    x1 = x1
    x2 = x2
    p1 = p1
    p2 = p2
    Threads = {t1, t2}
    Executors = {x1, x2}
    Processors = {p1}
    NoExecutor = NoExecutor
    CommandsOf <- OneProcessor
    Lists <- ShortLists
    MaxCalls = 2
    MaxStarts = 1
PROPERTIES
    CallsReturn
    LostOwnerReleased
CHECK_DEADLOCK FALSE
