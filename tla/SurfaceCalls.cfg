SPECIFICATION FairSpec
CONSTANTS
    t1 = t1
    t2 = t2
    a = a
    b = b
    Threads = {t1, t2}
    NoThread = NoThread
    Producers = {a, b}
    NoProducer = NoProducer
    Tokens <- MCTokens
    Inputs <- MCInputs
    MaxInstances = 3
    MaxDriverDeaths = 1
    MaxCalls = 1
INVARIANTS
    TypeOK
    ResultTruthful
    StaleProxyNoticed
PROPERTIES
    StaleProxyDropped
    CallsReturn
CHECK_DEADLOCK FALSE
