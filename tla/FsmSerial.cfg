SPECIFICATION FairSpec
CONSTANTS
    t1 = t1
    t2 = t2
    Threads = {t1, t2}
    States <- MCStates
    Events <- MCEvents
    InitialState = "init"
    Transition <- MCTransition
    OnTransition <- NoActions
    OnLeave <- NoCalls
    OnEnter <- OuterEnter
    MAX_SCHEDULE_TIMES = 2
    MaxCalls = 3
INVARIANTS
    TypeOK
    NoStrandedEvent
    EnsureFlushes
    PromiseAlive
PROPERTY
    SerialSpec
CHECK_DEADLOCK FALSE
