SPECIFICATION FairSpec
CONSTANTS
    t1 = t1
    t2 = t2
    Threads = {t1, t2}
    States <- MCStates
    Events <- MCEvents
    InitialState = "init"
    Transition <- MCTransition
    OnTransition <- RunawayActions
    OnLeave <- RunawayLeave
    OnEnter <- NoCalls
    MAX_SCHEDULE_TIMES = 2
    MaxCalls = 2
PROPERTY
    EnsureReturns
CHECK_DEADLOCK FALSE
