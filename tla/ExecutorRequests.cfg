SPECIFICATION Spec
CONSTANTS
    r1 = r1
    Requests = {r1}
    Kinds <- AllKinds
    Modes <- MCModes
    KeyLists <- MCKeyLists
    Codes = {0, 1, 2, 3, 4, 5, 6, 7, 8, 9, 10, 11, 10000, 10001}
    MaxReports = 2
INVARIANTS
    ToldFaithfully
    VibratesForFailure
    PropertiesAsked
CHECK_DEADLOCK FALSE
