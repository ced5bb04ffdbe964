SPECIFICATION Spec
CONSTANTS
    Span = 2
    Actions = {"act"}
    NoAction = "none"
    MaxMakes = 3
INVARIANTS
    BuiltAsAsked
CHECK_DEADLOCK FALSE
