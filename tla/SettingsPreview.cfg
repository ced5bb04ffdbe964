SPECIFICATION Spec
CONSTANTS
    MaxLaunches = 2
    MaxClicks = 2
    MaxVisits = 2
    MaxDeletes = 2
INVARIANTS
    PreviewOnPage
CHECK_DEADLOCK FALSE
