SPECIFICATION FairSpec
CONSTANTS
    MaxLaunches = 2
    MaxClicks = 2
    MaxVisits = 2
    MaxDeletes = 2
INVARIANTS
    TypeOK
    OneEnrolment
    SurfaceReleased
    OwnPageReplaced
    EnrollingGoesOn
PROPERTIES
    DeleteLeaves
CHECK_DEADLOCK FALSE
