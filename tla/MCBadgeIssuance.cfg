CONSTANTS
    e1 = e1
    c1 = c1
    w1 = w1
    w2 = w2
    r1 = r1
    r2 = r2
    lesson = lesson
    extra = extra
    Nobody = Nobody
    Enrollments <- MCEnrollments
    Requests <- MCRequests
    Workers <- MCWorkers
    Reapers <- MCReapers
    Resources <- MCResources
    Quizzes = {}
    Visible <- TwoVersions
    Required <- TwoVersions
    RequiredPct <- TwoPcts
    LastVersion = 2
    MaxRetries = 1
    MaxBadges = 2
    FaultKinds <- AllFaults
    MaxFaults = 1
SPECIFICATION Spec
SYMMETRY WorkerSymmetry
INVARIANTS
    TypeOK
    BadgeIsEarned
    AnnouncedOnce
PROPERTY
    ImplementsRegistry
CHECK_DEADLOCK FALSE
