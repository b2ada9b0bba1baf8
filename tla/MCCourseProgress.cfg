CONSTANTS
    e1 = e1
    c1 = c1
    c2 = c2
    lesson = lesson
    quiz = quiz
    Nobody = Nobody
    Enrollments <- MCEnrollments
    Requests <- MCRequests
    Resources <- MCResources
    Quizzes <- MCQuizzes
    Visible <- MCVisible
    Required <- MCRequired
    RequiredPct <- MCRequiredPct
    LastVersion = 2
    MaxRetries = 1
SPECIFICATION ProgressSpec
SYMMETRY RequestSymmetry
INVARIANTS
    ProgressTypeOK
    ApprovalIsEarned
    ConsumedIsBacked
CHECK_DEADLOCK FALSE
