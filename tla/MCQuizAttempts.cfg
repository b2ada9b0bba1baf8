CONSTANTS
    c1 = c1
    c2 = c2
    q1 = q1
    q2 = q2
    a = a
    b = b
    k1 = k1
    k2 = k2
    NoKey = NoKey
    Requests <- MCRequests
    Questions <- MCQuestions
    Options <- MCOptions
    Multiple <- MCMultiple
    Points <- MCPoints
    Keys <- MCKeys
    Bodies <- MCBodies
    PassingScore = 60
    MaxAttempts = 1
    Timed = TRUE
    Feedback = "after_passing"
    LastNumber = 2
    ClientKeys <- MCClientKeys
    KeyAttempt <- MCKeyAttempt
SPECIFICATION Spec
SYMMETRY AllSymmetry
INVARIANTS
    TypeOK
    AttemptsBounded
    GradedAsSeen
    ReplayAgrees
    FeedbackIsDue
PROPERTIES
    ClosedIsFinal
CHECK_DEADLOCK FALSE
