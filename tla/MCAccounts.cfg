CONSTANTS
    admin = admin
    u1 = u1
    s1 = s1
    s2 = s2
    t1 = t1
    c1 = c1
    c2 = c2
    Nobody = Nobody
    Users <- MCUsers
    FirstAdmin = admin
    Sessions <- TwoSessions
    SessionsOf <- OneSessionEach
    Tokens <- MCTokens
    Mailed <- OneUser
    Requests <- MCRequests
    Targets <- OneUser
    NewStatuses = {"active", "suspended"}
SPECIFICATION Spec
SYMMETRY RequestSymmetry
INVARIANTS
    TypeOK
    RevocationIsImmediate
    ResetEndsSessions
    LockedRowHolds
    TokensSpentOnce
PROPERTY
    LostRoleStaysLost
CHECK_DEADLOCK FALSE
