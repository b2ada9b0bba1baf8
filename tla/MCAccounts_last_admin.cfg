CONSTANTS
    admin = admin
    u1 = u1
    s1 = s1
    s2 = s2
    t1 = t1
    c1 = c1
    c2 = c2
    Nobody = Nobody
    Users <- MCUsers
    FirstAdmin = admin
    Sessions <- TwoSessions
    SessionsOf <- AnySession
    Tokens = {}
    Mailed <- OneUser
    Requests <- MCRequests
    Targets <- MCUsers
    NewStatuses = {"active", "suspended"}
SPECIFICATION Spec
SYMMETRY RequestSymmetry
INVARIANT
    AnAdminRemains
CHECK_DEADLOCK FALSE
