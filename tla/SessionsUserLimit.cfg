SPECIFICATION Spec
CONSTANTS
    Users <- OneUser
    Devices <- TwoDevices
    Sids <- TwoSids
    LoginReqs <- TwoLogins
    Reqs <- OneReq
    Jobs <- Nobody
    None = None
    MaxSessionsPerUser = 1
    MaxSessionsPerDevice = 1
    SessionTTL = 2
    MaxTTL = 3
    RefreshTTL = 2
    Cleanups <- OnlyUsual
    IatUnit = 1
    AdminReasons <- ByRequest
    MaxTime = 0
    MaxTokens = 2
    MaxFailures = 0
    u1 = u1
    d1 = d1
    d2 = d2
    s1 = s1
    s2 = s2
    s3 = s3
    r1 = r1
    r2 = r2
    q1 = q1
    q2 = q2
    j1 = j1
SYMMETRY Symmetry
INVARIANT UserLimit
CHECK_DEADLOCK FALSE
