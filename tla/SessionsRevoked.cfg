SPECIFICATION Spec
CONSTANTS
    Users <- OneUser
    Devices <- OneDevice
    Sids <- TwoSids
    LoginReqs <- OneLogin
    Reqs <- TwoReqs
    Jobs <- Nobody
    None = None
    MaxSessionsPerUser = 2
    MaxSessionsPerDevice = 1
    SessionTTL = 2
    MaxTTL = 3
    RefreshTTL = 2
    Cleanups <- OnlyUsual
    IatUnit = 1
    AdminReasons <- ByRequest
    MaxTime = 3
    MaxTokens = 2
    MaxFailures = 0
    u1 = u1
    d1 = d1
    d2 = d2
    s1 = s1
    s2 = s2
    s3 = s3
    r1 = r1
    r2 = r2
    q1 = q1
    q2 = q2
    j1 = j1
PROPERTY RevokedNeverAdmitted
CHECK_DEADLOCK FALSE
