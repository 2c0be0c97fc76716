SPECIFICATION FairSpec
CONSTANTS
    Users <- OneUser
    Devices <- TwoDevices
    Sids <- ThreeSids
    LoginReqs <- TwoLogins
    Reqs <- OneReq
    Jobs <- Nobody
    None = None
    MaxSessionsPerUser = 1
    MaxSessionsPerDevice = 1
    SessionTTL = 1
    MaxTTL = 3
    RefreshTTL = 1
    Cleanups <- OnlyUsual
    IatUnit = 4
    AdminReasons <- ByRequest
    MaxTime = 1
    MaxTokens = 1
    MaxFailures = 0
    u1 = u1
    d1 = d1
    d2 = d2
    s1 = s1
    s2 = s2
    s3 = s3
    r1 = r1
    r2 = r2
    q1 = q1
    q2 = q2
    j1 = j1
INVARIANT TypeOK
INVARIANT DeviceLimit
INVARIANT UserOvershoot
PROPERTY RequestsEnd
CHECK_DEADLOCK FALSE
