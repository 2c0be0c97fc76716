SPECIFICATION Spec
CONSTANTS
    Addrs <- TwoAddrs
    Phones <- OnePhone
    Purposes <- OnlyLogin
    OtpIds <- TwoOtps
    SendReqs <- OneSend
    LoginReqs <- OneLogin
    None = None
    OtpTTL = 1
    Grace = 1
    ResendAge = 1
    WipeAge = 1
    MaxAttempts = 2
    MaxSends = 1
    SendWindow = 0
    MaxFails = 1
    FailWindow = 0
    MaxTime = 1
    MaxFailures = 0
    a1 = a1
    a2 = a2
    o1 = o1
    o2 = o2
    r1 = r1
    r2 = r2
    q1 = q1
PROPERTY OnlyExpiredDeleted
