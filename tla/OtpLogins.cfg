SPECIFICATION Spec
CONSTANTS
    Addrs <- OneAddr
    Phones <- OnePhone
    Purposes <- TwoPurposes
    OtpIds <- TwoOtps
    SendReqs <- OneSend
    LoginReqs <- TwoLogins
    None = None
    OtpTTL = 1
    Grace = 1
    ResendAge = 2
    WipeAge = 1
    MaxAttempts = 2
    MaxSends = 1
    SendWindow = 1
    MaxFails = 1
    FailWindow = 1
    MaxTime = 2
    MaxFailures = 1
    a1 = a1
    a2 = a2
    o1 = o1
    o2 = o2
    r1 = r1
    r2 = r2
    q1 = q1
SYMMETRY Symmetry
INVARIANT TypeOK
INVARIANT OnceUnlessStale
INVARIANT GuessesCounted
INVARIANT WindowBound
