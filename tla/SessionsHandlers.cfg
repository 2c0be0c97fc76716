SPECIFICATION Spec
CONSTANTS
    Users <- OneUser
    Devices <- OneDevice
    Sids <- TwoSids
    LoginReqs <- OneLogin
    Reqs <- TwoReqs
    Jobs <- OneJob
    None = None
    MaxSessionsPerUser = 1
    MaxSessionsPerDevice = 1
    SessionTTL = 0
    MaxTTL = 1
    RefreshTTL = 2
    Cleanups <- OnlyPrompt
    IatUnit = 1
    AdminReasons <- NoneGiven
    MaxTime = 1
    MaxTokens = 2
    MaxFailures = 1
    u1 = u1
    d1 = d1
    d2 = d2
    s1 = s1
    s2 = s2
    s3 = s3
    r1 = r1
    r2 = r2
    q1 = q1
    q2 = q2
    j1 = j1
SYMMETRY Symmetry
INVARIANT CompromisedClosed
INVARIANT OnlyReplacedMismatch
INVARIANT LogoutRecorded
PROPERTY TerminatedForGood
PROPERTY ListedAreEnded
PROPERTY ImplementsContract
PROPERTY DeadForGood
CHECK_DEADLOCK FALSE
