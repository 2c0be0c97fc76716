SPECIFICATION Spec
CONSTANTS
    Sids <- OneSession
    Reasons <- TwoReasons
    Retention <- TimeoutOnly
    Owners <- OneOwner
    Days <- LongerRetention
    Ages <- ZeroOrOne
    ArchiveIds <- ThreeArchives
    Jobs <- TwoJobs
    Restores <- OneRestore
    None = None
    MaxTime = 3
    MaxTerminations = 2
    MaxRestores = 2
    MaxFailures = 1
    s1 = s1
    a1 = a1
    a2 = a2
    a3 = a3
    j1 = j1
    j2 = j2
    q1 = q1
    timeout = timeout
    invented = invented
SYMMETRY Symmetry
INVARIANT TypeOK
INVARIANT Retained
INVARIANT ClosedForGood
INVARIANT CopiesBounded
