SPECIFICATION FairSpec
CONSTANTS
    u1 = u1
    u2 = u2
    Users = {u1, u2}
    Clients <- MCClients
    LoginReqs = {1, 2}
    Caller <- MCCaller
    Persistent = {1}
    Reqs = {1}
    None = None
    UnknownWait = 1
    Cooldown = 1
INVARIANTS
    TypeOK
    TrustViewsAgree
    OwnerReadmitted
PROPERTIES
    HandedOver
    ImplementsDeviceContract
    OwnerReturns
