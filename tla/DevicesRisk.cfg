SPECIFICATION Spec
CONSTANTS
    u1 = u1
    u2 = u2
    Users = {u1, u2}
    Clients <- PhoneAndCurl
    LoginReqs = {1, 2}
    Caller <- MCCaller
    Persistent = {1}
    Reqs = {1}
    None = None
    UnknownWait = 1
    Cooldown = 1
INVARIANT
    AutomatedBlocked
