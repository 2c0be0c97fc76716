SPECIFICATION Spec
CONSTANTS
    phone = phone
    email = email
    l1 = l1
    l2 = l2
    a1 = a1
    a2 = a2
    Ids = {1, 2}
    Sids = {1, 2}
    Phones <- OnePhone
    Emails <- OneEmail
    LoginReqs = {l1, l2}
    Admins = {}
    None = None
    LockTime = 1
    MaxCrashes = 0
INVARIANT PhonesUnique
