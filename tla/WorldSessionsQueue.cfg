\* Four connections on three accounts, a place for one; nobody logs in.
SPECIFICATION Spec
CONSTANTS
    s1 = s1  s2 = s2  s3 = s3  s4 = s4
    a1 = a1  a2 = a2  a3 = a3
    Sessions = {s1, s2, s3, s4}
    Accounts = {a1, a2, a3}
    Links = {}
    Privileged = {a3}
    Limit = 1
    Tolerance = FALSE
    Hasty = {s1, s2, s3, s4}
    Attempts = 2
    ExpireTicks = 2
    MaxKeys <- QueueKeys
    AccountOf <- QueueAccounts
    NoSession = NoSession
    NoLink = NoLink
CHECK_DEADLOCK FALSE
INVARIANTS
    QueueSound
    AdmissionLimit
    NoIdleSlot
PROPERTIES
    FirstComeFirstServed
