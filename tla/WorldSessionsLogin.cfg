\* Two connections of one account, two instance connections, two login attempts.
SPECIFICATION FairSpec
CONSTANTS
    s1 = s1  s2 = s2  s3 = s3  s4 = s4
    a1 = a1  a2 = a2  a3 = a3
    Sessions = {s1, s2}
    Accounts = {a1}
    Links = {l1, l2}
    Privileged = {}
    Limit = 0
    Tolerance = FALSE
    Hasty = {s2}
    Attempts = 2
    ExpireTicks = 2
    MaxKeys <- LoginKeys
    AccountOf <- LoginAccounts
    NoSession = NoSession
    NoLink = NoLink
CHECK_DEADLOCK FALSE
INVARIANTS
    TypeOK
    NoUseAfterDelete
    ShutdownLogsOut
PROPERTIES
    ClosedSessionLeaves
