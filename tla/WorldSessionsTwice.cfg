\* One connection whose client gives up on its first instance connection.
SPECIFICATION FairSpec
CONSTANTS
    s1 = s1  s2 = s2  s3 = s3  s4 = s4
    a1 = a1  a2 = a2  a3 = a3
    Sessions = {s1}
    Accounts = {a1}
    Links = {l1, l2}
    Privileged = {}
    Limit = 0
    Tolerance = FALSE
    Hasty = {s1}
    Attempts = 2
    ExpireTicks = 2
    MaxKeys <- SingleKeys
    AccountOf <- SingleAccount
    NoSession = NoSession
    NoLink = NoLink
CHECK_DEADLOCK FALSE
INVARIANTS
    OneCharacterPerAccount
