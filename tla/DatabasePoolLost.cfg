SPECIFICATION FairSpec
CONSTANTS
    a1 = a1
    a2 = a2
    s1 = s1
    long = long
    short = short
    called = called
    single = single
    Async = {a1}
    Sync = {s1}
    Connections = {a1, s1}
    Tasks = {long, short, single}
    Transactional = {long, short}
    Direct = {}
    Size <- SizeDef
    Attempts = 2
    MaxLosses = 1
    DirectRetries = 2
    NoTask = NoTask
    Ping = Ping
    NoThread = NoThread
INVARIANTS TransactionsAreAtomic
