SPECIFICATION MCSpec
CONSTANTS
    a1 = a1
    a2 = a2
    s1 = s1
    long = long
    short = short
    called = called
    single = single
    Async = {a1, a2}
    Sync = {s1}
    Connections = {a1, a2, s1}
    Tasks = {long, short, called, single}
    Transactional = {long, short, called}
    Direct = {called, single}
    Size <- SizeDef
    Attempts = 2
    MaxLosses = 1
    DirectRetries = 2
    NoTask = NoTask
    Ping = Ping
    NoThread = NoThread
INVARIANTS TypeOK AllOrNothing ReportedOutcome QueueSizeExact
PROPERTIES PostingOrder TasksFinish CloseCompletes
