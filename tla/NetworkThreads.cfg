SPECIFICATION MCSpec
CONSTANTS
    c1 = c1
    c2 = c2
    small = small
    large = large
    Conns = {c1, c2}
    Packets = {small, large}
    Size <- SizeDef
    Greeting = Greeting
    Denial = Denial
    SendBuffer = 2
    Room = 2
    NetThreads = {0, 1}
    Acceptors = {realm, instance}
    Senders = {world, map}
    MaxOptionErrors = 1
    NoConn = NoConn
INVARIANTS TypeOK ConnectionsExact OneThreadPerSocket StreamIntact
PROPERTIES ClosedSocketLeaves DelayedCloseDrains AcceptorResumes
CHECK_DEADLOCK FALSE
