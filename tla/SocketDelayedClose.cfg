SPECIFICATION FairSpec
CONSTANTS
    c1 = c1
    c2 = c2
    small = small
    large = large
    Conns = {c1}
    Packets = {small}
    Size <- SizeDef
    Greeting = Greeting
    Denial = Denial
    SendBuffer = 2
    Room = 2
    NetThreads = {0}
    Acceptors = {realm}
    Senders = {world}
    MaxOptionErrors = 0
    NoConn = NoConn
PROPERTY DelayedCloseCloses
CHECK_DEADLOCK FALSE
