---------------------------- MODULE NetworkThread ----------------------------
(***************************************************************************)
(* The network threads of WorldSocketMgr: two acceptors hand every new     *)
(* connection to the thread with the fewest, which registers it, updates   *)
(* its sockets in turn every 10 ms and runs their read and write handlers  *)
(* in between.  The acceptors' handlers run on the threads of the common   *)
(* io_context (ThreadPool, 2 by default), so those of the two may overlap. *)
(* Sessions on the world thread and on map threads send packets through    *)
(* the sockets and close them meanwhile.                                   *)
(*                                                                         *)
(* Sources: shared/Networking/NetworkThread.h, SocketMgr.h,                *)
(* AsyncAcceptor.h, Server/WorldSocketMgr.cpp and WorldSocket.cpp.  When   *)
(* the threads are stopped nothing is accepted or sent any more (Main.cpp  *)
(* resets its thread pool first), and the shutdown is left out.            *)
(***************************************************************************)
EXTENDS Socket

CONSTANTS
    NetThreads,       \* indices of _threads: 0, 1, ...
    Acceptors,        \* the realm and the instance acceptor
    Senders,          \* threads other than the network's that use sockets
    MaxOptionErrors,  \* bound: connections whose socket options cannot be set
    NoConn

ASSUME NetworkAssumption ==
    /\ NetThreads \subseteq Nat /\ IsFiniteSet(NetThreads) /\ 0 \in NetThreads
    /\ NoConn \notin Conns
    /\ MaxOptionErrors \in Nat

VARIABLES
    acceptor,      \* per acceptor: its place, the thread it chose, its socket
    acceptSocket,  \* per thread: the connection in its _acceptSocket
    optionErrors,  \* how often a socket option could not be set
    owner,         \* the thread whose io_context a connection belongs to
    connections,   \* NetworkThread::_connections
    newSockets, sockets,  \* NetworkThread::_newSockets, _sockets
    net,           \* per thread: its place, the socket it is at, those left
    query,         \* the database query a socket's callback waits for
    authed,        \* sockets a session may send through
    sender         \* per sender: its place in SendPacket

acceptVars == <<acceptor, acceptSocket, optionErrors, owner>>
threadVars == <<connections, newSockets, sockets, net>>
vars == <<socketVars, acceptVars, threadVars, query, authed, sender>>

AcceptStates == {"armed", "assigned", "created", "rearm"}
NetStates == {"run", "sockets", "flushed", "write", "callbacks"}
Idle == [at |-> "idle", conn |-> NoConn, packet |-> Greeting]

TypeOK ==
    /\ SocketTypeOK
    /\ acceptor \in [Acceptors -> [at : AcceptStates, thread : NetThreads,
                                   conn : Conns \cup {NoConn}]]
    /\ acceptSocket \in [NetThreads -> Conns \cup {NoConn}]
    /\ optionErrors \in 0 .. MaxOptionErrors
    /\ owner \in [Conns -> NetThreads]
    /\ connections \in [NetThreads -> Nat]
    /\ newSockets \in [NetThreads -> SUBSET Conns]
    /\ sockets \in [NetThreads -> SUBSET Conns]
    /\ net \in [NetThreads -> [at : NetStates, conn : Conns \cup {NoConn},
                               left : SUBSET Conns]]
    /\ query \in [Conns -> {"none", "ip", "auth"}]
    /\ authed \subseteq Conns
    /\ sender \in [Senders -> [at : {"idle", "checked", "exchanged"},
                               conn : Conns \cup {NoConn}, packet : AnyPacket]]

\* StartWorldNetwork: both acceptors find thread 0 the least loaded.
Init ==
    /\ SocketInit
    /\ acceptor = [a \in Acceptors |->
                      [at |-> "armed", thread |-> 0, conn |-> NoConn]]
    /\ acceptSocket = [t \in NetThreads |-> NoConn]
    /\ optionErrors = 0
    /\ owner = [c \in Conns |-> 0]
    /\ connections = [t \in NetThreads |-> 0]
    /\ newSockets = [t \in NetThreads |-> {}]
    /\ sockets = [t \in NetThreads |-> {}]
    /\ net = [t \in NetThreads |->
                 [at |-> "run", conn |-> NoConn, left |-> {}]]
    /\ query = [c \in Conns |-> "none"]
    /\ authed = {}
    /\ sender = [s \in Senders |-> Idle]

(***************************************************************************)
(* Mutants: plausible bugs, none of them part of the specification.        *)
(***************************************************************************)

\* NetworkThread::Update that removes a socket and leaves it counted.
RemoveSocket_counted(t, c) ==
    /\ sockets' = [sockets EXCEPT ![t] = @ \ {c}]
    /\ UNCHANGED connections

\* OnSocketOpen that adds the socket to whichever thread is least loaded now.
OwnerOf_now(a) ==
    CHOOSE t \in NetThreads :
        \A u \in NetThreads : \/ connections[t] < connections[u]
                              \/ connections[t] = connections[u] /\ t <= u

\* Socket::Update that leaves closed sockets alone like idle ones.
Gone_never(c) == FALSE

-----------------------------------------------------------------------------
(***************************************************************************)
(* Accepting, on the threads of the common io_context.                     *)
(***************************************************************************)
SelectThreadWithMinConnections ==
    CHOOSE t \in NetThreads :
        \A u \in NetThreads : \/ connections[t] < connections[u]
                              \/ connections[t] = connections[u] /\ t <= u

MoveTo(a, place, c) ==
    acceptor' = [acceptor EXCEPT ![a].at = place, ![a].conn = c]

\* Mutant: a handler that starts no other accept after an error.
Dropped_forgotten(a) == MoveTo(a, "stopped", NoConn)

Dropped(a) == MoveTo(a, "rearm", NoConn)

\* async_accept completes and assigns the connection to the chosen thread's
\* _acceptSocket; if the other acceptor has just filled it, that fails and the
\* connection is dropped.
AcceptConnection(a, c) ==
    /\ acceptor[a].at = "armed"
    /\ client[c] = "away"
    /\ LET t == acceptor[a].thread IN
       IF acceptSocket[t] = NoConn
       THEN /\ acceptSocket' = [acceptSocket EXCEPT ![t] = c]
            /\ owner' = [owner EXCEPT ![c] = t]
            /\ client' = [client EXCEPT ![c] = "open"]
            /\ MoveTo(a, "assigned", NoConn)
       ELSE /\ client' = [client EXCEPT ![c] = "gone"]
            /\ Dropped(a)
            /\ UNCHANGED <<acceptSocket, owner>>
    /\ UNCHANGED <<flags, reading, writing, outgoing, wire, received,
                   optionErrors, threadVars, query, authed, sender>>

\* The handler moves the connection into a WorldSocket, whose Start asks the
\* database whether the address is banned.  The constructor throws if the
\* client is gone already, and the connection with it.
OnSocketOpen(a) ==
    /\ acceptor[a].at = "assigned"
    /\ LET t == acceptor[a].thread
           c == acceptSocket[t]
       IN  /\ acceptSocket' = [acceptSocket EXCEPT ![t] = NoConn]
           /\ IF client[c] = "gone"
              THEN /\ MoveTo(a, "rearm", NoConn)
                   /\ UNCHANGED query
              ELSE /\ MoveTo(a, "created", c)
                   /\ query' = [query EXCEPT ![c] = "ip"]
    /\ UNCHANGED <<socketVars, optionErrors, owner, threadVars, authed, sender>>

\* WorldSocketMgr::OnSocketOpen returns when an option cannot be set: nobody
\* has moved the connection out of _acceptSocket.
OptionError(a) ==
    /\ acceptor[a].at = "assigned"
    /\ optionErrors < MaxOptionErrors
    /\ optionErrors' = optionErrors + 1
    /\ MoveTo(a, "rearm", NoConn)
    /\ UNCHANGED <<socketVars, acceptSocket, owner, threadVars, query, authed,
                   sender>>

OwnerOf(a) == acceptor[a].thread

AddSocket(a) ==
    /\ acceptor[a].at = "created"
    /\ LET t == OwnerOf(a) IN
       /\ connections' = [connections EXCEPT ![t] = @ + 1]
       /\ newSockets' = [newSockets EXCEPT ![t] = @ \cup {acceptor[a].conn}]
    /\ MoveTo(a, "rearm", NoConn)
    /\ UNCHANGED <<socketVars, acceptSocket, optionErrors, owner, sockets, net,
                   query, authed, sender>>

\* AsyncAcceptWithCallback; with an _acceptSocket that is in use the
\* operation fails at once and is started again.
AsyncAccept(a) ==
    /\ acceptor[a].at = "rearm"
    /\ acceptSocket[SelectThreadWithMinConnections] = NoConn
    /\ acceptor' = [acceptor EXCEPT ![a].at = "armed",
                        ![a].thread = SelectThreadWithMinConnections]
    /\ UNCHANGED <<socketVars, acceptSocket, optionErrors, owner, threadVars,
                   query, authed, sender>>

(***************************************************************************)
(* NetworkThread::Update.                                                  *)
(***************************************************************************)
NetGoto(t, place, c) == net' = [net EXCEPT ![t].at = place, ![t].conn = c]

\* AddNewSockets; nothing has closed a socket that is not registered yet.  An
\* update without any socket is no step.
BeginUpdate(t) ==
    /\ net[t].at = "run"
    /\ sockets[t] \cup newSockets[t] # {}
    /\ sockets' = [sockets EXCEPT ![t] = @ \cup newSockets[t]]
    /\ newSockets' = [newSockets EXCEPT ![t] = {}]
    /\ net' = [net EXCEPT ![t].at = "sockets", ![t].left = sockets'[t]]
    /\ UNCHANGED <<socketVars, acceptVars, connections, query, authed, sender>>

\* WorldSocket::Update of one socket, up to its call of Socket::Update.
UpdateSocket(t, c) ==
    /\ net[t].at = "sockets"
    /\ c \in net[t].left
    /\ FlushBufferQueue(c)
    /\ net' = [net EXCEPT ![t].at = "flushed", ![t].conn = c,
                          ![t].left = @ \ {c}]
    /\ UNCHANGED <<client, flags, reading, writing, wire, received, sent,
                   acceptVars, connections, newSockets, sockets, query, authed,
                   sender>>

Gone(c) == c \in closed
Quiet(c) == c \in writing \/ (writeQueue[c] = <<>> /\ c \notin closing)

\* What the thread does with a socket whose Update returns false.
RemoveSocket(t, c) ==
    /\ sockets' = [sockets EXCEPT ![t] = @ \ {c}]
    /\ connections' = [connections EXCEPT ![t] = @ - 1]

RemoveClosed(t) ==
    /\ net[t].at = "flushed"
    /\ Gone(net[t].conn)
    /\ RemoveSocket(t, net[t].conn)
    /\ NetGoto(t, "sockets", NoConn)
    /\ UNCHANGED <<socketVars, acceptVars, newSockets, query, authed, sender>>

\* Socket::Update: is there anything to do?
CheckQueue(t) ==
    /\ net[t].at = "flushed"
    /\ ~Gone(net[t].conn)
    /\ NetGoto(t, IF Quiet(net[t].conn) THEN "callbacks" ELSE "write",
               net[t].conn)
    /\ UNCHANGED <<socketVars, acceptVars, connections, newSockets, sockets,
                   query, authed, sender>>

\* One turn of `for (; HandleQueue();)`; an empty queue ends it at once.
WriteQueue(t) ==
    /\ net[t].at = "write"
    /\ LET c == net[t].conn IN
       /\ IF writeQueue[c] = <<>>
          THEN UNCHANGED <<closed, writing, writeQueue, wire>>
          ELSE /\ HandleQueue(c)
               /\ writing' = IF MustWait(c) THEN writing \cup {c} ELSE writing
       /\ IF writeQueue[c] # <<>> /\ WritesOn(c) THEN UNCHANGED net
          ELSE NetGoto(t, "callbacks", c)
    /\ UNCHANGED <<client, closing, reading, bufferQueue, received, sent,
                   acceptVars, connections, newSockets, sockets, query, authed,
                   sender>>

NoCallback(t) ==
    /\ net[t].at = "callbacks"
    /\ NetGoto(t, "sockets", NoConn)
    /\ UNCHANGED <<socketVars, acceptVars, connections, newSockets, sockets,
                   query, authed, sender>>

Answered(t, q) ==
    /\ net[t].at = "callbacks"
    /\ query[net[t].conn] = q
    /\ query' = [query EXCEPT ![net[t].conn] = "none"]
    /\ NetGoto(t, "sockets", NoConn)
    /\ UNCHANGED <<client, closed, writing, wire, received, acceptVars,
                   connections, newSockets, sockets, sender>>

StartReading(c) == reading' = IF IsOpen(c) THEN reading \cup {c} ELSE reading

\* CheckIpCallback: a banned address is refused without an answer, any other
\* is greeted.
Banned(t) ==
    /\ Answered(t, "ip")
    /\ closing' = closing \cup {net[t].conn}
    /\ UNCHANGED <<reading, outgoing, authed>>

Greet(t) ==
    /\ Answered(t, "ip")
    /\ StartReading(net[t].conn)
    /\ QueuePacket(net[t].conn, Greeting)
    /\ UNCHANGED <<closing, bufferQueue, authed>>

\* The callbacks of an authentication: refused with a response or (an unknown
\* account, a wrong digest) without, or accepted.
Refuse(t) ==
    /\ Answered(t, "auth")
    /\ LET c == net[t].conn IN
       /\ closing' = closing \cup {c}
       /\ \/ UNCHANGED <<bufferQueue, sent>>
          \/ /\ IsOpen(c)
             /\ bufferQueue' = [bufferQueue EXCEPT ![c] =
                                   Append(@, [packet |-> Denial, linked |-> TRUE])]
             /\ sent' = [sent EXCEPT ![c] = @ \o Units(Denial)]
    /\ UNCHANGED <<reading, writeQueue, authed>>

Accept(t) ==
    /\ Answered(t, "auth")
    /\ StartReading(net[t].conn)
    /\ authed' = authed \cup {net[t].conn}
    /\ UNCHANGED <<closing, outgoing>>

EndUpdate(t) ==
    /\ net[t].at = "sockets"
    /\ net[t].left = {}
    /\ NetGoto(t, "run", NoConn)
    /\ UNCHANGED <<socketVars, acceptVars, connections, newSockets, sockets,
                   query, authed, sender>>

(***************************************************************************)
(* Handlers of completed operations, which run between updates.            *)
(***************************************************************************)
Handles(c) == net[owner[c]].at = "run"

\* ReadHandlerInternal with an error: the client is gone.
ReadError(c) ==
    /\ Handles(c) /\ c \in reading
    /\ client[c] = "gone"
    /\ CloseSocket(c)
    /\ reading' = reading \ {c}
    /\ UNCHANGED <<client, closing, writing, outgoing, wire, received,
                   acceptVars, threadVars, query, authed, sender>>

\* Data for a socket that is closing or closed is dropped, and not read again;
\* otherwise the packets are handled and reading goes on.
ReadPackets(c) ==
    /\ Handles(c) /\ c \in reading
    /\ client[c] = "open"
    /\ ~IsOpen(c)
    /\ reading' = reading \ {c}
    /\ UNCHANGED <<client, flags, writing, outgoing, wire, received, acceptVars,
                   threadVars, query, authed, sender>>

\* A packet the handler refuses closes the socket.
ReadMalformed(c) ==
    /\ Handles(c) /\ c \in reading
    /\ client[c] = "open" /\ IsOpen(c)
    /\ CloseSocket(c)
    /\ reading' = reading \ {c}
    /\ UNCHANGED <<client, closing, writing, outgoing, wire, received,
                   acceptVars, threadVars, query, authed, sender>>

\* HandleAuthSession, HandleAuthContinuedSession: nothing more is read until
\* the database has answered.
ReadAuth(c) ==
    /\ Handles(c) /\ c \in reading
    /\ client[c] = "open" /\ IsOpen(c)
    /\ c \notin authed
    /\ query' = [query EXCEPT ![c] = "auth"]
    /\ reading' = reading \ {c}
    /\ UNCHANGED <<client, flags, writing, outgoing, wire, received, acceptVars,
                   threadVars, authed, sender>>

\* WriteHandlerWrapper: the kernel takes data again, or there is an error.
WriteReady(c) ==
    /\ Handles(c) /\ c \in writing
    /\ Broken(c) \/ Free(c) > 0
    /\ HandleQueue(c)
    /\ writing' = IF MustWait(c) THEN writing ELSE writing \ {c}
    /\ UNCHANGED <<client, closing, reading, bufferQueue, received, sent,
                   acceptVars, threadVars, query, authed, sender>>

(***************************************************************************)
(* The senders: SendPacket tests IsOpen before it enqueues.                *)
(***************************************************************************)
CallSendPacket(s, c, p) ==
    /\ sender[s] = Idle
    /\ c \in authed /\ IsOpen(c)
    /\ \A d \in Conns : p \notin Range(sent[d])
    /\ \A r \in Senders : sender[r].packet # p
    /\ sender' = [sender EXCEPT ![s] =
                     [at |-> "checked", conn |-> c, packet |-> p]]
    /\ UNCHANGED <<socketVars, acceptVars, threadVars, query, authed>>

EnqueueExchange(s) ==
    /\ sender[s].at = "checked"
    /\ Exchange(sender[s].conn, sender[s].packet)
    /\ sender' = [sender EXCEPT ![s].at = "exchanged"]
    /\ UNCHANGED <<client, flags, reading, writing, writeQueue, wire, received,
                   acceptVars, threadVars, query, authed>>

EnqueueLink(s) ==
    /\ sender[s].at = "exchanged"
    /\ Link(sender[s].conn, sender[s].packet)
    /\ sender' = [sender EXCEPT ![s] = Idle]
    /\ UNCHANGED <<client, flags, reading, writing, writeQueue, wire, received,
                   sent, acceptVars, threadVars, query, authed>>

\* KickPlayer and the end of a session; ProcessLinkInstanceSocket.
SenderCloses(s, c) ==
    /\ sender[s] = Idle
    /\ c \in authed \ closed
    /\ CloseSocket(c)
    /\ UNCHANGED <<client, closing, reading, writing, outgoing, wire, received,
                   acceptVars, threadVars, query, authed, sender>>

SenderDelaysClose(s, c) ==
    /\ sender[s] = Idle
    /\ c \in authed \ closing
    /\ closing' = closing \cup {c}
    /\ UNCHANGED <<client, closed, reading, writing, outgoing, wire, received,
                   acceptVars, threadVars, query, authed, sender>>

ClientStep(c) ==
    /\ ClientReads(c) \/ ClientLeaves(c)
    /\ UNCHANGED <<acceptVars, threadVars, query, authed, sender>>

-----------------------------------------------------------------------------
AcceptorStep(a) ==
    \/ OnSocketOpen(a) \/ OptionError(a) \/ AddSocket(a) \/ AsyncAccept(a)

ThreadStep(t) ==
    \/ BeginUpdate(t) \/ EndUpdate(t)
    \/ \E c \in Conns : UpdateSocket(t, c)
    \/ RemoveClosed(t) \/ CheckQueue(t) \/ WriteQueue(t)
    \/ NoCallback(t) \/ Banned(t) \/ Greet(t) \/ Refuse(t) \/ Accept(t)

Handler(c) ==
    \/ ReadError(c) \/ ReadPackets(c) \/ ReadMalformed(c) \/ ReadAuth(c)
    \/ WriteReady(c)

SenderStep(s) ==
    \/ \E c \in Conns, p \in Packets : CallSendPacket(s, c, p)
    \/ EnqueueExchange(s) \/ EnqueueLink(s)
    \/ \E c \in Conns : SenderCloses(s, c) \/ SenderDelaysClose(s, c)

Next ==
    \/ \E a \in Acceptors : \/ \E c \in Conns : AcceptConnection(a, c)
                            \/ AcceptorStep(a)
    \/ \E t \in NetThreads : ThreadStep(t)
    \/ \E c \in Conns : Handler(c) \/ ClientStep(c)
    \/ \E s \in Senders : SenderStep(s)

Spec == Init /\ [][Next]_vars

(***************************************************************************)
(* The network threads, the threads of the io_context and the senders run  *)
(* when they can, and a thread's timer comes round; operations that can    *)
(* complete do.  Nothing is asked of the clients or of the database, which *)
(* may leave a query unanswered.                                           *)
(***************************************************************************)
Fairness ==
    /\ \A a \in Acceptors : WF_vars(AcceptorStep(a))
    /\ \A t \in NetThreads :
           /\ WF_vars(BeginUpdate(t) \/ EndUpdate(t))
           /\ \A c \in Conns : WF_vars(UpdateSocket(t, c))
           /\ WF_vars(RemoveClosed(t) \/ CheckQueue(t) \/ WriteQueue(t))
           /\ WF_vars(NoCallback(t))
    /\ \A c \in Conns : SF_vars(WriteReady(c))
    /\ \A s \in Senders : WF_vars(EnqueueExchange(s) \/ EnqueueLink(s))

FairSpec == Spec /\ Fairness

-----------------------------------------------------------------------------
Registered(t) == newSockets[t] \cup sockets[t]

(***************************************************************************)
(* A thread's _connections, by which new ones are distributed, counts      *)
(* exactly the sockets it has still to take over or to remove: it never    *)
(* drifts, whichever way a socket ends.                                    *)
(***************************************************************************)
ConnectionsExact ==
    \A t \in NetThreads :
        /\ connections[t] = Cardinality(Registered(t))
        /\ newSockets[t] \cap sockets[t] = {}

(***************************************************************************)
(* A socket is updated by the one thread whose io_context runs its read    *)
(* and write handlers.  That is all that protects its write queue, its     *)
(* buffers and _isWritingAsync, which no lock guards; the thread is chosen *)
(* before the client connects and must still be the one it is added to.    *)
(***************************************************************************)
OneThreadPerSocket ==
    /\ \A t \in NetThreads : \A c \in Registered(t) : owner[c] = t
    /\ \A a \in Acceptors : acceptor[a].at = "created" =>
           /\ owner[acceptor[a].conn] = acceptor[a].thread
           /\ \A t \in NetThreads : acceptor[a].conn \notin Registered(t)

(***************************************************************************)
(* Every closed socket is taken off its thread's list in the end, whoever  *)
(* closed it and whatever it had still to write.                           *)
(***************************************************************************)
ClosedSocketLeaves ==
    \A c \in Conns :
        c \in closed ~> \A t \in NetThreads : c \notin Registered(t)

(***************************************************************************)
(* A socket marked for a delayed close that has something to write is      *)
(* closed in the end, unless it waits for its client to read: an           *)
(* asynchronous write under way, a partial write or senders still at work  *)
(* do not make it miss the moment its queue is empty.                      *)
(***************************************************************************)
DelayedCloseDrains ==
    \A c \in Conns :
        c \in closing /\ Unsent(c) # <<>>
            ~> c \in closed \/ (c \in writing /\ Free(c) = 0)

\* A connection WorldSocketMgr::OnSocketOpen left in an _acceptSocket.
LeftOpen ==
    \E t \in NetThreads :
        /\ acceptSocket[t] # NoConn
        /\ \A a \in Acceptors :
               ~(acceptor[a].at = "assigned" /\ acceptor[a].thread = t)

(***************************************************************************)
(* Both acceptors go on accepting, also when they chose the same socket    *)
(* and one lost its connection to the other, as long as no failed option   *)
(* has left a connection in an _acceptSocket.                              *)
(***************************************************************************)
AcceptorResumes ==
    \A a \in Acceptors :
        acceptor[a].at # "armed" ~> acceptor[a].at = "armed" \/ LeftOpen

(***************************************************************************)
(* Socket.h:156, of DelayedCloseSocket: "Marks the socket for closing      *)
(* after write buffer becomes empty".                                      *)
(***************************************************************************)
DelayedCloseCloses ==
    \A c \in Conns :
        c \in closing /\ Unsent(c) = <<>> ~> c \in closed

-----------------------------------------------------------------------------
(***************************************************************************)
(* The inductive invariant behind ConnectionsExact and OneThreadPerSocket: *)
(* a connection on its way from an acceptor to a thread's list is in one   *)
(* place, on behalf of the thread that owns it.                            *)
(***************************************************************************)
Created(a) == acceptor[a].at = "created"
Assigned(a) == acceptor[a].at = "assigned"

HandOverTypes ==
    /\ acceptor \in [Acceptors -> [at : AcceptStates, thread : NetThreads,
                                   conn : Conns \cup {NoConn}]]
    /\ acceptSocket \in [NetThreads -> Conns \cup {NoConn}]
    /\ owner \in [Conns -> NetThreads]
    /\ connections \in [NetThreads -> Nat]
    /\ newSockets \in [NetThreads -> SUBSET Conns]
    /\ sockets \in [NetThreads -> SUBSET Conns]
    /\ net \in [NetThreads -> [at : NetStates, conn : Conns \cup {NoConn},
                               left : SUBSET Conns]]
    /\ client \in [Conns -> {"away", "open", "gone"}]
    /\ \A t \in NetThreads : IsFiniteSet(newSockets[t]) /\ IsFiniteSet(sockets[t])

\* A thread is at a socket of its list, and has others of it left.
AtOwnSocket ==
    \A t \in NetThreads :
        /\ net[t].at \notin {"run", "sockets"} =>
               net[t].conn \in sockets[t] /\ net[t].conn \notin net[t].left
        /\ net[t].left \subseteq sockets[t]

OnItsWay ==
    /\ \A a \in Acceptors :
        /\ Assigned(a) => acceptSocket[acceptor[a].thread] # NoConn
        /\ Created(a) =>
               /\ acceptor[a].conn \in Conns
               /\ client[acceptor[a].conn] # "away"
               /\ \A t \in NetThreads : acceptSocket[t] # acceptor[a].conn
    /\ \A a, b \in Acceptors : a # b =>
        /\ Assigned(a) /\ Assigned(b) => acceptor[a].thread # acceptor[b].thread
        /\ Created(a) /\ Created(b) => acceptor[a].conn # acceptor[b].conn
    /\ \A t \in NetThreads : acceptSocket[t] # NoConn =>
        /\ client[acceptSocket[t]] # "away" /\ owner[acceptSocket[t]] = t
        /\ \A u \in NetThreads : acceptSocket[t] \notin Registered(u)
    /\ \A t \in NetThreads : \A c \in Registered(t) : client[c] # "away"

HandOver ==
    HandOverTypes /\ AtOwnSocket /\ OnItsWay /\ ConnectionsExact /\ OneThreadPerSocket

(***************************************************************************)
(* The inductive invariant behind StreamIntact: nothing is queued for a    *)
(* connection before its greeting, which is written in front of the queue  *)
(* of the senders.                                                         *)
(***************************************************************************)
NotGreeted(c) ==
    \/ client[c] = "away" \/ query[c] = "ip"
    \/ \E t \in NetThreads : acceptSocket[t] = c

Untouched(c) == c \notin reading \cup authed /\ bufferQueue[c] = <<>>

StreamInv ==
    /\ TypeOK /\ StreamIntact
    /\ \A c \in Conns :
        /\ Len(wire[c]) <= Room
        /\ NotGreeted(c) => Untouched(c)
    /\ \A s \in Senders : sender[s].at # "idle" => sender[s].conn \in authed
=============================================================================
