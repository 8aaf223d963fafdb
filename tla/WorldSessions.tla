--------------------------- MODULE WorldSessions ----------------------------
(***************************************************************************)
(* The life of a WorldSession.  A network thread creates it when a realm   *)
(* connection has authenticated and hands it to the world thread through   *)
(* addSessQueue.  The world thread lets it in or makes it wait             *)
(* (PlayerLimit), and from then on updates it once a tick until its        *)
(* sockets are closed.  To enter the world the client opens a second       *)
(* connection with a key the session sent it; the network thread hands     *)
(* that one over through _linkSocketQueue.                                 *)
(*                                                                         *)
(* Clients keep to the protocol, but may vanish at any time and may give   *)
(* up on a connection whose answer is on its way.  One WorldSession per    *)
(* realm connection, so a session and its realm socket share a name.  A    *)
(* key is the pair of the session and the number of keys it has made, as   *)
(* different keys are different random numbers.                            *)
(*                                                                         *)
(* The world thread closes a socket in one step: between                   *)
(* _closed.exchange and OnClose it touches nothing else, and a batch of    *)
(* packets the network thread is reading finds no session afterwards.  The *)
(* network thread takes two ("lost", then "gone").  OnClose takes          *)
(* _worldSessionLock, a std::mutex: a network thread that closes a socket  *)
(* while it holds that socket's lock waits for itself ("stuck").  There is *)
(* one network thread (Network.Threads = 1, the default).                  *)
(***************************************************************************)
EXTENDS Naturals, Sequences, SequencesExt, FiniteSets

CONSTANTS
    Sessions,      \* realm connections, each with the session it creates
    Links,         \* instance connections
    Accounts,
    AccountOf,     \* the account of each session
    Privileged,    \* accounts with RBAC_PERM_SKIP_QUEUE
    Limit,         \* m_playerLimit; 0 is no limit
    Tolerance,     \* CONFIG_INTERVAL_DISCONNECT_TOLERANCE is not 0
    Hasty,         \* sessions whose clients log in before they are initialized
    Attempts,      \* connection attempts of one login: 5 in the code
    MaxKeys,       \* bound: keys each session makes
    ExpireTicks,   \* expireTime (60 s) in updates of the session
    NoSession, NoLink

ASSUME WorldSessionsAssumption ==
    /\ AccountOf \in [Sessions -> Accounts]
    /\ Privileged \subseteq Accounts /\ Hasty \subseteq Sessions
    /\ Limit \in Nat /\ Attempts \in Nat \ {0}
    /\ MaxKeys \in [Sessions -> Nat]
    /\ ExpireTicks \in Nat /\ Tolerance \in BOOLEAN
    /\ Sessions \cap Links = {}
    /\ NoSession \notin Sessions /\ NoLink \notin Links

Sockets == Sessions \cup Links

VARIABLES
    sock,          \* what has become of each socket
    pointer,       \* WorldSocket::_worldSession
    linkKey,       \* the key each instance connection presents
    linkQueue,     \* _linkSocketQueue
    acked,         \* sessions whose client has acknowledged encryption
    addQueue,      \* addSessQueue
    live,          \* WorldSession objects that exist
    sessions,      \* m_sessions
    waiting,       \* m_QueuedPlayer
    inQueue,       \* m_inQueue
    initializing,  \* sessions whose InitializeSession queries are running
    loading,       \* m_playerLoading is not empty
    connectKey,    \* _instanceConnectKey: how many keys the session has made
    attempt,       \* the serial of the last ConnectTo
    instance,      \* m_Socket[CONNECTION_TYPE_INSTANCE]
    holders,       \* login query holders that have not been answered
    player,        \* sessions whose _player is set
    characters,    \* Player objects each session has in the world
    forceExit, expire,
    disconnects,   \* m_disconnects
    pc, cur, todo, linking, kicked  \* the world thread

network   == <<sock, pointer, linkKey, linkQueue, acked, addQueue>>
admission == <<live, sessions, waiting, inQueue, initializing, disconnects>>
login     == <<loading, connectKey, attempt, instance, holders, player,
               characters, forceExit, expire>>
thread    == <<pc, cur, todo, linking, kicked>>
vars      == <<network, admission, login, thread>>

SocketStates == {"idle", "open", "closing", "lost", "gone", "stuck"}
NoLinking == [link |-> NoLink, session |-> NoSession]
Keys == UNION {{s} \X (1 .. MaxKeys[s]) : s \in Sessions}
Elements(q) == ToSet(q)

NetworkTypes ==
    /\ sock \in [Sockets -> SocketStates]
    /\ pointer \in [Sockets -> Sessions \cup {NoSession}]
    /\ linkKey \in [Links -> Keys \cup {<<>>}]
    /\ linkQueue \in Seq(Links)
    /\ acked \subseteq Sessions
    /\ addQueue \in Seq(Sessions)

AdmissionTypes ==
    /\ live \subseteq Sessions
    /\ sessions \in [Accounts -> Sessions \cup {NoSession}]
    /\ waiting \in Seq(Sessions)
    /\ inQueue \subseteq Sessions /\ initializing \subseteq Sessions
    /\ disconnects \subseteq Accounts

LoginTypes ==
    /\ loading \subseteq Sessions /\ player \subseteq Sessions
    /\ connectKey \in [Sessions -> Nat]
    /\ \A s \in Sessions : connectKey[s] <= MaxKeys[s]
    /\ attempt \in [Sessions -> 0 .. Attempts]
    /\ instance \in [Sessions -> Links \cup {NoLink}]
    /\ holders \in [Sessions -> Nat] /\ characters \in [Sessions -> Nat]
    /\ forceExit \subseteq Sessions
    /\ expire \in [Sessions -> 0 .. ExpireTicks]

ThreadTypes ==
    /\ pc \in {"link", "linkset", "add", "update", "packets",
               "callbacks", "entering", "cleanup", "remove", "stopped"}
    /\ cur \in Sessions \cup {NoSession}
    /\ todo \subseteq Accounts
    /\ linking \in [link : Links \cup {NoLink},
                    session : Sessions \cup {NoSession}]
    /\ kicked \in BOOLEAN

TypeOK == NetworkTypes /\ AdmissionTypes /\ LoginTypes /\ ThreadTypes

Init ==
    /\ sock = [x \in Sockets |-> "idle"]
    /\ pointer = [x \in Sockets |-> NoSession]
    /\ linkKey = [l \in Links |-> <<>>]
    /\ linkQueue = <<>> /\ acked = {} /\ addQueue = <<>>
    /\ live = {} /\ sessions = [a \in Accounts |-> NoSession]
    /\ waiting = <<>> /\ inQueue = {} /\ initializing = {}
    /\ loading = {} /\ player = {} /\ forceExit = {} /\ disconnects = {}
    /\ connectKey = [s \in Sessions |-> 0]
    /\ attempt = [s \in Sessions |-> 0]
    /\ instance = [s \in Sessions |-> NoLink]
    /\ holders = [s \in Sessions |-> 0]
    /\ characters = [s \in Sessions |-> 0]
    /\ expire = [s \in Sessions |-> ExpireTicks]
    /\ pc = "link" /\ cur = NoSession /\ todo = {}
    /\ linking = NoLinking /\ kicked = FALSE

-----------------------------------------------------------------------------
\* CloseSocket by the world thread, of every socket in xs: the first to close
\* a socket runs OnClose, which forgets the session under _worldSessionLock.
Closable(xs) == {x \in xs : sock[x] \in {"open", "closing"}}

CloseSockets(xs) ==
    /\ sock' = [x \in Sockets |-> IF x \in Closable(xs) THEN "gone" ELSE sock[x]]
    /\ pointer' = [x \in Sockets |-> IF x \in Closable(xs) THEN NoSession
                                     ELSE pointer[x]]

\* KickPlayer, Cleanup and the destructor that forget the instance socket.
SocketsOf_realm_only(s) == {s}

\* m_Socket[0] and m_Socket[1] of session s.
SocketsOf(s) == {s} \cup ({instance[s]} \ {NoLink})

IsOpen(x) == sock[x] = "open"

\* KickPlayer.
Kick(s) ==
    /\ CloseSockets(SocketsOf(s))
    /\ forceExit' = forceExit \cup {s}

\* SendConnectToInstance: a new key replaces the one before.
ConnectTo(s, serial) ==
    /\ connectKey' = [connectKey EXCEPT ![s] = @ + 1]
    /\ attempt' = [attempt EXCEPT ![s] = serial]

-----------------------------------------------------------------------------
(***************************************************************************)
(* The network threads.                                                    *)
(***************************************************************************)
NetworkRuns == \A x \in Sockets : sock[x] # "stuck"

\* A realm connection whose client has authenticated: HandleAuthSessionCallback
\* makes the session.
Authenticate(s) ==
    /\ NetworkRuns /\ sock[s] = "idle"
    /\ sock' = [sock EXCEPT ![s] = "open"]
    /\ pointer' = [pointer EXCEPT ![s] = s]
    /\ live' = live \cup {s}
    /\ UNCHANGED <<linkKey, linkQueue, acked, addQueue, sessions, waiting,
                   inQueue, initializing, disconnects, login, thread>>

\* CMSG_ENABLE_ENCRYPTION_ACK on a realm connection.
EncryptionAck(s) ==
    /\ NetworkRuns /\ IsOpen(s) /\ s \notin acked
    /\ acked' = acked \cup {s}
    /\ addQueue' = Append(addQueue, pointer[s])
    /\ UNCHANGED <<sock, pointer, linkKey, linkQueue, admission, login, thread>>

\* The client answers a ConnectTo of its session: it opens an instance
\* connection and authenticates on it with that key.
Connect(l, s, k) ==
    /\ NetworkRuns /\ sock[l] = "idle"
    /\ k \in 1 .. connectKey[s]
    /\ \A m \in Links : linkKey[m] # <<s, k>>
    /\ sock' = [sock EXCEPT ![l] = "open"]
    /\ linkKey' = [linkKey EXCEPT ![l] = <<s, k>>]
    /\ linkQueue' = Append(linkQueue, l)
    /\ UNCHANGED <<pointer, acked, addQueue, admission, login, thread>>

\* CMSG_CONNECT_TO_FAILED: the client gave up on its last attempt.  The
\* handler runs on the network thread, under _worldSessionLock.  AbortLogin
\* kicks a session that has a player; its first step is to close this socket.
ConnectToFailed(s) ==
    /\ NetworkRuns /\ IsOpen(s) /\ pointer[s] \in loading
    /\ attempt[s] > 0
    /\ \/ /\ attempt[s] < Attempts /\ connectKey[s] < MaxKeys[s]
          /\ ConnectTo(s, attempt[s] + 1)
          /\ UNCHANGED <<sock, pointer, loading, forceExit>>
       \/ /\ attempt[s] = Attempts
          /\ IF s \in player
             THEN /\ sock' = [sock EXCEPT ![s] = "stuck"]
                  /\ UNCHANGED loading
             ELSE /\ loading' = loading \ {s}
                  /\ UNCHANGED sock
          /\ UNCHANGED <<pointer, connectKey, attempt, forceExit>>
    /\ UNCHANGED <<linkKey, linkQueue, acked, addQueue, admission, instance,
                   holders, player, characters, expire, thread>>

\* A read error, or a packet no session is there for: CloseSocket up to the
\* exchange.
Lose(x) ==
    /\ NetworkRuns /\ IsOpen(x)
    /\ sock' = [sock EXCEPT ![x] = "lost"]
    /\ UNCHANGED <<pointer, linkKey, linkQueue, acked, addQueue, admission,
                   login, thread>>

\* OnClose on the network thread; HandleQueue closes a socket marked by
\* DelayedCloseSocket once its answer is written.
Leave(x) ==
    /\ NetworkRuns /\ sock[x] \in {"lost", "closing"}
    /\ sock' = [sock EXCEPT ![x] = "gone"]
    /\ pointer' = [pointer EXCEPT ![x] = NoSession]
    /\ UNCHANGED <<linkKey, linkQueue, acked, addQueue, admission, login,
                   thread>>

-----------------------------------------------------------------------------
(***************************************************************************)
(* The world thread: World::UpdateSessions, once a tick.                   *)
(***************************************************************************)
InWorld == {sessions[a] : a \in Accounts} \ {NoSession}

\* World::KickAll once the world loop has ended; one UpdateSessions follows it.
KickAll ==
    /\ pc = "update" /\ todo = {} /\ ~kicked
    /\ kicked' = TRUE /\ pc' = "link"
    /\ waiting' = <<>>
    /\ CloseSockets(UNION {SocketsOf(s) : s \in InWorld})
    /\ forceExit' = forceExit \cup InWorld
    /\ UNCHANGED <<linkKey, linkQueue, acked, addQueue, live, sessions, inQueue,
                   initializing, disconnects, loading, connectKey, attempt,
                   instance, holders, player, characters, expire, cur, todo,
                   linking>>

\* ProcessLinkInstanceSocket, up to its last check.
LinkCheck ==
    /\ pc = "link" /\ linkQueue # <<>>
    /\ linkQueue' = Tail(linkQueue)
    /\ LET l == Head(linkQueue)
           s == sessions[AccountOf[linkKey[l][1]]]
           known == s # NoSession /\ linkKey[l] = <<s, connectKey[s]>>
       IN  IF ~IsOpen(l)
           THEN UNCHANGED <<sock, pc, linking>>
           ELSE IF known
           THEN /\ linking' = [link |-> l, session |-> s]
                /\ pc' = "linkset"
                /\ UNCHANGED sock
           ELSE /\ sock' = [sock EXCEPT ![l] = "closing"]
                /\ UNCHANGED <<pc, linking>>
    /\ UNCHANGED <<pointer, linkKey, acked, addQueue, admission, login, cur,
                   todo, kicked>>

\* SetWorldSession, AddInstanceConnection, HandleContinuePlayerLogin.
LinkSet ==
    /\ pc = "linkset"
    /\ LET l == linking.link
           s == linking.session
           expected == s \in loading /\ s \notin player
           closing == IF expected THEN {} ELSE Closable({s, l})
       IN  /\ instance' = [instance EXCEPT ![s] = l]
           /\ sock' = [x \in Sockets |-> IF x \in closing THEN "gone" ELSE sock[x]]
           /\ pointer' = [x \in Sockets |-> IF x \in closing THEN NoSession
                                            ELSE IF x = l THEN s ELSE pointer[x]]
           /\ holders' = IF expected THEN [holders EXCEPT ![s] = @ + 1] ELSE holders
           /\ forceExit' = IF expected THEN forceExit ELSE forceExit \cup {s}
    /\ linking' = NoLinking
    /\ pc' = "link"
    /\ UNCHANGED <<linkKey, linkQueue, acked, addQueue, admission, loading,
                   connectKey, attempt, player, characters, expire, cur, todo,
                   kicked>>

LinksDone ==
    /\ pc = "link" /\ linkQueue = <<>>
    /\ pc' = "add"
    /\ UNCHANGED <<network, admission, login, cur, todo, linking, kicked>>

\* Whether the queue moves on when a session leaves: one that was not queued
\* frees a place.  First, in a version that takes a full world for one with room,
\* and in one that returns early when the session was not queued.
HasRoom_when_full(found, active) ==
    Limit = 0 \/ (IF ~found /\ active > 0 THEN active - 1 ELSE active) <= Limit

HasRoom_only_queued(found, active) ==
    found /\ (Limit = 0 \/ active < Limit)

HasRoom(found, active) ==
    Limit = 0 \/ (IF ~found /\ active > 0 THEN active - 1 ELSE active) < Limit

\* RemoveQueuedPlayer that lets the last session of the queue in.
Unqueue_last(q, n, s) ==
    LET found == s \in Elements(q)
        rest  == IF found THEN RemoveFirst(q, s) ELSE q
    IN  IF HasRoom(found, n - Len(q)) /\ rest # <<>>
        THEN [found    |-> found,
              queue    |-> SubSeq(rest, 1, Len(rest) - 1),
              admitted |-> {rest[Len(rest)]}]
        ELSE [found |-> found, queue |-> rest, admitted |-> {}]

\* RemoveQueuedPlayer for session s, with n sessions in m_sessions: the queue
\* without s, and without its first session when that one is let in.
Unqueue(q, n, s) ==
    LET found  == s \in Elements(q)
        rest   == IF found THEN RemoveFirst(q, s) ELSE q
        active == n - Len(q)
        admits == HasRoom(found, active) /\ rest # <<>>
    IN  [found    |-> found,
         queue    |-> IF admits THEN Tail(rest) ELSE rest,
         admitted |-> IF admits THEN {Head(rest)} ELSE {}]

\* LogoutPlayer(true) in the destructor, without and with the check of _player.
LoggedOut_unchecked(s) == [characters EXCEPT ![s] = @ - 1]

LoggedOut(s) ==
    IF s \in player THEN [characters EXCEPT ![s] = @ - 1] ELSE characters

\* The destructor of session s: LogoutPlayer(true), and its sockets.
Delete(s) ==
    /\ live' = live \ {s}
    /\ loading' = loading \ {s} /\ player' = player \ {s}
    /\ characters' = LoggedOut(s)
    /\ holders' = [holders EXCEPT ![s] = 0]
    /\ instance' = [instance EXCEPT ![s] = NoLink]
    /\ forceExit' = forceExit \ {s}
    /\ expire' = [expire EXCEPT ![s] = ExpireTicks]
    /\ CloseSockets(SocketsOf(s))

HasRecentlyDisconnected(a) == Tolerance /\ a \in disconnects

\* The queue once the session a new one replaces has left it; first, in a version
\* that deletes the old session and leaves it queued.
NotQueued == [found |-> FALSE, queue |-> waiting, admitted |-> {}]

LeaveQueue_stays(old) == NotQueued

LeaveQueue(old) ==
    IF old = NoSession THEN NotQueued
    ELSE Unqueue(waiting, Cardinality(InWorld), old)

\* AddSession_ of the first new session: another session of the account that
\* is loading a player stays and the new one goes, any other is replaced.
AddRejected(s, old) ==
    /\ Delete(s)
    /\ UNCHANGED <<sessions, waiting, inQueue, initializing>>

AddAccepted(s, old) ==
    LET a   == AccountOf[s]
        n   == Cardinality(InWorld)
        u   == LeaveQueue(old)
        count == (IF old = NoSession THEN n + 1 ELSE n)
                 - (IF u.found THEN 0 ELSE 1)
        waits == /\ Limit > 0 /\ count >= Limit
                 /\ a \notin Privileged /\ ~HasRecentlyDisconnected(a)
    IN  /\ sessions' = [sessions EXCEPT ![a] = s]
        /\ waiting' = IF waits THEN Append(u.queue, s) ELSE u.queue
        /\ inQueue' = (inQueue \ {old}) \cup (IF waits THEN {s} ELSE {})
        /\ initializing' = (initializing \ {old}) \cup u.admitted
                           \cup (IF waits THEN {} ELSE {s})
        /\ IF old = NoSession
           THEN UNCHANGED <<live, loading, player, characters, holders,
                            instance, forceExit, expire, sock, pointer>>
           ELSE Delete(old)

AddSession ==
    /\ pc = "add" /\ addQueue # <<>>
    /\ addQueue' = Tail(addQueue)
    /\ LET s   == Head(addQueue)
           old == sessions[AccountOf[s]]
       IN  IF old \in loading THEN AddRejected(s, old) ELSE AddAccepted(s, old)
    /\ UNCHANGED <<linkKey, linkQueue, acked, disconnects, connectKey, attempt,
                   thread>>

AddsDone ==
    /\ pc = "add" /\ addQueue = <<>>
    /\ pc' = "update"
    /\ todo' = {a \in Accounts : sessions[a] # NoSession}
    /\ UNCHANGED <<network, admission, login, cur, linking, kicked>>

-----------------------------------------------------------------------------
\* The sessions of m_sessions are updated one after the other: first packets,
\* then the answers of the database that are ready, then logout and cleanup.
Choose(a) ==
    /\ pc = "update" /\ a \in todo
    /\ todo' = todo \ {a}
    /\ cur' = sessions[a]
    /\ pc' = "packets"
    /\ UNCHANGED <<network, admission, login, linking, kicked>>

\* IsConnectionIdle: the client has been silent for SocketTimeOutTime.
CloseIdle ==
    /\ pc = "packets" /\ cur \notin inQueue
    /\ CloseSockets({cur})
    /\ UNCHANGED <<linkKey, linkQueue, acked, addQueue, admission, login, thread>>

\* HandlePlayerLoginOpcode; a session that waits ignores it.  A client that may
\* not play that character is kicked, or told so with nothing else changed.  The
\* code does not ask whether the session is initialized; the client's patience
\* is a bound of the instance.
PlayerLogin ==
    /\ pc = "packets" /\ cur \notin inQueue
    /\ cur \in initializing => cur \in Hasty
    /\ \/ /\ cur \in loading \cup player
          /\ Kick(cur)
          /\ UNCHANGED <<loading, connectKey, attempt>>
       \/ /\ cur \notin loading \cup player
          /\ loading' = loading \cup {cur}
          /\ \/ /\ Kick(cur)
                /\ UNCHANGED <<connectKey, attempt>>
             \/ /\ connectKey[cur] < MaxKeys[cur]
                /\ ConnectTo(cur, 1)
                /\ UNCHANGED <<sock, pointer, forceExit>>
    /\ UNCHANGED <<linkKey, linkQueue, acked, addQueue, admission, instance,
                   holders, player, characters, expire, thread>>

\* InitializeSessionCallback, when both query holders have been answered.
InitializeSessionCallback ==
    /\ pc \in {"packets", "callbacks"} /\ cur \in initializing
    /\ initializing' = initializing \ {cur}
    /\ inQueue' = inQueue \ {cur}
    /\ pc' = "callbacks"
    /\ UNCHANGED <<network, live, sessions, waiting, disconnects, login, cur,
                   todo, linking, kicked>>

\* HandlePlayerLogin: LoadFromDB sets _player, then m_playerLoading is cleared.
HandlePlayerLogin ==
    /\ pc \in {"packets", "callbacks"} /\ holders[cur] > 0
    /\ holders' = [holders EXCEPT ![cur] = @ - 1]
    /\ \/ /\ player' = player \cup {cur}
          /\ characters' = [characters EXCEPT ![cur] = @ + 1]
          /\ pc' = "entering"
          /\ UNCHANGED <<sock, pointer, loading, forceExit>>
       \/ /\ player' = player \ {cur}      \* LoadFromDB failed
          /\ Kick(cur)
          /\ loading' = loading \ {cur}
          /\ pc' = "callbacks"
          /\ UNCHANGED characters
    /\ UNCHANGED <<linkKey, linkQueue, acked, addQueue, admission, connectKey,
                   attempt, instance, expire, cur, todo, linking, kicked>>

LoadingDone ==
    /\ pc = "entering"
    /\ loading' = loading \ {cur}
    /\ pc' = "callbacks"
    /\ UNCHANGED <<network, admission, connectKey, attempt, instance, holders,
                   player, characters, forceExit, expire, cur, todo, linking,
                   kicked>>

\* LogoutPlayer, 20 s after the client asked for it.
LogoutPlayer ==
    /\ pc \in {"packets", "callbacks"} /\ cur \in player \ loading
    /\ player' = player \ {cur}
    /\ characters' = [characters EXCEPT ![cur] = @ - 1]
    /\ CloseSockets({instance[cur]} \ {NoLink})
    /\ instance' = [instance EXCEPT ![cur] = NoLink]
    /\ pc' = "cleanup"
    /\ UNCHANGED <<linkKey, linkQueue, acked, addQueue, admission, loading,
                   connectKey, attempt, holders, forceExit, expire, cur, todo,
                   linking, kicked>>

\* expireTime after one more update: a version that never counts it down, then
\* the code's.
TimeLeft_frozen(s) == expire[s]

TimeLeft(s) == IF expire[s] > 0 THEN expire[s] - 1 ELSE 0

\* When a session with a closed socket is over: a version that does not look at
\* forceExit, then the code's.
IsOver_unforced(s) == TimeLeft(s) = 0 \/ s \notin player

IsOver(s) == TimeLeft(s) = 0 \/ s \in forceExit \/ s \notin player

\* The end of WorldSession::Update: a session one of whose sockets has closed
\* lasts until expireTime is over, if its player is in the world.
Cleanup ==
    /\ pc \in {"packets", "callbacks", "cleanup"}
    /\ IF \A x \in SocketsOf(cur) : IsOpen(x)
       THEN /\ pc' = "update"
            /\ UNCHANGED <<sock, pointer, expire>>
       ELSE /\ expire' = [expire EXCEPT ![cur] = TimeLeft(cur)]
            /\ IF IsOver(cur)
               THEN /\ CloseSockets(SocketsOf(cur))
                    /\ pc' = "remove"
               ELSE /\ pc' = "update"
                    /\ UNCHANGED <<sock, pointer>>
    /\ UNCHANGED <<linkKey, linkQueue, acked, addQueue, admission, loading,
                   connectKey, attempt, instance, holders, player, characters,
                   forceExit, cur, todo, linking, kicked>>

\* World::UpdateSessions takes a session whose Update returned false out of the
\* queue, twice, then out of m_sessions, and deletes it.
RemoveSession ==
    /\ pc = "remove"
    /\ LET a      == AccountOf[cur]
           n      == Cardinality(InWorld)
           first  == Unqueue(waiting, n, cur)
           second == Unqueue(first.queue, n, cur)
       IN  /\ waiting' = second.queue
           /\ initializing' = (initializing \ {cur})
                              \cup first.admitted \cup second.admitted
           /\ disconnects' = IF ~first.found /\ Tolerance
                             THEN disconnects \cup {a} ELSE disconnects
           /\ sessions' = [sessions EXCEPT ![a] = NoSession]
    /\ inQueue' = inQueue \ {cur}
    /\ Delete(cur)
    /\ pc' = "update"
    /\ UNCHANGED <<linkKey, linkQueue, acked, addQueue, connectKey, attempt, cur,
                   todo, linking, kicked>>

TickDone ==
    /\ pc = "update" /\ todo = {}
    /\ pc' = IF kicked THEN "stopped" ELSE "link"
    /\ cur' = NoSession
    /\ UNCHANGED <<network, admission, login, todo, linking, kicked>>

-----------------------------------------------------------------------------
Network ==
    \/ \E s \in Sessions : Authenticate(s) \/ EncryptionAck(s) \/ ConnectToFailed(s)
    \/ \E l \in Links, key \in Keys : Connect(l, key[1], key[2])
    \/ \E x \in Sockets : Lose(x) \/ Leave(x)

World ==
    \/ KickAll
    \/ LinkCheck \/ LinkSet \/ LinksDone \/ AddSession \/ AddsDone
    \/ \E a \in Accounts : Choose(a)
    \/ CloseIdle \/ PlayerLogin
    \/ InitializeSessionCallback \/ HandlePlayerLogin \/ LoadingDone
    \/ LogoutPlayer \/ Cleanup \/ RemoveSession \/ TickDone

Next == Network \/ World

Spec == Init /\ [][Next]_vars

\* World::Update is called until shutdown, and once more after it; nothing is
\* asked of the network thread or of the clients.
FairSpec == Spec /\ WF_vars(World)

-----------------------------------------------------------------------------
Active == InWorld \ Elements(waiting)

\* The client of this instance connection gave up on it and asked for another.
Superseded(x) ==
    x \in Links /\ linkKey[x] # <<>>
        /\ linkKey[x] # <<linkKey[x][1], connectKey[linkKey[x][1]]>>

\* A socket that still handles packets of a client hands them to a session
\* that exists: no packet handler runs on a deleted WorldSession, whichever
\* way it was deleted (replaced, rejected, expired, kicked, shut down).
NoUseAfterDelete ==
    \A x \in Sockets :
        IsOpen(x) /\ ~Superseded(x) => pointer[x] \in live \cup {NoSession}

\* m_QueuedPlayer holds pointers: each is the current session of its account,
\* is there once, and is still marked as queued, so that it cannot log in.
QueueSound ==
    \A i \in DOMAIN waiting :
        /\ waiting[i] \in live \cap inQueue
        /\ sessions[AccountOf[waiting[i]]] = waiting[i]
        /\ \A j \in DOMAIN waiting : waiting[i] = waiting[j] => i = j

\* No more players are let in than PlayerLimit, whoever logs in again, leaves or
\* is kicked, and whatever the two calls of RemoveQueuedPlayer count.  Accounts
\* that skip the queue do not count, nor do those that were disconnected.
AdmissionLimit ==
    (Limit > 0 /\ ~kicked) =>
        Cardinality({s \in Active : /\ AccountOf[s] \notin Privileged
                                    /\ ~HasRecentlyDisconnected(AccountOf[s])})
            <= Limit

\* Nobody waits while there is room.
NoIdleSlot == waiting # <<>> => Cardinality(Active) >= Limit

\* The queue is served in order: a session that leaves the queue for the world
\* leaves nobody behind it who came first, and those who stay keep their places.
FirstComeFirstServed ==
    [][ \A i, j \in DOMAIN waiting :
            (i < j /\ waiting[i] \in Elements(waiting')) =>
                \/ \E k, l \in DOMAIN waiting' :
                      k < l /\ waiting'[k] = waiting[i] /\ waiting'[l] = waiting[j]
                \/ waiting[j] \notin live' ]_vars

\* A session in m_sessions whose realm connection is closed is removed, unless
\* the server stops first.
ClosedSessionLeaves ==
    \A s \in Sessions :
        (s \in InWorld /\ sock[s] \notin {"idle", "open"})
            ~> (s \notin InWorld \/ pc = "stopped")

\* After KickAll one UpdateSessions is enough to log every player out, those
\* whose login was answered in that very update included.
ShutdownLogsOut == pc = "stopped" => InWorld \cap player = {}

-----------------------------------------------------------------------------
\* WorldSession.cpp:138, "1 min after socket loss, session is deleted".
SocketLossDeletes ==
    \A s \in Sessions :
        (s \in live /\ sock[s] \notin {"idle", "open"}) ~> (s \notin live \/ pc = "stopped")

\* WorldSession.cpp:651, "each account can only have one online character at
\* any given time".
OneCharacterPerAccount == \A s \in Sessions : characters[s] <= 1

-----------------------------------------------------------------------------
(***************************************************************************)
(* The inductive invariant behind NoUseAfterDelete and ShutdownLogsOut:    *)
(* the sessions of addSessQueue and m_sessions exist, the world thread is  *)
(* at one of them, and what a session has of a login is gone with it.      *)
(***************************************************************************)
Updating == {"packets", "callbacks", "entering", "cleanup", "remove"}

SessionsKnown ==
    /\ \A a \in Accounts : sessions[a] # NoSession =>
           AccountOf[sessions[a]] = a /\ sessions[a] \in live \cap acked
    /\ \A i \in DOMAIN addQueue :
           /\ addQueue[i] \in (live \cap acked) \ InWorld
           /\ \A j \in DOMAIN addQueue : addQueue[i] = addQueue[j] => i = j
    /\ \A s \in Sessions \ InWorld :
           /\ s \notin player
           /\ holders[s] = 0 /\ instance[s] = NoLink
    /\ \A s \in player : characters[s] > 0

RealmSockets ==
    \A s \in Sessions :
        /\ sock[s] \in {"open", "lost", "stuck"} => pointer[s] = s
        /\ sock[s] = "open" => s \in live
        /\ pointer[s] \in {s, NoSession}
        /\ sock[s] = "idle" => s \notin live \cup acked

ThreadAt ==
    /\ pc \in Updating => /\ cur # NoSession /\ sessions[AccountOf[cur]] = cur
                          /\ AccountOf[cur] \notin todo
    /\ pc \notin Updating \cup {"update"} => todo = {}
    /\ \A a \in todo : sessions[a] # NoSession
    /\ pc = "linkset" => linking.link # NoLink /\ linking.session \in InWorld

\* Of the instance connections of a session only the last it asked for is not
\* superseded, and that one is its instance connection.
LinksKnown ==
    /\ \A l \in Links :
        /\ linkKey[l] = <<>> => pointer[l] = NoSession
        /\ linkKey[l] # <<>> => /\ sock[l] # "idle"
                                /\ linkKey[l][2] <= connectKey[linkKey[l][1]]
                                /\ pointer[l] \in {linkKey[l][1], NoSession}
        /\ \A m \in Links : linkKey[l] = linkKey[m] /\ linkKey[l] # <<>> => l = m
        /\ IsOpen(l) /\ ~Superseded(l) /\ pointer[l] # NoSession =>
               instance[pointer[l]] = l
    /\ \A i \in DOMAIN linkQueue : linkKey[linkQueue[i]] # <<>>
    /\ pc = "linkset" =>
        /\ linkKey[linking.link] # <<>>
        /\ linkKey[linking.link][1] = linking.session
        /\ \A m \in Links \ {linking.link} : pointer[m] = linking.session =>
               linkKey[m][2] < linkKey[linking.link][2]

\* After KickAll a session is on its way out or has never had a player; once
\* the last update has been at it, it has none.
Forced(s) == s \in forceExit /\ sock[s] \notin {"idle", "open"}
Fresh(s) == s \notin player /\ holders[s] = 0

Ahead(s) == \/ pc \in {"link", "linkset", "add"}
            \/ AccountOf[s] \in todo
            \/ pc \in Updating /\ s = cur

KickedLeave ==
    /\ pc = "stopped" => kicked
    /\ kicked => \A s \in InWorld :
        /\ pc \in {"link", "linkset"} => Forced(s)
        /\ IF Ahead(s) THEN Forced(s) \/ Fresh(s) ELSE s \notin player

SessionInv ==
    TypeOK /\ SessionsKnown /\ RealmSockets /\ ThreadAt /\ LinksKnown /\ KickedLeave

(***************************************************************************)
(* The inductive invariant behind QueueSound, NoIdleSlot, AdmissionLimit:  *)
(* who waits is not being let in, and m_sessions can be counted.           *)
(***************************************************************************)
QueueInv ==
    /\ QueueSound
    /\ Elements(waiting) \cap initializing = {}
    /\ initializing \subseteq InWorld
    /\ IsFiniteSet(InWorld)
    /\ NoIdleSlot /\ AdmissionLimit
=============================================================================
