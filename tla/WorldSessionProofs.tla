-------------------------- MODULE WorldSessionProofs --------------------------
(***************************************************************************)
(* Proofs about WorldSessions, for every set of clients, accounts and      *)
(* instance connections, every player limit and any number of logins: a    *)
(* socket never hands packets to a deleted session, and shutdown logs      *)
(* every player out.  WorldQueueProofs adds the queue of players.          *)
(***************************************************************************)
EXTENDS WorldSessions, SequenceTheorems, WellFoundedInduction, TLAPS

USE WorldSessionsAssumption
USE DEF network, admission, login, thread, Sockets, SocketStates

(***************************************************************************)
(* Parts of TypeOK.                                                        *)
(***************************************************************************)
LEMMA KeyIsPair ==
  ASSUME NEW k \in Keys
  PROVE  /\ k[1] \in Sessions /\ k[2] \in 1 .. MaxKeys[k[1]]
         /\ k = <<k[1], k[2]>> /\ k # <<>>
  BY DEF Keys

LEMMA KeyOf ==
  ASSUME NEW s \in Sessions, NEW k \in 1 .. MaxKeys[s]
  PROVE  <<s, k>> \in Keys
  BY DEF Keys

LEMMA QueueElement ==
  ASSUME NEW S, NEW q \in Seq(S)
  PROVE  /\ q # <<>> => Head(q) \in S /\ Tail(q) \in Seq(S)
         /\ \A x \in S : Append(q, x) \in Seq(S)
  OBVIOUS

LEMMA QueueHead ==
  ASSUME NEW S, NEW q \in Seq(S), q # <<>>
  PROVE  /\ Head(q) = q[1] /\ q[1] \in S /\ 1 \in DOMAIN q
         /\ \A i \in DOMAIN Tail(q) : i + 1 \in DOMAIN q /\ Tail(q)[i] = q[i + 1]
  OBVIOUS

LEMMA InWorldType ==
  ASSUME TypeOK
  PROVE  InWorld \subseteq Sessions
  BY DEF TypeOK, NetworkTypes, AdmissionTypes, LoginTypes, ThreadTypes, InWorld

LEMMA SocketsOfType ==
  ASSUME TypeOK, NEW s \in Sessions
  PROVE  SocketsOf(s) \subseteq Sockets
  <1>1. instance[s] \in Links \cup {NoLink}  BY DEF TypeOK, NetworkTypes, AdmissionTypes, LoginTypes, ThreadTypes
  <1> QED  BY <1>1 DEF SocketsOf

\* Whatever CloseSockets is asked to close, a socket stays as it is or is gone.
LEMMA SocketsClosed ==
  ASSUME TypeOK, NEW xs, CloseSockets(xs)
  PROVE  /\ sock' \in [Sockets -> SocketStates]
         /\ pointer' \in [Sockets -> Sessions \cup {NoSession}]
         /\ \A x \in Sockets :
                \/ sock'[x] = sock[x] /\ pointer'[x] = pointer[x]
                \/ sock'[x] = "gone" /\ pointer'[x] = NoSession
         /\ \A x \in Sockets \cap xs : sock'[x] \notin {"open", "closing"}
  <1>1. sock' \in [Sockets -> SocketStates]
    BY DEF TypeOK, NetworkTypes, AdmissionTypes, LoginTypes, ThreadTypes, CloseSockets
  <1>2. pointer' \in [Sockets -> Sessions \cup {NoSession}]
    BY DEF TypeOK, NetworkTypes, AdmissionTypes, LoginTypes, ThreadTypes, CloseSockets
  <1>3. ASSUME NEW x \in Sockets
        PROVE  IF x \in Closable(xs) THEN sock'[x] = "gone" /\ pointer'[x] = NoSession
               ELSE sock'[x] = sock[x] /\ pointer'[x] = pointer[x]
    BY DEF CloseSockets
  <1>4. \A x \in Sockets \cap xs : sock'[x] \notin {"open", "closing"}
    BY <1>3 DEF Closable
  <1> QED  BY <1>1, <1>2, <1>3, <1>4

LEMMA InitType == Init => TypeOK
  <1> SUFFICES ASSUME Init PROVE TypeOK  OBVIOUS
  <1>1. /\ sock \in [Sockets -> SocketStates]
        /\ pointer \in [Sockets -> Sessions \cup {NoSession}]
        /\ linkKey \in [Links -> Keys \cup {<<>>}]
    BY DEF Init
  <1>2. linkQueue \in Seq(Links) /\ addQueue \in Seq(Sessions) /\ waiting \in Seq(Sessions)
    BY DEF Init
  <1>3. /\ connectKey \in [Sessions -> Nat]
        /\ \A s \in Sessions : connectKey[s] <= MaxKeys[s]
        /\ attempt \in [Sessions -> 0 .. Attempts]
    BY DEF Init
  <1>4. /\ holders \in [Sessions -> Nat] /\ characters \in [Sessions -> Nat]
        /\ expire \in [Sessions -> 0 .. ExpireTicks]
        /\ instance \in [Sessions -> Links \cup {NoLink}]
        /\ sessions \in [Accounts -> Sessions \cup {NoSession}]
    BY DEF Init
  <1>5. linking \in [link : Links \cup {NoLink}, session : Sessions \cup {NoSession}]
    BY DEF Init, NoLinking
  <1> QED  BY <1>1, <1>2, <1>3, <1>4, <1>5 DEF Init, TypeOK, NetworkTypes, AdmissionTypes, LoginTypes, ThreadTypes

LEMMA DeleteType ==
  ASSUME TypeOK, NEW s \in Sessions, Delete(s), s \in player => characters[s] > 0
  PROVE  /\ live' \subseteq Sessions /\ loading' \subseteq Sessions
         /\ player' \subseteq Sessions /\ forceExit' \subseteq Sessions
         /\ characters' \in [Sessions -> Nat] /\ holders' \in [Sessions -> Nat]
         /\ instance' \in [Sessions -> Links \cup {NoLink}]
         /\ expire' \in [Sessions -> 0 .. ExpireTicks]
         /\ sock' \in [Sockets -> SocketStates]
         /\ pointer' \in [Sockets -> Sessions \cup {NoSession}]
  <1>1. CloseSockets(SocketsOf(s))  BY DEF Delete
  <1>2. characters' \in [Sessions -> Nat]
    BY DEF Delete, LoggedOut, TypeOK, LoginTypes
  <1>3. expire' \in [Sessions -> 0 .. ExpireTicks]
    BY DEF Delete, TypeOK, AdmissionTypes, LoginTypes
  <1> QED  BY <1>1, <1>2, <1>3, SocketsClosed DEF Delete, TypeOK, AdmissionTypes, LoginTypes

(***************************************************************************)
(* The queue of players: taking a session out of it.                       *)
(***************************************************************************)
LEMMA LeastNatural ==
  ASSUME NEW S, S \subseteq Nat, S # {}
  PROVE  Min(S) \in S /\ \A n \in S : Min(S) <= n
  <1>1. PICK m \in S : \A n \in S : <<n, m>> \notin OpToRel(<, Nat)
    BY WFMin, NatLessThanWellFounded, Zenon
  <1>2. \A n \in S : m \in Nat /\ n \in Nat /\ ~(n < m)
    BY <1>1, Zenon DEF OpToRel
  <1>3. \E x \in S : \A n \in S : x <= n  BY <1>2
  <1> QED  BY <1>3 DEF Min

LEMMA ElementsOf ==
  ASSUME NEW S, NEW q \in Seq(S)
  PROVE  /\ Elements(q) = {q[i] : i \in 1 .. Len(q)}
         /\ Elements(q) \subseteq S
  BY DEF Elements, ToSet

\* RemoveFirst skips one place that held the session.
LEMMA RemovesOne ==
  ASSUME NEW S, NEW q \in Seq(S), NEW s \in Elements(q)
  PROVE  \E p \in 1 .. Len(q) :
           /\ q[p] = s
           /\ RemoveFirst(q, s) \in Seq(S)
           /\ Len(RemoveFirst(q, s)) = Len(q) - 1
           /\ \A i \in 1 .. Len(q) - 1 :
                RemoveFirst(q, s)[i] = IF i < p THEN q[i] ELSE q[i + 1]
  <1> DEFINE I == {i \in 1 .. Len(q) : q[i] = s}
             p == Min(I)
  <1>1. I \subseteq Nat /\ I # {}  BY ElementsOf
  <1>2. p \in 1 .. Len(q) /\ q[p] = s  BY <1>1, LeastNatural
  <1>3. RemoveFirst(q, s) = SubSeq(q, 1, p - 1) \o SubSeq(q, p + 1, Len(q))
    BY <1>1 DEF RemoveFirst, SelectInSeq, RemoveAt
  <1> HIDE DEF p, I
  <1> DEFINE a == SubSeq(q, 1, p - 1)
             b == SubSeq(q, p + 1, Len(q))
  <1>4. /\ a \in Seq(S) /\ Len(a) = p - 1
        /\ \A i \in 1 .. p - 1 : a[i] = q[i]
    BY <1>2
  <1>5. /\ b \in Seq(S) /\ Len(b) = Len(q) - p
        /\ \A i \in 1 .. Len(q) - p : b[i] = q[p + i]
    BY <1>2
  <1> HIDE DEF a, b
  <1>6. /\ a \o b \in Seq(S) /\ Len(a \o b) = Len(q) - 1
        /\ \A i \in 1 .. Len(q) - 1 : (a \o b)[i] = IF i < p THEN q[i] ELSE q[i + 1]
    <2>1. /\ a \o b \in Seq(S) /\ Len(a \o b) = Len(a) + Len(b)
          /\ \A i \in 1 .. Len(a) + Len(b) :
               (a \o b)[i] = IF i <= Len(a) THEN a[i] ELSE b[i - Len(a)]
      <3>1. a \in Seq(S) /\ b \in Seq(S)  BY <1>4, <1>5
      <3> QED  BY <3>1, ConcatProperties
    <2>2. Len(a) + Len(b) = Len(q) - 1  BY <1>2, <1>4, <1>5
    <2>3. ASSUME NEW i \in 1 .. Len(q) - 1
          PROVE  (a \o b)[i] = IF i < p THEN q[i] ELSE q[i + 1]
      <3>1. CASE i < p
        <4>1. (a \o b)[i] = a[i] /\ i \in 1 .. p - 1
          BY <1>2, <1>4, <2>1, <2>2, <3>1
        <4> QED  BY <1>4, <3>1, <4>1
      <3>2. CASE i >= p
        <4>1. (a \o b)[i] = b[i - (p - 1)] /\ i - (p - 1) \in 1 .. Len(q) - p
          BY <1>2, <1>4, <2>1, <2>2, <3>2
        <4>2. b[i - (p - 1)] = q[p + (i - (p - 1))]  BY <1>5, <4>1
        <4>3. p + (i - (p - 1)) = i + 1  BY <1>2
        <4>4. (a \o b)[i] = q[i + 1]  BY <4>1, <4>2, <4>3
        <4> QED  BY <1>2, <3>2, <4>4
      <3>3. i < p \/ i >= p  BY <1>2
      <3> QED  BY <3>1, <3>2, <3>3
    <2> QED  BY <2>1, <2>2, <2>3
  <1> QED  BY <1>2, <1>3, <1>6 DEF a, b

LEMMA UnqueueType ==
  ASSUME NEW q \in Seq(Sessions), NEW n, NEW s
  PROVE  /\ Unqueue(q, n, s).found \in BOOLEAN
         /\ Unqueue(q, n, s).queue \in Seq(Sessions)
         /\ Unqueue(q, n, s).admitted \subseteq Elements(q)
         /\ Unqueue(q, n, s).admitted \subseteq Sessions
  <1> DEFINE rest == IF s \in Elements(q) THEN RemoveFirst(q, s) ELSE q
  <1>1. rest \in Seq(Sessions) /\ \A i \in 1 .. Len(rest) : rest[i] \in Elements(q)
    <2>1. CASE s \in Elements(q)
      <3>1. PICK p \in 1 .. Len(q) :
               /\ RemoveFirst(q, s) \in Seq(Sessions)
               /\ Len(RemoveFirst(q, s)) = Len(q) - 1
               /\ \A i \in 1 .. Len(q) - 1 :
                    RemoveFirst(q, s)[i] = IF i < p THEN q[i] ELSE q[i + 1]
        BY <2>1, RemovesOne
      <3>2. \A i \in 1 .. Len(q) - 1 : q[i] \in Elements(q) /\ q[i + 1] \in Elements(q)
        BY ElementsOf
      <3> QED  BY <2>1, <3>1, <3>2
    <2>2. CASE s \notin Elements(q)  BY <2>2, ElementsOf
    <2> QED  BY <2>1, <2>2
  <1> HIDE DEF rest
  <1>2. rest # <<>> => /\ Tail(rest) \in Seq(Sessions)
                       /\ Head(rest) \in Elements(q) /\ Head(rest) \in Sessions
    BY <1>1
  <1>3. Unqueue(q, n, s) =
          [found    |-> s \in Elements(q),
           queue    |-> IF HasRoom(s \in Elements(q), n - Len(q)) /\ rest # <<>>
                        THEN Tail(rest) ELSE rest,
           admitted |-> IF HasRoom(s \in Elements(q), n - Len(q)) /\ rest # <<>>
                        THEN {Head(rest)} ELSE {}]
    BY DEF Unqueue, rest
  <1> QED  BY <1>1, <1>2, <1>3

(***************************************************************************)
(* Type correctness of a step.  Two conjuncts need more than TypeOK: what  *)
(* EncryptionAck queues is a session, and a player who leaves is counted.  *)
(***************************************************************************)

LEMMA TypesKept ==
  /\ NetworkTypes /\ UNCHANGED network => NetworkTypes'
  /\ AdmissionTypes /\ UNCHANGED admission => AdmissionTypes'
  /\ LoginTypes /\ UNCHANGED login => LoginTypes'
  /\ ThreadTypes /\ UNCHANGED thread => ThreadTypes'
  <1>1. NetworkTypes /\ UNCHANGED network => NetworkTypes'  BY DEF NetworkTypes
  <1>2. AdmissionTypes /\ UNCHANGED admission => AdmissionTypes'  BY DEF AdmissionTypes
  <1>3. LoginTypes /\ UNCHANGED login => LoginTypes'  BY DEF LoginTypes
  <1>4. ThreadTypes /\ UNCHANGED thread => ThreadTypes'  BY DEF ThreadTypes
  <1> QED  BY <1>1, <1>2, <1>3, <1>4

\* Closing sockets, and nothing else of the network.
LEMMA ClosedTypes ==
  ASSUME TypeOK, NEW xs, CloseSockets(xs),
         UNCHANGED <<linkKey, linkQueue, acked>>, addQueue' \in Seq(Sessions)
  PROVE  NetworkTypes'
  BY SocketsClosed DEF TypeOK, NetworkTypes

LEMMA DeletedTypes ==
  ASSUME TypeOK, NEW s \in Sessions, Delete(s), s \in player => characters[s] > 0,
         UNCHANGED <<linkKey, linkQueue, acked, connectKey, attempt>>,
         addQueue' \in Seq(Sessions)
  PROVE  NetworkTypes' /\ LoginTypes' /\ live' \subseteq Sessions
  <1>1. NetworkTypes'  BY DeleteType DEF TypeOK, NetworkTypes
  <1>2. LoginTypes'  BY DeleteType DEF TypeOK, LoginTypes
  <1> QED  BY <1>1, <1>2, DeleteType

LEMMA AuthenticateTypes ==
  ASSUME TypeOK, NEW s \in Sessions, Authenticate(s)
  PROVE  TypeOK'
  <1>1. NetworkTypes'  BY DEF TypeOK, NetworkTypes, Authenticate
  <1>2. AdmissionTypes'  BY DEF TypeOK, AdmissionTypes, Authenticate
  <1> QED  BY <1>1, <1>2, TypesKept DEF TypeOK, Authenticate

LEMMA EncryptionAckTypes ==
  ASSUME TypeOK, RealmSockets, NEW s \in Sessions, EncryptionAck(s)
  PROVE  TypeOK'
  <1>1. pointer[s] = s  BY DEF EncryptionAck, IsOpen, RealmSockets
  <1>2. addQueue' \in Seq(Sessions)
    BY <1>1, QueueElement DEF TypeOK, NetworkTypes, EncryptionAck
  <1>3. NetworkTypes'  BY <1>2 DEF TypeOK, NetworkTypes, EncryptionAck
  <1> QED  BY <1>3, TypesKept DEF TypeOK, EncryptionAck

LEMMA ConnectToTypes ==
  ASSUME LoginTypes, NEW s \in Sessions, NEW i \in 1 .. Attempts,
         connectKey[s] < MaxKeys[s], ConnectTo(s, i)
  PROVE  /\ connectKey' \in [Sessions -> Nat]
         /\ \A t \in Sessions : connectKey'[t] <= MaxKeys[t]
         /\ attempt' \in [Sessions -> 0 .. Attempts]
  BY DEF LoginTypes, ConnectTo

LEMMA ConnectToFailedTypes ==
  ASSUME TypeOK, NEW s \in Sessions, ConnectToFailed(s)
  PROVE  TypeOK'
  <1>1. NetworkTypes'
    <2>1. sock' = sock \/ sock' = [sock EXCEPT ![s] = "stuck"]
      BY DEF ConnectToFailed
    <2> QED  BY <2>1 DEF TypeOK, NetworkTypes, ConnectToFailed
  <1>2. LoginTypes'
    <2>1. CASE ConnectTo(s, attempt[s] + 1) /\ attempt[s] < Attempts
               /\ connectKey[s] < MaxKeys[s] /\ UNCHANGED loading
      <3>1. attempt[s] + 1 \in 1 .. Attempts  BY <2>1 DEF TypeOK, LoginTypes
      <3>2. /\ connectKey' \in [Sessions -> Nat]
            /\ \A t \in Sessions : connectKey'[t] <= MaxKeys[t]
            /\ attempt' \in [Sessions -> 0 .. Attempts]
        BY <2>1, <3>1, ConnectToTypes DEF TypeOK
      <3> QED  BY <2>1, <3>2 DEF TypeOK, LoginTypes, ConnectToFailed
    <2>2. CASE UNCHANGED <<connectKey, attempt>> /\ loading' \subseteq loading
      BY <2>2 DEF TypeOK, LoginTypes, ConnectToFailed
    <2> QED  BY <2>1, <2>2 DEF ConnectToFailed
  <1> QED  BY <1>1, <1>2, TypesKept DEF TypeOK, ConnectToFailed

LEMMA ConnectTypes ==
  ASSUME TypeOK, NEW l \in Links, NEW key \in Keys, Connect(l, key[1], key[2])
  PROVE  TypeOK'
  <1>1. linkQueue' \in Seq(Links)
    BY QueueElement DEF TypeOK, NetworkTypes, Connect
  <1>2. NetworkTypes'  BY <1>1, KeyIsPair DEF TypeOK, NetworkTypes, Connect
  <1> QED  BY <1>2, TypesKept DEF TypeOK, Connect

LEMMA LoseTypes ==
  ASSUME TypeOK, NEW x \in Sockets, Lose(x) \/ Leave(x)
  PROVE  TypeOK'
  <1>1. NetworkTypes'  BY DEF TypeOK, NetworkTypes, Lose, Leave
  <1> QED  BY <1>1, TypesKept DEF TypeOK, Lose, Leave

LEMMA KickAllTypes == TypeOK /\ KickAll => TypeOK'
  <1> SUFFICES ASSUME TypeOK, KickAll PROVE TypeOK'  OBVIOUS
  <1>1. CloseSockets(UNION {SocketsOf(s) : s \in InWorld})  BY DEF KickAll
  <1>2. NetworkTypes'  BY <1>1, ClosedTypes DEF TypeOK, NetworkTypes, KickAll
  <1>3. AdmissionTypes'  BY DEF TypeOK, AdmissionTypes, KickAll
  <1>4. LoginTypes'  BY InWorldType DEF TypeOK, LoginTypes, KickAll
  <1>5. ThreadTypes'  BY DEF TypeOK, ThreadTypes, KickAll
  <1> QED  BY <1>2, <1>3, <1>4, <1>5 DEF TypeOK

LEMMA LinkCheckTypes == TypeOK /\ LinkCheck => TypeOK'
  <1> SUFFICES ASSUME TypeOK, LinkCheck PROVE TypeOK'  OBVIOUS
  <1> DEFINE l == Head(linkQueue)
             s == sessions[AccountOf[linkKey[l][1]]]
  <1>1. l \in Links /\ linkQueue' \in Seq(Links)
    BY QueueElement DEF TypeOK, NetworkTypes, LinkCheck
  <1> HIDE DEF l
  <1>2. sock' = sock \/ sock' = [sock EXCEPT ![l] = "closing"]
    BY DEF LinkCheck, l
  <1>3. NetworkTypes'  BY <1>1, <1>2 DEF TypeOK, NetworkTypes, LinkCheck
  <1>4. \/ UNCHANGED <<pc, linking>>
        \/ /\ linking' = [link |-> l, session |-> s] /\ pc' = "linkset"
           /\ linkKey[l] = <<s, connectKey[s]>> /\ s # NoSession
    BY DEF LinkCheck, l
  <1>5. ThreadTypes'
    <2>1. CASE UNCHANGED <<pc, linking>>
      BY <2>1, TypesKept DEF TypeOK, ThreadTypes, LinkCheck
    <2>2. CASE ~UNCHANGED <<pc, linking>>
      <3>1. linkKey[l] \in Keys \/ linkKey[l] = <<>>
        BY <1>1 DEF TypeOK, NetworkTypes
      <3>2. linkKey[l] # <<>>  BY <1>4, <2>2
      <3>3. linkKey[l][1] \in Sessions  BY <3>1, <3>2, KeyIsPair
      <3>4. linkKey[l][1] = s  BY <1>4, <2>2
      <3>5. s \in Sessions  BY <3>3, <3>4
      <3> HIDE DEF s
      <3>6. /\ linking' \in [link : Links \cup {NoLink},
                             session : Sessions \cup {NoSession}]
            /\ pc' = "linkset"
        BY <1>1, <1>4, <2>2, <3>5
      <3> QED  BY <3>6 DEF TypeOK, ThreadTypes, LinkCheck
    <2> QED  BY <2>1, <2>2
  <1> QED  BY <1>3, <1>5, TypesKept DEF TypeOK, LinkCheck

LEMMA LinkSetTypes == TypeOK /\ ThreadAt /\ LinkSet => TypeOK'
  <1> SUFFICES ASSUME TypeOK, ThreadAt, LinkSet PROVE TypeOK'  OBVIOUS
  <1> DEFINE l == linking.link
             s == linking.session
  <1>1. l \in Links /\ s \in Sessions
    BY InWorldType DEF TypeOK, ThreadTypes, ThreadAt, LinkSet
  <1>2. /\ sock' \in [Sockets -> SocketStates]
        /\ pointer' \in [Sockets -> Sessions \cup {NoSession}]
        /\ instance' \in [Sessions -> Links \cup {NoLink}]
        /\ holders' \in [Sessions -> Nat]
        /\ forceExit' \subseteq Sessions
    <2>1. sock' \in [Sockets -> SocketStates]
      BY <1>1 DEF TypeOK, NetworkTypes, LinkSet
    <2>2. pointer' \in [Sockets -> Sessions \cup {NoSession}]
      BY <1>1 DEF TypeOK, NetworkTypes, LinkSet
    <2>3. instance' \in [Sessions -> Links \cup {NoLink}]
      BY <1>1 DEF TypeOK, LoginTypes, LinkSet
    <2>4. holders' \in [Sessions -> Nat] /\ forceExit' \subseteq Sessions
      BY <1>1 DEF TypeOK, LoginTypes, LinkSet
    <2> QED  BY <2>1, <2>2, <2>3, <2>4
  <1>3. NetworkTypes'  BY <1>2 DEF TypeOK, NetworkTypes, LinkSet
  <1>4. LoginTypes'  BY <1>2 DEF TypeOK, LoginTypes, LinkSet
  <1>5. ThreadTypes'  BY DEF TypeOK, ThreadTypes, LinkSet, NoLinking
  <1> QED  BY <1>3, <1>4, <1>5, TypesKept DEF TypeOK, LinkSet

LEMMA LinksDoneTypes == TypeOK /\ (LinksDone \/ AddsDone \/ TickDone) => TypeOK'
  <1> SUFFICES ASSUME TypeOK, LinksDone \/ AddsDone \/ TickDone PROVE TypeOK'
    OBVIOUS
  <1>1. UNCHANGED <<network, admission, login>>  BY DEF LinksDone, AddsDone, TickDone
  <1>2. ThreadTypes'  BY DEF TypeOK, ThreadTypes, LinksDone, AddsDone, TickDone
  <1> QED  BY <1>1, <1>2, TypesKept DEF TypeOK

LEMMA AddSessionTypes == TypeOK /\ SessionsKnown /\ AddSession => TypeOK'
  <1> SUFFICES ASSUME TypeOK, SessionsKnown, AddSession PROVE TypeOK'  OBVIOUS
  <1> DEFINE s == Head(addQueue)
             old == sessions[AccountOf[s]]
  <1>1. s \in Sessions /\ addQueue' \in Seq(Sessions)
    BY QueueElement DEF TypeOK, NetworkTypes, AddSession
  <1>2. old \in Sessions \cup {NoSession}  BY <1>1 DEF TypeOK, AdmissionTypes
  <1>3. UNCHANGED <<linkKey, linkQueue, acked, disconnects, connectKey, attempt, thread>>
    BY DEF AddSession
  <1>4. \A t \in Sessions : t \in player => characters[t] > 0  BY DEF SessionsKnown
  <1>5. AddRejected(s, old) \/ AddAccepted(s, old)  BY DEF AddSession
  <1> HIDE DEF s, old
  <1>6. CASE AddRejected(s, old)
    <2>1. NetworkTypes' /\ LoginTypes' /\ live' \subseteq Sessions
      BY <1>1, <1>3, <1>4, <1>6, DeletedTypes DEF AddRejected
    <2>2. AdmissionTypes'
      BY <1>3, <1>6, <2>1 DEF TypeOK, AdmissionTypes, AddRejected
    <2> QED  BY <1>3, <2>1, <2>2, TypesKept DEF TypeOK
  <1>7. CASE AddAccepted(s, old)
    <2> DEFINE u == LeaveQueue(old)
    <2>1. u.queue \in Seq(Sessions) /\ u.admitted \subseteq Sessions
      BY UnqueueType DEF LeaveQueue, NotQueued, TypeOK, AdmissionTypes
    <2>2. /\ sessions' = [sessions EXCEPT ![AccountOf[s]] = s]
          /\ waiting' \in {Append(u.queue, s), u.queue}
          /\ inQueue' \subseteq inQueue \cup {s}
          /\ initializing' \subseteq initializing \cup u.admitted \cup {s}
      BY <1>7 DEF AddAccepted
    <2> HIDE DEF u
    <2>3. /\ sessions' \in [Accounts -> Sessions \cup {NoSession}]
          /\ waiting' \in Seq(Sessions)
          /\ inQueue' \subseteq Sessions /\ initializing' \subseteq Sessions
          /\ disconnects' \subseteq Accounts
      <3>1. Append(u.queue, s) \in Seq(Sessions)  BY <1>1, <2>1, QueueElement
      <3>2. sessions' \in [Accounts -> Sessions \cup {NoSession}]
        BY <1>1, <2>2 DEF TypeOK, AdmissionTypes
      <3>3. waiting' \in Seq(Sessions)  BY <2>1, <2>2, <3>1
      <3> QED  BY <1>1, <1>3, <2>1, <2>2, <3>2, <3>3 DEF TypeOK, AdmissionTypes
    <2>4. NetworkTypes' /\ LoginTypes' /\ live' \subseteq Sessions
      <3>1. CASE old = NoSession
        <4>1. UNCHANGED <<login, sock, pointer, live>>
          BY <1>3, <1>7, <3>1 DEF AddAccepted
        <4>2. NetworkTypes'  BY <1>1, <1>3, <4>1 DEF TypeOK, NetworkTypes
        <4> QED  BY <4>1, <4>2, TypesKept DEF TypeOK, AdmissionTypes
      <3>2. CASE old # NoSession
        <4>1. Delete(old) /\ old \in Sessions  BY <1>2, <1>7, <3>2 DEF AddAccepted
        <4> QED  BY <1>1, <1>3, <1>4, <4>1, DeletedTypes
      <3> QED  BY <3>1, <3>2
    <2>5. AdmissionTypes'  BY <2>3, <2>4 DEF AdmissionTypes
    <2> QED  BY <1>3, <2>4, <2>5, TypesKept DEF TypeOK
  <1> QED  BY <1>5, <1>6, <1>7

LEMMA CurIsSession ==
  ASSUME TypeOK, ThreadAt, pc \in Updating
  PROVE  /\ cur \in Sessions /\ AccountOf[cur] \in Accounts
         /\ sessions[AccountOf[cur]] = cur /\ cur \in InWorld
         /\ SocketsOf(cur) \subseteq Sockets
  BY SocketsOfType DEF TypeOK, ThreadTypes, ThreadAt, InWorld

LEMMA ChooseTypes ==
  ASSUME TypeOK, NEW a \in Accounts, Choose(a)
  PROVE  TypeOK'
  <1>1. ThreadTypes'  BY DEF TypeOK, AdmissionTypes, ThreadTypes, Choose
  <1> QED  BY <1>1, TypesKept DEF TypeOK, Choose

LEMMA CloseIdleTypes == TypeOK /\ CloseIdle => TypeOK'
  <1> SUFFICES ASSUME TypeOK, CloseIdle PROVE TypeOK'  OBVIOUS
  <1>1. NetworkTypes'  BY ClosedTypes DEF TypeOK, NetworkTypes, CloseIdle
  <1> QED  BY <1>1, TypesKept DEF TypeOK, CloseIdle

LEMMA PlayerLoginTypes == TypeOK /\ ThreadAt /\ PlayerLogin => TypeOK'
  <1> SUFFICES ASSUME TypeOK, ThreadAt, PlayerLogin PROVE TypeOK'  OBVIOUS
  <1>1. cur \in Sessions  BY CurIsSession DEF PlayerLogin, Updating
  <1>2. /\ loading' \subseteq loading \cup {cur}
        /\ Kick(cur) \/ UNCHANGED <<sock, pointer, forceExit>>
        /\ \/ UNCHANGED <<connectKey, attempt>>
           \/ connectKey[cur] < MaxKeys[cur] /\ ConnectTo(cur, 1)
    BY DEF PlayerLogin
  <1>3. addQueue' \in Seq(Sessions)  BY DEF TypeOK, NetworkTypes, PlayerLogin
  <1>4. NetworkTypes' /\ forceExit' \subseteq Sessions
    <2>1. CASE Kick(cur)
      BY <1>1, <1>3, <2>1, ClosedTypes DEF Kick, TypeOK, LoginTypes, PlayerLogin
    <2>2. CASE UNCHANGED <<sock, pointer, forceExit>>
      BY <2>2, TypesKept DEF TypeOK, LoginTypes, PlayerLogin
    <2> QED  BY <1>2, <2>1, <2>2
  <1>5. /\ connectKey' \in [Sessions -> Nat]
        /\ \A t \in Sessions : connectKey'[t] <= MaxKeys[t]
        /\ attempt' \in [Sessions -> 0 .. Attempts]
    <2>1. 1 \in 1 .. Attempts  OBVIOUS
    <2>2. CASE UNCHANGED <<connectKey, attempt>>  BY <2>2 DEF TypeOK, LoginTypes
    <2>3. CASE connectKey[cur] < MaxKeys[cur] /\ ConnectTo(cur, 1)
      BY <1>1, <2>1, <2>3, ConnectToTypes DEF TypeOK
    <2> QED  BY <1>2, <2>2, <2>3
  <1>6. LoginTypes'
    BY <1>1, <1>2, <1>4, <1>5 DEF TypeOK, LoginTypes, PlayerLogin
  <1> QED  BY <1>4, <1>6, TypesKept DEF TypeOK, PlayerLogin

LEMMA CallbackTypes ==
  TypeOK /\ (InitializeSessionCallback \/ LoadingDone) => TypeOK'
  <1>1. TypeOK /\ InitializeSessionCallback => TypeOK'
    <2> SUFFICES ASSUME TypeOK, InitializeSessionCallback PROVE TypeOK'  OBVIOUS
    <2>1. AdmissionTypes'
      BY DEF TypeOK, AdmissionTypes, InitializeSessionCallback
    <2>2. ThreadTypes'  BY DEF TypeOK, ThreadTypes, InitializeSessionCallback
    <2> QED  BY <2>1, <2>2, TypesKept DEF TypeOK, InitializeSessionCallback
  <1>2. TypeOK /\ LoadingDone => TypeOK'
    <2> SUFFICES ASSUME TypeOK, LoadingDone PROVE TypeOK'  OBVIOUS
    <2>1. LoginTypes'  BY DEF TypeOK, LoginTypes, LoadingDone
    <2>2. ThreadTypes'  BY DEF TypeOK, ThreadTypes, LoadingDone
    <2> QED  BY <2>1, <2>2, TypesKept DEF TypeOK, LoadingDone
  <1> QED  BY <1>1, <1>2

LEMMA HandlePlayerLoginTypes == TypeOK /\ ThreadAt /\ HandlePlayerLogin => TypeOK'
  <1> SUFFICES ASSUME TypeOK, ThreadAt, HandlePlayerLogin PROVE TypeOK'  OBVIOUS
  <1>1. cur \in Sessions  BY CurIsSession DEF HandlePlayerLogin, Updating
  <1>2. /\ holders' = [holders EXCEPT ![cur] = @ - 1] /\ holders[cur] > 0
        /\ Kick(cur) \/ UNCHANGED <<sock, pointer, forceExit>>
        /\ \/ UNCHANGED characters
           \/ characters' = [characters EXCEPT ![cur] = @ + 1]
        /\ player' \subseteq player \cup {cur} /\ loading' \subseteq loading
        /\ pc' \in {"entering", "callbacks"}
    BY DEF HandlePlayerLogin
  <1>3. addQueue' \in Seq(Sessions)  BY DEF TypeOK, NetworkTypes, HandlePlayerLogin
  <1>4. NetworkTypes' /\ forceExit' \subseteq Sessions
    <2>1. CASE Kick(cur)
      BY <1>1, <1>3, <2>1, ClosedTypes DEF Kick, TypeOK, LoginTypes, HandlePlayerLogin
    <2>2. CASE UNCHANGED <<sock, pointer, forceExit>>
      BY <2>2, TypesKept DEF TypeOK, LoginTypes, HandlePlayerLogin
    <2> QED  BY <1>2, <2>1, <2>2
  <1>5. holders' \in [Sessions -> Nat] /\ characters' \in [Sessions -> Nat]
    BY <1>1, <1>2 DEF TypeOK, LoginTypes
  <1>6. LoginTypes'
    BY <1>1, <1>2, <1>4, <1>5 DEF TypeOK, LoginTypes, HandlePlayerLogin
  <1>7. ThreadTypes'  BY <1>2 DEF TypeOK, ThreadTypes, HandlePlayerLogin
  <1> QED  BY <1>4, <1>6, <1>7, TypesKept DEF TypeOK, HandlePlayerLogin

LEMMA LogoutPlayerTypes ==
  TypeOK /\ ThreadAt /\ SessionsKnown /\ LogoutPlayer => TypeOK'
  <1> SUFFICES ASSUME TypeOK, ThreadAt, SessionsKnown, LogoutPlayer PROVE TypeOK'
    OBVIOUS
  <1>1. cur \in Sessions  BY CurIsSession DEF LogoutPlayer, Updating
  <1>2. characters[cur] > 0 /\ characters[cur] \in Nat
    BY <1>1 DEF LogoutPlayer, SessionsKnown, TypeOK, LoginTypes
  <1>3. /\ characters' \in [Sessions -> Nat]
        /\ instance' \in [Sessions -> Links \cup {NoLink}]
    BY <1>1, <1>2 DEF TypeOK, LoginTypes, LogoutPlayer
  <1>4. LoginTypes'  BY <1>3 DEF TypeOK, LoginTypes, LogoutPlayer
  <1>5. NetworkTypes'  BY ClosedTypes DEF TypeOK, NetworkTypes, LogoutPlayer
  <1>6. ThreadTypes'  BY DEF TypeOK, ThreadTypes, LogoutPlayer
  <1> QED  BY <1>4, <1>5, <1>6, TypesKept DEF TypeOK, LogoutPlayer

LEMMA CleanupTypes == TypeOK /\ ThreadAt /\ Cleanup => TypeOK'
  <1> SUFFICES ASSUME TypeOK, ThreadAt, Cleanup PROVE TypeOK'  OBVIOUS
  <1>1. cur \in Sessions  BY CurIsSession DEF Cleanup, Updating
  <1>2. /\ CloseSockets(SocketsOf(cur)) \/ UNCHANGED <<sock, pointer>>
        /\ \/ UNCHANGED expire
           \/ expire' = [expire EXCEPT ![cur] = TimeLeft(cur)]
        /\ pc' \in {"update", "remove"}
    BY DEF Cleanup
  <1>3. expire' \in [Sessions -> 0 .. ExpireTicks]
    <2>1. TimeLeft(cur) \in 0 .. ExpireTicks
      BY <1>1 DEF TimeLeft, TypeOK, LoginTypes
    <2> QED  BY <1>1, <1>2, <2>1 DEF TypeOK, LoginTypes
  <1>4. LoginTypes'  BY <1>3 DEF TypeOK, LoginTypes, Cleanup
  <1>5. NetworkTypes'
    <2>1. CASE CloseSockets(SocketsOf(cur))
      BY <2>1, ClosedTypes DEF TypeOK, NetworkTypes, Cleanup
    <2>2. CASE UNCHANGED <<sock, pointer>>
      BY <2>2, TypesKept DEF TypeOK, Cleanup
    <2> QED  BY <1>2, <2>1, <2>2
  <1>6. ThreadTypes'  BY <1>2 DEF TypeOK, ThreadTypes, Cleanup
  <1> QED  BY <1>4, <1>5, <1>6, TypesKept DEF TypeOK, Cleanup

LEMMA RemoveSessionTypes ==
  TypeOK /\ ThreadAt /\ SessionsKnown /\ RemoveSession => TypeOK'
  <1> SUFFICES ASSUME TypeOK, ThreadAt, SessionsKnown, RemoveSession PROVE TypeOK'
    OBVIOUS
  <1>1. cur \in Sessions /\ AccountOf[cur] \in Accounts
    BY CurIsSession DEF RemoveSession, Updating
  <1>2. NetworkTypes' /\ LoginTypes' /\ live' \subseteq Sessions
    <2>1. addQueue' \in Seq(Sessions)  BY DEF TypeOK, NetworkTypes, RemoveSession
    <2>2. cur \in player => characters[cur] > 0  BY DEF SessionsKnown
    <2> QED  BY <1>1, <2>1, <2>2, DeletedTypes DEF RemoveSession
  <1> DEFINE n == Cardinality(InWorld)
             first == Unqueue(waiting, n, cur)
             second == Unqueue(first.queue, n, cur)
  <1>3. first.queue \in Seq(Sessions) /\ first.admitted \subseteq Sessions
    BY UnqueueType DEF TypeOK, AdmissionTypes
  <1> HIDE DEF first
  <1>4. second.queue \in Seq(Sessions) /\ second.admitted \subseteq Sessions
    BY <1>3, UnqueueType
  <1>5. /\ waiting' = second.queue
        /\ initializing' = (initializing \ {cur}) \cup first.admitted \cup second.admitted
        /\ disconnects' \subseteq disconnects \cup {AccountOf[cur]}
        /\ sessions' = [sessions EXCEPT ![AccountOf[cur]] = NoSession]
        /\ inQueue' = inQueue \ {cur}
    BY DEF RemoveSession, first
  <1> HIDE DEF second
  <1>6. AdmissionTypes'
    BY <1>1, <1>2, <1>3, <1>4, <1>5 DEF TypeOK, AdmissionTypes
  <1>7. ThreadTypes'  BY DEF TypeOK, ThreadTypes, RemoveSession
  <1> QED  BY <1>2, <1>6, <1>7 DEF TypeOK

\* TypeOK, preserved from TypeOK and the three parts that bear on it.
LEMMA TypeStep ==
  ASSUME TypeOK, SessionsKnown, RealmSockets, ThreadAt, [Next]_vars
  PROVE  TypeOK'
  <1>1. CASE Network
    BY <1>1, AuthenticateTypes, EncryptionAckTypes, ConnectToFailedTypes,
       ConnectTypes, LoseTypes DEF Network
  <1>2. CASE KickAll \/ LinkCheck \/ LinkSet \/ LinksDone \/ AddSession \/ AddsDone
    BY <1>2, KickAllTypes, LinkCheckTypes, LinkSetTypes, LinksDoneTypes,
       AddSessionTypes
  <1>3. CASE \E a \in Accounts : Choose(a)  BY <1>3, ChooseTypes
  <1>4. CASE CloseIdle \/ PlayerLogin \/ InitializeSessionCallback \/ LoadingDone
    BY <1>4, CloseIdleTypes, PlayerLoginTypes, CallbackTypes
  <1>5. CASE HandlePlayerLogin \/ LogoutPlayer \/ Cleanup \/ RemoveSession
    BY <1>5, HandlePlayerLoginTypes, LogoutPlayerTypes, CleanupTypes,
       RemoveSessionTypes
  <1>6. CASE TickDone  BY <1>6, LinksDoneTypes
  <1>7. CASE UNCHANGED vars  BY <1>7, TypesKept DEF vars, TypeOK
  <1> QED  BY <1>1, <1>2, <1>3, <1>4, <1>5, <1>6, <1>7 DEF Next, World

(***************************************************************************)
(* SessionsKnown.                                                          *)
(***************************************************************************)
LEMMA InWorldIs ==
  ASSUME TypeOK, SessionsKnown, NEW s \in Sessions
  PROVE  /\ s \in InWorld <=> sessions[AccountOf[s]] = s
         /\ s \in InWorld => s \in live \cap acked
  BY DEF TypeOK, AdmissionTypes, SessionsKnown, InWorld

\* A session takes the place of another in m_sessions, or leaves it free.
LEMMA InWorldReplaced ==
  ASSUME TypeOK, SessionsKnown, NEW a \in Accounts, NEW s \in Sessions \cup {NoSession},
         sessions' = [sessions EXCEPT ![a] = s]
  PROVE  InWorld' = (InWorld \ {sessions[a]}) \cup ({s} \ {NoSession})
  <1>1. \A b \in Accounts : sessions'[b] = IF b = a THEN s ELSE sessions[b]
    BY DEF TypeOK, AdmissionTypes
  <1>2. \A b \in Accounts : sessions[b] = sessions[a] /\ sessions[a] # NoSession => b = a
    BY DEF SessionsKnown
  <1> QED  BY <1>1, <1>2 DEF InWorld

LEMMA AddQueueHead ==
  ASSUME TypeOK, SessionsKnown, addQueue # <<>>
  PROVE  /\ Head(addQueue) \in (live \cap acked) \ InWorld
         /\ \A i \in DOMAIN Tail(addQueue) :
              /\ Tail(addQueue)[i] \in (live \cap acked) \ InWorld
              /\ Tail(addQueue)[i] # Head(addQueue)
              /\ \A j \in DOMAIN Tail(addQueue) :
                   Tail(addQueue)[i] = Tail(addQueue)[j] => i = j
  <1>1. addQueue \in Seq(Sessions)  BY DEF TypeOK, NetworkTypes
  <1>2. /\ Head(addQueue) = addQueue[1] /\ 1 \in DOMAIN addQueue
        /\ \A i \in DOMAIN Tail(addQueue) :
             Tail(addQueue)[i] = addQueue[i + 1] /\ i + 1 \in DOMAIN addQueue /\ i \in Nat
                /\ i # 0
    BY <1>1
  <1> QED  BY <1>2 DEF SessionsKnown

LEMMA DeleteEffect ==
  ASSUME TypeOK, NEW s \in Sessions, Delete(s)
  PROVE  /\ live' = live \ {s} /\ player' = player \ {s}
         /\ loading' = loading \ {s} /\ forceExit' = forceExit \ {s}
         /\ holders'[s] = 0 /\ instance'[s] = NoLink
         /\ \A t \in Sessions \ {s} :
              /\ holders'[t] = holders[t] /\ instance'[t] = instance[t]
              /\ characters'[t] = characters[t]
         /\ CloseSockets(SocketsOf(s))
  BY DEF Delete, LoggedOut, TypeOK, LoginTypes

LEMMA KnownQuiet ==
  ASSUME SessionsKnown, live \subseteq live',
         UNCHANGED <<sessions, acked, addQueue, player, holders, instance, characters>>
  PROVE  SessionsKnown'
  BY DEF SessionsKnown, InWorld

LEMMA KnownEncryptionAck ==
  ASSUME TypeOK, SessionsKnown, RealmSockets, NEW s \in Sessions, EncryptionAck(s)
  PROVE  SessionsKnown'
  <1>1. pointer[s] = s /\ s \in live  BY DEF EncryptionAck, IsOpen, RealmSockets
  <1>2. s \notin InWorld  BY InWorldIs DEF EncryptionAck
  <1>3. addQueue \in Seq(Sessions) /\ addQueue' = Append(addQueue, s)
    BY <1>1 DEF TypeOK, NetworkTypes, EncryptionAck
  <1>4. \A i \in DOMAIN addQueue : addQueue[i] \in acked /\ addQueue[i] # s
    BY DEF SessionsKnown, EncryptionAck
  <1>5. /\ UNCHANGED <<live, sessions, player, holders, instance, characters>>
        /\ acked' = acked \cup {s} /\ InWorld' = InWorld
    BY DEF EncryptionAck, InWorld
  <1>6. ASSUME NEW i \in DOMAIN addQueue'
        PROVE  /\ addQueue'[i] \in (live' \cap acked') \ InWorld'
               /\ \A j \in DOMAIN addQueue' : addQueue'[i] = addQueue'[j] => i = j
    <2>1. \A k \in DOMAIN addQueue' :
             \/ k \in DOMAIN addQueue /\ addQueue'[k] = addQueue[k]
             \/ k = Len(addQueue) + 1 /\ addQueue'[k] = s
      BY <1>3
    <2>2. addQueue'[i] \in (live' \cap acked') \ InWorld'
      BY <1>1, <1>2, <1>5, <2>1 DEF SessionsKnown
    <2>3. ASSUME NEW j \in DOMAIN addQueue', addQueue'[i] = addQueue'[j] PROVE i = j
      BY <1>4, <2>1, <2>3 DEF SessionsKnown
    <2> QED  BY <2>2, <2>3
  <1> QED  BY <1>5, <1>6 DEF SessionsKnown

LEMMA KnownLinkSet == TypeOK /\ SessionsKnown /\ ThreadAt /\ LinkSet => SessionsKnown'
  <1> SUFFICES ASSUME TypeOK, SessionsKnown, ThreadAt, LinkSet PROVE SessionsKnown'
    OBVIOUS
  <1> DEFINE s == linking.session
  <1>1. s \in InWorld  BY DEF ThreadAt, LinkSet
  <1>2. /\ UNCHANGED <<live, acked, addQueue, sessions, player, characters>>
        /\ InWorld' = InWorld
    BY DEF LinkSet, InWorld
  <1>3. \A t \in Sessions : t # s => holders'[t] = holders[t] /\ instance'[t] = instance[t]
    BY DEF LinkSet, TypeOK, LoginTypes
  <1> HIDE DEF s
  <1> QED  BY <1>1, <1>2, <1>3 DEF SessionsKnown

LEMMA KnownUpdate ==
  ASSUME TypeOK, SessionsKnown, ThreadAt, HandlePlayerLogin \/ LogoutPlayer
  PROVE  SessionsKnown'
  <1>1. cur \in Sessions /\ cur \in InWorld
    BY CurIsSession DEF HandlePlayerLogin, LogoutPlayer, Updating
  <1>2. /\ UNCHANGED <<live, acked, addQueue, sessions>> /\ InWorld' = InWorld
    BY DEF HandlePlayerLogin, LogoutPlayer, InWorld
  <1>3. /\ player' \subseteq player \cup {cur}
        /\ \A t \in Sessions : t # cur =>
             /\ holders'[t] = holders[t] /\ instance'[t] = instance[t]
             /\ characters'[t] = characters[t]
        /\ cur \in player' => characters'[cur] > 0
    <2>1. CASE HandlePlayerLogin
      <3>1. \/ /\ player' = player \cup {cur}
               /\ characters' = [characters EXCEPT ![cur] = @ + 1]
            \/ player' = player \ {cur} /\ UNCHANGED characters
        BY <2>1 DEF HandlePlayerLogin
      <3>2. holders' = [holders EXCEPT ![cur] = @ - 1] /\ instance' = instance
        BY <2>1 DEF HandlePlayerLogin
      <3> QED  BY <1>1, <3>1, <3>2 DEF TypeOK, LoginTypes
    <2>2. CASE LogoutPlayer
      BY <1>1, <2>2 DEF LogoutPlayer, TypeOK, LoginTypes
    <2> QED  BY <2>1, <2>2
  <1>4. player' \subseteq Sessions  BY <1>1, <1>3 DEF TypeOK, LoginTypes
  <1> QED  BY <1>1, <1>2, <1>3, <1>4 DEF SessionsKnown

LEMMA KnownAddSession == TypeOK /\ SessionsKnown /\ AddSession => SessionsKnown'
  <1> SUFFICES ASSUME TypeOK, SessionsKnown, AddSession PROVE SessionsKnown'  OBVIOUS
  <1> DEFINE s == Head(addQueue)
             old == sessions[AccountOf[s]]
  <1>1. s \in Sessions /\ old \in Sessions \cup {NoSession}
    BY QueueElement DEF TypeOK, NetworkTypes, AdmissionTypes, AddSession
  <1>2. /\ s \in (live \cap acked) \ InWorld
        /\ \A i \in DOMAIN addQueue' :
             /\ addQueue'[i] \in (live \cap acked) \ InWorld /\ addQueue'[i] # s
             /\ \A j \in DOMAIN addQueue' : addQueue'[i] = addQueue'[j] => i = j
    BY AddQueueHead DEF AddSession
  <1>3. UNCHANGED acked  BY DEF AddSession
  <1>4. AddRejected(s, old) \/ AddAccepted(s, old)  BY DEF AddSession
  <1>5. old \in Sessions => old \in InWorld  BY <1>1 DEF InWorld, SessionsKnown
  <1> HIDE DEF s
  <1>6. CASE AddRejected(s, old)
    <2>1. InWorld' = InWorld /\ UNCHANGED sessions  BY <1>6 DEF AddRejected, InWorld
    <2>2. /\ live' = live \ {s} /\ player' = player \ {s}
          /\ holders'[s] = 0 /\ instance'[s] = NoLink
          /\ \A t \in Sessions \ {s} :
               /\ holders'[t] = holders[t] /\ instance'[t] = instance[t]
               /\ characters'[t] = characters[t]
      BY <1>1, <1>6, DeleteEffect DEF AddRejected
    <2>3. \A a \in Accounts : sessions[a] # s
      BY <1>1, <1>2 DEF InWorld
    <2>4. \A t \in player' : characters'[t] > 0
      BY <2>2 DEF SessionsKnown, TypeOK, LoginTypes
    <2> QED  BY <1>2, <1>3, <2>1, <2>2, <2>3, <2>4 DEF SessionsKnown
  <1>7. CASE AddAccepted(s, old)
    <2>1. sessions' = [sessions EXCEPT ![AccountOf[s]] = s]  BY <1>7 DEF AddAccepted
    <2>2. InWorld' = (InWorld \ {old}) \cup {s}
      <3>1. AccountOf[s] \in Accounts /\ s \in Sessions \cup {NoSession}  BY <1>1
      <3>2. InWorld' = (InWorld \ {sessions[AccountOf[s]]}) \cup ({s} \ {NoSession})
        BY <2>1, <3>1, InWorldReplaced
      <3> QED  BY <1>1, <3>2
    <2>3. /\ live' = live \ {old} /\ player' = player \ {old}
          /\ old \in Sessions => holders'[old] = 0 /\ instance'[old] = NoLink
          /\ \A t \in Sessions \ {old} :
               /\ holders'[t] = holders[t] /\ instance'[t] = instance[t]
               /\ characters'[t] = characters[t]
      <3>1. CASE old = NoSession
        BY <1>7, <3>1 DEF AddAccepted, TypeOK, AdmissionTypes, LoginTypes
      <3>2. CASE old # NoSession
        <4>1. Delete(old) /\ old \in Sessions  BY <1>1, <1>7, <3>2 DEF AddAccepted
        <4> HIDE DEF old
        <4> QED  BY <4>1, DeleteEffect
      <3> QED  BY <3>1, <3>2
    <2>4. \A a \in Accounts : sessions'[a] # NoSession =>
             /\ AccountOf[sessions'[a]] = a /\ sessions'[a] \in live' \cap acked'
      <3> SUFFICES ASSUME NEW a \in Accounts, sessions'[a] # NoSession
                   PROVE  AccountOf[sessions'[a]] = a /\ sessions'[a] \in live' \cap acked'
        OBVIOUS
      <3>1. CASE a = AccountOf[s]
        <4>1. sessions'[a] = s  BY <2>1, <3>1 DEF TypeOK, AdmissionTypes
        <4>2. s # old  BY <1>2, <1>5, <1>1
        <4> QED  BY <1>2, <1>3, <2>3, <3>1, <4>1, <4>2
      <3>2. CASE a # AccountOf[s]
        <4>1. sessions'[a] = sessions[a]  BY <2>1, <3>2 DEF TypeOK, AdmissionTypes
        <4>2. AccountOf[sessions[a]] = a /\ sessions[a] \in live \cap acked
          BY <3>2, <4>1 DEF SessionsKnown
        <4>3. old # NoSession => AccountOf[old] = AccountOf[s]
          BY <1>1 DEF SessionsKnown
        <4>4. sessions[a] # old  BY <3>2, <4>1, <4>2, <4>3
        <4> QED  BY <1>3, <2>3, <4>1, <4>2, <4>4
      <3> QED  BY <3>1, <3>2
    <2>5. \A i \in DOMAIN addQueue' :
             /\ addQueue'[i] \in (live' \cap acked') \ InWorld'
             /\ \A j \in DOMAIN addQueue' : addQueue'[i] = addQueue'[j] => i = j
      <3>1. \A i \in DOMAIN addQueue' : addQueue'[i] # old
        BY <1>1, <1>2, <1>5 DEF TypeOK, AdmissionTypes
      <3> QED  BY <1>2, <1>3, <2>2, <2>3, <3>1
    <2>6. \A t \in Sessions \ InWorld' :
             t \notin player' /\ holders'[t] = 0 /\ instance'[t] = NoLink
      <3> HIDE DEF old
      <3> QED  BY <2>2, <2>3 DEF SessionsKnown
    <2>7. \A t \in player' : characters'[t] > 0
      BY <2>3 DEF SessionsKnown, TypeOK, LoginTypes
    <2> QED  BY <2>4, <2>5, <2>6, <2>7 DEF SessionsKnown
  <1> QED  BY <1>4, <1>6, <1>7

LEMMA KnownRemoveSession ==
  TypeOK /\ SessionsKnown /\ ThreadAt /\ RemoveSession => SessionsKnown'
  <1> SUFFICES ASSUME TypeOK, SessionsKnown, ThreadAt, RemoveSession
               PROVE  SessionsKnown'
    OBVIOUS
  <1>1. /\ cur \in Sessions /\ AccountOf[cur] \in Accounts
        /\ sessions[AccountOf[cur]] = cur /\ cur \in InWorld
    BY CurIsSession DEF RemoveSession, Updating
  <1>2. /\ sessions' = [sessions EXCEPT ![AccountOf[cur]] = NoSession]
        /\ UNCHANGED <<acked, addQueue>> /\ Delete(cur)
    BY DEF RemoveSession
  <1>3. InWorld' = InWorld \ {cur}
    <2>1. NoSession \in Sessions \cup {NoSession}  OBVIOUS
    <2>2. InWorld' = (InWorld \ {sessions[AccountOf[cur]]})
                        \cup ({NoSession} \ {NoSession})
      BY <1>1, <1>2, <2>1, InWorldReplaced
    <2> QED  BY <1>1, <2>2
  <1>4. /\ live' = live \ {cur} /\ player' = player \ {cur}
        /\ holders'[cur] = 0 /\ instance'[cur] = NoLink
        /\ \A t \in Sessions \ {cur} :
             /\ holders'[t] = holders[t] /\ instance'[t] = instance[t]
             /\ characters'[t] = characters[t]
    BY <1>1, <1>2, DeleteEffect
  <1>5. \A a \in Accounts : sessions'[a] # NoSession =>
           /\ AccountOf[sessions'[a]] = a /\ sessions'[a] \in live' \cap acked'
    <2>1. \A a \in Accounts : sessions'[a] # NoSession =>
             sessions'[a] = sessions[a] /\ a # AccountOf[cur]
      BY <1>2 DEF TypeOK, AdmissionTypes
    <2> QED  BY <1>2, <1>4, <2>1 DEF SessionsKnown
  <1>6. \A t \in player' : characters'[t] > 0
    BY <1>4 DEF SessionsKnown, TypeOK, LoginTypes
  <1>7. \A i \in DOMAIN addQueue' :
           /\ addQueue'[i] \in (live' \cap acked') \ InWorld'
           /\ \A j \in DOMAIN addQueue' : addQueue'[i] = addQueue'[j] => i = j
    BY <1>1, <1>2, <1>3, <1>4 DEF SessionsKnown
  <1>8. \A t \in Sessions \ InWorld' :
           t \notin player' /\ holders'[t] = 0 /\ instance'[t] = NoLink
    BY <1>3, <1>4 DEF SessionsKnown
  <1> QED  BY <1>5, <1>6, <1>7, <1>8 DEF SessionsKnown

LEMMA KnownStep ==
  ASSUME TypeOK, SessionsKnown, RealmSockets, ThreadAt, [Next]_vars
  PROVE  SessionsKnown'
  <1> DEFINE quiet == /\ live \subseteq live'
                      /\ UNCHANGED <<sessions, acked, addQueue, player, holders,
                                     instance, characters>>
  <1>1. CASE Network
    <2>1. ASSUME NEW s \in Sessions, Authenticate(s) \/ ConnectToFailed(s) PROVE quiet
      BY <2>1 DEF Authenticate, ConnectToFailed
    <2>2. ASSUME NEW l \in Links, NEW key \in Keys, Connect(l, key[1], key[2]) PROVE quiet
      BY <2>2 DEF Connect
    <2>3. ASSUME NEW x \in Sockets, Lose(x) \/ Leave(x) PROVE quiet
      BY <2>3 DEF Lose, Leave
    <2> HIDE DEF quiet
    <2>4. quiet \/ \E s \in Sessions : EncryptionAck(s)
      BY <1>1, <2>1, <2>2, <2>3 DEF Network
    <2> USE DEF quiet
    <2> QED  BY <2>4, KnownQuiet, KnownEncryptionAck
  <1>2. CASE KickAll \/ LinkCheck \/ LinksDone \/ AddsDone \/ CloseIdle \/ PlayerLogin
             \/ InitializeSessionCallback \/ LoadingDone \/ Cleanup \/ TickDone
    <2>1. quiet
      BY <1>2 DEF KickAll, LinkCheck, LinksDone, AddsDone, CloseIdle, PlayerLogin,
                  InitializeSessionCallback, LoadingDone, Cleanup, TickDone
    <2> QED  BY <2>1, KnownQuiet
  <1>3. CASE \E a \in Accounts : Choose(a)
    <2>1. quiet  BY <1>3 DEF Choose
    <2> QED  BY <2>1, KnownQuiet
  <1>4. CASE LinkSet \/ AddSession \/ RemoveSession
    BY <1>4, KnownLinkSet, KnownAddSession, KnownRemoveSession
  <1>5. CASE HandlePlayerLogin \/ LogoutPlayer  BY <1>5, KnownUpdate
  <1>6. CASE UNCHANGED vars  BY <1>6, KnownQuiet DEF vars
  <1> HIDE DEF quiet
  <1> QED  BY <1>1, <1>2, <1>3, <1>4, <1>5, <1>6 DEF Next, World

(***************************************************************************)
(* RealmSockets and ThreadAt.                                              *)
(***************************************************************************)
\* A socket is as it was, or closed; a session is only deleted with its socket.
Closing(x) == \/ sock'[x] = sock[x] /\ pointer'[x] = pointer[x]
              \/ sock'[x] = "gone" /\ pointer'[x] = NoSession

LEMMA RealmKept ==
  ASSUME RealmSockets, \A s \in Sessions : Closing(s), live' \subseteq live,
         \A s \in live \ live' : sock'[s] # "open", UNCHANGED acked
  PROVE  RealmSockets'
  BY DEF RealmSockets, Closing

LEMMA ClosedOnly ==
  ASSUME TypeOK, NEW xs, CloseSockets(xs)
  PROVE  /\ \A x \in Sockets : Closing(x)
         /\ \A x \in Sockets \cap xs : sock'[x] \notin {"open", "closing"}
  BY SocketsClosed DEF Closing

LEMMA RealmNetwork ==
  ASSUME TypeOK, RealmSockets, Network
  PROVE  RealmSockets'
  <1> USE DEF TypeOK, NetworkTypes, AdmissionTypes
  <1>1. ASSUME NEW s \in Sessions, Authenticate(s) PROVE RealmSockets'
    BY <1>1 DEF RealmSockets, Authenticate
  <1>2. ASSUME NEW s \in Sessions, EncryptionAck(s) PROVE RealmSockets'
    BY <1>2 DEF RealmSockets, EncryptionAck, admission, IsOpen
  <1>3. ASSUME NEW s \in Sessions, ConnectToFailed(s) PROVE RealmSockets'
    <2>1. /\ UNCHANGED <<pointer, live, acked>> /\ sock[s] = "open"
          /\ sock' = sock \/ sock' = [sock EXCEPT ![s] = "stuck"]
      BY <1>3 DEF ConnectToFailed, IsOpen
    <2> QED  BY <2>1 DEF RealmSockets
  <1>4. ASSUME NEW l \in Links, NEW key \in Keys, Connect(l, key[1], key[2])
        PROVE  RealmSockets'
    BY <1>4 DEF RealmSockets, Connect
  <1>5. ASSUME NEW x \in Sockets, Lose(x) PROVE RealmSockets'
    BY <1>5 DEF RealmSockets, Lose, IsOpen
  <1>6. ASSUME NEW x \in Sockets, Leave(x) PROVE RealmSockets'
    BY <1>6 DEF RealmSockets, Leave
  <1> QED  BY <1>1, <1>2, <1>3, <1>4, <1>5, <1>6 DEF Network

LEMMA RealmLink ==
  ASSUME TypeOK, RealmSockets, ThreadAt, LinkCheck \/ LinkSet
  PROVE  RealmSockets'
  <1>1. UNCHANGED <<live, acked>>  BY DEF LinkCheck, LinkSet
  <1>2. CASE LinkCheck
    <2> DEFINE l == Head(linkQueue)
    <2>1. l \in Links  BY <1>2, QueueElement DEF TypeOK, NetworkTypes, LinkCheck
    <2>2. UNCHANGED pointer /\ (sock' = sock \/ sock' = [sock EXCEPT ![l] = "closing"])
      BY <1>2 DEF LinkCheck
    <2> HIDE DEF l
    <2>3. \A s \in Sessions : sock'[s] = sock[s] /\ pointer'[s] = pointer[s]
      BY <2>1, <2>2 DEF TypeOK, NetworkTypes
    <2> QED  BY <1>1, <2>3, RealmKept DEF Closing
  <1>3. CASE LinkSet
    <2>1. linking.link \in Links
      BY <1>3 DEF TypeOK, ThreadTypes, ThreadAt, LinkSet
    <2>2. \A s \in Sessions : Closing(s)
      BY <1>3, <2>1 DEF Closing, LinkSet
    <2> QED  BY <1>1, <2>2, RealmKept
  <1> QED  BY <1>2, <1>3

\* The world's other actions close sockets and delete sessions, no more.
LEMMA RealmWorld ==
  ASSUME TypeOK, SessionsKnown, RealmSockets, ThreadAt, World, ~LinkCheck, ~LinkSet
  PROVE  RealmSockets'
  <1> DEFINE still == UNCHANGED <<sock, pointer, live, acked>>
  <1>1. CASE still
    BY <1>1, RealmKept DEF Closing
  <1>2. CASE AddSession
    <2> DEFINE s == Head(addQueue)
               old == sessions[AccountOf[s]]
    <2>1. s \in Sessions /\ old \in Sessions \cup {NoSession}
      BY <1>2, QueueElement DEF TypeOK, NetworkTypes, AdmissionTypes, AddSession
    <2>2. UNCHANGED acked /\ (AddRejected(s, old) \/ AddAccepted(s, old))
      BY <1>2 DEF AddSession
    <2> HIDE DEF s, old
    <2>3. still \/ \E t \in Sessions : Delete(t)
      BY <2>1, <2>2 DEF AddRejected, AddAccepted
    <2>4. ASSUME NEW t \in Sessions, Delete(t) PROVE RealmSockets'
      <3>1. CloseSockets(SocketsOf(t)) /\ live' = live \ {t}  BY <2>4 DEF Delete
      <3>2. t \in SocketsOf(t)  BY DEF SocketsOf
      <3> QED  BY <2>2, <3>1, <3>2, ClosedOnly, RealmKept
    <2> QED  BY <1>1, <2>3, <2>4
  <1>3. CASE RemoveSession
    <2>1. cur \in Sessions  BY <1>3, CurIsSession DEF RemoveSession, Updating
    <2>2. /\ CloseSockets(SocketsOf(cur)) /\ live' = live \ {cur} /\ UNCHANGED acked
      BY <1>3 DEF RemoveSession, Delete
    <2>3. cur \in SocketsOf(cur)  BY DEF SocketsOf
    <2> QED  BY <2>1, <2>2, <2>3, ClosedOnly, RealmKept
  <1> DEFINE closes == /\ UNCHANGED <<live, acked>>
                       /\ (UNCHANGED <<sock, pointer>> \/ \E xs : CloseSockets(xs))
  <1>4. CASE closes
    BY <1>1, <1>4, ClosedOnly, RealmKept
  <1>5. KickAll \/ CloseIdle \/ PlayerLogin \/ HandlePlayerLogin \/ LogoutPlayer
          \/ Cleanup => closes
    BY DEF KickAll, CloseIdle, PlayerLogin, HandlePlayerLogin, LogoutPlayer,
           Cleanup, Kick
  <1>6. LinksDone \/ AddsDone \/ (\E a \in Accounts : Choose(a)) \/ TickDone
          \/ InitializeSessionCallback \/ LoadingDone => still
    BY DEF LinksDone, AddsDone, Choose, TickDone, InitializeSessionCallback,
           LoadingDone
  <1> HIDE DEF still, closes
  <1> QED  BY <1>1, <1>2, <1>3, <1>4, <1>5, <1>6 DEF World

LEMMA RealmStep ==
  ASSUME TypeOK, SessionsKnown, RealmSockets, ThreadAt, [Next]_vars
  PROVE  RealmSockets'
  <1>1. CASE Network  BY <1>1, RealmNetwork
  <1>2. CASE World  BY <1>2, RealmWorld, RealmLink
  <1>3. CASE UNCHANGED vars  BY <1>3, RealmKept DEF vars, Closing
  <1> QED  BY <1>1, <1>2, <1>3 DEF Next

LEMMA ThreadStep ==
  ASSUME TypeOK, SessionsKnown, ThreadAt, [Next]_vars
  PROVE  ThreadAt'
  <1> DEFINE elsewhere == UNCHANGED <<sessions, thread>>
  <1>1. CASE elsewhere
    BY <1>1 DEF ThreadAt, InWorld
  <1>2. Network \/ CloseIdle \/ PlayerLogin \/ UNCHANGED vars => elsewhere
    BY DEF Network, Authenticate, EncryptionAck, ConnectToFailed, Connect, Lose, Leave,
           CloseIdle, PlayerLogin, vars
  <1>3. CASE LinkCheck
    <2> DEFINE l == Head(linkQueue)
               t == sessions[AccountOf[linkKey[l][1]]]
    <2>0. /\ pc = "link" /\ UNCHANGED <<sessions, cur, todo>>
          /\ \/ UNCHANGED <<pc, linking>>
             \/ /\ pc' = "linkset" /\ linking' = [link |-> l, session |-> t]
                /\ t # NoSession /\ linkKey[l] = <<t, connectKey[t]>>
      BY <1>3 DEF LinkCheck
    <2> HIDE DEF l, t
    <2>1. /\ pc = "link" /\ UNCHANGED <<sessions, cur, todo>>
          /\ \/ UNCHANGED <<pc, linking>>
             \/ /\ pc' = "linkset" /\ linking'.link = l /\ linking'.session = t
                /\ t # NoSession /\ linkKey[l][1] = t
      BY <2>0
    <2> USE DEF l, t
    <2>2. Head(linkQueue) \in Links
      BY <1>3, QueueElement DEF TypeOK, NetworkTypes, LinkCheck
    <2>3. CASE UNCHANGED <<pc, linking>>  BY <2>1, <2>3 DEF ThreadAt, Updating
    <2>4. CASE ~UNCHANGED <<pc, linking>>
      <3> DEFINE s == linking'.session
      <3>1. s \in Sessions
        BY <1>3, <2>1, <2>4, LinkCheckTypes DEF TypeOK, ThreadTypes
      <3>2. s = sessions[AccountOf[s]]  BY <2>1, <2>4
      <3>3. s \in InWorld  BY <3>1, <3>2, InWorldIs
      <3>4. InWorld' = InWorld /\ linking'.link # NoLink
        BY <2>1, <2>2, <2>4 DEF InWorld
      <3> QED  BY <2>1, <2>4, <3>3, <3>4 DEF ThreadAt, Updating
    <2> QED  BY <2>3, <2>4
  <1>4. CASE KickAll \/ LinkSet \/ LinksDone \/ AddSession \/ TickDone
    <2>1. todo' = {} /\ pc' \notin {"update", "linkset"} \cup Updating
      BY <1>4 DEF KickAll, LinkSet, LinksDone, AddSession, TickDone, ThreadAt, Updating
    <2> QED  BY <2>1 DEF ThreadAt
  <1>5. CASE AddsDone
    BY <1>5 DEF AddsDone, ThreadAt, Updating
  <1>6. ASSUME NEW a \in Accounts, Choose(a) PROVE ThreadAt'
    BY <1>6 DEF Choose, ThreadAt, Updating, SessionsKnown, TypeOK, ThreadTypes
  <1>7. CASE InitializeSessionCallback \/ HandlePlayerLogin \/ LoadingDone
             \/ LogoutPlayer \/ Cleanup
    <2>1. /\ UNCHANGED <<sessions, cur, todo>> /\ pc \in Updating
          /\ pc' \in Updating \cup {"update"}
      BY <1>7 DEF InitializeSessionCallback, HandlePlayerLogin, LoadingDone,
                  LogoutPlayer, Cleanup, Updating
    <2> QED  BY <2>1 DEF ThreadAt, Updating
  <1>8. CASE RemoveSession
    BY <1>8, CurIsSession DEF RemoveSession, ThreadAt, Updating, TypeOK, ThreadTypes,
                              AdmissionTypes
  <1> HIDE DEF elsewhere
  <1> QED  BY <1>1, <1>2, <1>3, <1>4, <1>5, <1>6, <1>7, <1>8 DEF Next, World

(***************************************************************************)
(* LinksKnown.                                                             *)
(***************************************************************************)
\* No instance connection opens or finds a session.
Fading(x) == /\ sock'[x] = sock[x] \/ sock'[x] \notin {"idle", "open"}
             /\ pointer'[x] = pointer[x] \/ pointer'[x] = NoSession

LEMMA KeyNumbers ==
  ASSUME TypeOK, NEW l \in Links, linkKey[l] # <<>>
  PROVE  /\ linkKey[l][1] \in Sessions /\ linkKey[l][2] \in Nat
         /\ linkKey[l] = <<linkKey[l][1], linkKey[l][2]>>
  <1>1. linkKey[l] \in Keys  BY DEF TypeOK, NetworkTypes
  <1> QED  BY <1>1, KeyIsPair

LEMMA LinksKept ==
  ASSUME TypeOK, ThreadAt, LinksKnown, UNCHANGED linkKey, \A l \in Links : Fading(l),
         connectKey' \in [Sessions -> Nat],
         \A s \in Sessions : connectKey[s] <= connectKey'[s],
         \A l \in Links : sock'[l] = "open" /\ pointer[l] # NoSession
                             /\ instance[pointer[l]] = l => instance'[pointer[l]] = l,
         \A i \in DOMAIN linkQueue' : \E j \in DOMAIN linkQueue : linkQueue'[i] = linkQueue[j],
         UNCHANGED <<pc, linking>> \/ pc' # "linkset"
  PROVE  LinksKnown'
  <1>1. ASSUME NEW l \in Links
        PROVE  /\ linkKey'[l] = <<>> => pointer'[l] = NoSession
               /\ linkKey'[l] # <<>> =>
                    /\ sock'[l] # "idle"
                    /\ linkKey'[l][2] <= connectKey'[linkKey'[l][1]]
                    /\ pointer'[l] \in {linkKey'[l][1], NoSession}
               /\ \A m \in Links : linkKey'[l] = linkKey'[m] /\ linkKey'[l] # <<>> => l = m
    <2>1. Fading(l)  OBVIOUS
    <2>2. linkKey[l] # <<>> => linkKey[l][2] <= connectKey'[linkKey[l][1]]
      BY KeyNumbers DEF LinksKnown, TypeOK, LoginTypes
    <2> QED  BY <2>1, <2>2 DEF LinksKnown, Fading
  <1>2. ASSUME NEW l \in Links, IsOpen(l)', ~Superseded(l)', pointer'[l] # NoSession
        PROVE  instance'[pointer'[l]] = l
    <2>1. Fading(l)  OBVIOUS
    <2>2. sock[l] = "open" /\ sock'[l] = "open" /\ pointer'[l] = pointer[l]
      BY <1>2, <2>1 DEF Fading, IsOpen
    <2>3. linkKey[l] # <<>>  BY <1>2, <2>2 DEF LinksKnown
    <2>4. linkKey[l] = <<linkKey[l][1], connectKey'[linkKey[l][1]]>>
      BY <1>2, <2>3 DEF Superseded
    <2>5. linkKey[l][2] = connectKey'[linkKey[l][1]]  BY <2>4
    <2>6. linkKey[l][2] <= connectKey[linkKey[l][1]]  BY <2>3 DEF LinksKnown
    <2>7. connectKey'[linkKey[l][1]] = connectKey[linkKey[l][1]]
      BY <2>3, <2>5, <2>6, KeyNumbers DEF TypeOK, LoginTypes
    <2>8. ~Superseded(l)  BY <2>4, <2>7 DEF Superseded
    <2> QED  BY <1>2, <2>2, <2>8 DEF LinksKnown, IsOpen
  <1>3. \A i \in DOMAIN linkQueue' : linkKey'[linkQueue'[i]] # <<>>
    BY DEF LinksKnown
  <1>4. pc' = "linkset" =>
          /\ linkKey'[linking'.link] # <<>>
          /\ linkKey'[linking'.link][1] = linking'.session
          /\ \A m \in Links \ {linking'.link} : pointer'[m] = linking'.session =>
               linkKey'[m][2] < linkKey'[linking'.link][2]
    <2> SUFFICES ASSUME pc' = "linkset" PROVE
          /\ linkKey[linking.link] # <<>>
          /\ linkKey[linking.link][1] = linking.session
          /\ \A m \in Links \ {linking.link} : pointer'[m] = linking.session =>
               linkKey[m][2] < linkKey[linking.link][2]
      OBVIOUS
    <2>1. /\ linkKey[linking.link] # <<>>
          /\ linkKey[linking.link][1] = linking.session
          /\ \A m \in Links \ {linking.link} : pointer[m] = linking.session =>
               linkKey[m][2] < linkKey[linking.link][2]
      BY DEF LinksKnown
    <2>2. linking.session # NoSession  BY DEF ThreadAt, InWorld
    <2> QED  BY <2>1, <2>2 DEF Fading
  <1> QED  BY <1>1, <1>2, <1>3, <1>4 DEF LinksKnown

LEMMA LinksConnect ==
  ASSUME TypeOK, ThreadAt, LinksKnown,
         NEW l \in Links, NEW key \in Keys, Connect(l, key[1], key[2])
  PROVE  LinksKnown'
  <1>1. /\ key[1] \in Sessions /\ key[2] \in Nat /\ key = <<key[1], key[2]>>
        /\ key # <<>> /\ key[2] <= connectKey[key[1]]
    BY KeyIsPair DEF Connect, TypeOK, LoginTypes
  <1>2. /\ sock[l] = "idle" /\ \A m \in Links : linkKey[m] # key
        /\ sock' = [sock EXCEPT ![l] = "open"]
        /\ linkKey' = [linkKey EXCEPT ![l] = key]
        /\ linkQueue' = Append(linkQueue, l)
        /\ UNCHANGED <<pointer, connectKey, instance, pc, linking>>
    BY <1>1 DEF Connect
  <1>3. linkKey[l] = <<>> /\ pointer[l] = NoSession
    BY <1>2 DEF LinksKnown
  <1>4. \A m \in Links : /\ linkKey'[m] = IF m = l THEN key ELSE linkKey[m]
                         /\ sock'[m] = IF m = l THEN "open" ELSE sock[m]
    BY <1>2 DEF TypeOK, NetworkTypes
  <1>5. ASSUME NEW m \in Links
        PROVE  /\ linkKey'[m] = <<>> => pointer'[m] = NoSession
               /\ linkKey'[m] # <<>> =>
                    /\ sock'[m] # "idle"
                    /\ linkKey'[m][2] <= connectKey'[linkKey'[m][1]]
                    /\ pointer'[m] \in {linkKey'[m][1], NoSession}
               /\ \A o \in Links : linkKey'[m] = linkKey'[o] /\ linkKey'[m] # <<>> => m = o
    <2>1. CASE m = l  BY <1>1, <1>2, <1>3, <1>4, <2>1
    <2>2. CASE m # l  BY <1>1, <1>2, <1>3, <1>4, <2>2 DEF LinksKnown
    <2> QED  BY <2>1, <2>2
  <1>6. ASSUME NEW m \in Links, IsOpen(m)', ~Superseded(m)', pointer'[m] # NoSession
        PROVE  instance'[pointer'[m]] = m
    <2>1. m # l  BY <1>2, <1>3, <1>6
    <2>2. IsOpen(m) /\ ~Superseded(m)
      BY <1>2, <1>4, <1>6, <2>1 DEF IsOpen, Superseded
    <2> QED  BY <1>2, <1>6, <2>2 DEF LinksKnown
  <1>7. \A i \in DOMAIN linkQueue' : linkKey'[linkQueue'[i]] # <<>>
    <2>1. linkQueue \in Seq(Links)  BY DEF TypeOK, NetworkTypes
    <2>2. \A i \in DOMAIN linkQueue' :
             \/ linkQueue'[i] = l
             \/ i \in DOMAIN linkQueue /\ linkQueue'[i] = linkQueue[i]
                  /\ linkQueue[i] \in Links
      BY <1>2, <2>1
    <2> QED  BY <1>1, <1>4, <2>2 DEF LinksKnown
  <1>8. pc' = "linkset" =>
          /\ linkKey'[linking'.link] # <<>>
          /\ linkKey'[linking'.link][1] = linking'.session
          /\ \A m \in Links \ {linking'.link} : pointer'[m] = linking'.session =>
               linkKey'[m][2] < linkKey'[linking'.link][2]
    <2> SUFFICES ASSUME pc = "linkset" PROVE
          /\ linkKey'[linking.link] # <<>>
          /\ linkKey'[linking.link][1] = linking.session
          /\ \A m \in Links \ {linking.link} : pointer[m] = linking.session =>
               linkKey'[m][2] < linkKey'[linking.link][2]
      BY <1>2
    <2>1. linking.link \in Links /\ linking.session # NoSession
      BY DEF ThreadAt, InWorld, TypeOK, ThreadTypes
    <2>2. linking.link # l  BY <1>3 DEF LinksKnown
    <2> QED  BY <1>3, <1>4, <2>1, <2>2 DEF LinksKnown
  <1> QED  BY <1>5, <1>6, <1>7, <1>8 DEF LinksKnown

LEMMA LinksNetwork ==
  ASSUME TypeOK, TypeOK', ThreadAt, LinksKnown, Network
  PROVE  LinksKnown'
  <1>0. \A s \in Sessions : connectKey[s] \in Nat  BY DEF TypeOK, LoginTypes
  <1> DEFINE fades == /\ UNCHANGED <<linkKey, linkQueue, instance, pc, linking>>
                      /\ \A l \in Links : Fading(l)
                      /\ \A s \in Sessions : connectKey[s] <= connectKey'[s]
  <1>1. CASE fades
    <2>1. connectKey' \in [Sessions -> Nat]  BY DEF TypeOK, LoginTypes
    <2> QED  BY <1>1, <2>1, LinksKept
  <1> USE DEF TypeOK, NetworkTypes, LoginTypes
  <1>2. ASSUME NEW s \in Sessions, Authenticate(s) PROVE fades
    BY <1>0, <1>2 DEF Authenticate, Fading
  <1>3. ASSUME NEW s \in Sessions, EncryptionAck(s) PROVE fades
    BY <1>0, <1>3 DEF EncryptionAck, Fading
  <1>4. ASSUME NEW s \in Sessions, ConnectToFailed(s) PROVE fades
    <2>1. /\ UNCHANGED <<pointer, linkKey, linkQueue, instance, pc, linking>>
          /\ sock' = sock \/ sock' = [sock EXCEPT ![s] = "stuck"]
          /\ \/ UNCHANGED connectKey
             \/ connectKey' = [connectKey EXCEPT ![s] = @ + 1]
      BY <1>4 DEF ConnectToFailed, ConnectTo
    <2>2. \A l \in Links : sock'[l] = sock[l] \/ sock'[l] = "stuck"  BY <2>1
    <2>3. connectKey \in [Sessions -> Nat]  OBVIOUS
    <2> HIDE DEF TypeOK
    <2>4. \A t \in Sessions : connectKey[t] <= connectKey'[t]  BY <2>1, <2>3
    <2> QED  BY <2>1, <2>2, <2>4 DEF Fading
  <1>5. ASSUME NEW x \in Sockets, Lose(x) PROVE fades
    BY <1>0, <1>5 DEF Lose, Fading
  <1>6. ASSUME NEW x \in Sockets, Leave(x) PROVE fades
    BY <1>0, <1>6 DEF Leave, Fading
  <1> HIDE DEF fades, TypeOK
  <1> QED  BY <1>1, <1>2, <1>3, <1>4, <1>5, <1>6, LinksConnect DEF Network

LEMMA LinksLinkCheck == TypeOK /\ ThreadAt /\ LinksKnown /\ LinkCheck => LinksKnown'
  <1> SUFFICES ASSUME TypeOK, ThreadAt, LinksKnown, LinkCheck PROVE LinksKnown'
    OBVIOUS
  <1> DEFINE l == Head(linkQueue)
             s == sessions[AccountOf[linkKey[l][1]]]
  <1>1. /\ linkQueue' = Tail(linkQueue) /\ linkQueue # <<>>
        /\ UNCHANGED <<pointer, linkKey, connectKey, instance>>
        /\ sock' = sock \/ sock' = [sock EXCEPT ![l] = "closing"]
        /\ \/ UNCHANGED <<pc, linking>> /\ pc = "link"
           \/ /\ linking' = [link |-> l, session |-> s] /\ pc' = "linkset"
              /\ linkKey[l] = <<s, connectKey[s]>> /\ s # NoSession /\ UNCHANGED sock
    BY DEF LinkCheck
  <1>2. l \in Links /\ \A i \in DOMAIN linkQueue' :
                          i + 1 \in DOMAIN linkQueue /\ linkQueue'[i] = linkQueue[i + 1]
    <2>1. linkQueue \in Seq(Links)  BY DEF TypeOK, NetworkTypes
    <2>2. linkQueue # <<>> /\ linkQueue' = Tail(linkQueue)  BY <1>1
    <2>3. Head(linkQueue) = linkQueue[1] /\ linkQueue[1] \in Links
      BY <2>1, <2>2, QueueHead
    <2>4. \A i \in DOMAIN Tail(linkQueue) :
             i + 1 \in DOMAIN linkQueue /\ Tail(linkQueue)[i] = linkQueue[i + 1]
      BY <2>1, <2>2, QueueHead
    <2> QED  BY <2>2, <2>3, <2>4
  <1> HIDE DEF l, s
  <1>3. /\ \A m \in Links : Fading(m)
        /\ connectKey' \in [Sessions -> Nat]
        /\ \A t \in Sessions : connectKey[t] <= connectKey'[t]
    BY <1>1 DEF Fading, TypeOK, NetworkTypes, LoginTypes
  <1>4. CASE UNCHANGED <<pc, linking>>
    BY <1>1, <1>2, <1>3, <1>4, LinksKept
  <1>5. CASE ~UNCHANGED <<pc, linking>>
    <2>1. /\ linking'.link = l /\ linking'.session = s /\ pc' = "linkset"
          /\ linkKey[l] = <<s, connectKey[s]>> /\ s # NoSession /\ UNCHANGED sock
      BY <1>1, <1>5
    <2>2. /\ linkKey[l] # <<>> /\ linkKey[l][1] = s /\ linkKey[l][2] = connectKey[s]
      BY <2>1
    <2>3. ASSUME NEW m \in Links \ {l}, pointer[m] = s
          PROVE  linkKey[m][2] < linkKey[l][2]
      <3>1. linkKey[m] # <<>> /\ linkKey[m][1] = s
        BY <2>1, <2>3 DEF LinksKnown
      <3>2. linkKey[m][2] <= connectKey[s] /\ linkKey[m] # linkKey[l]
        BY <1>2, <2>2, <3>1 DEF LinksKnown
      <3>3. s \in Sessions /\ linkKey[m][2] \in Nat /\ linkKey[m] = <<s, linkKey[m][2]>>
        BY <3>1, KeyNumbers
      <3>4. linkKey[m][2] # connectKey[s]  BY <2>1, <3>2, <3>3
      <3> QED  BY <2>2, <3>2, <3>3, <3>4 DEF TypeOK, LoginTypes
    <2>4. \A i \in DOMAIN linkQueue' : linkKey'[linkQueue'[i]] # <<>>
      BY <1>1, <1>2 DEF LinksKnown
    <2>5. \A m \in Links :
             /\ linkKey'[m] = linkKey[m] /\ pointer'[m] = pointer[m]
             /\ sock'[m] = sock[m] /\ IsOpen(m)' = IsOpen(m)
             /\ Superseded(m)' = Superseded(m)
      BY <1>1, <2>1 DEF IsOpen, Superseded
    <2> QED  BY <1>1, <2>1, <2>2, <2>3, <2>4, <2>5 DEF LinksKnown
  <1> QED  BY <1>4, <1>5

LEMMA LinksLinkSet == TypeOK /\ ThreadAt /\ LinksKnown /\ LinkSet => LinksKnown'
  <1> SUFFICES ASSUME TypeOK, ThreadAt, LinksKnown, LinkSet PROVE LinksKnown'
    OBVIOUS
  <1> DEFINE l == linking.link
             s == linking.session
  <1>1. /\ l \in Links /\ s \in Sessions /\ s # NoSession
        /\ linkKey[l] # <<>> /\ linkKey[l][1] = s
        /\ \A m \in Links \ {l} : pointer[m] = s => linkKey[m][2] < linkKey[l][2]
    BY InWorldType DEF TypeOK, ThreadTypes, ThreadAt, LinksKnown, LinkSet, InWorld
  <1>2. /\ UNCHANGED <<linkKey, linkQueue, connectKey>> /\ pc' = "link"
        /\ \A t \in Sessions : instance'[t] = IF t = s THEN l ELSE instance[t]
        /\ \A m \in Links : /\ sock'[m] = sock[m] \/ sock'[m] = "gone"
                            /\ m # l => \/ pointer'[m] = pointer[m]
                                        \/ pointer'[m] = NoSession
        /\ pointer'[l] \in {s, NoSession}
    BY <1>1 DEF LinkSet, TypeOK, LoginTypes
  <1> HIDE DEF l, s
  <1>3. ASSUME NEW m \in Links
        PROVE  /\ linkKey'[m] = <<>> => pointer'[m] = NoSession
               /\ linkKey'[m] # <<>> =>
                    /\ sock'[m] # "idle"
                    /\ linkKey'[m][2] <= connectKey'[linkKey'[m][1]]
                    /\ pointer'[m] \in {linkKey'[m][1], NoSession}
               /\ \A o \in Links : linkKey'[m] = linkKey'[o] /\ linkKey'[m] # <<>> => m = o
    BY <1>1, <1>2 DEF LinksKnown
  <1>4. ASSUME NEW m \in Links, IsOpen(m)', ~Superseded(m)', pointer'[m] # NoSession
        PROVE  instance'[pointer'[m]] = m
    <2>1. CASE m = l  BY <1>1, <1>2, <1>4, <2>1
    <2>2. CASE m # l
      <3>1. pointer'[m] = pointer[m] /\ sock'[m] = sock[m]
        BY <1>2, <1>4, <2>2 DEF IsOpen
      <3>2. IsOpen(m) /\ ~Superseded(m)
        BY <1>2, <1>4, <3>1 DEF IsOpen, Superseded
      <3>3. instance[pointer[m]] = m  BY <1>4, <3>1, <3>2 DEF LinksKnown
      <3>4. linkKey[m] # <<>> /\ pointer[m] = linkKey[m][1]
        BY <1>4, <3>1 DEF LinksKnown
      <3>5. pointer[m] # s
        <4> SUFFICES ASSUME pointer[m] = s PROVE FALSE  OBVIOUS
        <4>1. linkKey[m][2] < linkKey[l][2] /\ linkKey[l][2] <= connectKey[s]
          BY <1>1, <2>2 DEF LinksKnown
        <4>2. linkKey[m] = <<s, connectKey[s]>>
          BY <3>2, <3>4 DEF Superseded
        <4>3. linkKey[m][2] = connectKey[s]  BY <4>2
        <4> QED  BY <1>1, <4>1, <4>3, KeyNumbers DEF TypeOK, LoginTypes
      <3> QED  BY <1>2, <3>1, <3>3, <3>4, <3>5, KeyNumbers
    <2> QED  BY <2>1, <2>2
  <1>5. \A i \in DOMAIN linkQueue' : linkKey'[linkQueue'[i]] # <<>>
    BY <1>2 DEF LinksKnown
  <1> QED  BY <1>2, <1>3, <1>4, <1>5 DEF LinksKnown

\* A session forgets its instance connection, and closes it.
LEMMA LinksForgotten ==
  ASSUME TypeOK, ThreadAt, LinksKnown, NEW s \in Sessions,
         NEW xs, CloseSockets(xs), instance[s] # NoLink => instance[s] \in xs,
         instance' = [instance EXCEPT ![s] = NoLink],
         UNCHANGED <<linkKey, linkQueue, connectKey>>,
         UNCHANGED <<pc, linking>> \/ pc' # "linkset"
  PROVE  LinksKnown'
  <1>1. \A l \in Links : Fading(l)
    BY ClosedOnly DEF Closing, Fading
  <1>2. ASSUME NEW l \in Links, sock'[l] = "open", pointer[l] # NoSession,
               instance[pointer[l]] = l
        PROVE  instance'[pointer[l]] = l
    <2>1. pointer[l] \in Sessions  BY <1>2 DEF TypeOK, NetworkTypes
    <2>2. pointer[l] = s => l \in xs /\ l # NoLink  BY <1>2
    <2>3. pointer[l] # s  BY <1>2, <2>2, ClosedOnly
    <2> QED  BY <1>2, <2>1, <2>3 DEF TypeOK, LoginTypes
  <1>3. connectKey' \in [Sessions -> Nat]
        /\ \A t \in Sessions : connectKey[t] <= connectKey'[t]
    BY DEF TypeOK, LoginTypes
  <1> QED  BY <1>1, <1>2, <1>3, LinksKept

LEMMA LinksDeleted ==
  ASSUME TypeOK, ThreadAt, LinksKnown, NEW s \in Sessions, Delete(s),
         UNCHANGED <<linkKey, linkQueue, connectKey>>,
         UNCHANGED <<pc, linking>> \/ pc' # "linkset"
  PROVE  LinksKnown'
  <1>1. /\ CloseSockets(SocketsOf(s)) /\ instance' = [instance EXCEPT ![s] = NoLink]
        /\ instance[s] # NoLink => instance[s] \in SocketsOf(s)
    BY DEF Delete, SocketsOf
  <1> QED  BY <1>1, LinksForgotten

LEMMA LinksWorld ==
  ASSUME TypeOK, ThreadAt, LinksKnown, World, ~LinkCheck, ~LinkSet
  PROVE  LinksKnown'
  <1> DEFINE closes == /\ UNCHANGED <<linkKey, linkQueue, connectKey, instance>>
                       /\ UNCHANGED <<sock, pointer>> \/ \E xs : CloseSockets(xs)
                       /\ pc' # "linkset"
  <1>1. ASSUME UNCHANGED <<linkKey, linkQueue, instance>>,
               UNCHANGED <<sock, pointer>> \/ \E xs : CloseSockets(xs),
               connectKey' \in [Sessions -> Nat],
               \A t \in Sessions : connectKey[t] <= connectKey'[t],
               pc' # "linkset"
        PROVE  LinksKnown'
    <2>1. \A l \in Links : Fading(l)  BY <1>1, ClosedOnly DEF Closing, Fading
    <2> QED  BY <1>1, <2>1, LinksKept
  <1>2. CASE closes
    BY <1>1, <1>2 DEF TypeOK, LoginTypes
  <1>3. CASE PlayerLogin
    <2>1. /\ UNCHANGED <<linkKey, linkQueue, instance>>
          /\ UNCHANGED <<sock, pointer>> \/ \E xs : CloseSockets(xs)
          /\ \/ UNCHANGED connectKey
             \/ connectKey' = [connectKey EXCEPT ![cur] = @ + 1]
          /\ pc' # "linkset"
      BY <1>3 DEF PlayerLogin, Kick, ConnectTo
    <2>2. /\ connectKey' \in [Sessions -> Nat]
          /\ \A t \in Sessions : connectKey[t] <= connectKey'[t]
      <3>1. cur \in Sessions  BY <1>3, CurIsSession DEF PlayerLogin, Updating
      <3> QED  BY <2>1, <3>1 DEF TypeOK, LoginTypes
    <2> QED  BY <1>1, <2>1, <2>2
  <1>4. CASE AddSession
    <2> DEFINE s == Head(addQueue)
               old == sessions[AccountOf[s]]
    <2>1. s \in Sessions /\ old \in Sessions \cup {NoSession}
      BY <1>4, QueueElement DEF TypeOK, NetworkTypes, AdmissionTypes, AddSession
    <2>2. /\ UNCHANGED <<linkKey, linkQueue, connectKey, pc, linking>>
          /\ pc = "add"
          /\ AddRejected(s, old) \/ AddAccepted(s, old)
      BY <1>4 DEF AddSession
    <2> HIDE DEF s, old
    <2>3. UNCHANGED <<sock, pointer, instance>> \/ \E t \in Sessions : Delete(t)
      BY <2>1, <2>2 DEF AddRejected, AddAccepted
    <2> QED  BY <1>2, <2>2, <2>3, LinksDeleted
  <1>5. CASE RemoveSession
    BY <1>5, CurIsSession, LinksDeleted DEF RemoveSession, Updating
  <1>6. CASE LogoutPlayer
    <2>1. /\ CloseSockets({instance[cur]} \ {NoLink})
          /\ instance' = [instance EXCEPT ![cur] = NoLink]
          /\ UNCHANGED <<linkKey, linkQueue, connectKey>>
          /\ pc' # "linkset" /\ pc \in Updating
      BY <1>6 DEF LogoutPlayer, Updating
    <2> QED  BY <2>1, CurIsSession, LinksForgotten
  <1>7. KickAll \/ CloseIdle \/ HandlePlayerLogin \/ Cleanup \/ LinksDone \/ AddsDone
          \/ (\E a \in Accounts : Choose(a)) \/ InitializeSessionCallback
          \/ LoadingDone \/ TickDone => closes
    BY DEF KickAll, CloseIdle, HandlePlayerLogin, Kick, Cleanup, LinksDone, AddsDone,
           Choose, InitializeSessionCallback, LoadingDone, TickDone
  <1> HIDE DEF closes
  <1> QED  BY <1>2, <1>3, <1>4, <1>5, <1>6, <1>7 DEF World

LEMMA LinksStep ==
  ASSUME TypeOK, TypeOK', ThreadAt, LinksKnown, [Next]_vars
  PROVE  LinksKnown'
  <1>1. CASE Network  BY <1>1, LinksNetwork
  <1>2. CASE World  BY <1>2, LinksWorld, LinksLinkCheck, LinksLinkSet
  <1>3. CASE UNCHANGED vars
    BY <1>3, LinksKept DEF vars, Fading, TypeOK, LoginTypes
  <1> QED  BY <1>1, <1>2, <1>3 DEF Next

(***************************************************************************)
(* KickedLeave.                                                            *)
(***************************************************************************)
LEMMA StaysClosed ==
  ASSUME TypeOK, ThreadAt, [Next]_vars,
         NEW s \in Sessions, sock[s] \notin {"idle", "open"}
  PROVE  sock'[s] \notin {"idle", "open"}
  <1> USE DEF TypeOK, NetworkTypes
  <1>1. ASSUME NEW t \in Sessions, Authenticate(t) \/ EncryptionAck(t) \/ ConnectToFailed(t)
        PROVE  sock'[s] \notin {"idle", "open"}
    <2>1. \/ sock' = sock \/ sock' = [sock EXCEPT ![t] = "stuck"]
          \/ sock[t] = "idle" /\ sock' = [sock EXCEPT ![t] = "open"]
      BY <1>1 DEF Authenticate, EncryptionAck, ConnectToFailed
    <2> QED  BY <2>1
  <1>2. ASSUME NEW l \in Links, NEW key \in Keys, Connect(l, key[1], key[2])
        PROVE  sock'[s] \notin {"idle", "open"}
    BY <1>2 DEF Connect
  <1>3. ASSUME NEW x \in Sockets, Lose(x) \/ Leave(x)
        PROVE  sock'[s] \notin {"idle", "open"}
    BY <1>3 DEF Lose, Leave
  <1>4. CASE LinkCheck
    BY <1>4 DEF LinkCheck
  <1>5. CASE LinkSet
    BY <1>5 DEF LinkSet
  <1>6. CASE UNCHANGED sock
    BY <1>6
  <1>7. ASSUME NEW xs, CloseSockets(xs) PROVE sock'[s] \notin {"idle", "open"}
    <2>1. \A x \in Sockets : Closing(x)  BY <1>7, ClosedOnly
    <2> QED  BY <2>1 DEF Closing
  <1>8. CASE AddSession
    <2>1. UNCHANGED sock \/ \E xs : CloseSockets(xs)
      BY <1>8 DEF AddSession, AddRejected, AddAccepted, Delete
    <2> QED  BY <1>6, <1>7, <2>1
  <1>9. KickAll \/ LinksDone \/ AddsDone \/ (\E a \in Accounts : Choose(a))
          \/ CloseIdle \/ PlayerLogin \/ InitializeSessionCallback
          \/ HandlePlayerLogin \/ LoadingDone \/ LogoutPlayer \/ Cleanup
          \/ RemoveSession \/ TickDone \/ UNCHANGED vars
            => UNCHANGED sock \/ \E xs : CloseSockets(xs)
    BY DEF KickAll, LinksDone, AddsDone, Choose, CloseIdle, PlayerLogin, Kick,
           InitializeSessionCallback, HandlePlayerLogin, LoadingDone, LogoutPlayer,
           Cleanup, RemoveSession, Delete, TickDone, vars
  <1> HIDE DEF TypeOK, NetworkTypes
  <1> QED
    BY <1>1, <1>2, <1>3, <1>4, <1>5, <1>6, <1>7, <1>8, <1>9 DEF Next, Network, World

LEMMA KickedQuiet ==
  ASSUME KickedLeave, UNCHANGED <<kicked, sessions, pc, cur, todo, player, holders>>,
         \A s \in InWorld : Forced(s) => Forced(s)'
  PROVE  KickedLeave'
  <1>1. InWorld' = InWorld  BY DEF InWorld
  <1>2. \A s \in InWorld : Ahead(s)' = Ahead(s) /\ Fresh(s)' = Fresh(s)
    BY DEF Ahead, Fresh
  <1> QED  BY <1>1, <1>2 DEF KickedLeave

\* Before the updates everybody is ahead.
LEMMA KickedBefore ==
  ASSUME pc' \in {"link", "linkset", "add"},
         kicked' => \A s \in InWorld' : /\ Forced(s)' \/ Fresh(s)'
                                        /\ pc' # "add" => Forced(s)'
  PROVE  KickedLeave'
  BY DEF KickedLeave, Ahead

LEMMA KickedAdd ==
  ASSUME TypeOK, SessionsKnown, ThreadAt, KickedLeave,
         NEW s \in Sessions \ InWorld, NEW old \in Sessions \cup {NoSession},
         old = sessions[AccountOf[s]], AddRejected(s, old) \/ AddAccepted(s, old),
         UNCHANGED kicked, pc = "add", pc' = "add",
         \A t \in Sessions : sock[t] \notin {"idle", "open"} => sock'[t] \notin {"idle", "open"}
  PROVE  KickedLeave'
  <1>1. \A t \in InWorld : t \in Sessions /\ (kicked => Forced(t) \/ Fresh(t))
    BY InWorldType DEF KickedLeave, Ahead
  <1>2. s \notin player /\ holders[s] = 0  BY DEF SessionsKnown
  <1>3. old \in Sessions => old # s  BY DEF InWorld
  <1>4. CASE AddRejected(s, old)
    <2>1. Delete(s) /\ InWorld' = InWorld  BY <1>4 DEF AddRejected, InWorld
    <2>2. \A t \in InWorld : (Forced(t) => Forced(t)') /\ (Fresh(t) => Fresh(t)')
      BY <1>1, <2>1, DeleteEffect DEF Forced, Fresh
    <2> QED  BY <1>1, <2>1, <2>2, KickedBefore
  <1>5. CASE AddAccepted(s, old)
    <2>1. InWorld' = (InWorld \ {old}) \cup {s}
      <3>1. sessions' = [sessions EXCEPT ![AccountOf[s]] = s]
        BY <1>5 DEF AddAccepted
      <3>2. AccountOf[s] \in Accounts /\ s \in Sessions \cup {NoSession}  OBVIOUS
      <3>3. InWorld' = (InWorld \ {sessions[AccountOf[s]]}) \cup ({s} \ {NoSession})
        BY <3>1, <3>2, InWorldReplaced
      <3> QED  BY <3>3
    <2>2. \A t \in Sessions \ {old} : (Forced(t) => Forced(t)') /\ (Fresh(t) => Fresh(t)')
      <3>1. CASE old = NoSession
        BY <1>5, <3>1 DEF AddAccepted, Forced, Fresh
      <3>2. CASE old # NoSession
        <4>1. Delete(old) /\ old \in Sessions  BY <1>5, <3>2 DEF AddAccepted
        <4> QED  BY <4>1, DeleteEffect DEF Forced, Fresh
      <3> QED  BY <3>1, <3>2
    <2>3. Fresh(s)'
      <3>1. Fresh(s)  BY <1>2 DEF Fresh
      <3>2. s # old  BY <1>3
      <3> QED  BY <2>2, <3>1, <3>2 DEF Fresh
    <2>4. ASSUME kicked', NEW t \in InWorld' PROVE Forced(t)' \/ Fresh(t)'
      <3>1. CASE t = s  BY <2>3, <3>1 DEF Fresh
      <3>2. CASE t # s
        <4>1. t \in InWorld /\ t \in Sessions \ {old}  BY <1>1, <2>1, <2>4, <3>2
        <4>2. Forced(t) \/ Fresh(t)  BY <1>1, <2>4, <4>1
        <4> QED  BY <2>2, <4>1, <4>2 DEF Forced, Fresh
      <3> QED  BY <3>1, <3>2
    <2> QED  BY <2>4, KickedBefore
  <1> QED  BY <1>4, <1>5

LEMMA KickedStep ==
  ASSUME TypeOK, SessionsKnown, RealmSockets, ThreadAt, KickedLeave, [Next]_vars
  PROVE  KickedLeave'
  <1>1. \A s \in Sessions : sock[s] \notin {"idle", "open"} => sock'[s] \notin {"idle", "open"}
    BY StaysClosed
  <1>2. \A s \in Sessions : Forced(s) /\ s \in forceExit' => Forced(s)'
    BY <1>1 DEF Forced
  <1>3. InWorld \subseteq Sessions  BY InWorldType
  <1>4. CASE Network \/ CloseIdle \/ PlayerLogin \/ InitializeSessionCallback \/ LoadingDone
    <2>1. /\ UNCHANGED <<kicked, sessions, cur, todo, player, holders>>
          /\ forceExit \subseteq forceExit'
          /\ \/ UNCHANGED pc
             \/ pc \in Updating /\ pc' \in Updating
      BY <1>4 DEF Network, Authenticate, EncryptionAck, ConnectToFailed, Connect, Lose,
                  Leave, CloseIdle, PlayerLogin, Kick, InitializeSessionCallback,
                  LoadingDone, Updating
    <2>2. InWorld' = InWorld  BY <2>1 DEF InWorld
    <2>3. \A s \in InWorld : /\ Ahead(s)' = Ahead(s) /\ Fresh(s)' = Fresh(s)
                             /\ Forced(s) => Forced(s)'
      BY <1>2, <1>3, <2>1 DEF Ahead, Fresh, Forced, Updating
    <2>4. pc' \in {"link", "linkset", "stopped"} => pc' = pc  BY <2>1 DEF Updating
    <2> QED  BY <2>1, <2>2, <2>3, <2>4 DEF KickedLeave
  <1>5. CASE KickAll
    <2>1. /\ pc' = "link" /\ forceExit' = forceExit \cup InWorld /\ UNCHANGED sessions
          /\ CloseSockets(UNION {SocketsOf(s) : s \in InWorld})
      BY <1>5 DEF KickAll
    <2>2. ASSUME NEW s \in InWorld PROVE Forced(s)'
      <3>1. s \in Sessions /\ s \in live  BY <1>3, InWorldIs
      <3>2. sock[s] # "idle"  BY <3>1 DEF RealmSockets
      <3>3. s \in UNION {SocketsOf(t) : t \in InWorld}  BY DEF SocketsOf
      <3>4. sock'[s] \notin {"open", "closing"} /\ Closing(s)
        BY <2>1, <3>1, <3>3, ClosedOnly
      <3> QED  BY <2>1, <3>2, <3>4 DEF Forced, Closing
    <2>3. InWorld' = InWorld  BY <2>1 DEF InWorld
    <2> QED  BY <2>1, <2>2, <2>3, KickedBefore
  <1>6. CASE LinkCheck \/ LinkSet \/ LinksDone
    <2>1. /\ pc \in {"link", "linkset"} /\ pc' \in {"link", "linkset", "add"}
          /\ UNCHANGED <<kicked, sessions>> /\ forceExit \subseteq forceExit'
      BY <1>6 DEF LinkCheck, LinkSet, LinksDone
    <2>2. InWorld' = InWorld  BY <2>1 DEF InWorld
    <2>3. kicked => \A s \in InWorld : Forced(s)'
      BY <1>2, <1>3, <2>1 DEF KickedLeave, Forced
    <2> QED  BY <2>1, <2>2, <2>3, KickedBefore
  <1>7. CASE AddSession
    <2>1. Head(addQueue) \in Sessions \ InWorld
      BY <1>7, QueueElement, AddQueueHead DEF TypeOK, NetworkTypes, AddSession
    <2>2. PICK s \in Sessions \ InWorld : s = Head(addQueue)  BY <2>1
    <2>3. PICK old \in Sessions \cup {NoSession} : old = sessions[AccountOf[s]]
      BY <2>2 DEF TypeOK, AdmissionTypes
    <2>4. /\ AddRejected(s, old) \/ AddAccepted(s, old)
          /\ UNCHANGED kicked /\ pc = "add" /\ pc' = "add"
      BY <1>7, <2>2, <2>3 DEF AddSession
    <2> QED  BY <1>1, <2>3, <2>4, KickedAdd
  <1>8. CASE AddsDone
    <2>1. /\ pc = "add" /\ pc' = "update" /\ todo' = {a \in Accounts : sessions[a] # NoSession}
          /\ UNCHANGED <<kicked, sessions, sock, forceExit, player, holders>>
      BY <1>8 DEF AddsDone
    <2>2. \A s \in InWorld : AccountOf[s] \in todo'
      BY <2>1 DEF InWorld, SessionsKnown
    <2>3. InWorld' = InWorld  BY <2>1 DEF InWorld
    <2> QED  BY <2>1, <2>2, <2>3 DEF KickedLeave, Ahead, Forced, Fresh
  <1>9. ASSUME NEW a \in Accounts, Choose(a) PROVE KickedLeave'
    <2>1. /\ pc = "update" /\ pc' = "packets" /\ a \in todo
          /\ todo' = todo \ {a} /\ cur' = sessions[a]
          /\ UNCHANGED <<kicked, sessions, sock, forceExit, player, holders>>
      BY <1>9 DEF Choose
    <2>2. InWorld' = InWorld  BY <2>1 DEF InWorld
    <2>3. \A s \in InWorld : Ahead(s)' = Ahead(s)
      <3> SUFFICES ASSUME NEW s \in InWorld PROVE Ahead(s)' = Ahead(s)  OBVIOUS
      <3>1. AccountOf[s] = a <=> s = sessions[a]
        BY <1>3, <2>1, InWorldIs DEF SessionsKnown, ThreadAt
      <3> QED  BY <2>1, <3>1 DEF Ahead, Updating
    <2> QED  BY <2>1, <2>2, <2>3 DEF KickedLeave, Forced, Fresh
  <1>10. CASE HandlePlayerLogin \/ LogoutPlayer
    <2>1. /\ UNCHANGED <<kicked, sessions, cur, todo>> /\ forceExit \subseteq forceExit'
          /\ pc \in Updating /\ pc' \in Updating
          /\ player' \subseteq player \cup {cur}
          /\ \A s \in Sessions \ {cur} : holders'[s] = holders[s]
          /\ \/ holders[cur] > 0
             \/ holders' = holders /\ cur \notin player'
      BY <1>10 DEF HandlePlayerLogin, LogoutPlayer, Kick, Updating, TypeOK, LoginTypes
    <2>2. InWorld' = InWorld /\ cur \in InWorld
      BY <2>1, CurIsSession DEF InWorld
    <2>3. \A s \in InWorld : Ahead(s)' = Ahead(s) /\ (Forced(s) => Forced(s)')
      BY <1>2, <1>3, <2>1 DEF Ahead, Forced, Updating
    <2>4. Ahead(cur) /\ \A s \in InWorld \ {cur} : Fresh(s) => Fresh(s)'
      BY <1>3, <2>1 DEF Ahead, Fresh
    <2>5. Fresh(cur) => Fresh(cur)'
      <3>1. holders[cur] \in Nat  BY <1>3, <2>2 DEF TypeOK, LoginTypes
      <3> QED  BY <2>1, <3>1 DEF Fresh
    <2> QED  BY <2>1, <2>2, <2>3, <2>4, <2>5 DEF KickedLeave, Updating
  <1>11. CASE Cleanup
    <2>1. /\ UNCHANGED <<kicked, sessions, cur, todo, forceExit, player, holders>>
          /\ pc \in Updating
          /\ \/ pc' = "update" /\ IsOpen(cur)
             \/ pc' = "update" /\ cur \in player /\ cur \notin forceExit
             \/ pc' = "remove"
      BY <1>11 DEF Cleanup, Updating, SocketsOf, IsOver
    <2>2. InWorld' = InWorld /\ cur \in InWorld
      BY <2>1, CurIsSession DEF InWorld
    <2>3. \A s \in InWorld : (Fresh(s) => Fresh(s)') /\ (Forced(s) => Forced(s)')
      BY <1>2, <1>3, <2>1 DEF Fresh, Forced
    <2>4. ASSUME kicked, NEW s \in InWorld
          PROVE  IF Ahead(s)' THEN Forced(s)' \/ Fresh(s)' ELSE s \notin player'
      <3>1. CASE s = cur
        <4>1. Forced(cur) \/ Fresh(cur)  BY <2>1, <2>2, <2>4 DEF KickedLeave, Ahead
        <4>2. pc' = "update" => cur \notin player
          BY <2>1, <4>1 DEF Forced, Fresh, IsOpen
        <4>3. pc' = "remove" => Ahead(cur)'  BY <2>1 DEF Ahead, Updating
        <4> QED
          BY <2>1, <2>2, <2>3, <3>1, <4>1, <4>2, <4>3 DEF Forced, Fresh, Ahead
      <3>2. CASE s # cur
        <4>1. Ahead(s)' = Ahead(s)  BY <2>1, <3>2 DEF Ahead, Updating
        <4>2. IF Ahead(s) THEN Forced(s) \/ Fresh(s) ELSE s \notin player
          BY <2>4 DEF KickedLeave
        <4> QED  BY <2>1, <2>3, <4>1, <4>2
      <3> QED  BY <3>1, <3>2
    <2> QED  BY <2>1, <2>2, <2>4 DEF KickedLeave
  <1>12. CASE RemoveSession
    <2>1. /\ UNCHANGED <<kicked, cur, todo>> /\ pc = "remove" /\ pc' = "update"
          /\ Delete(cur) /\ sessions' = [sessions EXCEPT ![AccountOf[cur]] = NoSession]
      BY <1>12 DEF RemoveSession
    <2>2. cur \in Sessions /\ AccountOf[cur] \in Accounts /\ sessions[AccountOf[cur]] = cur
      BY <2>1, CurIsSession DEF Updating
    <2>3. InWorld' = InWorld \ {cur}
      <3>1. NoSession \in Sessions \cup {NoSession}  OBVIOUS
      <3>2. InWorld' = (InWorld \ {sessions[AccountOf[cur]]})
                          \cup ({NoSession} \ {NoSession})
        BY <2>1, <2>2, <3>1, InWorldReplaced
      <3> QED  BY <2>2, <3>2
    <2>4. \A s \in InWorld \ {cur} :
             /\ Forced(s) => Forced(s)'
             /\ Fresh(s) => Fresh(s)'
             /\ s \in player' => s \in player
             /\ Ahead(s)' = Ahead(s)
      BY <1>2, <1>3, <2>1, <2>2, DeleteEffect DEF Forced, Fresh, Ahead, Updating
    <2> QED  BY <2>1, <2>3, <2>4 DEF KickedLeave
  <1>13. CASE TickDone
    <2>1. /\ pc = "update" /\ todo = {} /\ todo' = {} /\ UNCHANGED <<kicked, sessions, player>>
          /\ pc' = IF kicked THEN "stopped" ELSE "link"
      BY <1>13 DEF TickDone
    <2>2. InWorld' = InWorld  BY <2>1 DEF InWorld
    <2> QED  BY <2>1, <2>2 DEF KickedLeave, Ahead, Updating
  <1>14. CASE UNCHANGED vars
    BY <1>14, KickedQuiet DEF vars, Forced
  <1> QED
    BY <1>4, <1>5, <1>6, <1>7, <1>8, <1>9, <1>10, <1>11, <1>12, <1>13, <1>14
    DEF Next, World

(***************************************************************************)
(* The theorems.                                                           *)
(***************************************************************************)
LEMMA SessionInit == Init => SessionInv
  <1> SUFFICES ASSUME Init PROVE SessionInv  OBVIOUS
  <1>1. TypeOK  BY InitType
  <1>2. SessionsKnown  BY DEF Init, SessionsKnown, InWorld
  <1>3. RealmSockets  BY DEF Init, RealmSockets
  <1>4. ThreadAt  BY DEF Init, ThreadAt, Updating
  <1>5. LinksKnown  BY DEF Init, LinksKnown, IsOpen
  <1>6. KickedLeave  BY DEF Init, KickedLeave
  <1> QED  BY <1>1, <1>2, <1>3, <1>4, <1>5, <1>6 DEF SessionInv

LEMMA SessionStep == SessionInv /\ [Next]_vars => SessionInv'
  <1> SUFFICES ASSUME SessionInv, [Next]_vars PROVE SessionInv'  OBVIOUS
  <1>1. /\ TypeOK /\ SessionsKnown /\ RealmSockets /\ ThreadAt /\ LinksKnown
        /\ KickedLeave
    BY DEF SessionInv
  <1>2. TypeOK'  BY <1>1, TypeStep
  <1> QED
    BY <1>1, <1>2, KnownStep, RealmStep, ThreadStep, LinksStep, KickedStep
    DEF SessionInv

\* Everything the proofs below know of a session: that the queues and
\* m_sessions hold sessions that exist, and which sockets point to which.
THEOREM SessionInvariant == Spec => []SessionInv
  BY SessionInit, SessionStep, PTL DEF Spec

\* Every variable of WorldSessions keeps its type.
THEOREM SessionTypes == Spec => []TypeOK
  <1>1. SessionInv => TypeOK  BY DEF SessionInv
  <1> QED  BY <1>1, SessionInvariant, PTL

\* A socket that still handles packets hands them to a session that exists:
\* the destructor of WorldSession closes m_Socket, which forgets the session
\* under _worldSessionLock, and any other socket that pointed to it is the
\* connection of an older key.
THEOREM NoDeletedSession == Spec => []NoUseAfterDelete
  <1>1. ASSUME SessionInv PROVE NoUseAfterDelete
    <2>1. /\ TypeOK /\ SessionsKnown /\ RealmSockets /\ LinksKnown  BY <1>1 DEF SessionInv
    <2>2. ASSUME NEW x \in Sockets, IsOpen(x), ~Superseded(x), pointer[x] # NoSession
          PROVE  pointer[x] \in live
      <3>1. CASE x \in Sessions
        BY <2>1, <2>2, <3>1 DEF RealmSockets, IsOpen
      <3>2. CASE x \in Links
        <4>1. instance[pointer[x]] = x /\ pointer[x] \in Sessions
          BY <2>1, <2>2, <3>2 DEF LinksKnown, TypeOK, NetworkTypes
        <4>2. pointer[x] \in InWorld  BY <2>1, <3>2, <4>1 DEF SessionsKnown
        <4> QED  BY <2>1, <4>1, <4>2, InWorldIs
      <3> QED  BY <3>1, <3>2
    <2> QED  BY <2>2 DEF NoUseAfterDelete
  <1> QED  BY <1>1, SessionInvariant, PTL

\* World::KickAll and the one UpdateSessions that follows it log every player
\* out: a session is closed and forced to exit before that update, or has
\* never had a login answered.
THEOREM EveryPlayerLogsOut == Spec => []ShutdownLogsOut
  <1>1. ASSUME SessionInv PROVE ShutdownLogsOut
    <2> SUFFICES ASSUME pc = "stopped" PROVE InWorld \cap player = {}
      BY DEF ShutdownLogsOut
    <2>1. kicked /\ todo = {}
      BY <1>1 DEF SessionInv, KickedLeave, ThreadAt, Updating
    <2>2. \A s \in InWorld : ~Ahead(s)  BY <2>1 DEF Ahead, Updating
    <2> QED  BY <1>1, <2>1, <2>2 DEF SessionInv, KickedLeave
  <1> QED  BY <1>1, SessionInvariant, PTL
=============================================================================
