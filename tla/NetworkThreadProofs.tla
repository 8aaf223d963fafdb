------------------------- MODULE NetworkThreadProofs -------------------------
(***************************************************************************)
(* Proofs about NetworkThread, for any number of network threads,          *)
(* acceptors, senders and connections: how a connection is handed over     *)
(* from an acceptor to the thread that updates it and is counted there.    *)
(* What goes through the socket does not matter here, only whether its     *)
(* client has come yet.                                                    *)
(***************************************************************************)
EXTENDS NetworkThread, FiniteSetTheorems, WellFoundedInduction, TLAPS

LEMMA HandOverInit == Init => HandOver
  <1> SUFFICES ASSUME Init PROVE HandOver  OBVIOUS
  <1> USE NetworkAssumption
  <1>1. HandOverTypes
    BY FS_EmptySet DEF Init, SocketInit, HandOverTypes, AcceptStates, NetStates
  <1>2. AtOwnSocket  BY DEF Init, AtOwnSocket
  <1>3. OnItsWay
    BY DEF Init, SocketInit, OnItsWay, Created, Assigned, Registered
  <1>4. \A t \in NetThreads : Registered(t) = {} /\ connections[t] = 0
    BY DEF Init, Registered
  <1>5. ConnectionsExact
    BY <1>4, FS_EmptySet DEF Init, ConnectionsExact
  <1>6. OneThreadPerSocket  BY <1>4 DEF Init, OneThreadPerSocket
  <1> QED  BY <1>1, <1>2, <1>3, <1>5, <1>6 DEF HandOver

(***************************************************************************)
(* A step of the sockets, of a client or of a thread at one of its sockets *)
(* hands nothing over.                                                     *)
(***************************************************************************)
LEMMA NothingHandedOver ==
  ASSUME HandOver,
         UNCHANGED <<acceptor, acceptSocket, owner, connections, newSockets, sockets>>,
         client' \in [Conns -> {"away", "open", "gone"}],
         \A c \in Conns : client'[c] = "away" <=> client[c] = "away",
         net' \in [NetThreads -> [at : NetStates, conn : Conns \cup {NoConn},
                                  left : SUBSET Conns]],
         AtOwnSocket'
  PROVE  HandOver'
  <1> USE NetworkAssumption
  <1>1. \A t : Registered(t)' = Registered(t)  BY DEF Registered
  <1>2. \A t \in NetThreads : Registered(t) \subseteq Conns
    BY DEF HandOver, HandOverTypes, Registered
  <1>3. HandOverTypes'  BY DEF HandOver, HandOverTypes
  <1>4. OnItsWay'
    <2>1. \A a \in Acceptors : (Created(a)' <=> Created(a)) /\ (Assigned(a)' <=> Assigned(a))
      BY DEF Created, Assigned
    <2>2. \A t \in NetThreads : acceptSocket[t] # NoConn => acceptSocket[t] \in Conns
      BY DEF HandOver, HandOverTypes
    <2> QED  BY <1>1, <1>2, <2>1, <2>2 DEF HandOver, OnItsWay
  <1>5. ConnectionsExact'  BY <1>1 DEF HandOver, ConnectionsExact
  <1>6. OneThreadPerSocket'  BY <1>1 DEF HandOver, OneThreadPerSocket
  <1> QED  BY <1>3, <1>4, <1>5, <1>6 DEF HandOver

LEMMA NetMoves ==
  ASSUME HandOver,
         UNCHANGED <<client, acceptVars, connections, newSockets, sockets>>,
         NEW t \in NetThreads, NEW place \in NetStates, NEW c \in Conns \cup {NoConn},
         NEW left \in SUBSET Conns,
         net' \in [NetThreads -> [at : NetStates, conn : Conns \cup {NoConn},
                                  left : SUBSET Conns]],
         net'[t].at = place, net'[t].conn = c, net'[t].left = left,
         \A u \in NetThreads \ {t} : net'[u] = net[u],
         left \subseteq sockets[t],
         place \notin {"run", "sockets"} => c \in sockets[t] /\ c \notin left
  PROVE  HandOver'
  <1>1. AtOwnSocket'  BY DEF HandOver, AtOwnSocket
  <1>2. client' \in [Conns -> {"away", "open", "gone"}]
    BY DEF HandOver, HandOverTypes
  <1> QED  BY <1>1, <1>2, NothingHandedOver DEF acceptVars

LEMMA NetGoes ==
  ASSUME HandOver,
         UNCHANGED <<client, acceptVars, connections, newSockets, sockets>>,
         NEW t \in NetThreads, NEW place \in NetStates, NEW c \in Conns \cup {NoConn},
         NetGoto(t, place, c),
         place \notin {"run", "sockets"} =>
             c = net[t].conn /\ net[t].at \notin {"run", "sockets"}
  PROVE  HandOver'
  <1>1. net \in [NetThreads -> [at : NetStates, conn : Conns \cup {NoConn},
                                left : SUBSET Conns]]
    BY DEF HandOver, HandOverTypes
  <1>2. /\ net' \in [NetThreads -> [at : NetStates, conn : Conns \cup {NoConn},
                                    left : SUBSET Conns]]
        /\ net'[t].at = place /\ net'[t].conn = c /\ net'[t].left = net[t].left
        /\ \A u \in NetThreads \ {t} : net'[u] = net[u]
    BY <1>1 DEF NetGoto
  <1>3. net[t].left \in SUBSET Conns  BY <1>1
  <1> QED  BY <1>2, <1>3, NetMoves DEF HandOver, AtOwnSocket

LEMMA SocketMoves ==
  ASSUME HandOver, UNCHANGED <<client, acceptVars, threadVars>>
  PROVE  HandOver'
  <1>1. client' \in [Conns -> {"away", "open", "gone"}]
    BY DEF HandOver, HandOverTypes
  <1>2. net' \in [NetThreads -> [at : NetStates, conn : Conns \cup {NoConn},
                                 left : SUBSET Conns]]
    BY DEF HandOver, HandOverTypes, threadVars
  <1>3. AtOwnSocket'  BY DEF HandOver, AtOwnSocket, threadVars
  <1> QED
    BY <1>1, <1>2, <1>3, NothingHandedOver DEF acceptVars, threadVars

LEMMA ClientMoves ==
  ASSUME HandOver, NEW c \in Conns, ClientStep(c)
  PROVE  HandOver'
  <1>1. CASE ClientReads(c)  BY <1>1, SocketMoves DEF ClientStep, ClientReads
  <1>2. CASE ClientLeaves(c)
    <2>1. /\ client' \in [Conns -> {"away", "open", "gone"}]
          /\ \A d \in Conns : client'[d] = "away" <=> client[d] = "away"
      BY <1>2 DEF ClientLeaves, HandOver, HandOverTypes
    <2>2. net' \in [NetThreads -> [at : NetStates, conn : Conns \cup {NoConn},
                                   left : SUBSET Conns]]
      BY DEF HandOver, HandOverTypes, threadVars, ClientStep
    <2>3. AtOwnSocket'  BY DEF HandOver, AtOwnSocket, threadVars, ClientStep
    <2> QED
      BY <2>1, <2>2, <2>3, NothingHandedOver DEF acceptVars, threadVars, ClientStep
  <1> QED  BY <1>1, <1>2 DEF ClientStep

(***************************************************************************)
(* The acceptors: a connection goes from the client to _acceptSocket, from *)
(* there to a socket, and from there to the list of its thread.            *)
(***************************************************************************)
LEMMA ThreadsStay ==
  ASSUME HandOver, UNCHANGED threadVars
  PROVE  /\ AtOwnSocket'
         /\ \A t : Registered(t)' = Registered(t)
         /\ ConnectionsExact'
  BY DEF HandOver, AtOwnSocket, threadVars, Registered, ConnectionsExact

LEMMA AcceptorMoves ==
  ASSUME HandOver, NEW a \in Acceptors, NEW place \in AcceptStates,
         NEW c \in Conns \cup {NoConn}, MoveTo(a, place, c)
  PROVE  /\ acceptor' \in [Acceptors -> [at : AcceptStates, thread : NetThreads,
                                         conn : Conns \cup {NoConn}]]
         /\ acceptor'[a].at = place /\ acceptor'[a].conn = c
         /\ acceptor'[a].thread = acceptor[a].thread
         /\ \A b \in Acceptors \ {a} : acceptor'[b] = acceptor[b]
  <1>1. acceptor \in [Acceptors -> [at : AcceptStates, thread : NetThreads,
                                    conn : Conns \cup {NoConn}]]
    BY DEF HandOver, HandOverTypes
  <1> QED  BY <1>1 DEF MoveTo

\* HandOver, of one acceptor and of one thread.
LEMMA AcceptorFacts ==
  ASSUME HandOver, NEW b \in Acceptors
  PROVE  /\ acceptor[b].thread \in NetThreads
         /\ Assigned(b) => acceptSocket[acceptor[b].thread] # NoConn
         /\ Created(b) =>
              /\ acceptor[b].conn \in Conns /\ client[acceptor[b].conn] # "away"
              /\ owner[acceptor[b].conn] = acceptor[b].thread
              /\ \A u \in NetThreads : acceptSocket[u] # acceptor[b].conn
              /\ \A u \in NetThreads : acceptor[b].conn \notin Registered(u)
  <1>1. acceptor[b].thread \in NetThreads  BY DEF HandOver, HandOverTypes
  <1>2. OnItsWay /\ OneThreadPerSocket  BY DEF HandOver
  <1> QED  BY <1>1, <1>2 DEF OnItsWay, OneThreadPerSocket, Created

LEMMA ThreadFacts ==
  ASSUME HandOver, NEW t \in NetThreads
  PROVE  /\ Registered(t) \subseteq Conns
         /\ \A c \in Registered(t) : owner[c] = t /\ client[c] # "away"
         /\ acceptSocket[t] \in Conns \cup {NoConn}
         /\ acceptSocket[t] # NoConn =>
              /\ client[acceptSocket[t]] # "away" /\ owner[acceptSocket[t]] = t
              /\ \A u \in NetThreads : acceptSocket[t] \notin Registered(u)
         /\ connections[t] \in Nat /\ IsFiniteSet(Registered(t))
         /\ connections[t] = Cardinality(Registered(t))
  <1>1. /\ newSockets[t] \subseteq Conns /\ sockets[t] \subseteq Conns
        /\ acceptSocket[t] \in Conns \cup {NoConn} /\ connections[t] \in Nat
        /\ IsFiniteSet(newSockets[t]) /\ IsFiniteSet(sockets[t])
    BY DEF HandOver, HandOverTypes
  <1>2. IsFiniteSet(Registered(t))  BY <1>1, FS_Union DEF Registered
  <1>3. OnItsWay /\ OneThreadPerSocket /\ ConnectionsExact  BY DEF HandOver
  <1> QED
    BY <1>1, <1>2, <1>3 DEF Registered, OnItsWay, OneThreadPerSocket, ConnectionsExact

LEMMA AcceptStep ==
  ASSUME HandOver, NEW a \in Acceptors, NEW c \in Conns, AcceptConnection(a, c)
  PROVE  HandOver'
  <1> USE NetworkAssumption
  <1>0. PICK t : t = acceptor[a].thread  OBVIOUS
  <1>1. t \in NetThreads  BY <1>0 DEF HandOver, HandOverTypes
  <1>2. UNCHANGED threadVars /\ client[c] = "away" /\ acceptor[a].at = "armed"
    BY DEF AcceptConnection
  <1>3. /\ \A u \in NetThreads : c \notin Registered(u) /\ acceptSocket[u] # c
        /\ \A b \in Acceptors : Created(b) => acceptor[b].conn # c
    BY <1>2 DEF HandOver, OnItsWay
  <1>4. CASE acceptSocket[t] = NoConn
    <2>1. /\ acceptSocket' = [acceptSocket EXCEPT ![t] = c]
          /\ owner' = [owner EXCEPT ![c] = t]
          /\ client' = [client EXCEPT ![c] = "open"]
          /\ MoveTo(a, "assigned", NoConn)
      BY <1>0, <1>4 DEF AcceptConnection
    <2>2. /\ acceptor' \in [Acceptors -> [at : AcceptStates, thread : NetThreads,
                                          conn : Conns \cup {NoConn}]]
          /\ acceptor'[a].at = "assigned" /\ acceptor'[a].thread = t
          /\ \A b \in Acceptors \ {a} : acceptor'[b] = acceptor[b]
      BY <2>1, <1>0, AcceptorMoves DEF AcceptStates
    <2>3. /\ acceptSocket'[t] = c
          /\ \A u \in NetThreads \ {t} : acceptSocket'[u] = acceptSocket[u]
          /\ owner'[c] = t /\ \A d \in Conns \ {c} : owner'[d] = owner[d]
          /\ client'[c] = "open" /\ \A d \in Conns \ {c} : client'[d] = client[d]
      BY <1>1, <2>1 DEF HandOver, HandOverTypes
    <2>4. HandOverTypes'
      BY <1>1, <1>2, <2>1, <2>2 DEF HandOver, HandOverTypes, threadVars
    <2>5. OnItsWay'
      <3>1. \A b \in Acceptors : Assigned(b) => acceptor[b].thread # t
        BY <1>4 DEF HandOver, OnItsWay
      <3>2. /\ \A b \in Acceptors \ {a} : (Created(b)' <=> Created(b))
                                          /\ (Assigned(b)' <=> Assigned(b))
            /\ Assigned(a)' /\ ~Created(a)'
        BY <2>2 DEF Created, Assigned
      <3>3. \A b \in Acceptors :
              /\ Assigned(b)' => acceptSocket'[acceptor'[b].thread] # NoConn
              /\ Created(b)' => /\ acceptor'[b].conn \in Conns
                                /\ client'[acceptor'[b].conn] # "away"
                                /\ \A u \in NetThreads : acceptSocket'[u] # acceptor'[b].conn
        <4> TAKE b \in Acceptors
        <4>1. CASE b = a
          BY <1>1, <2>2, <2>3, <3>2, <4>1
        <4>2. CASE b # a
          <5>1. acceptor'[b] = acceptor[b]  BY <2>2, <4>2
          <5>2. Assigned(b)' => acceptSocket'[acceptor'[b].thread] # NoConn
            <6>1. Assigned(b) => /\ acceptor[b].thread \in NetThreads \ {t}
                                 /\ acceptSocket[acceptor[b].thread] # NoConn
              BY <3>1, AcceptorFacts
            <6> QED  BY <2>3, <3>2, <4>2, <5>1, <6>1
          <5>3. Created(b)' => /\ acceptor'[b].conn \in Conns \ {c}
                               /\ client[acceptor[b].conn] # "away"
                               /\ \A u \in NetThreads : acceptSocket[u] # acceptor'[b].conn
            BY <1>3, <3>2, <4>2, <5>1, AcceptorFacts
          <5> QED  BY <2>3, <5>1, <5>2, <5>3
        <4> QED  BY <4>1, <4>2
      <3>4. \A b, d \in Acceptors : b # d =>
              /\ Assigned(b)' /\ Assigned(d)' => acceptor'[b].thread # acceptor'[d].thread
              /\ Created(b)' /\ Created(d)' => acceptor'[b].conn # acceptor'[d].conn
        BY <2>2, <3>1, <3>2 DEF HandOver, OnItsWay
      <3>5. \A u \in NetThreads : acceptSocket'[u] # NoConn =>
              /\ client'[acceptSocket'[u]] # "away" /\ owner'[acceptSocket'[u]] = u
              /\ \A v \in NetThreads : acceptSocket'[u] \notin Registered(v)'
        BY <1>2, <1>3, <2>3, ThreadsStay DEF HandOver, HandOverTypes, OnItsWay
      <3>6. \A u \in NetThreads : \A d \in Registered(u)' : client'[d] # "away"
        <4>1. \A u \in NetThreads : Registered(u) \subseteq Conns
          BY DEF HandOver, HandOverTypes, Registered
        <4> QED  BY <1>2, <1>3, <2>3, <4>1, ThreadsStay DEF HandOver, OnItsWay
      <3> QED  BY <3>3, <3>4, <3>5, <3>6 DEF OnItsWay
    <2>6. OneThreadPerSocket'
      <3>1. \A u \in NetThreads : Registered(u) \subseteq Conns
        BY DEF HandOver, HandOverTypes, Registered
      <3>2. \A u \in NetThreads : \A d \in Registered(u)' : owner'[d] = u
        BY <1>2, <1>3, <2>3, <3>1, ThreadsStay DEF HandOver, OneThreadPerSocket
      <3>3. ASSUME NEW b \in Acceptors, acceptor'[b].at = "created"
            PROVE  /\ owner'[acceptor'[b].conn] = acceptor'[b].thread
                   /\ \A u \in NetThreads : acceptor'[b].conn \notin Registered(u)'
        <4>1. b # a /\ acceptor'[b] = acceptor[b] /\ Created(b)
          BY <2>2, <3>3 DEF Created
        <4>2. acceptor[b].conn \in Conns \ {c}
          BY <1>3, <4>1 DEF HandOver, OnItsWay
        <4> QED
          BY <1>2, <2>3, <4>1, <4>2, ThreadsStay DEF HandOver, OneThreadPerSocket, Created
      <3> QED  BY <3>2, <3>3 DEF OneThreadPerSocket
    <2> QED  BY <1>2, <2>4, <2>5, <2>6, ThreadsStay DEF HandOver
  <1>5. CASE acceptSocket[t] # NoConn
    <2>1. /\ client' = [client EXCEPT ![c] = "gone"] /\ MoveTo(a, "rearm", NoConn)
          /\ UNCHANGED <<acceptSocket, owner>>
      BY <1>0, <1>5 DEF AcceptConnection, Dropped
    <2>2. /\ acceptor' \in [Acceptors -> [at : AcceptStates, thread : NetThreads,
                                          conn : Conns \cup {NoConn}]]
          /\ acceptor'[a].at = "rearm"
          /\ \A b \in Acceptors \ {a} : acceptor'[b] = acceptor[b]
      BY <2>1, AcceptorMoves DEF AcceptStates
    <2>3. client'[c] = "gone" /\ \A d \in Conns \ {c} : client'[d] = client[d]
      BY <2>1 DEF HandOver, HandOverTypes
    <2>4. HandOverTypes'
      BY <1>2, <2>1, <2>2 DEF HandOver, HandOverTypes, threadVars
    <2>5. /\ \A b \in Acceptors \ {a} : (Created(b)' <=> Created(b))
                                        /\ (Assigned(b)' <=> Assigned(b))
          /\ ~Assigned(a)' /\ ~Created(a)'
      BY <2>2 DEF Created, Assigned
    <2>6. \A u \in NetThreads : Registered(u) \subseteq Conns
      BY DEF HandOver, HandOverTypes, Registered
    <2>7. OnItsWay'
      BY <1>2, <2>1, <2>2, <2>3, <2>5, <2>6, ThreadsStay
         DEF HandOver, HandOverTypes, OnItsWay
    <2>8. OneThreadPerSocket'
      BY <1>2, <2>1, <2>2, ThreadsStay DEF HandOver, OneThreadPerSocket
    <2> QED  BY <1>2, <2>4, <2>7, <2>8, ThreadsStay DEF HandOver
  <1> QED  BY <1>4, <1>5

\* The handler takes the connection out of _acceptSocket, into a socket or not.
LEMMA OpenStep ==
  ASSUME HandOver, NEW a \in Acceptors, OnSocketOpen(a)
  PROVE  HandOver'
  <1> USE NetworkAssumption
  <1>0. PICK t, c : t = acceptor[a].thread /\ c = acceptSocket[t]  OBVIOUS
  <1>1. t \in NetThreads /\ Assigned(a)
    BY <1>0 DEF HandOver, HandOverTypes, OnSocketOpen, Assigned
  <1>2. c # NoConn /\ c \in Conns
    BY <1>0, <1>1 DEF HandOver, HandOverTypes, OnItsWay
  <1>3. UNCHANGED <<client, owner>> /\ UNCHANGED threadVars
    BY DEF OnSocketOpen, socketVars
  <1>4. PICK place \in {"rearm", "created"}, d \in {c, NoConn} :
          MoveTo(a, place, d) /\ (place = "created" => d = c)
    BY <1>0 DEF OnSocketOpen
  <1>5. /\ acceptor' \in [Acceptors -> [at : AcceptStates, thread : NetThreads,
                                        conn : Conns \cup {NoConn}]]
        /\ acceptor'[a].at = place /\ acceptor'[a].conn = d /\ acceptor'[a].thread = t
        /\ \A b \in Acceptors \ {a} : acceptor'[b] = acceptor[b]
    BY <1>0, <1>2, <1>4, AcceptorMoves DEF AcceptStates
  <1>6. /\ acceptSocket' \in [NetThreads -> Conns \cup {NoConn}]
        /\ acceptSocket'[t] = NoConn
        /\ \A u \in NetThreads \ {t} : acceptSocket'[u] = acceptSocket[u]
    BY <1>0, <1>1 DEF OnSocketOpen, HandOver, HandOverTypes
  <1>7. HandOverTypes'
    BY <1>3, <1>5, <1>6 DEF HandOver, HandOverTypes, threadVars
  <1>8. /\ client[c] # "away" /\ owner[c] = t
        /\ \A u \in NetThreads : c \notin Registered(u)
        /\ \A u \in NetThreads \ {t} : acceptSocket[u] # c
        /\ \A b \in Acceptors : Created(b) => acceptor[b].conn # c
    BY <1>0, <1>1, <1>2 DEF HandOver, OnItsWay
  <1>9. /\ \A b \in Acceptors \ {a} : (Created(b)' <=> Created(b))
                                      /\ (Assigned(b)' <=> Assigned(b))
        /\ ~Assigned(a)' /\ (Created(a)' => d = c)
    BY <1>4, <1>5 DEF Created, Assigned
  <1>10. OnItsWay'
    <2>1. ASSUME NEW b \in Acceptors
          PROVE  /\ Assigned(b)' => acceptSocket'[acceptor'[b].thread] # NoConn
                 /\ Created(b)' => /\ acceptor'[b].conn \in Conns
                                   /\ client'[acceptor'[b].conn] # "away"
                                   /\ \A u \in NetThreads : acceptSocket'[u] # acceptor'[b].conn
      <3>1. CASE b = a
        BY <1>2, <1>3, <1>5, <1>6, <1>8, <1>9, <3>1
      <3>2. CASE b # a
        <4>1. acceptor'[b] = acceptor[b]  BY <1>5, <3>2
        <4>2. Assigned(b) => acceptor[b].thread # t
          BY <1>0, <1>1, <3>2 DEF HandOver, OnItsWay
        <4>3. Assigned(b)' => acceptSocket'[acceptor'[b].thread] # NoConn
          BY <1>6, <1>9, <3>2, <4>1, <4>2, AcceptorFacts
        <4>4. Created(b) => /\ acceptor[b].conn \in Conns
                            /\ client[acceptor[b].conn] # "away"
                            /\ \A u \in NetThreads : acceptSocket[u] # acceptor[b].conn
          BY AcceptorFacts
        <4>5. acceptor[b].conn \in Conns => acceptor[b].conn # NoConn
          OBVIOUS
        <4> QED  BY <1>3, <1>6, <1>9, <3>2, <4>1, <4>3, <4>4, <4>5
      <3> QED  BY <3>1, <3>2
    <2>2. \A b, e \in Acceptors : b # e =>
            /\ Assigned(b)' /\ Assigned(e)' => acceptor'[b].thread # acceptor'[e].thread
            /\ Created(b)' /\ Created(e)' => acceptor'[b].conn # acceptor'[e].conn
      BY <1>5, <1>8, <1>9 DEF HandOver, OnItsWay
    <2>3. \A u \in NetThreads : acceptSocket'[u] # NoConn =>
            /\ client'[acceptSocket'[u]] # "away" /\ owner'[acceptSocket'[u]] = u
            /\ \A v \in NetThreads : acceptSocket'[u] \notin Registered(v)'
      BY <1>3, <1>6, ThreadsStay DEF HandOver, OnItsWay
    <2>4. \A u \in NetThreads : \A x \in Registered(u)' : client'[x] # "away"
      BY <1>3, ThreadsStay DEF HandOver, OnItsWay
    <2> QED  BY <2>1, <2>2, <2>3, <2>4 DEF OnItsWay
  <1>11. OneThreadPerSocket'
    <2>1. \A u \in NetThreads : \A x \in Registered(u)' : owner'[x] = u
      BY <1>3, ThreadsStay, ThreadFacts
    <2>2. ASSUME NEW b \in Acceptors, acceptor'[b].at = "created"
          PROVE  /\ owner'[acceptor'[b].conn] = acceptor'[b].thread
                 /\ \A u \in NetThreads : acceptor'[b].conn \notin Registered(u)'
      <3>1. CASE b = a
        BY <1>3, <1>5, <1>8, <1>9, <2>2, <3>1, ThreadsStay DEF Created
      <3>2. CASE b # a
        BY <1>3, <1>5, <2>2, <3>2, ThreadsStay, AcceptorFacts DEF Created
      <3> QED  BY <3>1, <3>2
    <2> QED  BY <2>1, <2>2 DEF OneThreadPerSocket
  <1> QED  BY <1>3, <1>7, <1>10, <1>11, ThreadsStay DEF HandOver

\* The acceptor goes on without a connection: it left it behind, or starts over.
LEMMA AcceptorGoesOn ==
  ASSUME HandOver, NEW a \in Acceptors,
         UNCHANGED <<client, acceptSocket, owner>>, UNCHANGED threadVars,
         acceptor' \in [Acceptors -> [at : AcceptStates, thread : NetThreads,
                                      conn : Conns \cup {NoConn}]],
         acceptor'[a].at \in {"rearm", "armed"},
         \A b \in Acceptors \ {a} : acceptor'[b] = acceptor[b]
  PROVE  HandOver'
  <1>1. HandOverTypes'  BY DEF HandOver, HandOverTypes, threadVars
  <1>2. /\ \A b \in Acceptors \ {a} : (Created(b)' <=> Created(b))
                                      /\ (Assigned(b)' <=> Assigned(b))
        /\ ~Assigned(a)' /\ ~Created(a)'
    BY DEF Created, Assigned
  <1>3. OnItsWay'  BY <1>2, ThreadsStay DEF HandOver, OnItsWay
  <1>4. OneThreadPerSocket'
    BY <1>2, ThreadsStay DEF HandOver, OneThreadPerSocket, Created
  <1> QED  BY <1>1, <1>3, <1>4, ThreadsStay DEF HandOver

\* AddSocket: counted and registered with the thread that owns it.
LEMMA AddStep ==
  ASSUME HandOver, NEW a \in Acceptors, AddSocket(a)
  PROVE  HandOver'
  <1> USE NetworkAssumption
  <1>0. PICK t, c : t = acceptor[a].thread /\ c = acceptor[a].conn  OBVIOUS
  <1>1. t \in NetThreads /\ c \in Conns /\ Created(a)
    BY <1>0 DEF HandOver, HandOverTypes, OnItsWay, AddSocket, Created
  <1>2. /\ connections' = [connections EXCEPT ![t] = @ + 1]
        /\ newSockets' = [newSockets EXCEPT ![t] = @ \cup {c}]
        /\ MoveTo(a, "rearm", NoConn)
        /\ UNCHANGED <<client, acceptSocket, owner, sockets, net>>
    BY <1>0 DEF AddSocket, OwnerOf, socketVars
  <1>3. /\ acceptor' \in [Acceptors -> [at : AcceptStates, thread : NetThreads,
                                        conn : Conns \cup {NoConn}]]
        /\ acceptor'[a].at = "rearm"
        /\ \A b \in Acceptors \ {a} : acceptor'[b] = acceptor[b]
    BY <1>2, AcceptorMoves DEF AcceptStates
  <1>4. /\ connections'[t] = connections[t] + 1 /\ newSockets'[t] = newSockets[t] \cup {c}
        /\ \A u \in NetThreads \ {t} :
               connections'[u] = connections[u] /\ newSockets'[u] = newSockets[u]
    BY <1>1, <1>2 DEF HandOver, HandOverTypes
  <1>5. /\ Registered(t)' = Registered(t) \cup {c}
        /\ \A u \in NetThreads \ {t} : Registered(u)' = Registered(u)
    BY <1>2, <1>4 DEF Registered
  <1>6. /\ client[c] # "away" /\ owner[c] = t
        /\ \A u \in NetThreads : c \notin Registered(u) /\ acceptSocket[u] # c
        /\ \A b \in Acceptors \ {a} : Created(b) => acceptor[b].conn # c
    BY <1>0, <1>1 DEF HandOver, OnItsWay, OneThreadPerSocket, Created
  <1>7. HandOverTypes'
    <2>1. connections' \in [NetThreads -> Nat]
      <3>1. connections \in [NetThreads -> Nat]  BY DEF HandOver, HandOverTypes
      <3> QED  BY <1>1, <1>2, <3>1
    <2>2. newSockets' \in [NetThreads -> SUBSET Conns]
      BY <1>1, <1>2 DEF HandOver, HandOverTypes
    <2>3. \A u \in NetThreads : IsFiniteSet(newSockets'[u]) /\ IsFiniteSet(sockets'[u])
      BY <1>2, <1>4, FS_AddElement DEF HandOver, HandOverTypes
    <2> QED  BY <1>2, <1>3, <2>1, <2>2, <2>3 DEF HandOver, HandOverTypes
  <1>8. AtOwnSocket'  BY <1>2 DEF HandOver, AtOwnSocket
  <1>9. /\ \A b \in Acceptors \ {a} : (Created(b)' <=> Created(b))
                                      /\ (Assigned(b)' <=> Assigned(b))
        /\ ~Assigned(a)' /\ ~Created(a)'
    BY <1>3 DEF Created, Assigned
  <1>10. OnItsWay'
    BY <1>2, <1>3, <1>5, <1>6, <1>9 DEF HandOver, OnItsWay
  <1>11. ConnectionsExact'
    <2>1. IsFiniteSet(Registered(t))
      BY <1>1, FS_Union DEF HandOver, HandOverTypes, Registered
    <2>2. Cardinality(Registered(t)') = Cardinality(Registered(t)) + 1
      BY <1>5, <1>6, <1>1, <2>1, FS_AddElement
    <2>3. connections'[t] = Cardinality(Registered(t)')
      BY <1>1, <1>4, <2>2 DEF HandOver, ConnectionsExact
    <2>4. \A u \in NetThreads \ {t} : connections'[u] = Cardinality(Registered(u)')
      BY <1>4, <1>5 DEF HandOver, ConnectionsExact
    <2>5. \A u \in NetThreads : newSockets'[u] \cap sockets'[u] = {}
      <3> TAKE u \in NetThreads
      <3>1. newSockets[u] \cap sockets[u] = {} /\ c \notin sockets[u]
        BY <1>6 DEF HandOver, ConnectionsExact, Registered
      <3>2. newSockets'[u] \subseteq newSockets[u] \cup {c} /\ sockets'[u] = sockets[u]
        BY <1>2, <1>4
      <3> QED  BY <3>1, <3>2
    <2> QED  BY <2>3, <2>4, <2>5 DEF ConnectionsExact
  <1>12. OneThreadPerSocket'
    <2>1. \A u \in NetThreads : \A x \in Registered(u)' : owner'[x] = u
      BY <1>2, <1>5, <1>6, ThreadFacts
    <2>2. ASSUME NEW b \in Acceptors, acceptor'[b].at = "created"
          PROVE  /\ owner'[acceptor'[b].conn] = acceptor'[b].thread
                 /\ \A u \in NetThreads : acceptor'[b].conn \notin Registered(u)'
      BY <1>2, <1>3, <1>5, <1>6, <2>2 DEF HandOver, OneThreadPerSocket, Created
    <2> QED  BY <2>1, <2>2 DEF OneThreadPerSocket
  <1> QED  BY <1>7, <1>8, <1>10, <1>11, <1>12 DEF HandOver

\* Some thread has the fewest connections: AsyncAccept chooses one there is.
LEMMA LeastOfNaturals ==
  ASSUME NEW S, S \subseteq Nat, S # {}
  PROVE  \E m \in S : \A n \in S : m <= n
  <1>1. PICK m \in S : \A n \in S : <<n, m>> \notin OpToRel(<, Nat)
    BY WFMin, NatLessThanWellFounded, Zenon
  <1>2. \A n \in S : m \in Nat /\ n \in Nat /\ ~(n < m)
    BY <1>1, Zenon DEF OpToRel
  <1> QED  BY <1>2

LEMMA SelectedThread ==
  ASSUME HandOver
  PROVE  SelectThreadWithMinConnections \in NetThreads
  <1> USE NetworkAssumption
  <1>1. \A t \in NetThreads : connections[t] \in Nat  BY ThreadFacts
  <1>2. PICK m \in {connections[t] : t \in NetThreads} :
          \A n \in {connections[t] : t \in NetThreads} : m <= n
    <2> DEFINE loads == {connections[t] : t \in NetThreads}
    <2>1. loads \subseteq Nat /\ loads # {}  BY <1>1
    <2> QED  BY <2>1, LeastOfNaturals
  <1>3. PICK t \in {u \in NetThreads : connections[u] = m} :
          \A u \in {v \in NetThreads : connections[v] = m} : t <= u
    <2> DEFINE least == {u \in NetThreads : connections[u] = m}
    <2>1. least \subseteq Nat /\ least # {}  BY <1>2
    <2> QED  BY <2>1, LeastOfNaturals
  <1>4. ASSUME NEW u \in NetThreads
        PROVE  \/ connections[t] < connections[u]
               \/ connections[t] = connections[u] /\ t <= u
    <2>1. m <= connections[u] /\ connections[t] = m /\ connections[u] \in Nat /\ m \in Nat
      BY <1>1, <1>2, <1>3
    <2> QED  BY <1>3, <2>1
  <1> QED  BY <1>3, <1>4 DEF SelectThreadWithMinConnections

LEMMA AcceptorSteps ==
  ASSUME HandOver, NEW a \in Acceptors, AcceptorStep(a)
  PROVE  HandOver'
  <1>1. CASE OnSocketOpen(a)  BY <1>1, OpenStep
  <1>2. CASE OptionError(a)
    <2>1. MoveTo(a, "rearm", NoConn) /\ UNCHANGED <<client, acceptSocket, owner>>
          /\ UNCHANGED threadVars
      BY <1>2 DEF OptionError, socketVars
    <2>2. /\ acceptor' \in [Acceptors -> [at : AcceptStates, thread : NetThreads,
                                          conn : Conns \cup {NoConn}]]
          /\ acceptor'[a].at = "rearm"
          /\ \A b \in Acceptors \ {a} : acceptor'[b] = acceptor[b]
      BY <2>1, AcceptorMoves DEF AcceptStates
    <2> QED  BY <2>1, <2>2, AcceptorGoesOn
  <1>3. CASE AddSocket(a)  BY <1>3, AddStep
  <1>4. CASE AsyncAccept(a)
    <2> DEFINE t == SelectThreadWithMinConnections
    <2>1. t \in NetThreads  BY SelectedThread
    <2> HIDE DEF t
    <2>2. /\ acceptor' = [acceptor EXCEPT ![a].at = "armed", ![a].thread = t]
          /\ UNCHANGED <<client, acceptSocket, owner>> /\ UNCHANGED threadVars
      BY <1>4 DEF AsyncAccept, socketVars, t
    <2>3. /\ acceptor' \in [Acceptors -> [at : AcceptStates, thread : NetThreads,
                                          conn : Conns \cup {NoConn}]]
          /\ acceptor'[a].at = "armed"
          /\ \A b \in Acceptors \ {a} : acceptor'[b] = acceptor[b]
      <3>1. acceptor \in [Acceptors -> [at : AcceptStates, thread : NetThreads,
                                        conn : Conns \cup {NoConn}]]
        BY DEF HandOver, HandOverTypes
      <3>2. "armed" \in AcceptStates  BY DEF AcceptStates
      <3> QED  BY <2>1, <2>2, <3>1, <3>2
    <2> QED  BY <2>2, <2>3, AcceptorGoesOn
  <1> QED  BY <1>1, <1>2, <1>3, <1>4 DEF AcceptorStep

(***************************************************************************)
(* The network threads.  AddNewSockets moves what is registered from one   *)
(* list to the other; a closed socket leaves the list and the count.       *)
(***************************************************************************)
LEMMA ListsChange ==
  ASSUME HandOver, UNCHANGED <<client, acceptVars>>,
         NEW t \in NetThreads,
         connections' \in [NetThreads -> Nat],
         newSockets' \in [NetThreads -> SUBSET Conns],
         sockets' \in [NetThreads -> SUBSET Conns],
         net' \in [NetThreads -> [at : NetStates, conn : Conns \cup {NoConn},
                                  left : SUBSET Conns]],
         \A u \in NetThreads \ {t} :
             /\ connections'[u] = connections[u] /\ newSockets'[u] = newSockets[u]
             /\ sockets'[u] = sockets[u] /\ net'[u] = net[u],
         Registered(t)' \subseteq Registered(t),
         IsFiniteSet(newSockets'[t]), IsFiniteSet(sockets'[t]),
         connections'[t] = Cardinality(Registered(t)'),
         newSockets'[t] \cap sockets'[t] = {},
         net'[t].at \in {"run", "sockets"}, net'[t].left \subseteq sockets'[t]
  PROVE  HandOver'
  <1> USE NetworkAssumption
  <1>1. \A u \in NetThreads \ {t} : Registered(u)' = Registered(u)  BY DEF Registered
  <1>2. \A u \in NetThreads : Registered(u)' \subseteq Registered(u)  BY <1>1
  <1>3. HandOverTypes'  BY DEF HandOver, HandOverTypes, acceptVars
  <1>4. AtOwnSocket'  BY DEF HandOver, AtOwnSocket
  <1>5. OnItsWay'
    <2>1. \A a \in Acceptors : (Created(a)' <=> Created(a)) /\ (Assigned(a)' <=> Assigned(a))
      BY DEF Created, Assigned, acceptVars
    <2>2. /\ acceptor' = acceptor /\ acceptSocket' = acceptSocket
          /\ owner' = owner /\ client' = client
      BY DEF acceptVars
    <2>3. \A u \in NetThreads : \A c \in Registered(u)' : client'[c] # "away"
      BY <1>2, <2>2, ThreadFacts
    <2>4. \A u \in NetThreads : acceptSocket'[u] # NoConn =>
            /\ client'[acceptSocket'[u]] # "away" /\ owner'[acceptSocket'[u]] = u
            /\ \A v \in NetThreads : acceptSocket'[u] \notin Registered(v)'
      BY <1>2, <2>2, ThreadFacts
    <2>5. \A a, b \in Acceptors : a # b =>
            /\ Assigned(a) /\ Assigned(b) => acceptor[a].thread # acceptor[b].thread
            /\ Created(a) /\ Created(b) => acceptor[a].conn # acceptor[b].conn
      BY DEF HandOver, OnItsWay
    <2> QED  BY <2>1, <2>2, <2>3, <2>4, <2>5, AcceptorFacts DEF OnItsWay
  <1>6. ConnectionsExact'  BY <1>1 DEF HandOver, ConnectionsExact
  <1>7. OneThreadPerSocket'
    BY <1>2 DEF HandOver, OneThreadPerSocket, acceptVars
  <1> QED  BY <1>3, <1>4, <1>5, <1>6, <1>7 DEF HandOver

LEMMA BeginStep ==
  ASSUME HandOver, NEW t \in NetThreads, BeginUpdate(t)
  PROVE  HandOver'
  <1>1. /\ connections \in [NetThreads -> Nat]
        /\ newSockets \in [NetThreads -> SUBSET Conns]
        /\ sockets \in [NetThreads -> SUBSET Conns]
        /\ net \in [NetThreads -> [at : NetStates, conn : Conns \cup {NoConn},
                                   left : SUBSET Conns]]
        /\ IsFiniteSet(newSockets[t]) /\ IsFiniteSet(sockets[t])
    BY DEF HandOver, HandOverTypes
  <1>2. /\ sockets' = [sockets EXCEPT ![t] = @ \cup newSockets[t]]
        /\ newSockets' = [newSockets EXCEPT ![t] = {}]
        /\ net' = [net EXCEPT ![t].at = "sockets", ![t].left = sockets'[t]]
        /\ UNCHANGED <<client, acceptVars, connections>>
    BY DEF BeginUpdate, socketVars
  <1>3. /\ sockets' \in [NetThreads -> SUBSET Conns]
        /\ sockets'[t] = sockets[t] \cup newSockets[t]
        /\ newSockets' \in [NetThreads -> SUBSET Conns] /\ newSockets'[t] = {}
        /\ \A u \in NetThreads \ {t} :
               newSockets'[u] = newSockets[u] /\ sockets'[u] = sockets[u]
    BY <1>1, <1>2
  <1>4. /\ net' \in [NetThreads -> [at : NetStates, conn : Conns \cup {NoConn},
                                    left : SUBSET Conns]]
        /\ net'[t].at = "sockets" /\ net'[t].left = sockets'[t]
        /\ \A u \in NetThreads \ {t} : net'[u] = net[u]
    <2>1. PICK left \in SUBSET Conns : left = sockets'[t]  BY <1>3
    <2>2. net' = [net EXCEPT ![t].at = "sockets", ![t].left = left]  BY <1>2, <2>1
    <2>3. "sockets" \in NetStates  BY DEF NetStates
    <2> QED  BY <1>1, <2>1, <2>2, <2>3
  <1>5. IsFiniteSet(newSockets'[t]) /\ IsFiniteSet(sockets'[t])
    <2>1. IsFiniteSet({})  BY FS_EmptySet
    <2>2. IsFiniteSet(sockets[t] \cup newSockets[t])  BY <1>1, FS_Union
    <2> QED  BY <1>3, <2>1, <2>2
  <1>6. Registered(t)' = Registered(t)  BY <1>3 DEF Registered
  <1>7. connections'[t] = Cardinality(Registered(t)')
    BY <1>2, <1>6, ThreadFacts
  <1>8. newSockets'[t] \cap sockets'[t] = {} /\ net'[t].left \subseteq sockets'[t]
    BY <1>3, <1>4
  <1>9. UNCHANGED <<client, acceptVars>> /\ connections' = connections
    BY <1>2
  <1> QED  BY <1>1, <1>3, <1>4, <1>5, <1>6, <1>7, <1>8, <1>9, ListsChange

LEMMA RemoveStep ==
  ASSUME HandOver, NEW t \in NetThreads, RemoveClosed(t)
  PROVE  HandOver'
  <1> DEFINE c == net[t].conn
  <1>1. /\ connections \in [NetThreads -> Nat]
        /\ newSockets \in [NetThreads -> SUBSET Conns]
        /\ sockets \in [NetThreads -> SUBSET Conns]
        /\ net \in [NetThreads -> [at : NetStates, conn : Conns \cup {NoConn},
                                   left : SUBSET Conns]]
        /\ IsFiniteSet(newSockets[t]) /\ IsFiniteSet(sockets[t])
        /\ newSockets[t] \cap sockets[t] = {}
    BY DEF HandOver, HandOverTypes, ConnectionsExact
  <1>2. c \in sockets[t] /\ c \notin net[t].left /\ net[t].left \subseteq sockets[t]
    BY DEF RemoveClosed, HandOver, AtOwnSocket
  <1>3. /\ sockets' = [sockets EXCEPT ![t] = @ \ {c}]
        /\ connections' = [connections EXCEPT ![t] = @ - 1]
        /\ net' = [net EXCEPT ![t].at = "sockets", ![t].conn = NoConn]
        /\ UNCHANGED <<client, acceptVars, newSockets>>
    BY DEF RemoveClosed, RemoveSocket, NetGoto, socketVars
  <1> HIDE DEF c
  <1>4. /\ sockets' \in [NetThreads -> SUBSET Conns]
        /\ sockets'[t] = sockets[t] \ {c}
        /\ \A u \in NetThreads \ {t} : sockets'[u] = sockets[u]
    BY <1>1, <1>3
  <1>5. /\ net' \in [NetThreads -> [at : NetStates, conn : Conns \cup {NoConn},
                                    left : SUBSET Conns]]
        /\ net'[t].at = "sockets" /\ net'[t].left = net[t].left
        /\ \A u \in NetThreads \ {t} : net'[u] = net[u]
    BY <1>1, <1>3 DEF NetStates
  <1>6. Registered(t)' = Registered(t) \ {c} /\ c \in Registered(t)
    BY <1>1, <1>2, <1>3, <1>4 DEF Registered
  <1>7. connections[t] = Cardinality(Registered(t)) /\ IsFiniteSet(Registered(t))
    BY ThreadFacts
  <1>8. Cardinality(Registered(t)') = connections[t] - 1
    BY <1>6, <1>7, FS_RemoveElement
  <1>9. Cardinality(Registered(t)') \in Nat
    BY <1>6, <1>7, FS_RemoveElement, FS_CardinalityType
  <1>10. /\ connections'[t] = Cardinality(Registered(t)')
         /\ connections' \in [NetThreads -> Nat]
         /\ \A u \in NetThreads \ {t} : connections'[u] = connections[u]
    BY <1>1, <1>3, <1>8, <1>9
  <1>11. IsFiniteSet(newSockets'[t]) /\ IsFiniteSet(sockets'[t])
    BY <1>1, <1>3, <1>4, FS_RemoveElement
  <1>12. newSockets'[t] \cap sockets'[t] = {}  BY <1>1, <1>3, <1>4
  <1>13. net'[t].left \subseteq sockets'[t]  BY <1>2, <1>4, <1>5
  <1>14. newSockets' \in [NetThreads -> SUBSET Conns]
         /\ \A u \in NetThreads : newSockets'[u] = newSockets[u]
    BY <1>1, <1>3
  <1> QED
    BY <1>3, <1>4, <1>5, <1>6, <1>10, <1>11, <1>12, <1>13, <1>14, ListsChange

\* At one of its sockets, a thread takes the next, looks at it, writes or
\* handles an answer; the lists stay as they are.
LEMMA AtOneSocket ==
  ASSUME HandOver, NEW t \in NetThreads,
         \/ \E c \in Conns : UpdateSocket(t, c)
         \/ CheckQueue(t) \/ WriteQueue(t) \/ NoCallback(t) \/ EndUpdate(t)
         \/ Answered(t, "ip") \/ Answered(t, "auth")
  PROVE  HandOver'
  <1>0. net \in [NetThreads -> [at : NetStates, conn : Conns \cup {NoConn},
                                left : SUBSET Conns]]
    BY DEF HandOver, HandOverTypes
  <1>1. ASSUME NEW c \in Conns, UpdateSocket(t, c) PROVE HandOver'
    <2>1. /\ UNCHANGED <<client, acceptVars, connections, newSockets, sockets>>
          /\ c \in net[t].left
          /\ net' = [net EXCEPT ![t].at = "flushed", ![t].conn = c, ![t].left = @ \ {c}]
      BY <1>1 DEF UpdateSocket
    <2>2. /\ net' \in [NetThreads -> [at : NetStates, conn : Conns \cup {NoConn},
                                      left : SUBSET Conns]]
          /\ net'[t].at = "flushed" /\ net'[t].conn = c /\ net'[t].left = net[t].left \ {c}
          /\ \A u \in NetThreads \ {t} : net'[u] = net[u]
      BY <1>0, <2>1 DEF NetStates
    <2>3. net[t].left \subseteq sockets[t]  BY DEF HandOver, AtOwnSocket
    <2>4. net[t].left \ {c} \in SUBSET Conns  BY <1>0
    <2>5. "flushed" \in NetStates  BY DEF NetStates
    <2> QED  BY <2>1, <2>2, <2>3, <2>4, <2>5, NetMoves
  <1>2. CASE CheckQueue(t)
    <2>1. PICK place \in {"callbacks", "write"} : NetGoto(t, place, net[t].conn)
      BY <1>2 DEF CheckQueue
    <2>2. /\ UNCHANGED <<client, acceptVars, connections, newSockets, sockets>>
          /\ net[t].at = "flushed" /\ place \in NetStates
          /\ net[t].conn \in Conns \cup {NoConn}
      BY <1>0, <1>2 DEF CheckQueue, socketVars, NetStates
    <2> QED  BY <2>1, <2>2, NetGoes
  <1>3. CASE WriteQueue(t)
    <2>1. /\ UNCHANGED <<client, acceptVars, connections, newSockets, sockets>>
          /\ net[t].at = "write"
          /\ UNCHANGED net \/ NetGoto(t, "callbacks", net[t].conn)
      BY <1>3 DEF WriteQueue
    <2>2. CASE UNCHANGED net  BY <2>1, <2>2, SocketMoves DEF threadVars
    <2>3. CASE NetGoto(t, "callbacks", net[t].conn)
      <3>1. "callbacks" \in NetStates /\ net[t].conn \in Conns \cup {NoConn}
        BY <1>0 DEF NetStates
      <3> QED  BY <2>1, <2>3, <3>1, NetGoes
    <2> QED  BY <2>1, <2>2, <2>3
  <1>4. CASE NoCallback(t) \/ Answered(t, "ip") \/ Answered(t, "auth")
    <2>1. /\ UNCHANGED <<client, acceptVars, connections, newSockets, sockets>>
          /\ NetGoto(t, "sockets", NoConn)
      BY <1>4 DEF NoCallback, Answered, socketVars
    <2>2. "sockets" \in NetStates  BY DEF NetStates
    <2> QED  BY <2>1, <2>2, NetGoes
  <1>5. CASE EndUpdate(t)
    <2>1. /\ UNCHANGED <<client, acceptVars, connections, newSockets, sockets>>
          /\ NetGoto(t, "run", NoConn)
      BY <1>5 DEF EndUpdate, socketVars
    <2>2. "run" \in NetStates  BY DEF NetStates
    <2> QED  BY <2>1, <2>2, NetGoes
  <1> QED  BY <1>1, <1>2, <1>3, <1>4, <1>5

LEMMA ThreadSteps ==
  ASSUME HandOver, NEW t \in NetThreads, ThreadStep(t)
  PROVE  HandOver'
  <1>1. Banned(t) \/ Greet(t) => Answered(t, "ip")  BY DEF Banned, Greet
  <1>2. Refuse(t) \/ Accept(t) => Answered(t, "auth")  BY DEF Refuse, Accept
  <1> QED
    BY <1>1, <1>2, BeginStep, RemoveStep, AtOneSocket DEF ThreadStep

(***************************************************************************)
(* The read and write handlers and the senders only touch the sockets.     *)
(***************************************************************************)
LEMMA HandlerSteps ==
  ASSUME HandOver, NEW c \in Conns, Handler(c)
  PROVE  HandOver'
  <1>1. UNCHANGED <<client, acceptVars, threadVars>>
    BY DEF Handler, ReadError, ReadPackets, ReadMalformed, ReadAuth, WriteReady
  <1> QED  BY <1>1, SocketMoves

LEMMA SenderSteps ==
  ASSUME HandOver, NEW s \in Senders, SenderStep(s)
  PROVE  HandOver'
  <1>1. UNCHANGED <<client, acceptVars, threadVars>>
    BY DEF SenderStep, CallSendPacket, EnqueueExchange, EnqueueLink,
           SenderCloses, SenderDelaysClose, socketVars
  <1> QED  BY <1>1, SocketMoves

\* Every step of the specification keeps HandOver.
THEOREM HandOverStep == HandOver /\ [Next]_vars => HandOver'
  <1> SUFFICES ASSUME HandOver, [Next]_vars PROVE HandOver'  OBVIOUS
  <1>1. CASE Next
    <2>1. CASE \E a \in Acceptors : \/ \E c \in Conns : AcceptConnection(a, c)
                                    \/ AcceptorStep(a)
      BY <2>1, AcceptStep, AcceptorSteps
    <2>2. CASE \E t \in NetThreads : ThreadStep(t)  BY <2>2, ThreadSteps
    <2>3. CASE \E c \in Conns : Handler(c) \/ ClientStep(c)
      BY <2>3, HandlerSteps, ClientMoves
    <2>4. CASE \E s \in Senders : SenderStep(s)  BY <2>4, SenderSteps
    <2> QED  BY <1>1, <2>1, <2>2, <2>3, <2>4 DEF Next
  <1>2. CASE UNCHANGED vars
    BY <1>2, SocketMoves DEF vars, socketVars
  <1> QED  BY <1>1, <1>2

(***************************************************************************)
(* Whatever the number of threads, acceptors and senders, a thread's       *)
(* _connections counts exactly its sockets: NetworkThread::AddSocket and   *)
(* Update never let it drift, so that SelectThreadWithMinConnections       *)
(* distributes connections by the truth.                                   *)
(***************************************************************************)
THEOREM ConnectionsAreExact == Spec => []ConnectionsExact
  <1>1. HandOver => ConnectionsExact  BY DEF HandOver
  <1> QED  BY <1>1, HandOverInit, HandOverStep, PTL DEF Spec

(***************************************************************************)
(* A socket is registered with the one thread whose io_context runs its    *)
(* handlers, although its acceptor chose that thread before the client     *)
(* came and another acceptor may have chosen it too: the state of a        *)
(* Socket that no lock guards belongs to one thread.                       *)
(***************************************************************************)
THEOREM OneThreadUpdates == Spec => []OneThreadPerSocket
  <1>1. HandOver => OneThreadPerSocket  BY DEF HandOver
  <1> QED  BY <1>1, HandOverInit, HandOverStep, PTL DEF Spec
=============================================================================
