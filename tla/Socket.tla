------------------------------- MODULE Socket -------------------------------
(***************************************************************************)
(* One end of a client's connection, as the network thread that owns it    *)
(* and the threads that send through it see it: packets go through a queue *)
(* of several producers (_bufferQueue) into buffers (_writeQueue), and from *)
(* there, as far as the kernel takes them, onto the wire.  A socket closes *)
(* at once (CloseSocket) or once there is nothing left to write            *)
(* (DelayedCloseSocket).                                                   *)
(*                                                                         *)
(* Sources: shared/Networking/Socket.h, Server/WorldSocket.cpp and         *)
(* Threading/MPSCQueue.h.  A packet of size n stands for n units of data;  *)
(* the content of packets, encryption and compression are left out.        *)
(***************************************************************************)
EXTENDS Naturals, Sequences, SequencesExt, FiniteSets

CONSTANTS
    Conns,       \* the connections of clients, each with its socket
    Packets,     \* what is sent, once each
    Size,        \* the units a packet takes in a buffer
    Greeting,    \* the initializer, the first packet of every connection
    Denial,      \* the response that refuses an authentication
    SendBuffer,  \* _sendBufferSize, in units
    Room         \* units the kernel holds until the client reads them

ASSUME SocketAssumption ==
    /\ Greeting \notin Packets /\ Denial \notin Packets /\ Greeting # Denial
    /\ Size \in [Packets \cup {Greeting, Denial} -> Nat \ {0}]
    /\ SendBuffer \in Nat \ {0} /\ Room \in Nat \ {0}

VARIABLES
    client,       \* the far end: "away", "open" or "gone"
    closed,       \* sockets whose _closed is set
    closing,      \* sockets whose _closing is set
    reading,      \* sockets with an asynchronous read under way
    writing,      \* sockets whose _isWritingAsync is set
    bufferQueue,  \* WorldSocket::_bufferQueue, with the links of its nodes
    writeQueue,   \* Socket::_writeQueue
    wire,         \* units written and not yet read by the client
    received,     \* history: the units the client has read
    sent          \* history: the units sent, in the order of the queue

socketVars == <<client, closed, closing, reading, writing, bufferQueue,
                writeQueue, wire, received, sent>>
flags == <<closed, closing>>
outgoing == <<bufferQueue, writeQueue, sent>>

AnyPacket == Packets \cup {Greeting, Denial}

SocketTypeOK ==
    /\ client \in [Conns -> {"away", "open", "gone"}]
    /\ closed \subseteq Conns /\ closing \subseteq Conns
    /\ reading \subseteq Conns /\ writing \subseteq Conns
    /\ bufferQueue \in [Conns -> Seq([packet : AnyPacket, linked : BOOLEAN])]
    /\ writeQueue \in [Conns -> Seq(Seq(AnyPacket))]
    /\ wire \in [Conns -> Seq(AnyPacket)]
    /\ received \in [Conns -> Seq(AnyPacket)]
    /\ sent \in [Conns -> Seq(AnyPacket)]

SocketInit ==
    /\ client = [c \in Conns |-> "away"]
    /\ closed = {} /\ closing = {} /\ reading = {} /\ writing = {}
    /\ bufferQueue = [c \in Conns |-> <<>>]
    /\ writeQueue = [c \in Conns |-> <<>>]
    /\ wire = [c \in Conns |-> <<>>]
    /\ received = [c \in Conns |-> <<>>]
    /\ sent = [c \in Conns |-> <<>>]

IsOpen(c) == c \notin closed \cup closing
Units(packet) == [k \in 1 .. Size[packet] |-> packet]

(***************************************************************************)
(* Mutants: plausible bugs, none of them part of the specification.        *)
(***************************************************************************)

\* A partial write that forgets ReadCompleted and sends the buffer again.
Rest_whole(buffer, n) == buffer

\* HandleQueue that looks at _closing before it pops.
Emptied_before_pop(c) == c \in closing /\ writeQueue[c] = <<>>

(***************************************************************************)
(* Writing.                                                                *)
(***************************************************************************)

\* HandleQueue's test after each pop: the buffer that left was the last.
Emptied(c) == c \in closing /\ Len(writeQueue[c]) <= 1

\* The packets Dequeue can reach: it stops at the first node not linked.
Ready(queue) ==
    CHOOSE n \in 0 .. Len(queue) :
        /\ \A k \in 1 .. n : queue[k].linked
        /\ n < Len(queue) => ~queue[n + 1].linked

\* A packet too large for what is left of the last, unfinished buffer starts
\* another; one too large for any gets a buffer of its own.  Whatever is
\* pushed then is pushed even if it is empty.
Pack(buffers, packet) ==
    LET last == Last(buffers)
    IN  IF Len(last) + Size[packet] <= SendBuffer
        THEN Front(buffers) \o <<last \o Units(packet)>>
        ELSE IF Size[packet] <= SendBuffer
        THEN buffers \o <<Units(packet)>>
        ELSE buffers \o <<Units(packet), <<>>>>

\* The loop of WorldSocket::Update over _bufferQueue, to its end.
FlushBufferQueue(c) ==
    LET n == Ready(bufferQueue[c])
        packets == [k \in 1 .. n |-> bufferQueue[c][k].packet]
        buffers == FoldLeft(Pack, <<<<>>>>, packets)
        full == IF Last(buffers) = <<>> THEN Front(buffers) ELSE buffers
    IN  /\ bufferQueue' = [bufferQueue EXCEPT ![c] = SubSeq(@, n + 1, Len(@))]
        /\ writeQueue' = [writeQueue EXCEPT ![c] = @ \o full]

\* Socket::CloseSocket; what is still queued is never written.
CloseSocket(c) == closed' = closed \cup {c}

Sent(buffer, n) == SubSeq(buffer, 1, n)
Rest(buffer, n) == SubSeq(buffer, n + 1, Len(buffer))
Free(c) == Room - Len(wire[c])
Broken(c) == client[c] = "gone" \/ c \in closed

\* _writeQueue.pop() and what follows it.
PopBuffer(c) ==
    /\ writeQueue' = [writeQueue EXCEPT ![c] = Tail(@)]
    /\ IF Emptied(c) THEN CloseSocket(c) ELSE UNCHANGED closed

\* write_some fails, or there was nothing in the buffer.
WriteNothing(c) ==
    /\ Broken(c) \/ Head(writeQueue[c]) = <<>>
    /\ PopBuffer(c)
    /\ UNCHANGED wire

WriteAll(c) ==
    /\ ~Broken(c)
    /\ Head(writeQueue[c]) # <<>>
    /\ Len(Head(writeQueue[c])) <= Free(c)
    /\ wire' = [wire EXCEPT ![c] = @ \o Head(writeQueue[c])]
    /\ PopBuffer(c)

\* The kernel takes some, or (would_block) none: wait until it takes more.
WriteSome(c) ==
    /\ ~Broken(c)
    /\ Free(c) < Len(Head(writeQueue[c]))
    /\ wire' = [wire EXCEPT ![c] = @ \o Sent(Head(writeQueue[c]), Free(c))]
    /\ writeQueue' = [writeQueue EXCEPT ![c][1] = Rest(@, Free(c))]
    /\ UNCHANGED closed

\* HandleQueue on a queue that holds something.  It returns true only after
\* a complete write that leaves more to do.
HandleQueue(c) ==
    /\ writeQueue[c] # <<>>
    /\ WriteNothing(c) \/ WriteAll(c) \/ WriteSome(c)

WritesOn(c) ==
    /\ ~Broken(c) /\ Head(writeQueue[c]) # <<>>
    /\ Len(Head(writeQueue[c])) <= Free(c)
    /\ Len(writeQueue[c]) > 1
MustWait(c) == ~Broken(c) /\ Free(c) < Len(Head(writeQueue[c]))

(***************************************************************************)
(* Sending, in the two steps of MPSCQueue::Enqueue: the node takes its     *)
(* place in the order, and its predecessor is linked to it.                *)
(***************************************************************************)
Exchange(c, packet) ==
    /\ bufferQueue' = [bufferQueue EXCEPT ![c] =
                          Append(@, [packet |-> packet, linked |-> FALSE])]
    /\ sent' = [sent EXCEPT ![c] = @ \o Units(packet)]

Link(c, packet) ==
    bufferQueue' = [bufferQueue EXCEPT ![c] =
                       [k \in DOMAIN @ |-> IF @[k].packet = packet
                                           THEN [@[k] EXCEPT !.linked = TRUE]
                                           ELSE @[k]]]

\* QueuePacket, for what the network thread writes itself.
QueuePacket(c, packet) ==
    /\ writeQueue' = [writeQueue EXCEPT ![c] = Append(@, Units(packet))]
    /\ sent' = [sent EXCEPT ![c] = @ \o Units(packet)]

(***************************************************************************)
(* The client.                                                             *)
(***************************************************************************)
ClientReads(c) ==
    /\ client[c] = "open"
    /\ wire[c] # <<>>
    /\ received' = [received EXCEPT ![c] = @ \o wire[c]]
    /\ wire' = [wire EXCEPT ![c] = <<>>]
    /\ UNCHANGED <<client, flags, reading, writing, outgoing>>

ClientLeaves(c) ==
    /\ client[c] = "open"
    /\ client' = [client EXCEPT ![c] = "gone"]
    /\ UNCHANGED <<flags, reading, writing, outgoing, wire, received>>

-----------------------------------------------------------------------------
Unsent(c) ==
    LET packets == [k \in DOMAIN bufferQueue[c] |->
                        Units(bufferQueue[c][k].packet)]
    IN  FlattenSeq(writeQueue[c]) \o FlattenSeq(packets)

(***************************************************************************)
(* The stream is intact: as long as the connection lasts, what the client  *)
(* has read, what is on the wire and what is queued are together exactly   *)
(* what was sent, in order.  Partial writes, buffers that fill up, packets *)
(* too large for a buffer and senders that overtake each other neither     *)
(* lose, repeat nor reorder a unit.                                        *)
(***************************************************************************)
StreamIntact ==
    \A c \in Conns :
        c \notin closed /\ client[c] # "gone" =>
            received[c] \o wire[c] \o Unsent(c) = sent[c]
=============================================================================
