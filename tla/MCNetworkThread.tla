-------------------------- MODULE MCNetworkThread --------------------------
(***************************************************************************)
(* Two connections, for which two acceptors and two network threads        *)
(* compete, and two senders with a packet that fits a buffer and one that  *)
(* does not fit any; the kernel holds less than the larger one.            *)
(***************************************************************************)
EXTENDS NetworkThread

CONSTANTS c1, c2, small, large

SizeDef == [p \in Packets \cup {Greeting, Denial} |-> IF p = large THEN 3 ELSE 1]

\* Bound: while a session may send, nothing is accepted, which has nothing to do
\* with its packets, and of two connections one gets no further than the
\* registration.  No step that a fairness condition asks for is cut off.
Focus ==
    /\ authed # {} => \A a \in Acceptors : acceptor[a].at = "armed"
    /\ \/ \E c \in Conns : client[c] = "away"
       \/ /\ authed = {} /\ \A c \in Conns : query[c] # "auth"
          /\ \E c \in Conns : sent[c] = <<>> /\ c \notin closing

MCSpec == Init /\ [][Next /\ Focus']_vars /\ Fairness
=============================================================================
