------------------------ MODULE MCDatabaseWorkerPool ------------------------
(***************************************************************************)
(* Up to two worker threads and one synchronous connection; transactions   *)
(* of two statements, so that a deadlock, a refusal or a loss can fall     *)
(* between them, one of one statement that can follow it on the same       *)
(* connection, and a standalone statement.                                 *)
(***************************************************************************)
EXTENDS DatabaseWorkerPool

CONSTANTS a1, a2, s1, long, short, called, single

SizeDef == [t \in Tasks |-> IF t \in {long, called} THEN 2 ELSE 1]

\* Bound: direct callers contend with each other and with one worker thread
\* that executes the short transaction; or two transactions and pings are posted
\* to one or two worker threads.  Neither posting nor calling is ever asked for
\* by a fairness condition.
Focus ==
    \/ \A t \in Direct : status[t] = "new"
    \/ /\ status[long] = "new" /\ threads = {a1}
       /\ \A i \in DOMAIN queue : queue[i] # Ping

MCSpec == Init /\ [][Next /\ Focus']_vars /\ Fairness
=============================================================================
