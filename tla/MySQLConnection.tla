-------------------------- MODULE MySQLConnection --------------------------
(***************************************************************************)
(* The connections of a database pool and what a transaction executed      *)
(* through one of them leaves in the database: BeginTransaction, the       *)
(* queries one by one, CommitTransaction or RollbackTransaction, and the   *)
(* reconnection that MySQLConnection::_HandleMySQLErrno hides from all of  *)
(* them.  DatabaseWorkerPool adds the threads and the callers.             *)
(*                                                                         *)
(* The MySQL server is external: a session has autocommit on unless START  *)
(* TRANSACTION opened a transaction; a deadlock rolls the whole            *)
(* transaction back, another error only the statement; a lost session      *)
(* rolls back; START TRANSACTION commits what the session had left open.   *)
(* Only data statements are refused: START TRANSACTION, COMMIT and         *)
(* ROLLBACK fail only with the connection.                                 *)
(***************************************************************************)
EXTENDS Naturals, Sequences, FiniteSets

CONSTANTS
    Connections,   \* the pool's connections, asynchronous and synchronous
    Tasks,         \* transactions and standalone statements
    Transactional, \* the tasks that are transactions
    Size,          \* number of statements of a task
    Attempts,      \* _HandleMySQLErrno's attempts: 5
    MaxLosses,     \* bound: times the server is lost
    NoTask

ASSUME TasksAssumption ==
    /\ Transactional \subseteq Tasks
    /\ Size \in [Tasks -> Nat]
    /\ \A t \in Tasks \ Transactional : Size[t] = 1
    /\ NoTask \notin Tasks
ASSUME AttemptsAssumption == Attempts \in Nat \ {0}

VARIABLES
    at,           \* where the thread that uses each connection is
    task,         \* the task it executes
    done,         \* statements of the task executed since its beginning
    error,        \* the error code it has read
    link,         \* m_Mysql: up, lost (and being reopened), or null for good
    attempts,     \* attempts to reopen it that are left
    open,         \* server: the session is inside a transaction
    uncommitted,  \* server: <<task, statement>> in that transaction
    applied,      \* server: how often each statement has become durable
    disturbed,    \* history: tasks that met a lost or null connection
    losses,       \* history: number of losses
    aborted       \* the process has called ABORT

caller == <<at, task, done, error>>
reopening == <<link, attempts>>
session == <<open, uncommitted, applied>>
history == <<disturbed, losses>>
connectionVars == <<caller, reopening, session, history, aborted>>

Commands == {"begin", "statement", "commit", "rollback"}
Places == Commands \cup {"idle", "return", "locking", "ping", "exited"}
Errors == {"none", "deadlock", "refused", "empty"}
Statements == UNION {{t} \X (1 .. Size[t]) : t \in Tasks}

ConnectionTypeOK ==
    /\ at \in [Connections -> Places]
    /\ task \in [Connections -> Tasks \cup {NoTask}]
    /\ done \in [Connections -> Nat]
    /\ error \in [Connections -> Errors]
    /\ link \in [Connections -> {"up", "lost", "null"}]
    /\ attempts \in [Connections -> 0 .. Attempts]
    /\ open \in [Connections -> BOOLEAN]
    /\ uncommitted \in [Connections -> SUBSET Statements]
    /\ applied \in [Statements -> Nat]
    /\ disturbed \subseteq Tasks
    /\ losses \in Nat
    /\ aborted \in BOOLEAN

ConnectionInit ==
    /\ at = [c \in Connections |-> "idle"]
    /\ task = [c \in Connections |-> NoTask]
    /\ done = [c \in Connections |-> 0]
    /\ error = [c \in Connections |-> "none"]
    /\ link = [c \in Connections |-> "up"]
    /\ attempts = [c \in Connections |-> 0]
    /\ open = [c \in Connections |-> FALSE]
    /\ uncommitted = [c \in Connections |-> {}]
    /\ applied = [s \in Statements |-> 0]
    /\ disturbed = {}
    /\ losses = 0
    /\ aborted = FALSE

Goto(c, place) == at' = [at EXCEPT ![c] = place]

(***************************************************************************)
(* The server.                                                             *)
(***************************************************************************)

MakeDurable(S) ==
    applied' = [s \in Statements |-> applied[s] + (IF s \in S THEN 1 ELSE 0)]

Session(c, isOpen, statements) ==
    /\ open' = [open EXCEPT ![c] = isOpen]
    /\ uncommitted' = [uncommitted EXCEPT ![c] = statements]

NextStatement(c) == <<task[c], done[c] + 1>>

\* What the command a connection has sent makes durable if the server runs it.
DurableBy(c) ==
    IF at[c] \in {"begin", "commit"} THEN uncommitted[c]
    ELSE IF at[c] = "statement" /\ ~open[c] THEN {NextStatement(c)} ELSE {}

\* The answer to a command is awaited, on a session that is up.
Sent(c, command) == at[c] = command /\ link[c] = "up" /\ ~aborted

(***************************************************************************)
(* Mutants: plausible bugs, none of them part of the specification.        *)
(***************************************************************************)

\* ExecuteTransaction that returns on an error without RollbackTransaction.
Failed_no_rollback(c, e) ==
    /\ error' = [error EXCEPT ![c] = e]
    /\ Goto(c, "return")

\* ExecuteTransaction that reads GetLastError after the rollback.
RollbackTransaction_error(c) ==
    /\ Sent(c, "rollback")
    /\ Session(c, FALSE, {})
    /\ Goto(c, "return")
    /\ error' = [error EXCEPT ![c] = "none"]
    /\ UNCHANGED <<task, done, reopening, applied, history, aborted>>

-----------------------------------------------------------------------------
\* Where a task's execution begins: Execute for a statement, and for a
\* transaction ExecuteTransaction, which refuses an empty one at once.
FirstPlace(t) ==
    IF t \notin Transactional THEN "statement"
    ELSE IF Size[t] = 0 THEN "return" ELSE "begin"

StartTask(c, t) ==
    /\ task' = [task EXCEPT ![c] = t]
    /\ done' = [done EXCEPT ![c] = 0]
    /\ error' = [error EXCEPT ![c] = IF Size[t] = 0 THEN "empty" ELSE "none"]
    /\ Goto(c, FirstPlace(t))
    /\ UNCHANGED <<reopening, session, history, aborted>>

EndTask(c, place) ==
    /\ task' = [task EXCEPT ![c] = NoTask]
    /\ done' = [done EXCEPT ![c] = 0]
    /\ error' = [error EXCEPT ![c] = "none"]
    /\ Goto(c, place)
    /\ UNCHANGED <<reopening, session, history, aborted>>

BeginTransaction(c) ==
    /\ Sent(c, "begin")
    /\ MakeDurable(DurableBy(c))
    /\ Session(c, TRUE, {})
    /\ Goto(c, "statement")
    /\ UNCHANGED <<task, done, error, reopening, history, aborted>>

\* A statement is executed: in the session's transaction, or durably at once.
Execute(c) ==
    /\ Sent(c, "statement")
    /\ MakeDurable(DurableBy(c))
    /\ Session(c, open[c],
               IF open[c] THEN uncommitted[c] \cup {NextStatement(c)} ELSE {})
    /\ done' = [done EXCEPT ![c] = @ + 1]
    /\ Goto(c, IF done'[c] < Size[task[c]] THEN "statement"
               ELSE IF task[c] \in Transactional THEN "commit" ELSE "return")
    /\ UNCHANGED <<task, error, reopening, history, aborted>>

\* Execute returns false: a transaction keeps the error code and rolls back.
Failed(c, e) ==
    /\ error' = [error EXCEPT ![c] = e]
    /\ Goto(c, IF task[c] \in Transactional THEN "rollback" ELSE "return")

ExecuteDeadlocks(c) ==
    /\ Sent(c, "statement")
    /\ Session(c, FALSE, {})
    /\ Failed(c, "deadlock")
    /\ UNCHANGED <<task, done, reopening, applied, history, aborted>>

ExecuteRefused(c) ==
    /\ Sent(c, "statement")
    /\ Failed(c, "refused")
    /\ UNCHANGED <<task, done, reopening, session, history, aborted>>

\* The statement does not fit the database: the process aborts itself.
ExecuteAborts(c) ==
    /\ Sent(c, "statement")
    /\ aborted' = TRUE
    /\ UNCHANGED <<caller, reopening, session, history>>

CommitTransaction(c) ==
    /\ Sent(c, "commit")
    /\ MakeDurable(DurableBy(c))
    /\ Session(c, FALSE, {})
    /\ Goto(c, "return")
    /\ UNCHANGED <<task, done, error, reopening, history, aborted>>

RollbackTransaction(c) ==
    /\ Sent(c, "rollback")
    /\ Session(c, FALSE, {})
    /\ Goto(c, "return")
    /\ UNCHANGED <<task, done, error, reopening, applied, history, aborted>>

\* The server or the network goes, before the command or after it.
Lose(c) ==
    /\ losses < MaxLosses
    /\ at[c] \in Commands /\ Sent(c, at[c])
    /\ losses' = losses + 1
    /\ disturbed' = disturbed \cup {task[c]}
    /\ link' = [link EXCEPT ![c] = "lost"]
    /\ attempts' = [attempts EXCEPT ![c] = Attempts]
    /\ Session(c, FALSE, {})
    /\ UNCHANGED applied \/ MakeDurable(DurableBy(c))
    /\ UNCHANGED <<caller, aborted>>

\* _HandleMySQLErrno: once reopened, the caller sends the same command again;
\* an error it does not know leaves m_Mysql null; the last attempt that fails,
\* or a statement that cannot be prepared again, aborts the process.
Reconnect(c) ==
    /\ link[c] = "lost"
    /\ ~aborted
    /\ \/ /\ link' = [link EXCEPT ![c] = "up"]
          /\ attempts' = [attempts EXCEPT ![c] = 0]
          /\ UNCHANGED aborted
       \/ /\ link' = [link EXCEPT ![c] = "null"]
          /\ attempts' = [attempts EXCEPT ![c] = 0]
          /\ UNCHANGED aborted
       \/ /\ attempts' = [attempts EXCEPT ![c] = @ - 1]
          /\ aborted' = (attempts[c] = 1)
          /\ UNCHANGED link
       \/ /\ aborted' = TRUE
          /\ UNCHANGED reopening
    /\ UNCHANGED <<caller, session, history>>

\* Any command on a null m_Mysql returns false, and mysql_errno(nullptr) is 0:
\* BeginTransaction, CommitTransaction and RollbackTransaction ignore it.
NullConnection(c) ==
    /\ at[c] \in Commands
    /\ link[c] = "null"
    /\ ~aborted
    /\ IF at[c] = "statement"
       THEN Failed(c, IF task[c] \in Transactional THEN "none" ELSE "refused")
       ELSE /\ Goto(c, IF at[c] = "begin" THEN "statement" ELSE "return")
            /\ UNCHANGED error
    /\ disturbed' = disturbed \cup {task[c]}
    /\ UNCHANGED <<task, done, reopening, session, losses, aborted>>

ConnectionStep(c) ==
    \/ BeginTransaction(c) \/ Execute(c) \/ ExecuteDeadlocks(c)
    \/ ExecuteRefused(c) \/ ExecuteAborts(c)
    \/ CommitTransaction(c) \/ RollbackTransaction(c)
    \/ Lose(c) \/ Reconnect(c) \/ NullConnection(c)

-----------------------------------------------------------------------------
(***************************************************************************)
(* Parts of the inductive invariant behind the pool's atomicity.           *)
(***************************************************************************)
AppliedTimes(t, n) == \A i \in 1 .. Size[t] : applied[<<t, i>>] = n

\* Who has a task, how far it is, and when its session is in a transaction.
SessionOK(c) ==
    /\ task[c] # NoTask <=> at[c] \in Commands \cup {"return", "locking"}
    /\ at[c] \in {"begin", "commit", "rollback", "locking"} =>
           task[c] \in Transactional
    /\ at[c] = "begin" => done[c] = 0 /\ Size[task[c]] > 0
    /\ at[c] = "statement" => done[c] < Size[task[c]]
    /\ at[c] = "commit" => done[c] = Size[task[c]]
    /\ open[c] => /\ at[c] \in {"statement", "commit", "rollback"}
                  /\ link[c] = "up"
                  /\ task[c] \in Transactional
    /\ ~open[c] => uncommitted[c] = {}
    /\ \A s \in uncommitted[c] : s[1] = task[c]

\* What the database and the session hold of a task that is undisturbed.
ProgressOK(c) ==
    task[c] # NoTask /\ task[c] \notin disturbed =>
        /\ at[c] \in {"begin", "statement", "commit"} => error[c] = "none"
        /\ at[c] = "rollback" => error[c] # "none"
        /\ at[c] \in {"statement", "commit"} /\ task[c] \in Transactional =>
               open[c] /\ uncommitted[c] = {task[c]} \X (1 .. done[c])
        /\ AppliedTimes(task[c],
                        IF at[c] = "return" /\ error[c] = "none" THEN 1 ELSE 0)
=============================================================================
