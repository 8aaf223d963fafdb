------------------------- MODULE DatabaseWorkerPool -------------------------
(***************************************************************************)
(* One database pool: tasks posted to the io_context its asynchronous      *)
(* threads share (CommitTransaction, AsyncCommitTransaction, Execute), and *)
(* tasks a caller executes itself on a synchronous connection it has       *)
(* locked (DirectCommitTransaction, DirectExecute).  Both sides retry a    *)
(* transaction the server chose as a deadlock's victim.  Close stops the   *)
(* io_context, joins the threads and drops what is still queued.           *)
(*                                                                         *)
(* Queries only read: like pings they are a queue entry with no effect.    *)
(***************************************************************************)
EXTENDS MySQLConnection, SequencesExt

CONSTANTS
    Async,         \* connections[IDX_ASYNC], each with a worker thread
    Sync,          \* connections[IDX_SYNCH]
    Direct,        \* the tasks their caller executes itself
    DirectRetries, \* loopBreaker of DirectCommitTransaction: 5
    Ping,          \* a queue entry that changes nothing
    NoThread

ASSUME PoolAssumption ==
    /\ Connections = Async \cup Sync
    /\ Async \cap Sync = {} /\ IsFiniteSet(Async)
    /\ NoThread \notin Connections
    /\ Direct \subseteq Tasks /\ Ping \notin Tasks
    /\ DirectRetries \in Nat

VARIABLES
    threads,       \* _async_threads: the configured worker threads
    queue,         \* handlers posted to _ioContext and not started
    queueSize,     \* _queueSize
    stopped,       \* _ioContext->stop() has been called
    closed,        \* Close has returned
    deadlockLock,  \* the holder of TransactionTask::_deadlockLock
    locked,        \* synchronous connections whose m_Mutex is held
    tries,         \* per connection: i of DirectCommitTransaction's loop
    status,        \* what has become of each task
    unfinished     \* history: posted tasks that have not finished, in order

pool == <<threads, queue, queueSize, stopped, closed, deadlockLock, locked,
          tries, status, unfinished>>
vars == <<connectionVars, pool>>

Finals == {"committed", "failed", "dropped"}

TypeOK ==
    /\ ConnectionTypeOK
    /\ threads \subseteq Async
    /\ queue \in Seq(Tasks \cup {Ping})
    /\ queueSize \in Nat
    /\ stopped \in BOOLEAN /\ closed \in BOOLEAN
    /\ deadlockLock \in Async \cup {NoThread}
    /\ locked \subseteq Sync
    /\ tries \in [Sync -> 0 .. DirectRetries]
    /\ status \in [Tasks -> {"new", "posted", "calling", "running"} \cup Finals]
    /\ unfinished \in Seq(Tasks)

Init ==
    /\ ConnectionInit
    /\ threads \in SUBSET Async \ {{}}
    /\ queue = <<>>
    /\ queueSize = 0
    /\ stopped = FALSE
    /\ closed = FALSE
    /\ deadlockLock = NoThread
    /\ locked = {}
    /\ tries = [c \in Sync |-> 0]
    /\ status = [t \in Tasks |-> "new"]
    /\ unfinished = <<>>

Become(t, s) == status' = [status EXCEPT ![t] = s]

(***************************************************************************)
(* Mutants: plausible bugs, none of them part of the specification.        *)
(***************************************************************************)

\* TransactionTask::Execute that keeps _deadlockLock when a retry succeeds.
Unlock_never(w) == UNCHANGED deadlockLock

\* A QueueSizeTracker whose move constructor leaves the pool in the source.
Take_moved_twice(w) ==
    /\ at[w] = "idle"
    /\ queue # <<>> /\ ~stopped /\ ~aborted
    /\ queue' = Tail(queue)
    /\ queueSize' = queueSize - 1
    /\ IF Head(queue) = Ping
       THEN /\ Goto(w, "ping")
            /\ UNCHANGED <<task, done, error, reopening, session, history,
                           aborted, status>>
       ELSE StartTask(w, Head(queue)) /\ Become(Head(queue), "running")
    /\ UNCHANGED <<threads, stopped, closed, deadlockLock, locked, tries,
                   unfinished>>

\* A deadlocked transaction that is posted again instead of retried in place.
LockDeadlock_requeue(w) ==
    /\ at[w] = "locking" /\ ~aborted
    /\ queue' = Append(queue, task[w])
    /\ EndTask(w, "idle")
    /\ UNCHANGED <<threads, queueSize, stopped, closed, deadlockLock, locked,
                   tries, status, unfinished>>

\* Close that keeps the context, and in it the handlers that were dropped.
Close_keeps_context ==
    /\ stopped /\ ~closed /\ ~aborted
    /\ \A w \in threads : at[w] = "exited"
    /\ closed' = TRUE
    /\ queue' = <<>>
    /\ status' = [t \in Tasks |-> IF status[t] = "posted" THEN "dropped"
                                  ELSE status[t]]
    /\ UNCHANGED <<connectionVars, threads, queueSize, stopped, deadlockLock,
                   locked, tries, unfinished>>

\* DirectCommitTransaction that unlocks only where it succeeds.
DirectReturns_locked(c) ==
    /\ at[c] = "return" /\ ~aborted
    /\ locked' = IF error[c] = "none" THEN locked \ {c} ELSE locked
    /\ tries' = [tries EXCEPT ![c] = 0]
    /\ Become(task[c], IF error[c] = "none" THEN "committed" ELSE "failed")
    /\ EndTask(c, "idle")
    /\ UNCHANGED <<threads, queue, queueSize, stopped, closed, deadlockLock,
                   unfinished>>

-----------------------------------------------------------------------------
(***************************************************************************)
(* The callers.                                                            *)
(***************************************************************************)

\* CommitTransaction, AsyncCommitTransaction and Execute.
Post(t) ==
    /\ t \notin Direct
    /\ status[t] = "new"
    /\ ~stopped /\ ~aborted
    /\ Become(t, "posted")
    /\ queue' = Append(queue, t)
    /\ queueSize' = queueSize + 1
    /\ unfinished' = Append(unfinished, t)
    /\ UNCHANGED <<connectionVars, threads, stopped, closed, deadlockLock,
                   locked, tries>>

\* DirectCommitTransaction and DirectExecute enter GetFreeConnection, which
\* tries the synchronous connections until one is not locked.
CallDirect(t) ==
    /\ t \in Direct
    /\ status[t] = "new"
    /\ ~stopped /\ ~aborted
    /\ Become(t, "calling")
    /\ UNCHANGED <<connectionVars, threads, queue, queueSize, stopped, closed,
                   deadlockLock, locked, tries, unfinished>>

GetFreeConnection(t, c) ==
    /\ status[t] = "calling"
    /\ c \in Sync \ locked
    /\ ~aborted
    /\ locked' = locked \cup {c}
    /\ Become(t, "running")
    /\ StartTask(c, t)
    /\ UNCHANGED <<threads, queue, queueSize, stopped, closed, deadlockLock,
                   tries, unfinished>>

\* What DirectCommitTransaction does when ExecuteTransaction returns: only a
\* first answer of ER_LOCK_DEADLOCK leads into the loop, any error stays in it.
MayRetryDirect(c) ==
    /\ task[c] \in Transactional
    /\ tries[c] < DirectRetries
    /\ error[c] = "deadlock" \/ (tries[c] > 0 /\ error[c] # "none")

RetryDirect(c) ==
    /\ at[c] = "return" /\ ~aborted
    /\ MayRetryDirect(c)
    /\ tries' = [tries EXCEPT ![c] = @ + 1]
    /\ StartTask(c, task[c])
    /\ UNCHANGED <<threads, queue, queueSize, stopped, closed, deadlockLock,
                   locked, status, unfinished>>

DirectReturns(c) ==
    /\ at[c] = "return" /\ ~aborted
    /\ ~MayRetryDirect(c)
    /\ locked' = locked \ {c}
    /\ tries' = [tries EXCEPT ![c] = 0]
    /\ Become(task[c], IF error[c] = "none" THEN "committed" ELSE "failed")
    /\ EndTask(c, "idle")
    /\ UNCHANGED <<threads, queue, queueSize, stopped, closed, deadlockLock,
                   unfinished>>

\* A ping is posted for every asynchronous connection; pinging the
\* synchronous ones changes nothing.  Bound: only while nothing is queued.
KeepAlive ==
    /\ ~stopped /\ ~aborted
    /\ unfinished = <<>> /\ queue = <<>> /\ \A w \in threads : at[w] # "ping"
    /\ queue' = queue \o [i \in 1 .. Cardinality(threads) |-> Ping]
    /\ queueSize' = queueSize + Cardinality(threads)
    /\ UNCHANGED <<connectionVars, threads, stopped, closed, deadlockLock,
                   locked, tries, status, unfinished>>

(***************************************************************************)
(* The worker threads.                                                     *)
(***************************************************************************)

Take(w) ==
    /\ at[w] = "idle"
    /\ queue # <<>> /\ ~stopped /\ ~aborted
    /\ queue' = Tail(queue)
    /\ IF Head(queue) = Ping
       THEN /\ Goto(w, "ping")
            /\ UNCHANGED <<task, done, error, reopening, session, history,
                           aborted, status>>
       ELSE StartTask(w, Head(queue)) /\ Become(Head(queue), "running")
    /\ UNCHANGED <<threads, queueSize, stopped, closed, deadlockLock, locked,
                   tries, unfinished>>

\* A handler that has run is destroyed, and its QueueSizeTracker with it.
PingReturns(w) ==
    /\ at[w] = "ping" /\ ~aborted
    /\ queueSize' = queueSize - 1
    /\ EndTask(w, "idle")
    /\ UNCHANGED <<threads, queue, stopped, closed, deadlockLock, locked,
                   tries, status, unfinished>>

Finish(w, s) ==
    /\ at[w] = "return" /\ ~aborted
    /\ queueSize' = queueSize - 1
    /\ Become(task[w], s)
    /\ unfinished' = RemoveFirst(unfinished, task[w])
    /\ EndTask(w, "idle")
    /\ UNCHANGED <<threads, queue, stopped, closed, locked, tries>>

Deadlocked(w) == task[w] \in Transactional /\ error[w] = "deadlock"

\* TransactionTask::Execute (or a statement's task): the first attempt.
FirstAttemptReturns(w) ==
    /\ deadlockLock # w
    /\ ~Deadlocked(w)
    /\ Finish(w, IF error[w] = "none" THEN "committed" ELSE "failed")
    /\ UNCHANGED deadlockLock

FirstAttemptDeadlocks(w) ==
    /\ at[w] = "return" /\ ~aborted
    /\ deadlockLock # w
    /\ Deadlocked(w)
    /\ Goto(w, "locking")
    /\ UNCHANGED <<task, done, error, reopening, session, history, aborted,
                   pool>>

LockDeadlock(w) ==
    /\ at[w] = "locking" /\ ~aborted
    /\ deadlockLock = NoThread
    /\ deadlockLock' = w
    /\ StartTask(w, task[w])
    /\ UNCHANGED <<threads, queue, queueSize, stopped, closed, locked, tries,
                   status, unfinished>>

Unlock(w) == deadlockLock' = NoThread

RetrySucceeds(w) ==
    /\ deadlockLock = w
    /\ error[w] = "none"
    /\ Finish(w, "committed")
    /\ Unlock(w)

\* The retry failed, with whatever error, and the 60 seconds are not over.
RetryAgain(w) ==
    /\ at[w] = "return" /\ ~aborted
    /\ deadlockLock = w
    /\ error[w] # "none"
    /\ StartTask(w, task[w])
    /\ UNCHANGED pool

RetryTimesOut(w) ==
    /\ deadlockLock = w
    /\ error[w] # "none"
    /\ Finish(w, "failed")
    /\ Unlock(w)

\* context->run() returns in a stopped context.
Exit(w) ==
    /\ at[w] = "idle"
    /\ stopped /\ ~aborted
    /\ Goto(w, "exited")
    /\ UNCHANGED <<task, done, error, reopening, session, history, aborted,
                   pool>>

(***************************************************************************)
(* Close: "should only be called after any other thread tasks in the core  *)
(* have exited".                                                           *)
(***************************************************************************)

Stop ==
    /\ ~stopped /\ ~aborted
    /\ locked = {} /\ \A t \in Tasks : status[t] # "calling"
    /\ stopped' = TRUE
    /\ UNCHANGED <<connectionVars, threads, queue, queueSize, closed,
                   deadlockLock, locked, tries, status, unfinished>>

Close ==
    /\ stopped /\ ~closed /\ ~aborted
    /\ \A w \in threads : at[w] = "exited"
    /\ closed' = TRUE
    /\ queue' = <<>>
    /\ queueSize' = queueSize - Len(queue)
    /\ status' = [t \in Tasks |-> IF status[t] = "posted" THEN "dropped"
                                  ELSE status[t]]
    /\ UNCHANGED <<connectionVars, threads, stopped, deadlockLock, locked,
                   tries, unfinished>>

\* The process has ended: orderly, or by ABORT.
Ended ==
    /\ closed \/ aborted
    /\ UNCHANGED vars

WorkerStep(w) ==
    \/ Take(w) \/ PingReturns(w)
    \/ FirstAttemptReturns(w) \/ FirstAttemptDeadlocks(w)
    \/ LockDeadlock(w) \/ RetrySucceeds(w) \/ RetryAgain(w) \/ RetryTimesOut(w)
    \/ Exit(w)

DirectStep(c) == RetryDirect(c) \/ DirectReturns(c)

ServerStep(c) == ConnectionStep(c) /\ UNCHANGED pool

Next ==
    \/ \E t \in Tasks : Post(t) \/ CallDirect(t)
    \/ KeepAlive
    \/ \E t \in Tasks, c \in Sync : GetFreeConnection(t, c)
    \/ \E c \in Sync : DirectStep(c)
    \/ \E w \in threads : WorkerStep(w)
    \/ \E c \in threads \cup Sync : ServerStep(c)
    \/ Stop \/ Close \/ Ended

Spec == Init /\ [][Next]_vars

(***************************************************************************)
(* Threads run and the server answers.  A caller takes a connection it     *)
(* finds free.  The clock behind the retry loop advances: a loop that      *)
(* fails again and again runs out of its 60 seconds (strong fairness).     *)
(***************************************************************************)
Fairness ==
    /\ \A w \in Async : /\ WF_vars(w \in threads /\ WorkerStep(w))
                        /\ SF_vars(w \in threads /\ RetryTimesOut(w))
    /\ \A c \in Connections : WF_vars(ServerStep(c))
    /\ \A c \in Sync : WF_vars(DirectStep(c))
    /\ \A t \in Tasks : WF_vars(\E c \in Sync : GetFreeConnection(t, c))
    /\ WF_vars(Close)

FairSpec == Spec /\ Fairness

-----------------------------------------------------------------------------
Whole(t) == \/ \A i \in 1 .. Size[t] : applied[<<t, i>>] = 0
            \/ \A i \in 1 .. Size[t] : applied[<<t, i>>] = 1

(***************************************************************************)
(* At every moment (so also if the process dies then) the database holds   *)
(* all of a transaction, once, or none of it, through deadlocks, refused   *)
(* statements and retries: unless the transaction met a lost connection.   *)
(***************************************************************************)
AllOrNothing == \A t \in Tasks \ disturbed : Whole(t)

(***************************************************************************)
(* The same for every transaction: "automatically rollback if not          *)
(* commited".  Reopening a connection in the middle of a transaction and   *)
(* sending only the failed statement again breaks it.                      *)
(***************************************************************************)
TransactionsAreAtomic == \A t \in Transactional : Whole(t)

(***************************************************************************)
(* What AsyncCommitTransaction's callback is told is what the database     *)
(* holds: success means every statement, once; failure means none.         *)
(***************************************************************************)
ReportedOutcome ==
    \A t \in Tasks \ disturbed :
        /\ status[t] = "committed" =>
               \A i \in 1 .. Size[t] : applied[<<t, i>>] = 1
        /\ status[t] \in {"failed", "dropped"} =>
               \A i \in 1 .. Size[t] : applied[<<t, i>>] = 0

(***************************************************************************)
(* With one asynchronous thread (the default of every pool) tasks finish   *)
(* in the order in which they were posted, whatever is retried.            *)
(***************************************************************************)
PostingOrder ==
    [][Cardinality(threads) = 1 /\ Len(unfinished') < Len(unfinished)
           => unfinished' = Tail(unfinished)]_vars

(***************************************************************************)
(* _queueSize counts the handlers that are queued or running, and is back  *)
(* at zero when the pool is closed.                                        *)
(***************************************************************************)
QueueSizeExact ==
    queueSize = Len(queue)
                 + Cardinality({w \in threads : at[w] \notin {"idle", "exited"}})

\* Every task posted or called ends: no thread spins or holds a lock forever.
TasksFinish ==
    \A t \in Tasks :
        status[t] \in {"posted", "calling"} ~> status[t] \in Finals \/ stopped \/ aborted

\* Close returns, with every task it did not drop brought to its end.
CloseCompletes ==
    stopped ~> \/ aborted
               \/ closed /\ \A t \in Tasks : status[t] \in Finals \cup {"new"}

-----------------------------------------------------------------------------
(***************************************************************************)
(* The inductive invariant behind AllOrNothing and ReportedOutcome.        *)
(***************************************************************************)
Assigned ==
    /\ \A c \in Connections : task[c] # NoTask => status[task[c]] = "running"
    /\ \A c, d \in Connections : task[c] = task[d] /\ task[c] # NoTask => c = d
    /\ \A t \in Tasks : status[t] = "running" =>
           \E c \in Connections : task[c] = t
    /\ \A c \in Sync \ locked : at[c] = "idle"

QueueOK ==
    /\ \A i \in DOMAIN queue : queue[i] # Ping => status[queue[i]] = "posted"
    /\ \A i, j \in DOMAIN queue : queue[i] = queue[j] /\ queue[i] # Ping => i = j

StatusOK ==
    \A t \in Tasks \ disturbed :
        /\ status[t] \in {"new", "posted", "calling", "failed", "dropped"} =>
               AppliedTimes(t, 0)
        /\ status[t] = "committed" => AppliedTimes(t, 1)

PoolTypes ==
    /\ at \in [Connections -> Places]
    /\ task \in [Connections -> Tasks \cup {NoTask}]
    /\ done \in [Connections -> Nat]
    /\ error \in [Connections -> Errors]
    /\ link \in [Connections -> {"up", "lost", "null"}]
    /\ open \in [Connections -> BOOLEAN]
    /\ uncommitted \in [Connections -> SUBSET Statements]
    /\ applied \in [Statements -> Nat]
    /\ disturbed \subseteq Tasks
    /\ threads \subseteq Async
    /\ queue \in Seq(Tasks \cup {Ping})
    /\ status \in [Tasks -> {"new", "posted", "calling", "running"} \cup Finals]

IInv ==
    /\ PoolTypes
    /\ \A c \in Connections : SessionOK(c) /\ ProgressOK(c)
    /\ Assigned /\ QueueOK /\ StatusOK

(***************************************************************************)
(* The inductive invariant behind QueueSizeExact and PostingOrder.  With   *)
(* one worker thread the tasks that have not finished are the one it       *)
(* executes, if any, and those of the queue; pings are in front of them.   *)
(***************************************************************************)
\* k pings are in front of the tasks of the queue.
PingsFirst(k) == \A i \in DOMAIN queue : queue[i] = Ping <=> i <= k

OneThreadOrder ==
    \A w \in threads : threads = {w} /\ ~closed =>
        IF task[w] = NoTask
        THEN \E k \in 0 .. Len(queue) :
                /\ PingsFirst(k)
                /\ Len(unfinished) = Len(queue) - k
                /\ \A i \in DOMAIN unfinished : unfinished[i] = queue[i + k]
        ELSE /\ PingsFirst(0)
             /\ Len(unfinished) = Len(queue) + 1
             /\ unfinished[1] = task[w]
             /\ \A i \in DOMAIN queue : unfinished[i + 1] = queue[i]

PoolInv ==
    /\ TypeOK /\ QueueSizeExact /\ OneThreadOrder
    /\ \A c \in Connections : link[c] = "lost" /\ ~aborted => attempts[c] > 0
    /\ closed => \A w \in threads : at[w] = "exited"
=============================================================================
