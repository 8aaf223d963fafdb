------------------------- MODULE DatabasePoolProofs -------------------------
(***************************************************************************)
(* Proofs about DatabaseWorkerPool, for every set of connections, worker   *)
(* threads and tasks, and for any number of lost connections: a            *)
(* transaction whose own connection was not lost is durable as a whole or  *)
(* not at all, and reported as it is.                                      *)
(*                                                                         *)
(* The argument is local to a connection: SessionOK and ProgressOK relate  *)
(* the place of the thread to the server's session, Assigned says that no  *)
(* two connections execute the same task, so a step of one connection      *)
(* leaves the statements of all others' tasks alone (OtherConnection).     *)
(*                                                                         *)
(* The second part is about the pool as a whole: the types of every        *)
(* variable, the size of the queue, and the order in which the tasks of a  *)
(* single worker thread finish.                                            *)
(***************************************************************************)
EXTENDS DatabaseWorkerPool, FiniteSetTheorems, WellFoundedInduction, TLAPS

USE TasksAssumption, PoolAssumption

(***************************************************************************)
(* Statements.                                                             *)
(***************************************************************************)
LEMMA StatementOf ==
  ASSUME NEW t \in Tasks, NEW i \in 1 .. Size[t]
  PROVE  <<t, i>> \in Statements
  BY DEF Statements

LEMMA TaskOfStatement ==
  ASSUME NEW s \in Statements
  PROVE  s[1] \in Tasks /\ s[2] \in 1 .. Size[s[1]] /\ s = <<s[1], s[2]>>
  BY DEF Statements

\* What a step makes durable belongs to one task: the others keep their counts.
LEMMA OthersKept ==
  ASSUME PoolTypes, NEW t, NEW S, MakeDurable(S), \A s \in S : s[1] = t,
         NEW u \in Tasks, u # t, NEW i \in 1 .. Size[u]
  PROVE  applied'[<<u, i>>] = applied[<<u, i>>]
  <1>1. <<u, i>> \in Statements  BY StatementOf
  <1>2. <<u, i>> \notin S  OBVIOUS
  <1>3. applied[<<u, i>>] \in Nat  BY <1>1 DEF PoolTypes
  <1> QED  BY <1>1, <1>2, <1>3 DEF MakeDurable

LEMMA DurableType ==
  ASSUME PoolTypes, NEW S, MakeDurable(S)
  PROVE  applied' \in [Statements -> Nat]
  BY DEF PoolTypes, MakeDurable

\* What the command of a connection makes durable belongs to its task.
LEMMA DurableByTask ==
  ASSUME NEW c \in Connections, SessionOK(c), NEW s \in DurableBy(c)
  PROVE  s[1] = task[c]
  <1>1. CASE at[c] \in {"begin", "commit"}
    BY <1>1 DEF DurableBy, SessionOK
  <1>2. CASE at[c] = "statement"
    BY <1>2 DEF DurableBy, NextStatement, SessionOK
  <1>3. CASE at[c] \notin {"begin", "commit", "statement"}
    BY <1>3 DEF DurableBy
  <1> QED  BY <1>1, <1>2, <1>3

(***************************************************************************)
(* A connection that a step does not touch stays as it should be.          *)
(***************************************************************************)
LEMMA OtherConnection ==
  ASSUME PoolTypes, NEW d \in Connections, SessionOK(d), ProgressOK(d),
         at'[d] = at[d], task'[d] = task[d], done'[d] = done[d],
         error'[d] = error[d], link'[d] = link[d], open'[d] = open[d],
         uncommitted'[d] = uncommitted[d], disturbed \subseteq disturbed',
         task[d] # NoTask => \A i \in 1 .. Size[task[d]] :
             applied'[<<task[d], i>>] = applied[<<task[d], i>>]
  PROVE  SessionOK(d)' /\ ProgressOK(d)'
  <1>1. SessionOK(d)'  BY DEF SessionOK
  <1>2. ProgressOK(d)'  BY DEF ProgressOK, AppliedTimes
  <1> QED  BY <1>1, <1>2

THEOREM InitIInv == Init => IInv
  <1> SUFFICES ASSUME Init PROVE IInv  OBVIOUS
  <1> USE DEF Init, ConnectionInit
  <1>1. PoolTypes
    BY DEF PoolTypes, Places, Commands, Errors
  <1>2. ASSUME NEW c \in Connections PROVE SessionOK(c) /\ ProgressOK(c)
    BY DEF SessionOK, ProgressOK, Commands
  <1>3. Assigned /\ QueueOK
    BY DEF Assigned, QueueOK
  <1>4. StatusOK
    <2> SUFFICES ASSUME NEW t \in Tasks PROVE AppliedTimes(t, 0)
      BY DEF StatusOK
    <2> QED  BY StatementOf DEF AppliedTimes
  <1> QED  BY <1>1, <1>2, <1>3, <1>4 DEF IInv

(***************************************************************************)
(* Steps of a connection: they leave the pool's own variables and the      *)
(* tasks of the connections alone.                                         *)
(***************************************************************************)
LEMMA ServerFrame ==
  ASSUME IInv, NEW c \in Connections, UNCHANGED <<task, pool>>,
         PoolTypes', SessionOK(c)', ProgressOK(c)', disturbed \subseteq disturbed',
         at[c] = "idle" => at'[c] = "idle",
         \A d \in Connections \ {c} :
             /\ at'[d] = at[d] /\ done'[d] = done[d] /\ error'[d] = error[d]
             /\ link'[d] = link[d] /\ open'[d] = open[d]
             /\ uncommitted'[d] = uncommitted[d],
         \A u \in Tasks \ {task[c]} : \A i \in 1 .. Size[u] :
             applied'[<<u, i>>] = applied[<<u, i>>]
  PROVE  IInv'
  <1> USE DEF IInv, pool
  <1>1. ASSUME NEW d \in Connections PROVE (SessionOK(d) /\ ProgressOK(d))'
    <2>1. CASE d = c  BY <2>1
    <2>2. CASE d # c
      <3>1. task[d] # NoTask => task[d] \in Tasks \ {task[c]}
        BY <2>2 DEF Assigned, PoolTypes
      <3> QED  BY <2>2, <3>1, OtherConnection
    <2> QED  BY <2>1, <2>2
  <1>2. Assigned'  BY DEF Assigned
  <1>3. QueueOK'  BY DEF QueueOK
  <1>4. StatusOK'
    <2> SUFFICES ASSUME NEW t \in Tasks, t \notin disturbed
                 PROVE  /\ status[t] \in {"new", "posted", "calling", "failed",
                                          "dropped"} => AppliedTimes(t, 0)'
                        /\ status[t] = "committed" => AppliedTimes(t, 1)'
      BY DEF StatusOK
    <2>1. CASE status[t] = "running"  BY <2>1
    <2>2. CASE status[t] # "running"
      <3>1. t # task[c]  BY <2>2 DEF Assigned
      <3>2. \A i \in 1 .. Size[t] : applied'[<<t, i>>] = applied[<<t, i>>]
        BY <3>1
      <3> QED  BY <3>2 DEF StatusOK, AppliedTimes
    <2> QED  BY <2>1, <2>2
  <1> QED  BY <1>1, <1>2, <1>3, <1>4

LEMMA BeginStep ==
  ASSUME IInv, NEW c \in Connections, BeginTransaction(c), UNCHANGED pool
  PROVE  IInv'
  <1> USE DEF BeginTransaction, Sent, Goto, Session, reopening, history
  <1>0. PoolTypes /\ SessionOK(c) /\ ProgressOK(c)  BY DEF IInv
  <1>1. uncommitted[c] = {} /\ DurableBy(c) = {}
    BY <1>0 DEF SessionOK, DurableBy
  <1>2. applied' = applied
    BY <1>0, <1>1 DEF MakeDurable, PoolTypes
  <1>3. PoolTypes'
    BY <1>0, <1>2 DEF PoolTypes, Places, Commands, pool
  <1>4. SessionOK(c)'
    BY <1>0 DEF SessionOK, PoolTypes, Commands
  <1>5. ProgressOK(c)'
    BY <1>0, <1>2 DEF ProgressOK, SessionOK, AppliedTimes, PoolTypes
  <1> QED
    BY <1>0, <1>2, <1>3, <1>4, <1>5, ServerFrame DEF PoolTypes

\* A statement in a transaction, or (standalone) durable at once.
LEMMA ExecuteStep ==
  ASSUME IInv, NEW c \in Connections, Execute(c), UNCHANGED pool
  PROVE  IInv'
  <1> USE DEF Execute, Sent, Goto, reopening, history
  <1>0. PoolTypes /\ SessionOK(c) /\ ProgressOK(c)  BY DEF IInv
  <1>1. task[c] \in Tasks /\ done'[c] = done[c] + 1
    BY <1>0 DEF SessionOK, PoolTypes, Commands
  <1>2. \A u \in Tasks \ {task[c]} : \A i \in 1 .. Size[u] :
            applied'[<<u, i>>] = applied[<<u, i>>]
    <2>1. \A s \in DurableBy(c) : s[1] = task[c]  BY <1>0, DurableByTask
    <2> QED  BY <1>0, <2>1, OthersKept
  <1>3. NextStatement(c) \in Statements
    <2>1. done[c] + 1 \in 1 .. Size[task[c]]
      BY <1>0, <1>1 DEF SessionOK, PoolTypes
    <2> QED  BY <1>1, <2>1, StatementOf DEF NextStatement
  <1>4. PoolTypes'
    <2>1. uncommitted' \in [Connections -> SUBSET Statements]
      BY <1>0, <1>3 DEF PoolTypes, Session
    <2>2. open' \in [Connections -> BOOLEAN] /\ done' \in [Connections -> Nat]
      BY <1>0, <1>1 DEF PoolTypes, Session
    <2>3. at' \in [Connections -> Places]
      BY <1>0 DEF PoolTypes, Places, Commands
    <2>4. applied' \in [Statements -> Nat]  BY <1>0, DurableType
    <2> QED  BY <1>0, <2>1, <2>2, <2>3, <2>4 DEF PoolTypes, pool
  <1>5. SessionOK(c)'
    BY <1>0, <1>1 DEF SessionOK, PoolTypes, Commands, Session, NextStatement
  <1>6. ProgressOK(c)'
    <2> SUFFICES ASSUME task[c] \notin disturbed PROVE ProgressOK(c)'
      BY DEF ProgressOK
    <2> DEFINE t == task[c]
    <2>0. AppliedTimes(t, 0)  BY <1>0, <1>1 DEF ProgressOK
    <2>1. CASE t \in Transactional
      <3>1. open[c] /\ uncommitted[c] = {t} \X (1 .. done[c])
        BY <1>0, <1>1, <2>1 DEF ProgressOK
      <3>2. uncommitted'[c] = {t} \X (1 .. done'[c]) /\ open'[c]
        BY <1>0, <1>1, <3>1 DEF Session, NextStatement, PoolTypes
      <3>3. DurableBy(c) = {}  BY <3>1 DEF DurableBy
      <3>4. applied' = applied  BY <1>0, <3>3 DEF MakeDurable, PoolTypes
      <3>5. at'[c] \in {"statement", "commit"}
        BY <1>0, <2>1 DEF PoolTypes
      <3>6. error'[c] = "none"  BY <1>0, <1>1 DEF ProgressOK
      <3> QED
        BY <1>1, <2>0, <3>2, <3>4, <3>5, <3>6 DEF ProgressOK, AppliedTimes
    <2>2. CASE t \notin Transactional
      <3>1. Size[t] = 1 /\ done[c] = 0
        BY <1>0, <1>1, <2>2 DEF SessionOK, PoolTypes
      <3>2. ~open[c] /\ DurableBy(c) = {<<t, 1>>}
        BY <1>0, <2>2, <3>1 DEF SessionOK, DurableBy, NextStatement
      <3>3. applied'[<<t, 1>>] = 1
        <4>1. <<t, 1>> \in Statements /\ applied[<<t, 1>>] = 0
          BY <1>1, <2>0, <3>1, StatementOf DEF AppliedTimes
        <4> QED  BY <3>2, <4>1 DEF MakeDurable
      <3>4. at'[c] = "return" /\ error'[c] = "none"
        BY <1>0, <1>1, <2>2, <3>1 DEF PoolTypes, ProgressOK
      <3> QED  BY <1>1, <3>1, <3>3, <3>4 DEF ProgressOK, AppliedTimes
    <2> QED  BY <2>1, <2>2
  <1> QED
    BY <1>0, <1>2, <1>4, <1>5, <1>6, ServerFrame DEF PoolTypes, Session

\* The error paths of a statement touch nothing durable.
LEMMA DeadlockStep ==
  ASSUME IInv, NEW c \in Connections, ExecuteDeadlocks(c), UNCHANGED pool
  PROVE  IInv'
  <1> USE DEF ExecuteDeadlocks, Failed, Sent, Goto, Session, reopening, history
  <1>0. PoolTypes /\ SessionOK(c) /\ ProgressOK(c)  BY DEF IInv
  <1>1. PoolTypes'
    BY <1>0 DEF PoolTypes, Places, Commands, Errors, pool
  <1>2. SessionOK(c)'  BY <1>0 DEF SessionOK, PoolTypes, Commands
  <1>3. ProgressOK(c)'
    BY <1>0 DEF ProgressOK, AppliedTimes, PoolTypes
  <1> QED  BY <1>0, <1>1, <1>2, <1>3, ServerFrame DEF PoolTypes

LEMMA RefusedStep ==
  ASSUME IInv, NEW c \in Connections, ExecuteRefused(c), UNCHANGED pool
  PROVE  IInv'
  <1> USE DEF ExecuteRefused, Failed, Sent, Goto, session, reopening, history
  <1>0. PoolTypes /\ SessionOK(c) /\ ProgressOK(c)  BY DEF IInv
  <1>1. PoolTypes'
    BY <1>0 DEF PoolTypes, Places, Commands, Errors, pool
  <1>2. SessionOK(c)'  BY <1>0 DEF SessionOK, PoolTypes, Commands
  <1>3. ProgressOK(c)'
    BY <1>0 DEF ProgressOK, AppliedTimes, PoolTypes
  <1> QED  BY <1>0, <1>1, <1>2, <1>3, ServerFrame DEF PoolTypes

LEMMA AbortStep ==
  ASSUME IInv, NEW c \in Connections, ExecuteAborts(c), UNCHANGED pool
  PROVE  IInv'
  <1> USE DEF ExecuteAborts, caller, session, reopening, history
  <1>0. PoolTypes /\ SessionOK(c) /\ ProgressOK(c)  BY DEF IInv
  <1>1. PoolTypes'  BY <1>0 DEF PoolTypes, pool
  <1>2. SessionOK(c)'  BY <1>0 DEF SessionOK
  <1>3. ProgressOK(c)'  BY <1>0 DEF ProgressOK, AppliedTimes
  <1> QED  BY <1>0, <1>1, <1>2, <1>3, ServerFrame

\* The commit makes the whole transaction durable at once.
LEMMA CommitStep ==
  ASSUME IInv, NEW c \in Connections, CommitTransaction(c), UNCHANGED pool
  PROVE  IInv'
  <1> USE DEF CommitTransaction, Sent, Goto, Session, reopening, history
  <1>0. PoolTypes /\ SessionOK(c) /\ ProgressOK(c)  BY DEF IInv
  <1>1. task[c] \in Transactional /\ done[c] = Size[task[c]]
    BY <1>0 DEF SessionOK, PoolTypes, Commands
  <1>2. \A u \in Tasks \ {task[c]} : \A i \in 1 .. Size[u] :
            applied'[<<u, i>>] = applied[<<u, i>>]
    <2>1. \A s \in DurableBy(c) : s[1] = task[c]  BY <1>0, DurableByTask
    <2> QED  BY <1>0, <2>1, OthersKept
  <1>3. PoolTypes'
    <2>1. applied' \in [Statements -> Nat]  BY <1>0, DurableType
    <2> QED  BY <1>0, <2>1 DEF PoolTypes, Places, Commands, pool
  <1>4. SessionOK(c)'  BY <1>0 DEF SessionOK, PoolTypes, Commands
  <1>5. ProgressOK(c)'
    <2> SUFFICES ASSUME task[c] \notin disturbed PROVE ProgressOK(c)'
      BY DEF ProgressOK
    <2> DEFINE t == task[c]
    <2>1. AppliedTimes(t, 0) /\ uncommitted[c] = {t} \X (1 .. Size[t])
      BY <1>0, <1>1 DEF ProgressOK
    <2>2. AppliedTimes(t, 1)'
      <3> SUFFICES ASSUME NEW i \in 1 .. Size[t] PROVE applied'[<<t, i>>] = 1
        BY DEF AppliedTimes
      <3>1. <<t, i>> \in Statements /\ applied[<<t, i>>] = 0
        BY <1>1, <2>1, StatementOf DEF AppliedTimes
      <3>2. <<t, i>> \in DurableBy(c)  BY <2>1 DEF DurableBy
      <3> QED  BY <3>1, <3>2 DEF MakeDurable
    <2>3. at'[c] = "return" /\ error'[c] = "none"
      BY <1>0, <1>1 DEF PoolTypes, ProgressOK
    <2> QED  BY <2>2, <2>3 DEF ProgressOK, AppliedTimes
  <1> QED  BY <1>0, <1>2, <1>3, <1>4, <1>5, ServerFrame DEF PoolTypes

LEMMA RollbackStep ==
  ASSUME IInv, NEW c \in Connections, RollbackTransaction(c), UNCHANGED pool
  PROVE  IInv'
  <1> USE DEF RollbackTransaction, Sent, Goto, Session, reopening, history
  <1>0. PoolTypes /\ SessionOK(c) /\ ProgressOK(c)  BY DEF IInv
  <1>1. PoolTypes'  BY <1>0 DEF PoolTypes, Places, Commands, pool
  <1>2. SessionOK(c)'  BY <1>0 DEF SessionOK, PoolTypes, Commands
  <1>3. ProgressOK(c)'
    BY <1>0 DEF ProgressOK, AppliedTimes, PoolTypes
  <1> QED  BY <1>0, <1>1, <1>2, <1>3, ServerFrame DEF PoolTypes

(***************************************************************************)
(* A lost connection disturbs the task it serves, and only that one.       *)
(***************************************************************************)
LEMMA LoseStep ==
  ASSUME IInv, NEW c \in Connections, Lose(c), UNCHANGED pool
  PROVE  IInv'
  <1> USE DEF Lose, Sent, Session, caller
  <1>0. PoolTypes /\ SessionOK(c) /\ ProgressOK(c)  BY DEF IInv
  <1>1. task[c] \in Tasks  BY <1>0 DEF SessionOK, PoolTypes
  <1>2. \A u \in Tasks \ {task[c]} : \A i \in 1 .. Size[u] :
            applied'[<<u, i>>] = applied[<<u, i>>]
    <2>1. \A s \in DurableBy(c) : s[1] = task[c]  BY <1>0, DurableByTask
    <2> QED  BY <1>0, <2>1, OthersKept
  <1>3. PoolTypes'
    <2>1. applied' \in [Statements -> Nat]  BY <1>0, DurableType DEF PoolTypes
    <2> QED  BY <1>0, <1>1, <2>1 DEF PoolTypes, pool
  <1>4. SessionOK(c)'  BY <1>0 DEF SessionOK, PoolTypes
  <1>5. ProgressOK(c)'  BY DEF ProgressOK
  <1> QED  BY <1>0, <1>2, <1>3, <1>4, <1>5, ServerFrame DEF PoolTypes

LEMMA ReconnectStep ==
  ASSUME IInv, NEW c \in Connections, Reconnect(c), UNCHANGED pool
  PROVE  IInv'
  <1> USE DEF Reconnect, caller, session, history, reopening
  <1>0. PoolTypes /\ SessionOK(c) /\ ProgressOK(c)  BY DEF IInv
  <1>1. PoolTypes'  BY <1>0 DEF PoolTypes, pool
  <1>2. ~open[c]  BY <1>0 DEF SessionOK
  <1>3. SessionOK(c)'  BY <1>0, <1>2 DEF SessionOK, PoolTypes
  <1>4. ProgressOK(c)'  BY <1>0 DEF ProgressOK, AppliedTimes
  <1> QED  BY <1>0, <1>1, <1>3, <1>4, ServerFrame DEF PoolTypes

LEMMA NullStep ==
  ASSUME IInv, NEW c \in Connections, NullConnection(c), UNCHANGED pool
  PROVE  IInv'
  <1> USE DEF NullConnection, Failed, Goto, session, reopening
  <1>0. PoolTypes /\ SessionOK(c) /\ ProgressOK(c)  BY DEF IInv
  <1>1. task[c] \in Tasks  BY <1>0 DEF SessionOK, PoolTypes
  <1>2. PoolTypes'
    BY <1>0, <1>1 DEF PoolTypes, Places, Commands, Errors, pool
  <1>3. SessionOK(c)'  BY <1>0 DEF SessionOK, PoolTypes, Commands
  <1>4. ProgressOK(c)'  BY DEF ProgressOK
  <1>5. /\ UNCHANGED <<task, pool, applied, done, link, open, uncommitted>>
        /\ disturbed \subseteq disturbed' /\ at[c] # "idle"
    BY DEF Commands, history
  <1>6. \A d \in Connections \ {c} : at'[d] = at[d] /\ error'[d] = error[d]
    BY <1>0 DEF PoolTypes
  <1> QED  BY <1>2, <1>3, <1>4, <1>5, <1>6, ServerFrame

LEMMA ServerStepIInv ==
  ASSUME IInv, NEW c \in Connections, ServerStep(c)
  PROVE  IInv'
  BY BeginStep, ExecuteStep, DeadlockStep, RefusedStep, AbortStep, CommitStep,
     RollbackStep, LoseStep, ReconnectStep, NullStep
     DEF ServerStep, ConnectionStep

(***************************************************************************)
(* Steps of the pool: a task starts (again) on a connection, or ends.      *)
(***************************************************************************)
LEMMA AllConnections ==
  ASSUME IInv, NEW c \in Connections, SessionOK(c)', ProgressOK(c)',
         UNCHANGED <<link, session, disturbed>>,
         \A d \in Connections \ {c} :
             /\ at'[d] = at[d] /\ task'[d] = task[d]
             /\ done'[d] = done[d] /\ error'[d] = error[d]
  PROVE  \A d \in Connections : SessionOK(d)' /\ ProgressOK(d)'
  <1> SUFFICES ASSUME NEW d \in Connections, d # c
               PROVE  SessionOK(d)' /\ ProgressOK(d)'
    OBVIOUS
  <1> QED  BY OtherConnection DEF IInv, session

\* A task begins anew: nothing of it may be durable yet.
LEMMA StartStep ==
  ASSUME IInv, NEW c \in Connections, NEW t \in Tasks, StartTask(c, t),
         at[c] \notin Commands, task[c] \in {NoTask, t},
         status[t] # "running" \/ task[c] = t,
         t \notin disturbed => AppliedTimes(t, 0),
         status' = [status EXCEPT ![t] = "running"],
         threads' = threads, queue' \in Seq(Tasks \cup {Ping}), QueueOK',
         locked \subseteq locked', c \in Sync => c \in locked'
  PROVE  IInv'
  <1> USE DEF StartTask, Goto, reopening, session, history
  <1>0. PoolTypes /\ SessionOK(c)  BY DEF IInv
  <1>1. FirstPlace(t) \in {"begin", "statement", "return"}
    BY DEF FirstPlace
  <1>2. PoolTypes'
    <2>1. /\ at' \in [Connections -> Places]
          /\ error' \in [Connections -> Errors]
      BY <1>0, <1>1 DEF PoolTypes, Places, Commands, Errors
    <2>2. /\ task' \in [Connections -> Tasks \cup {NoTask}]
          /\ done' \in [Connections -> Nat]
      BY <1>0 DEF PoolTypes
    <2>3. status' \in [Tasks -> {"new", "posted", "calling", "running"} \cup Finals]
      BY <1>0 DEF PoolTypes
    <2> QED  BY <1>0, <2>1, <2>2, <2>3 DEF PoolTypes
  <1>3. ~open[c] /\ uncommitted[c] = {}
    BY <1>0 DEF SessionOK, Commands
  <1>4. /\ at'[c] = FirstPlace(t) /\ task'[c] = t /\ done'[c] = 0
        /\ error'[c] = IF Size[t] = 0 THEN "empty" ELSE "none"
    BY <1>0 DEF PoolTypes
  <1>5. SessionOK(c)'
    BY <1>3, <1>4 DEF SessionOK, FirstPlace, Commands
  <1>6. ProgressOK(c)'
    <2> SUFFICES ASSUME t \notin disturbed PROVE ProgressOK(c)'
      BY <1>4 DEF ProgressOK
    <2>1. AppliedTimes(t, 0)'  BY DEF AppliedTimes
    <2>2. CASE Size[t] = 0
      BY <1>4, <2>1, <2>2 DEF ProgressOK, FirstPlace
    <2>3. CASE Size[t] # 0
      <3>1. at'[c] = (IF t \in Transactional THEN "begin" ELSE "statement")
        BY <1>4, <2>3 DEF FirstPlace
      <3> QED  BY <1>4, <2>1, <2>3, <3>1 DEF ProgressOK
    <2> QED  BY <2>2, <2>3
  <1>7. \A d \in Connections : SessionOK(d)' /\ ProgressOK(d)'
    BY <1>0, <1>5, <1>6, AllConnections DEF PoolTypes
  <1>8. Assigned'
    <2>1. \A d \in Connections : d # c => task[d] # t
      BY <1>0 DEF IInv, Assigned
    <2>2. \A d \in Connections : d # c => task'[d] = task[d] /\ at'[d] = at[d]
      BY <1>0 DEF PoolTypes
    <2>3. \A d \in Connections : task'[d] # NoTask => status'[task'[d]] = "running"
      BY <1>0, <1>4, <2>1, <2>2 DEF IInv, Assigned, PoolTypes
    <2>4. \A d, e \in Connections : task'[d] = task'[e] /\ task'[d] # NoTask => d = e
      BY <1>0, <1>4, <2>1, <2>2 DEF IInv, Assigned
    <2>5. \A u \in Tasks : status'[u] = "running" =>
              \E d \in Connections : task'[d] = u
      <3> SUFFICES ASSUME NEW u \in Tasks, status'[u] = "running", u # t
                   PROVE  \E d \in Connections : task'[d] = u
        BY <1>4
      <3>1. status[u] = "running"  BY <1>0 DEF PoolTypes
      <3>2. PICK d \in Connections : task[d] = u
        BY <3>1 DEF IInv, Assigned
      <3>3. d # c  BY <3>2
      <3> QED  BY <2>2, <3>2, <3>3
    <2>6. \A d \in Sync \ locked' : at'[d] = "idle"
      BY <2>2 DEF IInv, Assigned
    <2> QED  BY <2>3, <2>4, <2>5, <2>6 DEF Assigned
  <1>9. StatusOK'
    BY <1>0 DEF IInv, StatusOK, AppliedTimes, PoolTypes
  <1> QED  BY <1>2, <1>7, <1>8, <1>9 DEF IInv

\* ExecuteTransaction has returned for good: what it answered is what holds.
LEMMA EndStep ==
  ASSUME IInv, NEW c \in Connections, EndTask(c, "idle"), at[c] = "return",
         status' = [status EXCEPT ![task[c]] =
                       IF error[c] = "none" THEN "committed" ELSE "failed"],
         threads' = threads, queue' = queue, locked \subseteq locked' \cup {c}
  PROVE  IInv'
  <1> USE DEF EndTask, Goto, reopening, session, history
  <1> DEFINE t == task[c]
  <1>0. PoolTypes /\ SessionOK(c) /\ ProgressOK(c)  BY DEF IInv
  <1>1. t \in Tasks /\ ~open[c] /\ uncommitted[c] = {}
    BY <1>0 DEF SessionOK, PoolTypes
  <1>2. PoolTypes'
    <2>1. /\ at' \in [Connections -> Places]
          /\ error' \in [Connections -> Errors]
      BY <1>0 DEF PoolTypes, Places, Errors
    <2>2. status' \in [Tasks -> {"new", "posted", "calling", "running"} \cup Finals]
      BY <1>0 DEF PoolTypes, Finals
    <2> QED  BY <1>0, <2>1, <2>2 DEF PoolTypes
  <1>3. at'[c] = "idle" /\ task'[c] = NoTask  BY <1>0 DEF PoolTypes
  <1>4. \A d \in Connections : d # c => task'[d] = task[d] /\ at'[d] = at[d]
    BY <1>0 DEF PoolTypes
  <1>5. SessionOK(c)' /\ ProgressOK(c)'
    BY <1>1, <1>3 DEF SessionOK, ProgressOK, Commands
  <1>6. \A d \in Connections : SessionOK(d)' /\ ProgressOK(d)'
    BY <1>0, <1>5, AllConnections DEF PoolTypes
  <1>7. \A u \in Tasks : u # t => status'[u] = status[u]
    BY <1>0 DEF PoolTypes
  <1>8. status'[t] \in {"committed", "failed"}  BY <1>0, <1>1 DEF PoolTypes
  <1>9. Assigned'
    <2>1. \A d \in Connections : task'[d] # NoTask => status'[task'[d]] = "running"
      BY <1>0, <1>3, <1>4, <1>7 DEF IInv, Assigned, PoolTypes
    <2>2. \A d, e \in Connections : task'[d] = task'[e] /\ task'[d] # NoTask => d = e
      BY <1>3, <1>4 DEF IInv, Assigned
    <2>3. \A u \in Tasks : status'[u] = "running" =>
              \E d \in Connections : task'[d] = u
      BY <1>4, <1>7, <1>8 DEF IInv, Assigned
    <2>4. \A d \in Sync \ locked' : at'[d] = "idle"
      BY <1>3, <1>4 DEF IInv, Assigned
    <2> QED  BY <2>1, <2>2, <2>3, <2>4 DEF Assigned
  <1>10. QueueOK'
    BY <1>0, <1>1, <1>7 DEF IInv, QueueOK, Assigned
  <1>11. StatusOK'
    <2> SUFFICES ASSUME NEW u \in Tasks, u \notin disturbed
                 PROVE  /\ status'[u] \in {"new", "posted", "calling", "failed",
                                           "dropped"} => AppliedTimes(u, 0)'
                        /\ status'[u] = "committed" => AppliedTimes(u, 1)'
      BY DEF StatusOK
    <2>1. CASE u = t
      BY <1>0, <1>1, <2>1 DEF ProgressOK, AppliedTimes, PoolTypes
    <2>2. CASE u # t
      BY <1>7, <2>2 DEF IInv, StatusOK, AppliedTimes
    <2> QED  BY <2>1, <2>2
  <1> QED  BY <1>2, <1>6, <1>9, <1>10, <1>11 DEF IInv

(***************************************************************************)
(* Steps that leave every session and every running task alone.            *)
(***************************************************************************)
LEMMA QuietStep ==
  ASSUME IInv, UNCHANGED <<task, done, error, link, session, disturbed>>,
         at' \in [Connections -> Places],
         \A c \in Connections :
             at'[c] = at[c] \/ {at[c], at'[c]} \subseteq {"idle", "ping", "exited"},
         \A c \in Sync \ locked' : c \notin locked /\ at'[c] = at[c],
         threads' \subseteq Async, queue' \in Seq(Tasks \cup {Ping}), QueueOK',
         status' \in [Tasks -> {"new", "posted", "calling", "running"} \cup Finals],
         \A t \in Tasks : status'[t] = status[t] \/
             {status[t], status'[t]} \subseteq {"new", "posted", "calling", "dropped"}
  PROVE  IInv'
  <1> USE DEF session
  <1>0. PoolTypes /\ Assigned /\ StatusOK  BY DEF IInv
  <1>1. PoolTypes'  BY <1>0 DEF PoolTypes
  <1>2. ASSUME NEW c \in Connections PROVE SessionOK(c)' /\ ProgressOK(c)'
    <2>0. SessionOK(c) /\ ProgressOK(c)  BY DEF IInv
    <2>1. CASE at'[c] = at[c]
      BY <2>0, <2>1 DEF SessionOK, ProgressOK, AppliedTimes
    <2>2. CASE {at[c], at'[c]} \subseteq {"idle", "ping", "exited"}
      BY <2>0, <2>2 DEF SessionOK, ProgressOK, Commands
    <2> QED  BY <2>1, <2>2
  <1>3. Assigned'
    <2>0. \A t \in Tasks : status[t] = "running" => status'[t] = "running"
      OBVIOUS
    <2>1. \A c \in Connections : task[c] # NoTask => status'[task[c]] = "running"
      BY <1>0, <2>0 DEF Assigned, PoolTypes
    <2>2. \A t \in Tasks : status'[t] = "running" => status[t] = "running"
      OBVIOUS
    <2> QED  BY <1>0, <2>1, <2>2 DEF Assigned
  <1>4. StatusOK'  BY <1>0 DEF StatusOK, AppliedTimes
  <1> QED  BY <1>1, <1>2, <1>3, <1>4 DEF IInv

\* Appending a task that is not posted yet, or pings, keeps the queue in order.
LEMMA PostStep ==
  ASSUME IInv, NEW t \in Tasks, Post(t)
  PROVE  IInv'
  <1> USE DEF Post, Become, connectionVars, caller, reopening, history
  <1>0. PoolTypes /\ QueueOK  BY DEF IInv
  <1>1. /\ queue' \in Seq(Tasks \cup {Ping})
        /\ Len(queue') = Len(queue) + 1
        /\ \A i \in 1 .. Len(queue) : queue'[i] = queue[i]
        /\ queue'[Len(queue) + 1] = t
    BY <1>0 DEF PoolTypes
  <1>2. QueueOK'
    <2>1. \A i \in DOMAIN queue' : i \in DOMAIN queue \/ i = Len(queue) + 1
      BY <1>0, <1>1 DEF PoolTypes
    <2>2. \A i \in DOMAIN queue : queue[i] # t
      BY <1>0 DEF QueueOK
    <2>3. status'[t] = "posted"  BY <1>0 DEF PoolTypes
    <2>4. \A i \in DOMAIN queue' : queue'[i] # Ping => status'[queue'[i]] = "posted"
      BY <1>0, <1>1, <2>1, <2>2, <2>3 DEF QueueOK, PoolTypes
    <2>5. \A i, j \in DOMAIN queue' : queue'[i] = queue'[j] /\ queue'[i] # Ping => i = j
      BY <1>0, <1>1, <2>1, <2>2 DEF QueueOK, PoolTypes
    <2> QED  BY <2>4, <2>5 DEF QueueOK
  <1>3. status' \in [Tasks -> {"new", "posted", "calling", "running"} \cup Finals]
    BY <1>0 DEF PoolTypes
  <1>4. \A u \in Tasks : status'[u] = status[u] \/
            {status[u], status'[u]} \subseteq {"new", "posted", "calling", "dropped"}
    BY <1>0 DEF PoolTypes
  <1> QED  BY <1>0, <1>1, <1>2, <1>3, <1>4, QuietStep DEF PoolTypes, IInv, Assigned

LEMMA CallStep ==
  ASSUME IInv, NEW t \in Tasks, CallDirect(t)
  PROVE  IInv'
  <1> USE DEF CallDirect, Become, connectionVars, caller, reopening, history
  <1>0. PoolTypes /\ QueueOK  BY DEF IInv
  <1>1. QueueOK'  BY <1>0 DEF QueueOK, PoolTypes
  <1>2. status' \in [Tasks -> {"new", "posted", "calling", "running"} \cup Finals]
    BY <1>0 DEF PoolTypes
  <1>3. \A u \in Tasks : status'[u] = status[u] \/
            {status[u], status'[u]} \subseteq {"new", "posted", "calling", "dropped"}
    BY <1>0 DEF PoolTypes
  <1> QED  BY <1>0, <1>1, <1>2, <1>3, QuietStep DEF PoolTypes

LEMMA KeepAliveStep ==
  ASSUME IInv, KeepAlive
  PROVE  IInv'
  <1> USE DEF KeepAlive, connectionVars, caller, reopening, history
  <1>0. PoolTypes /\ QueueOK  BY DEF IInv
  <1>1. /\ queue' = [i \in 1 .. Cardinality(threads) |-> Ping]
        /\ Cardinality(threads) \in Nat
    BY <1>0, FS_Subset, FS_CardinalityType DEF PoolTypes
  <1>2. queue' \in Seq(Tasks \cup {Ping})  BY <1>1
  <1>3. QueueOK'  BY <1>1 DEF QueueOK
  <1> QED  BY <1>0, <1>2, <1>3, QuietStep DEF PoolTypes

\* The head of the queue leaves it; the tasks behind it stay posted.
LEMMA TakeStep ==
  ASSUME IInv, NEW w \in threads, Take(w)
  PROVE  IInv'
  <1> USE DEF Take, Become
  <1>0. PoolTypes /\ QueueOK /\ Assigned /\ SessionOK(w)
    BY DEF IInv, PoolTypes
  <1>1. w \in Connections /\ w \notin Sync  BY <1>0 DEF PoolTypes
  <1>2. task[w] = NoTask  BY <1>0, <1>1 DEF SessionOK, Commands, PoolTypes
  <1>3. /\ Head(queue) \in Tasks \cup {Ping} /\ Head(queue) = queue[1]
        /\ queue' \in Seq(Tasks \cup {Ping})
        /\ \A i \in DOMAIN queue' : i + 1 \in DOMAIN queue /\ queue'[i] = queue[i + 1]
        /\ 1 \in DOMAIN queue
    BY <1>0 DEF PoolTypes
  <1>4. \A i \in DOMAIN queue' : i \in Nat /\ i + 1 # 1
    BY <1>3
  <1>5. \A i \in DOMAIN queue' : queue'[i] # Ping =>
            queue'[i] # Head(queue) /\ status[queue'[i]] = "posted"
    BY <1>0, <1>3, <1>4 DEF QueueOK
  <1>6. \A i, j \in DOMAIN queue' : queue'[i] = queue'[j] /\ queue'[i] # Ping => i = j
    BY <1>0, <1>3, <1>4 DEF QueueOK
  <1>7. CASE Head(queue) = Ping
    <2>1. QueueOK'  BY <1>5, <1>6, <1>7 DEF QueueOK
    <2>2. at' \in [Connections -> Places]
      BY <1>0, <1>7 DEF PoolTypes, Goto, Places
    <2>3. \A c \in Connections : at'[c] = at[c] \/
              {at[c], at'[c]} \subseteq {"idle", "ping", "exited"}
      BY <1>0, <1>7 DEF PoolTypes, Goto
    <2>4. \A c \in Sync : at'[c] = at[c]  BY <1>0, <1>1, <1>7 DEF PoolTypes, Goto
    <2>5. UNCHANGED <<task, done, error, link, session, disturbed, status, threads, locked>>
      BY <1>7 DEF reopening, history
    <2> QED  BY <1>0, <1>3, <2>1, <2>2, <2>3, <2>4, <2>5, QuietStep DEF PoolTypes
  <1>8. CASE Head(queue) # Ping
    <2> DEFINE t == Head(queue)
    <2>1. t \in Tasks /\ StartTask(w, t) /\ status' = [status EXCEPT ![t] = "running"]
      BY <1>3, <1>8
    <2>2. status[t] = "posted"  BY <1>0, <1>3, <1>8 DEF QueueOK
    <2>3. t \notin disturbed => AppliedTimes(t, 0)
      BY <2>1, <2>2 DEF IInv, StatusOK
    <2>4. QueueOK'
      BY <1>0, <1>3, <1>5, <1>6, <2>1 DEF QueueOK, PoolTypes
    <2>5. threads' = threads /\ locked' = locked /\ at[w] \notin Commands
      BY DEF Commands
    <2> QED
      BY <1>1, <1>2, <1>3, <2>1, <2>2, <2>3, <2>4, <2>5, StartStep
  <1> QED  BY <1>7, <1>8

LEMMA DirectStepIInv ==
  ASSUME IInv, NEW c \in Sync, DirectStep(c)
  PROVE  IInv'
  <1>0. PoolTypes /\ SessionOK(c) /\ ProgressOK(c) /\ c \in Connections
    BY DEF IInv
  <1>1. at[c] = "return" /\ task[c] \in Tasks /\ status[task[c]] = "running"
    BY <1>0 DEF DirectStep, RetryDirect, DirectReturns, SessionOK, PoolTypes,
                IInv, Assigned
  <1>2. CASE RetryDirect(c)
    <2>1. task[c] \notin disturbed => AppliedTimes(task[c], 0)
      BY <1>0, <1>1, <1>2 DEF RetryDirect, MayRetryDirect, ProgressOK
    <2>2. status' = [status EXCEPT ![task[c]] = "running"]
      BY <1>0, <1>1, <1>2 DEF RetryDirect, PoolTypes
    <2>3. c \in locked
      BY <1>0, <1>1 DEF IInv, Assigned
    <2>4. QueueOK' /\ queue' \in Seq(Tasks \cup {Ping})
      BY <1>0, <1>2 DEF RetryDirect, IInv, QueueOK, PoolTypes
    <2> QED
      BY <1>0, <1>1, <1>2, <2>1, <2>2, <2>3, <2>4, StartStep
         DEF RetryDirect, Commands
  <1>3. CASE DirectReturns(c)
    BY <1>0, <1>1, <1>3, EndStep DEF DirectReturns, Become
  <1> QED  BY <1>2, <1>3 DEF DirectStep

LEMMA FreeConnectionStep ==
  ASSUME IInv, NEW t \in Tasks, NEW c \in Sync, GetFreeConnection(t, c)
  PROVE  IInv'
  <1> USE DEF GetFreeConnection, Become
  <1>0. PoolTypes /\ SessionOK(c) /\ c \in Connections  BY DEF IInv
  <1>1. at[c] = "idle"  BY DEF IInv, Assigned
  <1>2. task[c] = NoTask  BY <1>0, <1>1 DEF SessionOK, Commands
  <1>3. t \notin disturbed => AppliedTimes(t, 0)  BY DEF IInv, StatusOK
  <1>4. QueueOK' /\ queue' \in Seq(Tasks \cup {Ping})
    BY <1>0 DEF IInv, QueueOK, PoolTypes
  <1> QED  BY <1>0, <1>1, <1>2, <1>3, <1>4, StartStep DEF Commands

(***************************************************************************)
(* The worker threads.                                                     *)
(***************************************************************************)
LEMMA RetryStep ==
  ASSUME IInv, NEW w \in threads, LockDeadlock(w) \/ RetryAgain(w)
  PROVE  IInv'
  <1>0. PoolTypes /\ SessionOK(w) /\ ProgressOK(w) /\ w \in Connections \ Sync
    BY DEF IInv, PoolTypes
  <1>1. /\ at[w] \in {"locking", "return"} /\ task[w] \in Tasks
        /\ status[task[w]] = "running" /\ StartTask(w, task[w])
    BY <1>0 DEF LockDeadlock, RetryAgain, SessionOK, PoolTypes, IInv, Assigned
  <1>2. UNCHANGED <<status, queue, threads, locked>>
    BY DEF LockDeadlock, RetryAgain, pool
  <1>3. task[w] \notin disturbed => AppliedTimes(task[w], 0)
    BY <1>0, <1>1 DEF LockDeadlock, RetryAgain, ProgressOK
  <1>4. status' = [status EXCEPT ![task[w]] = "running"]
    BY <1>0, <1>1, <1>2 DEF PoolTypes
  <1>5. QueueOK' /\ queue' \in Seq(Tasks \cup {Ping})
    BY <1>0, <1>2 DEF IInv, QueueOK, PoolTypes
  <1> QED
    BY <1>0, <1>1, <1>2, <1>3, <1>4, <1>5, StartStep DEF Commands

LEMMA FinishStep ==
  ASSUME IInv, NEW w \in threads,
         FirstAttemptReturns(w) \/ RetrySucceeds(w) \/ RetryTimesOut(w)
  PROVE  IInv'
  <1>0. w \in Connections  BY DEF IInv, PoolTypes
  <1>1. PICK s \in {"committed", "failed"} :
            /\ Finish(w, s)
            /\ s = IF error[w] = "none" THEN "committed" ELSE "failed"
    BY DEF FirstAttemptReturns, RetrySucceeds, RetryTimesOut
  <1> QED  BY <1>0, <1>1, EndStep DEF Finish, Become

\* Steps of a worker that only move it between places without a task.
LEMMA IdleStep ==
  ASSUME IInv, NEW w \in threads, PingReturns(w) \/ Exit(w)
  PROVE  IInv'
  <1>0. PoolTypes /\ SessionOK(w) /\ ProgressOK(w) /\ w \in Connections \ Sync
    BY DEF IInv, PoolTypes
  <1>1. CASE Exit(w)
    <2>1. UNCHANGED <<task, done, error, link, session, disturbed, status, queue, threads, locked>>
      BY <1>1 DEF Exit, reopening, history, pool
    <2>2. at' \in [Connections -> Places]
      BY <1>0, <1>1 DEF Exit, Goto, PoolTypes, Places
    <2>3. \A c \in Connections : at'[c] = at[c] \/
              {at[c], at'[c]} \subseteq {"idle", "ping", "exited"}
      BY <1>0, <1>1 DEF Exit, Goto, PoolTypes
    <2>4. \A c \in Sync : at'[c] = at[c]  BY <1>0, <1>1 DEF Exit, Goto, PoolTypes
    <2>5. QueueOK'  BY <2>1 DEF IInv, QueueOK
    <2> QED  BY <1>0, <2>1, <2>2, <2>3, <2>4, <2>5, QuietStep DEF PoolTypes
  <1>2. CASE PingReturns(w)
    <2>1. task[w] = NoTask
      BY <1>0, <1>2 DEF PingReturns, SessionOK, Commands
    <2>2. /\ UNCHANGED <<link, session, disturbed, status, queue, threads, locked>>
          /\ task' = task
      BY <1>0, <1>2, <2>1 DEF PingReturns, EndTask, PoolTypes, reopening, history
    <2>3. at' = [at EXCEPT ![w] = "idle"]
      BY <1>2 DEF PingReturns, EndTask, Goto
    <2>4. PoolTypes'
      BY <1>0, <1>2, <2>2, <2>3
         DEF PingReturns, EndTask, PoolTypes, Places, Errors, session
    <2>5. SessionOK(w)' /\ ProgressOK(w)'
      BY <1>0, <1>2, <2>1, <2>2, <2>3
         DEF SessionOK, ProgressOK, Commands, PingReturns, PoolTypes, session
    <2>6. \A d \in Connections : SessionOK(d)' /\ ProgressOK(d)'
      BY <1>0, <1>2, <2>2, <2>3, <2>5, AllConnections
         DEF PingReturns, EndTask, PoolTypes
    <2>7. Assigned'
      BY <1>0, <2>2, <2>3 DEF IInv, Assigned, PoolTypes
    <2>8. QueueOK' /\ StatusOK'
      BY <2>2 DEF IInv, QueueOK, StatusOK, AppliedTimes, session
    <2> QED  BY <2>4, <2>6, <2>7, <2>8 DEF IInv
  <1> QED  BY <1>1, <1>2

LEMMA DeadlockedStep ==
  ASSUME IInv, NEW w \in threads, FirstAttemptDeadlocks(w)
  PROVE  IInv'
  <1> USE DEF FirstAttemptDeadlocks, Goto, reopening, session, history, pool
  <1>0. PoolTypes /\ SessionOK(w) /\ ProgressOK(w) /\ w \in Connections \ Sync
    BY DEF IInv, PoolTypes
  <1>1. at' = [at EXCEPT ![w] = "locking"] /\ error[w] = "deadlock"
        /\ task[w] \in Transactional
    BY DEF Deadlocked
  <1>2. PoolTypes'  BY <1>0, <1>1 DEF PoolTypes, Places
  <1>3. SessionOK(w)'
    BY <1>0, <1>1 DEF SessionOK, Commands, PoolTypes
  <1>4. ProgressOK(w)'
    BY <1>0, <1>1 DEF ProgressOK, AppliedTimes, PoolTypes
  <1>5. \A d \in Connections : SessionOK(d)' /\ ProgressOK(d)'
    BY <1>0, <1>3, <1>4, AllConnections DEF PoolTypes
  <1>6. Assigned'  BY <1>0, <1>1 DEF IInv, Assigned, PoolTypes
  <1>7. QueueOK' /\ StatusOK'
    BY DEF IInv, QueueOK, StatusOK, AppliedTimes
  <1> QED  BY <1>2, <1>5, <1>6, <1>7 DEF IInv

\* Stop and Close; what is dropped had not been started.
LEMMA CloseStep ==
  ASSUME IInv, Stop \/ Close
  PROVE  IInv'
  <1> USE DEF connectionVars, caller, reopening, history
  <1>0. PoolTypes /\ QueueOK  BY DEF IInv
  <1>1. UNCHANGED <<at, task, done, error, link, session, disturbed, threads, locked>>
    BY DEF Stop, Close
  <1>2. queue' \in Seq(Tasks \cup {Ping}) /\ QueueOK'
    <2>1. CASE Stop  BY <1>0, <2>1 DEF Stop, PoolTypes, QueueOK
    <2>2. CASE Close  BY <2>2 DEF Close, QueueOK
    <2> QED  BY <2>1, <2>2
  <1>3. status' \in [Tasks -> {"new", "posted", "calling", "running"} \cup Finals]
    BY <1>0 DEF Stop, Close, PoolTypes, Finals
  <1>4. \A t \in Tasks : status'[t] = status[t] \/
            {status[t], status'[t]} \subseteq {"new", "posted", "calling", "dropped"}
    BY <1>0 DEF Stop, Close, PoolTypes
  <1> QED  BY <1>0, <1>1, <1>2, <1>3, <1>4, QuietStep DEF PoolTypes, IInv, Assigned

LEMMA StutterStep == IInv /\ UNCHANGED vars => IInv'
  BY DEF IInv, PoolTypes, SessionOK, ProgressOK, AppliedTimes, Assigned,
         QueueOK, StatusOK, vars, connectionVars, caller, reopening, session,
         history, pool

(***************************************************************************)
(* Every step of the pool preserves the inductive invariant.               *)
(***************************************************************************)
THEOREM StepIInv == IInv /\ [Next]_vars => IInv'
  <1> SUFFICES ASSUME IInv, [Next]_vars PROVE IInv'  OBVIOUS
  <1>1. ASSUME NEW t \in Tasks, Post(t) \/ CallDirect(t) PROVE IInv'
    BY <1>1, PostStep, CallStep
  <1>2. CASE KeepAlive  BY <1>2, KeepAliveStep
  <1>3. ASSUME NEW t \in Tasks, NEW c \in Sync, GetFreeConnection(t, c)
        PROVE IInv'
    BY <1>3, FreeConnectionStep
  <1>4. ASSUME NEW c \in Sync, DirectStep(c) PROVE IInv'
    BY <1>4, DirectStepIInv
  <1>5. ASSUME NEW w \in threads, WorkerStep(w) PROVE IInv'
    BY <1>5, TakeStep, RetryStep, FinishStep, IdleStep, DeadlockedStep
       DEF WorkerStep
  <1>6. ASSUME NEW c \in threads \cup Sync, ServerStep(c) PROVE IInv'
    <2>1. c \in Connections  BY DEF IInv, PoolTypes
    <2> QED  BY <1>6, <2>1, ServerStepIInv
  <1>7. CASE Stop \/ Close  BY <1>7, CloseStep
  <1>8. CASE Ended \/ UNCHANGED vars  BY <1>8, StutterStep DEF Ended
  <1> QED  BY <1>1, <1>2, <1>3, <1>4, <1>5, <1>6, <1>7, <1>8 DEF Next

LEMMA IInvHolds == Spec => []IInv
  BY InitIInv, StepIInv, PTL DEF Spec

(***************************************************************************)
(* A transaction that met no lost connection is in the database as a whole *)
(* or not at all, at every moment: ExecuteTransaction, the retries of      *)
(* TransactionTask::Execute and of DirectCommitTransaction.                *)
(***************************************************************************)
THEOREM Atomicity == Spec => []AllOrNothing
  <1>1. IInv => AllOrNothing
    <2> SUFFICES ASSUME IInv, NEW t \in Tasks \ disturbed PROVE Whole(t)
      BY DEF AllOrNothing
    <2>1. CASE status[t] = "running"
      <3>1. PICK c \in Connections : task[c] = t
        BY <2>1 DEF IInv, Assigned
      <3>2. AppliedTimes(t, 0) \/ AppliedTimes(t, 1)
        BY <3>1 DEF IInv, ProgressOK
      <3> QED  BY <3>2 DEF AppliedTimes, Whole
    <2>2. CASE status[t] # "running"
      <3>1. AppliedTimes(t, 0) \/ AppliedTimes(t, 1)
        BY <2>2 DEF IInv, StatusOK, PoolTypes, Finals
      <3> QED  BY <3>1 DEF AppliedTimes, Whole
    <2> QED  BY <2>1, <2>2
  <1> QED  BY <1>1, IInvHolds, PTL

(***************************************************************************)
(* What TransactionTask::Execute and DirectCommitTransaction report of     *)
(* such a transaction is what the database holds.                          *)
(***************************************************************************)
THEOREM OutcomeReported == Spec => []ReportedOutcome
  <1>1. IInv => ReportedOutcome
    BY DEF IInv, StatusOK, AppliedTimes, ReportedOutcome
  <1> QED  BY <1>1, IInvHolds, PTL

(***************************************************************************)
(* A task is executed by one connection at a time, and once: no connection *)
(* of Sync is used without its mutex, and a task that has started is not   *)
(* queued any more.                                                        *)
(***************************************************************************)
THEOREM ExclusiveUse == Spec => [](Assigned /\ QueueOK)
  <1>1. IInv => Assigned /\ QueueOK  BY DEF IInv
  <1> QED  BY <1>1, IInvHolds, PTL

(***************************************************************************)
(* What IInv leaves out: the attempts to reconnect, the locks, and the     *)
(* size and the order of the queue.                                        *)
(***************************************************************************)
Busy == {w \in threads : at[w] \notin {"idle", "exited"}}

ReconnectTypes ==
    /\ attempts \in [Connections -> 0 .. Attempts]
    /\ losses \in Nat /\ aborted \in BOOLEAN
    /\ \A c \in Connections : link[c] = "lost" /\ ~aborted => attempts[c] > 0

LockTypes ==
    /\ stopped \in BOOLEAN /\ closed \in BOOLEAN
    /\ deadlockLock \in Async \cup {NoThread}
    /\ locked \subseteq Sync
    /\ tries \in [Sync -> 0 .. DirectRetries]
    /\ unfinished \in Seq(Tasks)
    /\ closed => \A w \in threads : at[w] = "exited"

LEMMA PoolInvParts ==
  ASSUME IInv
  PROVE  PoolInv <=> /\ ReconnectTypes /\ LockTypes /\ queueSize \in Nat
                     /\ QueueSizeExact /\ OneThreadOrder
  BY DEF IInv, PoolTypes, PoolInv, TypeOK, ConnectionTypeOK, ReconnectTypes, LockTypes

\* Every step but that of a connection leaves the connections' links alone.
LEMMA LinksKept ==
  ASSUME [Next]_vars, ~\E c \in threads \cup Sync : ServerStep(c)
  PROVE  UNCHANGED <<reopening, session, history, aborted>>
  <1>1. ASSUME NEW t \in Tasks, Post(t) \/ CallDirect(t)
        PROVE  UNCHANGED <<reopening, session, history, aborted>>
    BY <1>1 DEF Post, CallDirect, connectionVars
  <1>2. CASE KeepAlive \/ Stop \/ Close \/ Ended \/ UNCHANGED vars
    BY <1>2 DEF KeepAlive, Stop, Close, Ended, vars, connectionVars
  <1>3. ASSUME NEW t \in Tasks, NEW c \in Sync, GetFreeConnection(t, c)
        PROVE  UNCHANGED <<reopening, session, history, aborted>>
    BY <1>3 DEF GetFreeConnection, StartTask
  <1>4. ASSUME NEW c \in Sync, DirectStep(c)
        PROVE  UNCHANGED <<reopening, session, history, aborted>>
    BY <1>4 DEF DirectStep, RetryDirect, DirectReturns, StartTask, EndTask
  <1>5. ASSUME NEW w \in threads, WorkerStep(w)
        PROVE  UNCHANGED <<reopening, session, history, aborted>>
    BY <1>5 DEF WorkerStep, Take, PingReturns, FirstAttemptReturns,
       FirstAttemptDeadlocks, LockDeadlock, RetrySucceeds, RetryAgain, RetryTimesOut,
       Exit, Finish, StartTask, EndTask
  <1> QED  BY <1>1, <1>2, <1>3, <1>4, <1>5 DEF Next

LEMMA ReconnectTypesStep ==
  ASSUME IInv, ReconnectTypes, [Next]_vars
  PROVE  ReconnectTypes'
  <1> USE AttemptsAssumption
  <1>1. CASE ~\E c \in threads \cup Sync : ServerStep(c)
    BY <1>1, LinksKept DEF ReconnectTypes, reopening, history
  <1>2. ASSUME NEW c \in threads \cup Sync, ServerStep(c) PROVE ReconnectTypes'
    <2>0. c \in Connections  BY DEF IInv, PoolTypes
    <2>1. CASE Lose(c)
      <3>1. link' = [link EXCEPT ![c] = "lost"] /\ aborted' = aborted
        BY <2>1 DEF Lose
      <3>2. attempts' = [attempts EXCEPT ![c] = Attempts] /\ losses' = losses + 1
        BY <2>1 DEF Lose
      <3> QED  BY <2>0, <3>1, <3>2 DEF ReconnectTypes, IInv, PoolTypes
    <2>2. CASE Reconnect(c)
      <3>0. /\ attempts[c] > 0 /\ attempts[c] \in 0 .. Attempts /\ losses' = losses
            /\ ~aborted
        BY <2>0, <2>2 DEF Reconnect, ReconnectTypes, history
      <3>1. CASE /\ link' = [link EXCEPT ![c] = "up"] \/ link' = [link EXCEPT ![c] = "null"]
                 /\ attempts' = [attempts EXCEPT ![c] = 0]
                 /\ UNCHANGED aborted
        BY <2>0, <3>0, <3>1 DEF ReconnectTypes, IInv, PoolTypes
      <3>2. CASE /\ attempts' = [attempts EXCEPT ![c] = @ - 1]
                 /\ aborted' = (attempts[c] = 1)
                 /\ UNCHANGED link
        <4>1. attempts[c] - 1 \in 0 .. Attempts  BY <3>0
        <4>2. aborted' \in BOOLEAN /\ (aborted' <=> attempts[c] = 1)  BY <3>2
        <4>3. ~aborted' => attempts[c] - 1 > 0  BY <3>0, <4>2
        <4>4. \A d \in Connections : link[d] = "lost" /\ ~aborted' => attempts'[d] > 0
          BY <2>0, <3>0, <3>2, <4>3 DEF ReconnectTypes
        <4> QED  BY <3>0, <3>2, <4>1, <4>2, <4>4 DEF ReconnectTypes
      <3>3. CASE aborted' = TRUE /\ UNCHANGED reopening
        BY <3>0, <3>3 DEF ReconnectTypes, reopening
      <3> QED  BY <2>2, <3>1, <3>2, <3>3 DEF Reconnect
    <2>3. CASE ExecuteAborts(c)
      BY <2>3 DEF ExecuteAborts, ReconnectTypes, reopening, history
    <2>4. CASE NullConnection(c)
      BY <2>4 DEF NullConnection, ReconnectTypes, reopening
    <2>5. CASE \/ BeginTransaction(c) \/ Execute(c) \/ ExecuteDeadlocks(c)
               \/ ExecuteRefused(c) \/ CommitTransaction(c) \/ RollbackTransaction(c)
      BY <2>5 DEF BeginTransaction, Execute, ExecuteDeadlocks, ExecuteRefused,
         CommitTransaction, RollbackTransaction, ReconnectTypes, reopening, history
    <2> QED  BY <1>2, <2>1, <2>2, <2>3, <2>4, <2>5 DEF ServerStep, ConnectionStep
  <1> QED  BY <1>1, <1>2

LEMMA PoolInit == Init => PoolInv
  <1> SUFFICES ASSUME Init PROVE PoolInv  OBVIOUS
  <1> USE DEF Init, ConnectionInit
  <1>1. IInv  BY InitIInv
  <1>2. ReconnectTypes
    <2>1. 0 \in 0 .. Attempts  BY AttemptsAssumption
    <2>2. attempts \in [Connections -> 0 .. Attempts]  BY <2>1
    <2>3. \A c \in Connections : link[c] # "lost"  OBVIOUS
    <2>4. losses \in Nat /\ aborted \in BOOLEAN  OBVIOUS
    <2> QED  BY <2>2, <2>3, <2>4 DEF ReconnectTypes
  <1>3. LockTypes
    <2>1. 0 \in 0 .. DirectRetries  OBVIOUS
    <2>2. tries \in [Sync -> 0 .. DirectRetries]  BY <2>1
    <2>3. unfinished \in Seq(Tasks)  OBVIOUS
    <2> QED  BY <2>2, <2>3 DEF LockTypes
  <1>4. QueueSizeExact
    <2> DEFINE B == {w \in threads : at[w] \notin {"idle", "exited"}}
    <2>1. \A w \in threads : at[w] = "idle"  OBVIOUS
    <2>2. B = {}  BY <2>1
    <2> HIDE DEF B
    <2>3. Cardinality(B) = 0 /\ Len(queue) = 0 /\ queueSize = 0  BY <2>2, FS_EmptySet
    <2>4. queueSize = Len(queue) + Cardinality(B)  BY <2>3
    <2> QED  BY <2>4 DEF QueueSizeExact, B
  <1>5. OneThreadOrder
    <2> SUFFICES ASSUME NEW w \in threads
                 PROVE  /\ task[w] = NoTask /\ 0 \in 0 .. Len(queue)
                        /\ PingsFirst(0) /\ Len(unfinished) = Len(queue) - 0
                        /\ DOMAIN unfinished = {}
      BY DEF OneThreadOrder
    <2> QED  BY DEF PingsFirst
  <1> QED  BY <1>1, <1>2, <1>3, <1>4, <1>5, PoolInvParts

(***************************************************************************)
(* _queueSize: a handler is counted from the post to its destruction.      *)
(***************************************************************************)
LEMMA BusySize ==
  ASSUME IInv
  PROVE  IsFiniteSet(Busy) /\ Cardinality(Busy) \in Nat /\ Len(queue) \in Nat
  <1>1. Busy \in SUBSET Async  BY DEF Busy, IInv, PoolTypes
  <1>2. queue \in Seq(Tasks \cup {Ping})  BY DEF IInv, PoolTypes
  <1> QED  BY <1>1, <1>2, FS_Subset, FS_CardinalityType

\* Where the threads are after a step of the connection or worker c.
LEMMA BusyKept ==
  ASSUME IInv, NEW c \in Connections, threads' = threads,
         \A d \in Connections \ {c} : at'[d] = at[d],
         \/ c \notin threads
         \/ at[c] \notin {"idle", "exited"} /\ at'[c] \notin {"idle", "exited"}
         \/ at[c] \in {"idle", "exited"} /\ at'[c] \in {"idle", "exited"}
  PROVE  Busy' = Busy
  <1>1. threads \subseteq Connections  BY DEF IInv, PoolTypes
  <1> QED  BY <1>1 DEF Busy

LEMMA SizeKept ==
  ASSUME QueueSizeExact, Busy' = Busy, Len(queue') = Len(queue), queueSize' = queueSize,
         queueSize \in Nat
  PROVE  QueueSizeExact' /\ queueSize' \in Nat
  BY DEF QueueSizeExact, Busy

\* A connection that executes a command is not idle after it either.
LEMMA ServerBusy ==
  ASSUME IInv, NEW c \in Connections, ServerStep(c)
  PROVE  /\ UNCHANGED <<threads, queue, queueSize, task>>
         /\ \A d \in Connections \ {c} : at'[d] = at[d]
         /\ at'[c] = at[c] \/ {at[c], at'[c]} \subseteq Commands \cup {"return"}
  <1>0. at \in [Connections -> Places]  BY DEF IInv, PoolTypes
  <1>1. UNCHANGED pool  BY DEF ServerStep
  <1>2. CASE BeginTransaction(c) \/ CommitTransaction(c) \/ RollbackTransaction(c)
    BY <1>0, <1>1, <1>2 DEF pool, BeginTransaction, CommitTransaction,
       RollbackTransaction, Sent, Goto, Commands
  <1>3. CASE Execute(c)
    BY <1>0, <1>1, <1>3 DEF pool, Execute, Sent, Goto, Commands
  <1>4. CASE ExecuteDeadlocks(c) \/ ExecuteRefused(c)
    BY <1>0, <1>1, <1>4 DEF pool, ExecuteDeadlocks, ExecuteRefused, Failed, Sent, Goto,
       Commands
  <1>5. CASE ExecuteAborts(c) \/ Lose(c) \/ Reconnect(c)
    BY <1>0, <1>1, <1>5 DEF pool, ExecuteAborts, Lose, Reconnect, caller
  <1>6. CASE NullConnection(c)
    BY <1>0, <1>1, <1>6 DEF pool, NullConnection, Failed, Goto, Commands
  <1> QED  BY <1>2, <1>3, <1>4, <1>5, <1>6 DEF ServerStep, ConnectionStep

LEMMA StartedAt ==
  ASSUME IInv, NEW c \in Connections, NEW t, StartTask(c, t)
  PROVE  /\ at'[c] \in {"begin", "statement", "return"}
         /\ \A d \in Connections \ {c} : at'[d] = at[d] /\ task'[d] = task[d]
         /\ task'[c] = t
  BY DEF StartTask, Goto, FirstPlace, IInv, PoolTypes

LEMMA EndedAt ==
  ASSUME IInv, NEW c \in Connections, EndTask(c, "idle")
  PROVE  /\ at'[c] = "idle" /\ task'[c] = NoTask
         /\ \A d \in Connections \ {c} : at'[d] = at[d] /\ task'[d] = task[d]
  BY DEF EndTask, Goto, IInv, PoolTypes

LEMMA WentTo ==
  ASSUME IInv, NEW c \in Connections, NEW p, Goto(c, p)
  PROVE  at'[c] = p /\ \A d \in Connections \ {c} : at'[d] = at[d]
  BY DEF Goto, IInv, PoolTypes

LEMMA SizeTake ==
  ASSUME IInv, QueueSizeExact, queueSize \in Nat, NEW w \in threads, Take(w)
  PROVE  QueueSizeExact' /\ queueSize' \in Nat
  <1>0. w \in Connections /\ threads \subseteq Connections  BY DEF IInv, PoolTypes
  <1>1. /\ at[w] = "idle" /\ threads' = threads /\ queueSize' = queueSize
        /\ queue # <<>> /\ queue' = Tail(queue)
    BY DEF Take
  <1>2. /\ at'[w] \notin {"idle", "exited"}
        /\ \A d \in Connections \ {w} : at'[d] = at[d]
    <2>1. CASE Head(queue) = Ping  BY <1>0, <2>1, WentTo DEF Take
    <2>2. CASE Head(queue) # Ping  BY <1>0, <2>2, StartedAt DEF Take
    <2> QED  BY <2>1, <2>2
  <1>3. w \notin Busy /\ Busy' = Busy \cup {w}  BY <1>0, <1>1, <1>2 DEF Busy
  <1>4. Cardinality(Busy') = Cardinality(Busy) + 1
    BY <1>3, BusySize, FS_AddElement
  <1>5. Len(queue') = Len(queue) - 1  BY <1>1 DEF IInv, PoolTypes
  <1>6. queueSize = Len(queue) + Cardinality(Busy)  BY DEF QueueSizeExact, Busy
  <1>7. queueSize' = Len(queue') + Cardinality(Busy')
    BY <1>1, <1>4, <1>5, <1>6, BusySize
  <1> QED  BY <1>1, <1>7 DEF QueueSizeExact, Busy

LEMMA SizeReturn ==
  ASSUME IInv, QueueSizeExact, NEW w \in threads, EndTask(w, "idle"),
         at[w] \notin {"idle", "exited"}, UNCHANGED <<threads, queue>>,
         queueSize' = queueSize - 1
  PROVE  QueueSizeExact' /\ queueSize' \in Nat
  <1>0. w \in Connections /\ threads \subseteq Connections  BY DEF IInv, PoolTypes
  <1>1. at'[w] = "idle" /\ \A d \in Connections \ {w} : at'[d] = at[d]
    BY <1>0, EndedAt
  <1>2. w \in Busy /\ Busy' = Busy \ {w}  BY <1>0, <1>1 DEF Busy
  <1>3. /\ Cardinality(Busy') = Cardinality(Busy) - 1 /\ IsFiniteSet(Busy')
        /\ Cardinality(Busy') \in Nat
    BY <1>2, BusySize, FS_RemoveElement, FS_CardinalityType
  <1>4. queueSize = Len(queue) + Cardinality(Busy)  BY DEF QueueSizeExact, Busy
  <1>5. Len(queue') = Len(queue)  OBVIOUS
  <1>6. queueSize' = Len(queue') + Cardinality(Busy') /\ queueSize' \in Nat
    BY <1>3, <1>4, <1>5, BusySize
  <1> QED  BY <1>6 DEF QueueSizeExact, Busy

LEMMA SizeStep ==
  ASSUME IInv, QueueSizeExact, queueSize \in Nat, [Next]_vars
  PROVE  QueueSizeExact' /\ queueSize' \in Nat
  <1>0. threads \subseteq Connections /\ threads \cap Sync = {} /\ Sync \subseteq Connections
    BY DEF IInv, PoolTypes
  <1>e. queueSize = Len(queue) + Cardinality(Busy)  BY DEF QueueSizeExact, Busy
  <1>1. ASSUME NEW t \in Tasks, Post(t) PROVE QueueSizeExact' /\ queueSize' \in Nat
    <2>1. Len(queue') = Len(queue) + 1
      BY <1>1 DEF Post, IInv, PoolTypes
    <2>2. Busy' = Busy /\ queueSize' = queueSize + 1
      BY <1>1 DEF Post, connectionVars, caller, Busy
    <2>3. queueSize' = Len(queue') + Cardinality(Busy')
      BY <1>e, <2>1, <2>2, BusySize
    <2> QED  BY <2>2, <2>3 DEF QueueSizeExact, Busy
  <1>2. CASE KeepAlive
    <2>1. /\ queue' = queue \o [i \in 1 .. Cardinality(threads) |-> Ping]
          /\ queueSize' = queueSize + Cardinality(threads)
          /\ Cardinality(threads) \in Nat
      BY <1>2, FS_Subset, FS_CardinalityType DEF KeepAlive, IInv, PoolTypes
    <2>2. Len(queue') = Len(queue) + Cardinality(threads)
      BY <2>1 DEF IInv, PoolTypes
    <2>3. Busy' = Busy  BY <1>2 DEF KeepAlive, connectionVars, caller, Busy
    <2>4. queueSize' = Len(queue') + Cardinality(Busy')
      BY <1>e, <2>1, <2>2, <2>3, BusySize
    <2> QED  BY <2>1, <2>4 DEF QueueSizeExact, Busy
  <1>3. ASSUME NEW t \in Tasks, NEW c \in Sync, GetFreeConnection(t, c)
        PROVE  QueueSizeExact' /\ queueSize' \in Nat
    <2>1. UNCHANGED <<threads, queue, queueSize>> /\ StartTask(c, t)
      BY <1>3 DEF GetFreeConnection
    <2>2. Busy' = Busy  BY <1>0, <2>1, StartedAt, BusyKept
    <2> QED  BY <2>1, <2>2, SizeKept
  <1>4. ASSUME NEW c \in Sync, DirectStep(c) PROVE QueueSizeExact' /\ queueSize' \in Nat
    <2>1. UNCHANGED <<threads, queue, queueSize>>
      BY <1>4 DEF DirectStep, RetryDirect, DirectReturns
    <2>2. StartTask(c, task[c]) \/ EndTask(c, "idle")
      BY <1>4 DEF DirectStep, RetryDirect, DirectReturns
    <2>3. \A d \in Connections \ {c} : at'[d] = at[d]
      BY <1>0, <2>2, StartedAt, EndedAt
    <2>4. Busy' = Busy  BY <1>0, <2>1, <2>3, BusyKept
    <2> QED  BY <2>1, <2>4, SizeKept
  <1>5. ASSUME NEW w \in threads, WorkerStep(w)
        PROVE  QueueSizeExact' /\ queueSize' \in Nat
    <2>1. CASE Take(w)  BY <2>1, SizeTake
    <2>2. CASE \/ PingReturns(w) \/ FirstAttemptReturns(w) \/ RetrySucceeds(w)
               \/ RetryTimesOut(w)
      <3>1. /\ EndTask(w, "idle") /\ at[w] \notin {"idle", "exited"}
            /\ UNCHANGED <<threads, queue>> /\ queueSize' = queueSize - 1
        BY <2>2 DEF PingReturns, FirstAttemptReturns, RetrySucceeds, RetryTimesOut, Finish
      <3> QED  BY <3>1, SizeReturn
    <2>3. CASE FirstAttemptDeadlocks(w) \/ Exit(w)
      <3>1. /\ UNCHANGED <<threads, queue, queueSize>>
            /\ \/ at[w] = "return" /\ Goto(w, "locking")
               \/ at[w] = "idle" /\ Goto(w, "exited")
        BY <2>3 DEF FirstAttemptDeadlocks, Exit, pool
      <3>2. Busy' = Busy  BY <1>0, <3>1, WentTo, BusyKept
      <3> QED  BY <3>1, <3>2, SizeKept
    <2>4. CASE LockDeadlock(w) \/ RetryAgain(w)
      <3>1. /\ UNCHANGED <<threads, queue, queueSize>> /\ StartTask(w, task[w])
            /\ at[w] \in {"locking", "return"}
        BY <2>4 DEF LockDeadlock, RetryAgain, pool
      <3>2. Busy' = Busy  BY <1>0, <3>1, StartedAt, BusyKept
      <3> QED  BY <3>1, <3>2, SizeKept
    <2> QED  BY <1>5, <2>1, <2>2, <2>3, <2>4 DEF WorkerStep
  <1>6. ASSUME NEW c \in threads \cup Sync, ServerStep(c)
        PROVE  QueueSizeExact' /\ queueSize' \in Nat
    <2>1. c \in Connections  BY <1>0
    <2>2. Busy' = Busy
      BY <1>0, <1>6, <2>1, ServerBusy, BusyKept DEF Commands
    <2> QED  BY <1>6, <2>1, <2>2, ServerBusy, SizeKept
  <1>7. CASE Close
    <2>1. /\ queue' = <<>> /\ queueSize' = queueSize - Len(queue)
          /\ Busy = {} /\ Busy' = Busy
      BY <1>7 DEF Close, connectionVars, caller, Busy
    <2>2. Cardinality(Busy) = 0  BY <2>1, FS_EmptySet
    <2>3. queueSize' = 0 /\ Len(queue') = 0  BY <1>e, <2>1, <2>2, BusySize
    <2>4. queueSize' = Len(queue') + Cardinality(Busy')  BY <2>1, <2>2, <2>3
    <2> QED  BY <2>3, <2>4 DEF QueueSizeExact, Busy
  <1>8. ASSUME \/ \E t \in Tasks : CallDirect(t)
               \/ Stop \/ Ended \/ UNCHANGED vars
        PROVE  QueueSizeExact' /\ queueSize' \in Nat
    <2>1. UNCHANGED <<threads, queue, queueSize, at>>
      BY <1>8 DEF CallDirect, Stop, Ended, vars, pool, connectionVars, caller
    <2>2. Busy' = Busy  BY <2>1 DEF Busy
    <2> QED  BY <2>1, <2>2, SizeKept
  <1> QED  BY <1>1, <1>2, <1>3, <1>4, <1>5, <1>6, <1>7, <1>8 DEF Next

(***************************************************************************)
(* The tasks that have not finished.                                       *)
(***************************************************************************)
LEMMA LeastNatural ==
  ASSUME NEW S, S \subseteq Nat, S # {}
  PROVE  Min(S) \in S /\ \A n \in S : Min(S) <= n
  <1>1. PICK m \in S : \A n \in S : <<n, m>> \notin OpToRel(<, Nat)
    BY WFMin, NatLessThanWellFounded, Zenon
  <1>2. \A n \in S : m \in Nat /\ n \in Nat /\ ~(n < m)
    BY <1>1, Zenon DEF OpToRel
  <1>3. \E x \in S : \A n \in S : x <= n  BY <1>2
  <1> QED  BY <1>3 DEF Min

\* One place less, if there was one; the first place, if that held it.
LEMMA FirstRemoved ==
  ASSUME NEW S, NEW q \in Seq(S), NEW x
  PROVE  /\ RemoveFirst(q, x) \in Seq(S)
         /\ q # <<>> /\ q[1] = x => RemoveFirst(q, x) = Tail(q)
  <1> DEFINE I == {i \in 1 .. Len(q) : q[i] = x}
             p == Min(I)
  <1>1. CASE I = {}
    <2>1. ~\E i \in 1 .. Len(q) : q[i] = x  BY <1>1
    <2>2. RemoveFirst(q, x) = q  BY <2>1 DEF RemoveFirst
    <2>3. q # <<>> => 1 \in 1 .. Len(q)  OBVIOUS
    <2> QED  BY <2>1, <2>2, <2>3
  <1>2. CASE I # {}
    <2>1. p \in I /\ \A i \in I : p <= i  BY <1>2, LeastNatural
    <2>2. RemoveFirst(q, x) = SubSeq(q, 1, p - 1) \o SubSeq(q, p + 1, Len(q))
      BY <1>2 DEF RemoveFirst, SelectInSeq, RemoveAt
    <2>3. p \in 1 .. Len(q)  BY <2>1
    <2> HIDE DEF p
    <2>4. /\ SubSeq(q, 1, p - 1) \in Seq(S) /\ SubSeq(q, p + 1, Len(q)) \in Seq(S)
      BY <2>3
    <2>5. RemoveFirst(q, x) \in Seq(S)  BY <2>2, <2>4
    <2>6. ASSUME q # <<>>, q[1] = x PROVE RemoveFirst(q, x) = Tail(q)
      <3>1. 1 \in I  BY <2>6
      <3>2. p = 1  BY <2>1, <2>3, <3>1
      <3>3. SubSeq(q, 1, p - 1) = <<>>  BY <3>2
      <3>4. SubSeq(q, p + 1, Len(q)) = Tail(q)  BY <3>2
      <3>5. Tail(q) \in Seq(S)  BY <2>6
      <3>6. <<>> \o Tail(q) = Tail(q)  BY <3>5
      <3> QED  BY <2>2, <3>3, <3>4, <3>6
    <2> QED  BY <2>5, <2>6
  <1> QED  BY <1>1, <1>2

LEMMA LockStep ==
  ASSUME IInv, LockTypes, [Next]_vars
  PROVE  LockTypes'
  <1>0. /\ threads \subseteq Connections /\ threads \cap Sync = {} /\ Sync \subseteq Connections
        /\ threads \subseteq Async /\ task \in [Connections -> Tasks \cup {NoTask}]
    BY DEF IInv, PoolTypes
  <1>1. ASSUME NEW t \in Tasks, Post(t) PROVE LockTypes'
    <2>1. unfinished' \in Seq(Tasks)  BY <1>1 DEF Post, LockTypes
    <2> QED  BY <1>1, <2>1 DEF Post, LockTypes, connectionVars, caller
  <1>2. CASE KeepAlive \/ Stop \/ (\E t \in Tasks : CallDirect(t)) \/ Ended \/ UNCHANGED vars
    <2>1. CASE KeepAlive
      <3>1. UNCHANGED <<stopped, closed, deadlockLock, locked, tries, unfinished, threads, at>>
        BY <2>1 DEF KeepAlive, connectionVars, caller
      <3> QED  BY <3>1 DEF LockTypes
    <2>2. CASE Stop  BY <2>2 DEF Stop, LockTypes, connectionVars, caller
    <2>3. CASE (\E t \in Tasks : CallDirect(t)) \/ Ended \/ UNCHANGED vars
      <3>1. UNCHANGED <<stopped, closed, deadlockLock, locked, tries, unfinished, threads, at>>
        BY <2>3 DEF CallDirect, Ended, vars, pool, connectionVars, caller
      <3> QED  BY <3>1 DEF LockTypes
    <2> QED  BY <1>2, <2>1, <2>2, <2>3
  <1>3. CASE Close
    BY <1>3 DEF Close, LockTypes, connectionVars, caller
  <1>4. ASSUME NEW t \in Tasks, NEW c \in Sync, GetFreeConnection(t, c) PROVE LockTypes'
    <2>1. \A w \in threads : at'[w] = at[w]
      BY <1>0, <1>4, StartedAt DEF GetFreeConnection
    <2> QED  BY <1>4, <2>1 DEF GetFreeConnection, LockTypes
  <1>5. ASSUME NEW c \in Sync, DirectStep(c) PROVE LockTypes'
    <2>1. \A w \in threads : at'[w] = at[w]
      BY <1>0, <1>5, StartedAt, EndedAt DEF DirectStep, RetryDirect, DirectReturns
    <2>2. tries' \in [Sync -> 0 .. DirectRetries]
      <3>1. CASE RetryDirect(c)
        <4>1. tries[c] + 1 \in 0 .. DirectRetries
          BY <3>1 DEF RetryDirect, MayRetryDirect, LockTypes
        <4> QED  BY <3>1, <4>1 DEF RetryDirect, LockTypes
      <3>2. CASE DirectReturns(c)
        <4>1. 0 \in 0 .. DirectRetries  OBVIOUS
        <4> QED  BY <3>2, <4>1 DEF DirectReturns, LockTypes
      <3> QED  BY <1>5, <3>1, <3>2 DEF DirectStep
    <2>3. /\ UNCHANGED <<stopped, closed, deadlockLock, threads, unfinished>>
          /\ locked' \subseteq locked
      BY <1>5 DEF DirectStep, RetryDirect, DirectReturns
    <2> QED  BY <2>1, <2>2, <2>3 DEF LockTypes
  <1>6. ASSUME NEW w \in threads, WorkerStep(w) PROVE LockTypes'
    <2>1. at[w] # "exited" /\ UNCHANGED <<stopped, closed, threads, locked, tries>>
      BY <1>6 DEF WorkerStep, Take, PingReturns, FirstAttemptReturns,
         FirstAttemptDeadlocks, LockDeadlock, RetrySucceeds, RetryAgain, RetryTimesOut,
         Exit, Finish, pool
    <2>2. ~closed  BY <2>1 DEF LockTypes
    <2>3. deadlockLock' \in {deadlockLock, w, NoThread}
      BY <1>6 DEF WorkerStep, Take, PingReturns, FirstAttemptReturns,
         FirstAttemptDeadlocks, LockDeadlock, RetrySucceeds, RetryAgain, RetryTimesOut,
         Exit, Unlock, pool
    <2>4. unfinished' = unfinished \/ unfinished' = RemoveFirst(unfinished, task[w])
      BY <1>6 DEF WorkerStep, Take, PingReturns, FirstAttemptReturns,
         FirstAttemptDeadlocks, LockDeadlock, RetrySucceeds, RetryAgain, RetryTimesOut,
         Exit, Finish, pool
    <2>5. unfinished' \in Seq(Tasks)  BY <2>4, FirstRemoved DEF LockTypes
    <2> QED  BY <1>0, <2>1, <2>2, <2>3, <2>5 DEF LockTypes
  <1>7. ASSUME NEW c \in threads \cup Sync, ServerStep(c) PROVE LockTypes'
    <2>1. UNCHANGED pool  BY <1>7 DEF ServerStep
    <2>2. \A w \in threads : at[w] = "exited" => at'[w] = "exited"
      BY <1>0, <1>7, ServerBusy DEF Commands
    <2> QED  BY <2>1, <2>2 DEF LockTypes, pool
  <1> QED  BY <1>1, <1>2, <1>3, <1>4, <1>5, <1>6, <1>7 DEF Next

(***************************************************************************)
(* One worker thread: it takes the tasks in the order of the queue.        *)
(***************************************************************************)
\* The order of the tasks does not depend on where the connections are.
LEMMA OrderKept ==
  ASSUME OneThreadOrder, UNCHANGED <<threads, queue, unfinished>>, closed => closed',
         \A w \in threads : task'[w] = task[w]
  PROVE  OneThreadOrder'
  BY DEF OneThreadOrder, PingsFirst

LEMMA OrderPost ==
  ASSUME IInv, LockTypes, OneThreadOrder, NEW t \in Tasks, Post(t)
  PROVE  OneThreadOrder'
  <1>1. /\ queue \in Seq(Tasks \cup {Ping}) /\ unfinished \in Seq(Tasks) /\ t # Ping
        /\ UNCHANGED <<threads, closed, task>>
    BY DEF IInv, PoolTypes, LockTypes, Post, connectionVars, caller
  <1>2. /\ Len(queue') = Len(queue) + 1 /\ DOMAIN queue' = DOMAIN queue \cup {Len(queue) + 1}
        /\ \A i \in DOMAIN queue : queue'[i] = queue[i] /\ i <= Len(queue) /\ i \in Nat
        /\ queue'[Len(queue) + 1] = t /\ Len(queue) \in Nat
    BY <1>1 DEF Post
  <1>3. /\ Len(unfinished') = Len(unfinished) + 1
        /\ DOMAIN unfinished' = DOMAIN unfinished \cup {Len(unfinished) + 1}
        /\ \A i \in DOMAIN unfinished :
             unfinished'[i] = unfinished[i] /\ i <= Len(unfinished) /\ i \in Nat
        /\ unfinished'[Len(unfinished) + 1] = t /\ Len(unfinished) \in Nat
    BY <1>1 DEF Post
  <1>4. ASSUME NEW k \in 0 .. Len(queue), PingsFirst(k) PROVE PingsFirst(k)'
    BY <1>1, <1>2, <1>4 DEF PingsFirst
  <1> SUFFICES ASSUME NEW w \in threads, threads = {w}, ~closed
               PROVE  (IF task[w] = NoTask
                       THEN \E k \in 0 .. Len(queue) :
                               /\ PingsFirst(k)
                               /\ Len(unfinished) = Len(queue) - k
                               /\ \A i \in DOMAIN unfinished : unfinished[i] = queue[i + k]
                       ELSE /\ PingsFirst(0)
                            /\ Len(unfinished) = Len(queue) + 1
                            /\ unfinished[1] = task[w]
                            /\ \A i \in DOMAIN queue : unfinished[i + 1] = queue[i])'
    BY <1>1 DEF OneThreadOrder
  <1>5. CASE task[w] = NoTask
    <2>1. PICK k \in 0 .. Len(queue) :
             /\ PingsFirst(k)
             /\ Len(unfinished) = Len(queue) - k
             /\ \A i \in DOMAIN unfinished : unfinished[i] = queue[i + k]
      BY <1>5 DEF OneThreadOrder
    <2>2. PingsFirst(k)' /\ k \in 0 .. Len(queue') BY <1>2, <1>4, <2>1
    <2>3. Len(unfinished') = Len(queue') - k  BY <1>2, <1>3, <2>1
    <2>4. ASSUME NEW i \in DOMAIN unfinished' PROVE unfinished'[i] = queue'[i + k]
      <3>1. CASE i \in DOMAIN unfinished
        <4>1. i + k \in DOMAIN queue  BY <1>1, <2>1, <3>1
        <4> QED  BY <1>2, <1>3, <2>1, <3>1, <4>1
      <3>2. CASE i = Len(unfinished) + 1
        <4>1. i + k = Len(queue) + 1  BY <1>2, <1>3, <2>1, <3>2
        <4> QED  BY <1>2, <1>3, <3>2, <4>1
      <3> QED  BY <1>3, <3>1, <3>2
    <2> QED  BY <1>1, <1>5, <2>2, <2>3, <2>4
  <1>6. CASE task[w] # NoTask
    <2>1. /\ PingsFirst(0) /\ Len(unfinished) = Len(queue) + 1
          /\ unfinished[1] = task[w]
          /\ \A i \in DOMAIN queue : unfinished[i + 1] = queue[i]
      BY <1>6 DEF OneThreadOrder
    <2>2. PingsFirst(0)'  BY <1>2, <1>4, <2>1
    <2>3. 1 \in DOMAIN unfinished  BY <1>1, <2>1, <1>2
    <2>4. unfinished'[1] = task[w]  BY <1>3, <2>1, <2>3
    <2>5. ASSUME NEW i \in DOMAIN queue' PROVE unfinished'[i + 1] = queue'[i]
      <3>1. CASE i \in DOMAIN queue
        <4>1. i + 1 \in DOMAIN unfinished  BY <1>1, <2>1, <3>1
        <4> QED  BY <1>2, <1>3, <2>1, <3>1, <4>1
      <3>2. CASE i = Len(queue) + 1
        BY <1>2, <1>3, <2>1, <3>2
      <3> QED  BY <1>2, <3>1, <3>2
    <2> QED  BY <1>1, <1>2, <1>3, <1>6, <2>1, <2>2, <2>4, <2>5
  <1> QED  BY <1>5, <1>6

LEMMA OrderKeepAlive ==
  ASSUME IInv, LockTypes, OneThreadOrder, KeepAlive
  PROVE  OneThreadOrder'
  <1>0. Cardinality(threads) \in Nat  BY FS_Subset, FS_CardinalityType DEF IInv, PoolTypes
  <1>1. PICK n \in Nat : n = Cardinality(threads)  BY <1>0
  <1>2. /\ unfinished = <<>> /\ queue = <<>>
        /\ queue' = <<>> \o [i \in 1 .. n |-> Ping]
        /\ UNCHANGED <<threads, unfinished, closed, task>>
    BY <1>1 DEF KeepAlive, connectionVars, caller
  <1>3. queue' = [i \in 1 .. n |-> Ping]
    <2>1. [i \in 1 .. n |-> Ping] \in Seq({Ping})  BY <1>1
    <2> QED  BY <1>2, <2>1
  <1>4. Len(queue') = n /\ PingsFirst(n)'
    <2>1. DOMAIN queue' = 1 .. n /\ \A i \in 1 .. n : queue'[i] = Ping  BY <1>3
    <2>2. queue' \in Seq({Ping})  BY <1>1, <1>3
    <2>3. Len(queue') = n  BY <1>1, <2>1, <2>2
    <2>4. \A i \in DOMAIN queue' : i <= n  BY <1>1, <2>1
    <2> QED  BY <2>1, <2>3, <2>4 DEF PingsFirst
  <1>5. ASSUME NEW w \in threads, threads = {w}, ~closed
        PROVE  task'[w] = NoTask /\ n \in 0 .. Len(queue') /\ Len(unfinished') = Len(queue') - n
               /\ DOMAIN unfinished' = {}
    <2>1. Len(unfinished) = 0 /\ Len(queue) = 0 /\ DOMAIN unfinished = {}  BY <1>2
    <2>2. task[w] = NoTask  BY <1>5, <2>1 DEF OneThreadOrder
    <2> QED  BY <1>1, <1>2, <1>4, <2>1, <2>2
  <1> SUFFICES ASSUME NEW w \in threads, threads = {w}, ~closed
               PROVE  (IF task[w] = NoTask
                       THEN \E k \in 0 .. Len(queue) :
                               /\ PingsFirst(k)
                               /\ Len(unfinished) = Len(queue) - k
                               /\ \A i \in DOMAIN unfinished : unfinished[i] = queue[i + k]
                       ELSE /\ PingsFirst(0)
                            /\ Len(unfinished) = Len(queue) + 1
                            /\ unfinished[1] = task[w]
                            /\ \A i \in DOMAIN queue : unfinished[i + 1] = queue[i])'
    BY <1>2 DEF OneThreadOrder
  <1>6. \A i \in DOMAIN unfinished' : unfinished'[i] = queue'[i + n]  BY <1>5
  <1>7. \E k \in 0 .. Len(queue') :
           /\ PingsFirst(k)'
           /\ Len(unfinished') = Len(queue') - k
           /\ \A i \in DOMAIN unfinished' : unfinished'[i] = queue'[i + k]
    BY <1>4, <1>5, <1>6
  <1> QED  BY <1>5, <1>7

LEMMA OrderTake ==
  ASSUME IInv, LockTypes, OneThreadOrder, NEW w \in threads, Take(w)
  PROVE  OneThreadOrder'
  <1> SUFFICES ASSUME threads = {w}, ~closed PROVE OneThreadOrder'
    BY DEF Take, OneThreadOrder
  <1>1. /\ queue \in Seq(Tasks \cup {Ping}) /\ unfinished \in Seq(Tasks)
        /\ w \in Connections /\ task[w] = NoTask
    <2>1. w \in Connections /\ SessionOK(w)  BY DEF IInv, PoolTypes
    <2> QED  BY <2>1 DEF IInv, PoolTypes, LockTypes, SessionOK, Commands, Take
  <1>2. /\ queue # <<>> /\ queue' = Tail(queue)
        /\ UNCHANGED <<threads, unfinished, closed>>
    BY DEF Take
  <1>3. /\ Len(queue') = Len(queue) - 1 /\ Len(queue) \in Nat /\ Head(queue) = queue[1]
        /\ \A i \in DOMAIN queue' : /\ i \in Nat /\ i + 1 \in DOMAIN queue
                                    /\ queue'[i] = queue[i + 1] /\ i + 1 # 1
        /\ 1 \in DOMAIN queue /\ DOMAIN queue = 1 .. Len(queue)
        /\ DOMAIN queue' = 1 .. Len(queue) - 1
    BY <1>1, <1>2
  <1>4. PICK k \in 0 .. Len(queue) :
           /\ PingsFirst(k)
           /\ Len(unfinished) = Len(queue) - k
           /\ \A i \in DOMAIN unfinished : unfinished[i] = queue[i + k]
    BY <1>1 DEF OneThreadOrder
  <1>5. Head(queue) = Ping <=> 1 <= k  BY <1>3, <1>4 DEF PingsFirst
  <1>6. DOMAIN unfinished = 1 .. Len(unfinished)  BY <1>1
  <1>7. CASE Head(queue) = Ping
    <2>1. task' = task  BY <1>7 DEF Take
    <2>2. k - 1 \in 0 .. Len(queue')  BY <1>3, <1>4, <1>5, <1>7
    <2>3. PingsFirst(k - 1)'
      <3>1. ASSUME NEW i \in DOMAIN queue' PROVE queue'[i] = Ping <=> i <= k - 1
        <4>1. queue'[i] = queue[i + 1] /\ i + 1 \in DOMAIN queue /\ i \in Nat  BY <1>3
        <4>2. queue[i + 1] = Ping <=> i + 1 <= k  BY <1>4, <4>1 DEF PingsFirst
        <4> QED  BY <1>4, <4>1, <4>2
      <3> QED  BY <3>1 DEF PingsFirst
    <2>4. Len(unfinished') = Len(queue') - (k - 1)  BY <1>2, <1>3, <1>4
    <2>5. ASSUME NEW i \in DOMAIN unfinished' PROVE unfinished'[i] = queue'[i + (k - 1)]
      <3>1. i \in DOMAIN unfinished /\ unfinished'[i] = queue[i + k]  BY <1>2, <1>4
      <3>2. i + (k - 1) \in DOMAIN queue' /\ (i + (k - 1)) + 1 = i + k
        BY <1>3, <1>4, <1>5, <1>6, <1>7, <3>1
      <3> QED  BY <1>3, <3>1, <3>2
    <2>6. task'[w] = NoTask  BY <1>1, <2>1
    <2> QED  BY <1>2, <2>2, <2>3, <2>4, <2>5, <2>6 DEF OneThreadOrder
  <1>8. CASE Head(queue) # Ping
    <2>1. k = 0  BY <1>4, <1>5, <1>8
    <2>2. task'[w] = Head(queue) /\ Head(queue) \in Tasks /\ Head(queue) # NoTask
      <3>1. StartTask(w, Head(queue))  BY <1>8 DEF Take
      <3>2. Head(queue) \in Tasks  BY <1>1, <1>3, <1>8
      <3> QED  BY <1>1, <3>1, <3>2, StartedAt
    <2>3. PingsFirst(0)'
      <3>1. ASSUME NEW i \in DOMAIN queue' PROVE queue'[i] # Ping /\ ~(i <= 0)
        <4>1. queue'[i] = queue[i + 1] /\ i + 1 \in DOMAIN queue /\ i \in Nat /\ i # 0
          BY <1>3
        <4>2. queue[i + 1] = Ping <=> i + 1 <= 0  BY <1>4, <2>1, <4>1 DEF PingsFirst
        <4> QED  BY <4>1, <4>2
      <3> QED  BY <3>1 DEF PingsFirst
    <2>4. Len(unfinished') = Len(queue') + 1  BY <1>2, <1>3, <1>4, <2>1
    <2>5. unfinished'[1] = task'[w]
      <3>1. 1 \in DOMAIN unfinished  BY <1>2, <1>3, <1>6, <2>4
      <3>2. unfinished[1] = queue[1 + 0]  BY <1>4, <2>1, <3>1
      <3> QED  BY <1>2, <1>3, <2>2, <3>2
    <2>6. ASSUME NEW i \in DOMAIN queue' PROVE unfinished'[i + 1] = queue'[i]
      <3>1. i + 1 \in DOMAIN unfinished /\ i + 1 \in DOMAIN queue /\ i \in Nat
        BY <1>2, <1>3, <1>6, <2>4
      <3>2. unfinished[i + 1] = queue[(i + 1) + 0]  BY <1>4, <2>1, <3>1
      <3>3. (i + 1) + 0 = i + 1  BY <3>1
      <3> QED  BY <1>2, <1>3, <3>2, <3>3
    <2> QED  BY <1>2, <2>2, <2>3, <2>4, <2>5, <2>6 DEF OneThreadOrder
  <1> QED  BY <1>7, <1>8

\* The task that finishes is the one that was posted first.
LEMMA OrderFinish ==
  ASSUME IInv, LockTypes, OneThreadOrder, NEW w \in threads, NEW s, Finish(w, s)
  PROVE  /\ OneThreadOrder'
         /\ threads = {w} => unfinished' = Tail(unfinished)
  <1>0. w \in Connections /\ task[w] # NoTask /\ ~closed /\ UNCHANGED <<threads, queue, closed>>
    <2>1. w \in Connections /\ SessionOK(w)  BY DEF IInv, PoolTypes
    <2> QED  BY <2>1 DEF Finish, SessionOK, LockTypes
  <1> SUFFICES ASSUME threads = {w}
               PROVE  OneThreadOrder' /\ unfinished' = Tail(unfinished)
    BY <1>0 DEF OneThreadOrder
  <1>1. queue \in Seq(Tasks \cup {Ping}) /\ unfinished \in Seq(Tasks)
    BY DEF IInv, PoolTypes, LockTypes
  <1>2. /\ PingsFirst(0) /\ Len(unfinished) = Len(queue) + 1
        /\ unfinished[1] = task[w]
        /\ \A i \in DOMAIN queue : unfinished[i + 1] = queue[i]
    BY <1>0 DEF OneThreadOrder
  <1>3. unfinished # <<>>  BY <1>1, <1>2
  <1>4. unfinished' = Tail(unfinished)
    BY <1>1, <1>2, <1>3, FirstRemoved DEF Finish
  <1>5. task'[w] = NoTask  BY <1>0, EndedAt DEF Finish
  <1>6. Len(unfinished') = Len(queue) /\ Len(queue) \in Nat
    BY <1>1, <1>2, <1>3, <1>4
  <1>7. \A i \in DOMAIN unfinished' : unfinished'[i] = queue[i] /\ i \in Nat
    <2> SUFFICES ASSUME NEW i \in DOMAIN unfinished' PROVE unfinished'[i] = queue[i] /\ i \in Nat
      OBVIOUS
    <2>1. i \in 1 .. Len(queue) /\ unfinished'[i] = unfinished[i + 1]
      BY <1>1, <1>2, <1>3, <1>4
    <2> QED  BY <1>1, <1>2, <2>1
  <1>8. PingsFirst(0)'  BY <1>0, <1>2 DEF PingsFirst
  <1>9. /\ 0 \in 0 .. Len(queue') /\ Len(unfinished') = Len(queue') - 0
        /\ \A i \in DOMAIN unfinished' : unfinished'[i] = queue'[i + 0]
    <2>1. \A i \in DOMAIN unfinished' : i + 0 = i  BY <1>7
    <2> QED  BY <1>0, <1>6, <1>7, <2>1
  <1>10. ASSUME NEW v \in threads' PROVE v = w  BY <1>0
  <1> QED  BY <1>4, <1>5, <1>8, <1>9, <1>10 DEF OneThreadOrder

\* What PostingOrder says of a step.
FirstFinishes ==
    \A w \in threads : threads = {w} /\ Len(unfinished') < Len(unfinished)
        => unfinished' = Tail(unfinished)

LEMMA OrderStep ==
  ASSUME IInv, LockTypes, OneThreadOrder, [Next]_vars
  PROVE  OneThreadOrder' /\ FirstFinishes
  <1>0. /\ threads \subseteq Connections /\ threads \cap Sync = {} /\ Sync \subseteq Connections
        /\ Len(unfinished) \in Nat
    BY DEF IInv, PoolTypes, LockTypes
  <1>a. ASSUME unfinished' = unfinished, OneThreadOrder' PROVE OneThreadOrder' /\ FirstFinishes
    BY <1>0, <1>a DEF FirstFinishes
  <1>1. ASSUME NEW t \in Tasks, Post(t) PROVE OneThreadOrder' /\ FirstFinishes
    <2>1. OneThreadOrder'  BY <1>1, OrderPost
    <2>2. Len(unfinished') = Len(unfinished) + 1  BY <1>1 DEF Post, LockTypes
    <2> QED  BY <1>0, <2>1, <2>2 DEF FirstFinishes
  <1>2. CASE KeepAlive  BY <1>2, <1>a, OrderKeepAlive DEF KeepAlive
  <1>3. CASE Stop \/ (\E t \in Tasks : CallDirect(t)) \/ Ended \/ UNCHANGED vars
    <2>1. UNCHANGED <<threads, queue, unfinished, closed, task>>
      BY <1>3 DEF Stop, CallDirect, Ended, vars, pool, connectionVars, caller
    <2> QED  BY <1>a, <2>1, OrderKept
  <1>4. CASE Close
    <2>1. closed' /\ unfinished' = unfinished  BY <1>4 DEF Close
    <2> QED  BY <1>a, <2>1 DEF OneThreadOrder
  <1>5. ASSUME NEW t \in Tasks, NEW c \in Sync, GetFreeConnection(t, c) PROVE OneThreadOrder' /\ FirstFinishes
    <2>1. UNCHANGED <<threads, queue, unfinished, closed>> /\ StartTask(c, t)
      BY <1>5 DEF GetFreeConnection
    <2>2. \A w \in threads : task'[w] = task[w]  BY <1>0, <2>1, StartedAt
    <2> QED  BY <1>a, <2>1, <2>2, OrderKept
  <1>6. ASSUME NEW c \in Sync, DirectStep(c) PROVE OneThreadOrder' /\ FirstFinishes
    <2>1. /\ UNCHANGED <<threads, queue, unfinished, closed>>
          /\ StartTask(c, task[c]) \/ EndTask(c, "idle")
      BY <1>6 DEF DirectStep, RetryDirect, DirectReturns
    <2>2. \A w \in threads : task'[w] = task[w]  BY <1>0, <2>1, StartedAt, EndedAt
    <2> QED  BY <1>a, <2>1, <2>2, OrderKept
  <1>7. ASSUME NEW w \in threads, WorkerStep(w) PROVE OneThreadOrder' /\ FirstFinishes
    <2>0. w \in Connections /\ SessionOK(w) /\ task \in [Connections -> Tasks \cup {NoTask}]
      BY <1>0 DEF IInv, PoolTypes
    <2>1. CASE Take(w)  BY <1>a, <2>1, OrderTake DEF Take
    <2>2. CASE FirstAttemptReturns(w) \/ RetrySucceeds(w) \/ RetryTimesOut(w)
      <3>1. PICK s : Finish(w, s)
        BY <2>2 DEF FirstAttemptReturns, RetrySucceeds, RetryTimesOut
      <3>2. OneThreadOrder' /\ (threads = {w} => unfinished' = Tail(unfinished))
        BY <3>1, OrderFinish
      <3> QED  BY <3>2 DEF FirstFinishes
    <2>3. CASE PingReturns(w) \/ FirstAttemptDeadlocks(w) \/ LockDeadlock(w)
               \/ RetryAgain(w) \/ Exit(w)
      <3>1. UNCHANGED <<threads, queue, unfinished, closed>>
        BY <2>3 DEF PingReturns, FirstAttemptDeadlocks, LockDeadlock, RetryAgain, Exit, pool
      <3>2. task' = task
        <4>1. CASE PingReturns(w)
          <5>1. task[w] = NoTask /\ task' = [task EXCEPT ![w] = NoTask]
            BY <2>0, <4>1 DEF PingReturns, EndTask, SessionOK, Commands
          <5> QED  BY <2>0, <5>1
        <4>2. CASE LockDeadlock(w) \/ RetryAgain(w)
          BY <2>0, <4>2 DEF LockDeadlock, RetryAgain, StartTask
        <4>3. CASE FirstAttemptDeadlocks(w) \/ Exit(w)
          BY <4>3 DEF FirstAttemptDeadlocks, Exit
        <4> QED  BY <2>3, <4>1, <4>2, <4>3
      <3> QED  BY <1>a, <3>1, <3>2, OrderKept
    <2> QED  BY <1>7, <2>1, <2>2, <2>3 DEF WorkerStep
  <1>8. ASSUME NEW c \in threads \cup Sync, ServerStep(c) PROVE OneThreadOrder' /\ FirstFinishes
    <2>1. UNCHANGED <<threads, queue, unfinished, closed, task>>
      BY <1>0, <1>8, ServerBusy DEF ServerStep, pool
    <2> QED  BY <1>a, <2>1, OrderKept
  <1> QED  BY <1>1, <1>2, <1>3, <1>4, <1>5, <1>6, <1>7, <1>8 DEF Next

LEMMA PoolStep ==
  ASSUME IInv, PoolInv, [Next]_vars
  PROVE  PoolInv'
  <1>1. /\ ReconnectTypes /\ LockTypes /\ queueSize \in Nat
        /\ QueueSizeExact /\ OneThreadOrder
    BY PoolInvParts
  <1>2. IInv'  BY StepIInv
  <1>3. /\ ReconnectTypes' /\ LockTypes' /\ queueSize' \in Nat
        /\ QueueSizeExact' /\ OneThreadOrder'
    BY <1>1, ReconnectTypesStep, LockStep, SizeStep, OrderStep
  <1> QED
    BY <1>2, <1>3 DEF IInv, PoolTypes, PoolInv, TypeOK, ConnectionTypeOK, ReconnectTypes,
       LockTypes

THEOREM PoolInvHolds == Spec => []PoolInv
  BY PoolInit, PoolStep, IInvHolds, PTL DEF Spec

\* Every variable of the pool and of its connections keeps its type.
THEOREM PoolTypeOK == Spec => []TypeOK
  <1>1. PoolInv => TypeOK  BY DEF PoolInv
  <1> QED  BY <1>1, PoolInvHolds, PTL

\* _queueSize is the number of handlers that wait or run, through pings,
\* retries and the handlers Close drops: a QueueSizeTracker is moved with its
\* handler and counts down once.
THEOREM QueueSizeIsExact == Spec => []QueueSizeExact
  <1>1. PoolInv => QueueSizeExact  BY DEF PoolInv
  <1> QED  BY <1>1, PoolInvHolds, PTL

\* With one worker thread tasks finish in the order in which they were posted.
THEOREM TasksFinishInOrder == Spec => PostingOrder
  <1>1. ASSUME IInv, PoolInv, [Next]_vars
        PROVE  [Cardinality(threads) = 1 /\ Len(unfinished') < Len(unfinished)
                 => unfinished' = Tail(unfinished)]_vars
    <2> SUFFICES ASSUME Cardinality(threads) = 1, Len(unfinished') < Len(unfinished)
                 PROVE  unfinished' = Tail(unfinished)
      OBVIOUS
    <2>1. IsFiniteSet(threads)  BY <1>1, FS_Subset DEF IInv, PoolTypes
    <2>2. PICK w : threads = {w}  BY <2>1, FS_Singleton
    <2>3. LockTypes /\ OneThreadOrder  BY <1>1, PoolInvParts
    <2> QED  BY <1>1, <2>2, <2>3, OrderStep DEF FirstFinishes
  <1> QED  BY <1>1, IInvHolds, PoolInvHolds, PTL DEF Spec, PostingOrder
=============================================================================
