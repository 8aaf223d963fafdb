-------------------------- MODULE MapUpdaterProofs --------------------------
(***************************************************************************)
(* Proofs about MapUpdater, for every set of workers, maps and instances.  *)
(* The inductive invariant IInv says where each thread may be and what it  *)
(* holds there; the count of pending requests is what ties the world       *)
(* thread's wait() to the workers.                                         *)
(***************************************************************************)
EXTENDS MapUpdater, FiniteSetTheorems, SequenceTheorems, TLAPS

USE DEF Threads, Maps

(***************************************************************************)
(* The set of workers that hold a request is finite, so PendingExact       *)
(* counts with natural numbers.                                            *)
(***************************************************************************)
LEMMA HoldersFinite == IsFiniteSet(Holders) /\ Cardinality(Holders) \in Nat
  BY ThreadsAssumption, FS_Subset, FS_CardinalityType DEF Holders

\* A worker that holds a request is counted: the size_t cannot wrap below 0.
LEMMA HolderCounted ==
  ASSUME NEW w \in Workers, request[w] # NoMap
  PROVE  Cardinality(Holders) > 0
  BY HoldersFinite, FS_EmptySet DEF Holders

\* pending = 0 means that nothing is queued and no worker holds a request.
LEMMA NothingPending ==
  ASSUME TypeOK, PendingExact, pending = 0
  PROVE  queue = <<>> /\ Holders = {}
  <1>1. Len(queue) \in Nat  BY DEF TypeOK
  <1>2. Len(queue) = 0 /\ Cardinality(Holders) = 0
    BY <1>1, HoldersFinite DEF PendingExact
  <1> QED  BY <1>2, HoldersFinite, FS_EmptySet DEF TypeOK

THEOREM InitIInv == Init => IInv
  <1> SUFFICES ASSUME Init PROVE IInv  OBVIOUS
  <1> USE ThreadsAssumption, MapsAssumption
  <1>1. Holders = {} /\ Held = {}  BY DEF Init, Holders, Held
  <1>2. TypeOK
    <2>1. pc \in [Threads -> WorldStates \cup WorkerStates]
      BY DEF Init, WorldStates, WorkerStates
    <2>2. pc[World] \in WorldStates /\ \A w \in Workers : pc[w] \in WorkerStates
      BY DEF Init, WorldStates, WorkerStates
    <2>3. queue \in Seq(Maps) /\ pending \in Nat  BY DEF Init
    <2> QED  BY <2>1, <2>2, <2>3 DEF Init, TypeOK
  <1>3. PendingExact  BY <1>1, FS_EmptySet DEF Init, PendingExact
  <1>4. Barrier  BY <1>1 DEF Init, Barrier
  <1>5. Phases /\ Requests /\ NoLostWakeup
    BY DEF Init, Phases, Requests, NoLostWakeup, activated
  <1> QED  BY <1>2, <1>3, <1>4, <1>5 DEF IInv

(***************************************************************************)
(* Type correctness of a step.  The one delicate conjunct is that pending  *)
(* stays a natural number, which needs PendingExact and Requests.          *)
(***************************************************************************)
LEMMA TypeStep == IInv /\ [Next]_vars => TypeOK'
  <1> SUFFICES ASSUME IInv, [Next]_vars PROVE TypeOK'  OBVIOUS
  <1> USE ThreadsAssumption, MapsAssumption DEF WorldStates, WorkerStates, updater, tickWork, Goto, Visit
  <1>0. TypeOK  BY DEF IInv
  <1>1. ASSUME NEW m \in BaseMaps, CreateBaseMap(m) PROVE TypeOK'
    BY <1>0, <1>1 DEF TypeOK, CreateBaseMap
  <1>2. ASSUME NEW i \in Instances, CreateInstance(i) PROVE TypeOK'
    BY <1>0, <1>2 DEF TypeOK, CreateInstance
  <1>3. CASE BeginUpdate  BY <1>0, <1>3 DEF TypeOK, BeginUpdate
  <1>4. CASE BeginUnload  BY <1>0, <1>4 DEF TypeOK, BeginUnload
  <1>5. ASSUME NEW m \in Maps, schedule_update(m)
        PROVE  /\ pc' \in [Threads -> WorldStates \cup WorkerStates]
               /\ pc'[World] \in WorldStates
               /\ \A w \in Workers : pc'[w] \in WorkerStates
               /\ queue' \in Seq(Maps) /\ pending' \in Nat
               /\ UNCHANGED <<cancelationToken, shutdown, threads>>
    <2>1. queue' \in Seq(Maps) /\ pending' \in Nat
      BY <1>0, <1>5 DEF TypeOK, schedule_update
    <2> QED  BY <1>0, <1>5, <2>1 DEF TypeOK, schedule_update, NotifyOne
  <1>6. ASSUME NEW m \in BaseMaps, ScheduleBaseMap(m) PROVE TypeOK'
    BY <1>0, <1>5, <1>6 DEF TypeOK, ScheduleBaseMap
  <1>7. ASSUME NEW m \in BaseMaps, UpdateBaseMapInline(m) PROVE TypeOK'
    BY <1>0, <1>7 DEF TypeOK, UpdateBaseMapInline
  <1>8. CASE EndVisits  BY <1>0, <1>8 DEF TypeOK, EndVisits
  <1>9. CASE wait  BY <1>0, <1>9 DEF TypeOK, wait
  <1>10. CASE DelayedUpdate  BY <1>0, <1>10 DEF TypeOK, DelayedUpdate
  <1>11. ASSUME NEW m \in BaseMaps, UnloadMap(m) PROVE TypeOK'
    BY <1>0, <1>11 DEF TypeOK, UnloadMap
  <1>12. CASE EndUnload  BY <1>0, <1>12 DEF TypeOK, EndUnload
  <1>13. CASE SetToken  BY <1>0, <1>13 DEF TypeOK, SetToken
  <1>14. CASE Cancel
    <2>1. queue' \in Seq(Maps)  BY <1>14 DEF Cancel
    <2>2. pc' \in [Threads -> WorldStates \cup WorkerStates]
      BY <1>0, <1>14 DEF TypeOK, Cancel
    <2>3. pc'[World] \in WorldStates /\ \A w \in Workers : pc'[w] \in WorkerStates
      BY <1>0, <1>14 DEF TypeOK, Cancel
    <2> QED  BY <1>0, <1>14, <2>1, <2>2, <2>3 DEF TypeOK, Cancel
  <1>15. CASE Join  BY <1>0, <1>15 DEF TypeOK, Join
  <1>16. ASSUME NEW t \in Threads, UpdateStep(t) PROVE TypeOK'
    <2>1. CASE MapUpdate(t)
      BY <1>0, <2>1 DEF TypeOK, MapUpdate, InstancesOf
    <2>2. ASSUME NEW i \in Instances, DestroyInstance(t, i) PROVE TypeOK'
      BY <1>0, <2>2 DEF TypeOK, DestroyInstance
    <2>3. ASSUME NEW i \in Instances, KeepInstance(t, i) PROVE TypeOK'
      BY <1>0, <2>3 DEF TypeOK, KeepInstance
    <2>4. ASSUME NEW i \in Instances, ScheduleInstance(t, i) PROVE TypeOK'
      BY <1>0, <1>5, <2>4 DEF TypeOK, ScheduleInstance
    <2>5. ASSUME NEW i \in Instances, UpdateInstanceInline(t, i) PROVE TypeOK'
      BY <1>0, <2>5 DEF TypeOK, UpdateInstanceInline
    <2>6. CASE UpdateReturns(t)
      BY <1>0, <2>6 DEF TypeOK, UpdateReturns
    <2> QED  BY <1>16, <2>1, <2>2, <2>3, <2>4, <2>5, <2>6 DEF UpdateStep
  <1>17. ASSUME NEW w \in Workers, WaitAndPop(w) PROVE TypeOK'
    <2>1. CASE WaitForPush(w)
      BY <1>0, <1>17, <2>1 DEF TypeOK, WaitAndPop, WaitForPush
    <2>2. CASE PopNothing(w)
      BY <1>0, <1>17, <2>2 DEF TypeOK, WaitAndPop, PopNothing
    <2>3. CASE PopFront(w)
      <3>1. queue \in Seq(Maps) /\ queue # <<>>
        BY <1>0, <2>3 DEF TypeOK, PopFront
      <3>2. Head(queue) \in Maps /\ Tail(queue) \in Seq(Maps)
        BY <3>1, HeadTailProperties
      <3> QED  BY <1>0, <1>17, <2>3, <3>2 DEF TypeOK, WaitAndPop, PopFront
    <2> QED  BY <1>17, <2>1, <2>2, <2>3 DEF WaitAndPop
  <1>18. ASSUME NEW w \in Workers, CheckToken(w) PROVE TypeOK'
    BY <1>0, <1>18 DEF TypeOK, CheckToken
  <1>19. ASSUME NEW w \in Workers, update_finished(w) PROVE TypeOK'
    <2>1. request[w] # NoMap  BY <1>19 DEF IInv, Requests, update_finished
    <2>2. pending > 0
      BY <1>0, <2>1, HolderCounted, HoldersFinite DEF IInv, PendingExact, TypeOK
    <2>3. pending' \in Nat  BY <1>0, <1>19, <2>2 DEF TypeOK, update_finished
    <2> QED  BY <1>0, <1>19, <2>3 DEF TypeOK, update_finished
  <1>20. ASSUME NEW t \in Threads, SpuriousWakeup(t) PROVE TypeOK'
    BY <1>0, <1>20 DEF TypeOK, SpuriousWakeup
  <1>21. CASE UNCHANGED vars  BY <1>0, <1>21 DEF TypeOK, vars
  <1>22. CASE WorldStep
    BY <1>22, <1>6, <1>7, <1>8, <1>9, <1>10, <1>11, <1>12, <1>13, <1>14, <1>15,
       <1>16 DEF WorldStep, WorldTick, WorldShutdown
  <1>23. ASSUME NEW w \in Workers, WorkerStep(w) PROVE TypeOK'
    BY <1>23, <1>16, <1>17, <1>18, <1>19 DEF WorkerStep
  <1> QED
    BY <1>1, <1>2, <1>3, <1>4, <1>20, <1>21, <1>22, <1>23 DEF Next, Done

(***************************************************************************)
(* The rest of the invariant, group by group.  An action that changes only *)
(* which maps exist, or the history of visits, changes none of the groups. *)
(***************************************************************************)
LEMMA QuietStep ==
  ASSUME IInv, UNCHANGED <<pc, request, updater>>
  PROVE  PendingExact' /\ Barrier' /\ Phases' /\ Requests' /\ NoLostWakeup'
  BY DEF IInv, updater, PendingExact, Holders, Barrier, Held, InTick, Phases,
         activated, Requests, NoLostWakeup

(***************************************************************************)
(* The world thread steps on its own: the requests and the queue are left  *)
(* as they are and every worker stays where it is.                         *)
(***************************************************************************)
LEMMA WorldMoves ==
  ASSUME IInv, TypeOK', NEW label \in WorldStates, Goto(World, label),
         UNCHANGED <<request, updater>>,
         label \notin {"update", "instances"},
         pc[World] \notin {"update", "instances"},
         InTick' \/ ~InTick \/ pending = 0,
         label = "asleep" => pending > 0,
         ~activated => label \notin {"wait", "asleep", "token", "cancel", "join"},
         cancelationToken => label \in {"wait", "asleep", "cancel", "join", "done"},
         label \in {"cancel", "join"} => cancelationToken
  PROVE  PendingExact' /\ Barrier' /\ Phases' /\ Requests' /\ NoLostWakeup'
  <1> USE ThreadsAssumption
  <1>1. TypeOK /\ PendingExact /\ Barrier /\ Phases /\ Requests /\ NoLostWakeup
    BY DEF IInv
  <1>2. pc' = [pc EXCEPT ![World] = label] /\ pc'[World] = label
    BY <1>1 DEF Goto, TypeOK
  <1>3. \A w \in Workers : pc'[w] = pc[w]  BY <1>1, <1>2 DEF TypeOK
  <1>4. UNCHANGED <<queue, pending, cancelationToken, shutdown, threads, Holders, Held>>
    BY DEF updater, Holders, Held
  <1>5. PendingExact'  BY <1>1, <1>4 DEF PendingExact
  <1>6. Barrier'
    <2>1. CASE ~InTick  BY <1>1, <1>4, <2>1 DEF Barrier
    <2>2. CASE pending = 0
      <3>1. queue = <<>> /\ Holders = {}  BY <1>1, <2>2, NothingPending
      <3>2. request[World] = NoMap  BY <1>1 DEF Requests
      <3>3. Held = {}  BY <3>1, <3>2 DEF Held, Holders
      <3> QED  BY <1>4, <2>2, <3>1, <3>3 DEF Barrier
    <2> QED  BY <2>1, <2>2 DEF Barrier
  <1>7. Phases'  BY <1>1, <1>2, <1>4 DEF Phases, activated
  <1>8. Requests'  BY <1>1, <1>2, <1>3, <1>4 DEF Requests
  <1>9. NoLostWakeup'  BY <1>1, <1>2, <1>3, <1>4 DEF NoLostWakeup
  <1> QED  BY <1>5, <1>6, <1>7, <1>8, <1>9

(***************************************************************************)
(* A worker moves on with the request it has.                              *)
(***************************************************************************)
LEMMA WorkerMoves ==
  ASSUME IInv, TypeOK', NEW w \in Workers, NEW label \in WorkerStates,
         Goto(w, label), UNCHANGED <<request, updater>>,
         label \in {"pop", "asleep"} => request[w] = NoMap,
         label \in {"update", "instances", "finish"} => request[w] # NoMap,
         label = "check" /\ request[w] = NoMap => shutdown,
         label = "asleep" => queue = <<>>,
         label # "exited", pc[w] # "exited"
  PROVE  PendingExact' /\ Barrier' /\ Phases' /\ Requests' /\ NoLostWakeup'
  <1> USE ThreadsAssumption
  <1>1. TypeOK /\ PendingExact /\ Barrier /\ Phases /\ Requests /\ NoLostWakeup
    BY DEF IInv
  <1>2. pc' = [pc EXCEPT ![w] = label] /\ pc'[World] = pc[World]
    BY <1>1 DEF Goto, TypeOK
  <1>3. pc'[w] = label /\ \A v \in Workers \ {w} : pc'[v] = pc[v]
    BY <1>1, <1>2 DEF TypeOK
  <1>4. UNCHANGED <<queue, pending, cancelationToken, shutdown, threads, Holders, Held, InTick>>
    BY <1>2 DEF updater, Holders, Held, InTick
  <1>5. PendingExact' /\ Barrier'  BY <1>1, <1>4 DEF PendingExact, Barrier
  <1>6. Phases'  BY <1>1, <1>2, <1>4 DEF Phases, activated
  <1>7. Requests'
    <2>1. w \in threads  BY <1>1 DEF Requests
    <2> QED  BY <1>1, <1>2, <1>3, <1>4, <2>1 DEF Requests
  <1>8. NoLostWakeup'
    <2>1. pc'[World] = "asleep" => pending' > 0
      BY <1>1, <1>2, <1>4 DEF NoLostWakeup
    <2>2. ASSUME queue' # <<>>
          PROVE  \E v \in Workers : pc'[v] \notin {"asleep", "exited"}
      BY <1>3, <1>4, <2>2
    <2> QED  BY <2>1, <2>2 DEF NoLostWakeup
  <1> QED  BY <1>5, <1>6, <1>7, <1>8

(***************************************************************************)
(* schedule_update, called inside a tick by a thread that is awake.        *)
(***************************************************************************)
LEMMA Scheduling ==
  ASSUME IInv, TypeOK', NEW m \in Maps, schedule_update(m), activated, InTick,
         UNCHANGED request
  PROVE  PendingExact' /\ Barrier' /\ Phases' /\ Requests' /\ NoLostWakeup'
  <1> USE ThreadsAssumption
  <1>1. TypeOK /\ PendingExact /\ Barrier /\ Phases /\ Requests /\ NoLostWakeup
    BY DEF IInv
  <1>2. /\ pending' = pending + 1 /\ queue' = Append(queue, m)
        /\ UNCHANGED <<cancelationToken, shutdown, threads, Holders>>
    BY DEF schedule_update, Holders
  <1>3. pc'[World] = pc[World]
    BY <1>1 DEF schedule_update, NotifyOne, Goto, TypeOK
  <1>4. \A v \in Workers : pc'[v] = pc[v] \/ (pc[v] = "asleep" /\ pc'[v] = "pop")
    BY <1>1 DEF schedule_update, NotifyOne, Goto, TypeOK
  <1>5. Len(queue') = Len(queue) + 1 /\ Len(queue) \in Nat
    BY <1>1, <1>2 DEF TypeOK
  <1>6. PendingExact'
    BY <1>1, <1>2, <1>5, HoldersFinite DEF PendingExact, TypeOK
  <1>7. Barrier'  BY <1>2, <1>3 DEF Barrier, InTick
  <1>8. Phases'  BY <1>1, <1>2, <1>3 DEF Phases, activated
  <1>9. Requests'  BY <1>1, <1>2, <1>3, <1>4 DEF Requests
  <1>10. NoLostWakeup'
    <2>1. pc'[World] = "asleep" => pending' > 0  BY <1>1, <1>2, <1>3 DEF TypeOK
    <2>2. \E v \in threads : pc'[v] # "asleep"
      <3>1. CASE \A v \in Workers : pc[v] # "asleep"
        BY <1>1, <1>4, <3>1 DEF activated, TypeOK
      <3>2. ASSUME NEW v \in Workers, pc[v] = "asleep", Goto(v, "pop")
            PROVE  \E u \in threads : pc'[u] # "asleep"
        <4>1. v \in threads  BY <1>1, <3>2 DEF Requests
        <4> QED  BY <1>1, <3>2, <4>1 DEF Goto, TypeOK
      <3> QED  BY <3>1, <3>2 DEF schedule_update, NotifyOne
    <2>3. \A v \in threads : v \in Workers /\ pc'[v] # "exited"
      BY <1>1, <1>4 DEF Requests, InTick, TypeOK
    <2> QED  BY <2>1, <2>2, <2>3 DEF NoLostWakeup
  <1> QED  BY <1>6, <1>7, <1>8, <1>9, <1>10

LEMMA GroupsStep ==
  IInv /\ [Next]_vars => PendingExact' /\ Barrier' /\ Phases' /\ Requests' /\ NoLostWakeup'
  <1> SUFFICES ASSUME IInv, [Next]_vars
               PROVE  PendingExact' /\ Barrier' /\ Phases' /\ Requests' /\ NoLostWakeup'
    OBVIOUS
  <1> DEFINE Kept == PendingExact' /\ Barrier' /\ Phases' /\ Requests' /\ NoLostWakeup'
  <1>a. TypeOK'  BY TypeStep
  <1>b. TypeOK /\ PendingExact /\ Barrier /\ Phases /\ Requests /\ NoLostWakeup
    BY DEF IInv
  <1>i. ~activated => \A w \in Workers : pc[w] = "exited" /\ request[w] = NoMap
    BY <1>b DEF Requests, activated
  <1> USE ThreadsAssumption
  <1>1. ASSUME NEW m \in BaseMaps, CreateBaseMap(m) PROVE Kept
    BY <1>1, QuietStep DEF CreateBaseMap, tickWork
  <1>2. ASSUME NEW i \in Instances, CreateInstance(i) PROVE Kept
    BY <1>2, QuietStep DEF CreateInstance, tickWork
  <1>3. CASE BeginUpdate
    <2>1. ~cancelationToken  BY <1>3, <1>b DEF BeginUpdate, Phases
    <2>2. InTick'  BY <1>3, <1>b, <2>1 DEF BeginUpdate, InTick, updater, Goto, TypeOK
    <2> QED  BY <1>3, <1>a, <2>1, <2>2, WorldMoves DEF BeginUpdate, WorldStates
  <1>4. CASE BeginUnload
    <2>1. ~InTick /\ ~cancelationToken  BY <1>4, <1>b DEF BeginUnload, InTick, Phases
    <2> QED
      BY <1>4, <1>a, <2>1, WorldMoves DEF BeginUnload, WorldStates, tickWork
  <1>5. ASSUME NEW m \in BaseMaps, ScheduleBaseMap(m) PROVE Kept
    <2>1. InTick  BY <1>5, <1>b DEF ScheduleBaseMap, InTick, Phases
    <2> QED  BY <1>5, <1>a, <2>1, Scheduling DEF ScheduleBaseMap
  <1>6. ASSUME NEW m \in BaseMaps, UpdateBaseMapInline(m) PROVE Kept
    <2>1. /\ ~activated
          /\ \A w \in Workers : /\ pc[w] = "exited" /\ pc'[w] = pc[w]
                               /\ request[w] = NoMap /\ request'[w] = request[w]
      BY <1>6, <1>b, <1>i DEF UpdateBaseMapInline, Goto, TypeOK
    <2>2. pc'[World] = "update" /\ request'[World] = m /\ m # NoMap
      BY <1>6, <1>b, MapsAssumption DEF UpdateBaseMapInline, Goto, TypeOK
    <2>3. UNCHANGED <<queue, pending, cancelationToken, shutdown, threads>> /\ Holders' = Holders
      BY <1>6, <2>1 DEF UpdateBaseMapInline, updater, Holders
    <2>4. ~cancelationToken  BY <1>6, <1>b DEF UpdateBaseMapInline, Phases
    <2>5. PendingExact'  BY <1>b, <2>3 DEF PendingExact
    <2>6. Barrier'  BY <2>2, <2>3, <2>4 DEF Barrier, InTick
    <2>7. Phases'  BY <1>b, <2>1, <2>2, <2>3, <2>4 DEF Phases, activated
    <2>8. Requests'  BY <1>b, <2>1, <2>2, <2>3 DEF Requests
    <2>9. NoLostWakeup'  BY <1>6, <1>b, <2>1, <2>2, <2>3 DEF NoLostWakeup, Phases, activated
    <2> QED  BY <2>5, <2>6, <2>7, <2>8, <2>9
  <1>7. CASE EndVisits
    <2>1. ~cancelationToken  BY <1>7, <1>b DEF EndVisits, Phases
    <2>2. CASE activated
      <3>1. Goto(World, "wait") /\ UNCHANGED <<request, updater>>
        BY <1>7, <2>2 DEF EndVisits, tickWork
      <3>2. InTick'  BY <3>1, <1>b, <2>1 DEF InTick, updater, Goto, TypeOK
      <3> QED  BY <1>7, <1>a, <2>1, <2>2, <3>1, <3>2, WorldMoves DEF EndVisits, WorldStates
    <2>3. CASE ~activated
      <3>1. Goto(World, "delayed") /\ UNCHANGED <<request, updater>>
        BY <1>7, <2>3 DEF EndVisits, tickWork
      <3>2. Holders = {} /\ queue = <<>>  BY <1>b, <1>i, <2>3 DEF Holders, Phases
      <3>3. pending = 0  BY <1>b, <3>2, FS_EmptySet DEF PendingExact
      <3> QED  BY <1>7, <1>a, <2>1, <3>1, <3>3, WorldMoves DEF EndVisits, WorldStates
    <2> QED  BY <2>2, <2>3
  <1>8. CASE wait
    <2>1. activated  BY <1>8, <1>b DEF wait, Phases
    <2>2. UNCHANGED <<request, updater>>  BY <1>8 DEF wait, tickWork
    <2>3. CASE pending > 0 /\ Goto(World, "asleep")
      <3>1. InTick' \/ ~InTick
        BY <1>8, <1>b, <2>2, <2>3 DEF InTick, wait, updater, Goto, TypeOK
      <3> QED  BY <1>8, <1>a, <2>1, <2>2, <2>3, <3>1, WorldMoves DEF wait, WorldStates
    <2>4. CASE pending = 0 /\ cancelationToken /\ Goto(World, "cancel")
      BY <1>8, <1>a, <2>1, <2>2, <2>4, WorldMoves DEF wait, WorldStates
    <2>5. CASE pending = 0 /\ ~cancelationToken /\ Goto(World, "delayed")
      BY <1>8, <1>a, <2>1, <2>2, <2>5, WorldMoves DEF wait, WorldStates
    <2> QED  BY <1>8, <2>3, <2>4, <2>5 DEF wait
  <1>9. CASE DelayedUpdate
    <2>1. ~InTick /\ ~cancelationToken  BY <1>9, <1>b DEF DelayedUpdate, InTick, Phases
    <2> QED
      BY <1>9, <1>a, <2>1, WorldMoves DEF DelayedUpdate, WorldStates, tickWork
  <1>10. ASSUME NEW m \in BaseMaps, UnloadMap(m) PROVE Kept
    BY <1>10, QuietStep DEF UnloadMap, tickWork
  <1>11. CASE EndUnload
    <2>1. ~InTick /\ ~cancelationToken  BY <1>11, <1>b DEF EndUnload, InTick, Phases
    <2>2. CASE activated
      BY <1>11, <1>a, <2>1, <2>2, WorldMoves DEF EndUnload, WorldStates, tickWork
    <2>3. CASE ~activated
      BY <1>11, <1>a, <2>1, <2>3, WorldMoves DEF EndUnload, WorldStates, tickWork
    <2> QED  BY <2>2, <2>3
  <1>12. CASE SetToken
    <2>1. /\ pc'[World] = "wait" /\ cancelationToken' = TRUE
          /\ \A w \in Workers : pc'[w] = pc[w]
      BY <1>12, <1>b DEF SetToken, Goto, TypeOK
    <2>2. UNCHANGED <<queue, pending, shutdown, threads, request, Holders, Held>>
      BY <1>12 DEF SetToken, tickWork, Holders, Held
    <2>3. ~InTick /\ activated  BY <1>12, <1>b DEF SetToken, InTick, Phases
    <2>4. PendingExact' /\ Barrier'  BY <1>b, <2>2, <2>3 DEF PendingExact, Barrier
    <2>5. Phases'  BY <1>b, <2>1, <2>2, <2>3 DEF Phases, activated
    <2>6. Requests'  BY <1>12, <1>b, <2>1, <2>2 DEF Requests, SetToken
    <2>7. NoLostWakeup'  BY <1>b, <2>1, <2>2 DEF NoLostWakeup
    <2> QED  BY <2>4, <2>5, <2>6, <2>7
  <1>13. CASE Cancel
    <2>1. /\ pc'[World] = "join" /\ queue' = <<>> /\ shutdown' = TRUE
          /\ \A w \in Workers : pc'[w] = IF pc[w] = "asleep" THEN "pop" ELSE pc[w]
      BY <1>13, <1>b DEF Cancel, TypeOK
    <2>2. UNCHANGED <<pending, cancelationToken, threads, request, Holders, Held>>
      BY <1>13 DEF Cancel, tickWork, Holders, Held
    <2>3. cancelationToken /\ ~InTick /\ activated
      BY <1>13, <1>b DEF Cancel, InTick, Phases
    <2>4. queue = <<>> /\ Held = {} /\ pending = 0  BY <1>b, <2>3 DEF Barrier
    <2>5. PendingExact' /\ Barrier'
      BY <1>b, <2>1, <2>2, <2>4 DEF PendingExact, Barrier
    <2>6. Phases'  BY <1>b, <2>1, <2>2, <2>3 DEF Phases, activated
    <2>7. Requests'  BY <1>13, <1>b, <2>1, <2>2 DEF Requests, Cancel
    <2>8. NoLostWakeup'  BY <2>1 DEF NoLostWakeup
    <2> QED  BY <2>5, <2>6, <2>7, <2>8
  <1>14. CASE Join
    <2>1. ~InTick /\ cancelationToken  BY <1>14, <1>b DEF Join, InTick, Phases
    <2> QED  BY <1>14, <1>a, <2>1, WorldMoves DEF Join, WorldStates, tickWork
  <1>15. ASSUME NEW t \in Threads, UpdateStep(t) PROVE Kept
    <2>1. request[t] # NoMap  BY <1>15, <1>b DEF Requests, UpdateStep, MapUpdate,
        DestroyInstance, KeepInstance, ScheduleInstance, UpdateInstanceInline, UpdateReturns
    <2>2. request[t] \in Held  BY <2>1 DEF Held
    <2>3. InTick  BY <1>b, <2>2 DEF Barrier
    <2>4. CASE MapUpdate(t)
      <3>1. UNCHANGED <<request, updater>> /\ Goto(t, "instances")
        BY <2>4 DEF MapUpdate
      <3>2. CASE t \in Workers
        BY <1>a, <2>1, <2>4, <3>1, <3>2, WorkerMoves DEF MapUpdate, WorkerStates
      <3>3. CASE t = World
        <4>1. pc[World] = "update" /\ pc' = [pc EXCEPT ![World] = "instances"]
          BY <2>4, <3>3 DEF MapUpdate, Goto
        <4>2. pc'[World] = "instances" /\ \A w \in Workers : pc'[w] = pc[w]
          BY <1>b, <4>1 DEF TypeOK
        <4>3. UNCHANGED <<queue, pending, cancelationToken, shutdown, threads, Holders, Held>>
          BY <3>1 DEF updater, Holders, Held
        <4>4. PendingExact'  BY <1>b, <4>3 DEF PendingExact
        <4>5. Barrier'  BY <2>3, <4>2, <4>3 DEF Barrier, InTick
        <4>6. Phases'  BY <1>b, <4>1, <4>2, <4>3 DEF Phases, activated
        <4>7. Requests'  BY <1>b, <3>1, <4>1, <4>2, <4>3 DEF Requests
        <4>8. NoLostWakeup'  BY <1>b, <4>2, <4>3 DEF NoLostWakeup
        <4> QED  BY <4>4, <4>5, <4>6, <4>7, <4>8
      <3> QED  BY <3>2, <3>3
    <2>5. ASSUME NEW i \in Instances, DestroyInstance(t, i) PROVE Kept
      BY <2>5, QuietStep DEF DestroyInstance
    <2>6. ASSUME NEW i \in Instances, KeepInstance(t, i) PROVE Kept
      BY <2>6, QuietStep DEF KeepInstance
    <2>7. ASSUME NEW i \in Instances, ScheduleInstance(t, i) PROVE Kept
      BY <1>a, <2>3, <2>7, Scheduling DEF ScheduleInstance
    <2>8. ASSUME NEW i \in Instances, UpdateInstanceInline(t, i) PROVE Kept
      BY <2>8, QuietStep DEF UpdateInstanceInline
    <2>9. CASE UpdateReturns(t)
      <3>1. CASE t \in Workers
        BY <1>a, <2>1, <2>9, <3>1, WorkerMoves DEF UpdateReturns, WorkerStates
      <3>2. CASE t = World
        <4>1. /\ ~activated
              /\ \A w \in Workers : /\ pc[w] = "exited" /\ pc'[w] = pc[w]
                                   /\ request[w] = NoMap /\ request'[w] = request[w]
          BY <1>b, <1>i, <2>9, <3>2 DEF Phases, UpdateReturns, Goto, TypeOK
        <4>2. pc'[World] = "visit" /\ request'[World] = NoMap
          BY <1>b, <2>9, <3>2 DEF UpdateReturns, Goto, TypeOK
        <4>3. UNCHANGED <<queue, pending, cancelationToken, shutdown, threads>>
          BY <2>9 DEF UpdateReturns, updater
        <4>4. Holders' = Holders  BY <4>1 DEF Holders
        <4>5. PendingExact'  BY <1>b, <4>3, <4>4 DEF PendingExact
        <4>6. Barrier'  BY <2>3, <4>2, <4>3 DEF Barrier, InTick
        <4>7. Phases'  BY <1>b, <2>3, <4>1, <4>2, <4>3 DEF Phases, activated, InTick
        <4>8. Requests'  BY <1>b, <4>1, <4>2, <4>3 DEF Requests
        <4>9. NoLostWakeup'  BY <1>b, <4>1, <4>2, <4>3 DEF NoLostWakeup, Phases
        <4> QED  BY <4>5, <4>6, <4>7, <4>8, <4>9
      <3> QED  BY <3>1, <3>2
    <2> QED  BY <1>15, <2>4, <2>5, <2>6, <2>7, <2>8, <2>9 DEF UpdateStep
  <1>16. ASSUME NEW w \in Workers, WaitAndPop(w) PROVE Kept
    <2>1. request[w] = NoMap  BY <1>16, <1>b DEF WaitAndPop, Requests
    <2>2. CASE WaitForPush(w)
      BY <1>16, <1>a, <2>1, <2>2, WorkerMoves
         DEF WaitAndPop, WaitForPush, WorkerStates, updater
    <2>3. CASE PopNothing(w)
      BY <1>16, <1>a, <2>1, <2>3, WorkerMoves
         DEF WaitAndPop, PopNothing, WorkerStates, updater
    <2>4. CASE PopFront(w)
      <3>1. queue \in Seq(Maps) /\ queue # <<>>
        BY <1>b, <2>4 DEF TypeOK, PopFront
      <3>2. Head(queue) \in Maps /\ Len(Tail(queue)) = Len(queue) - 1
        BY <3>1, HeadTailProperties
      <3>3. Head(queue) # NoMap  BY <3>2, MapsAssumption
      <3>4. /\ pc'[w] = "check" /\ pc'[World] = pc[World]
            /\ \A v \in Workers \ {w} : pc'[v] = pc[v]
        BY <2>4, <1>b DEF PopFront, Goto, TypeOK
      <3>5. /\ request'[w] # NoMap /\ request'[World] = request[World]
            /\ \A v \in Workers \ {w} : request'[v] = request[v]
        BY <2>4, <1>b, <3>3 DEF PopFront, TypeOK
      <3>6. UNCHANGED <<pending, cancelationToken, shutdown, threads>>
        BY <1>16 DEF WaitAndPop
      <3>7. InTick /\ InTick'
        BY <1>b, <2>4, <3>4, <3>6 DEF Barrier, PopFront, InTick
      <3>8. PendingExact'
        <4>1. Holders' = Holders \cup {w} /\ w \notin Holders
          BY <2>1, <3>5 DEF Holders
        <4>2. Cardinality(Holders') = Cardinality(Holders) + 1
          BY <4>1, HoldersFinite, FS_AddElement
        <4>3. Len(queue) \in Nat /\ queue' = Tail(queue)
          BY <2>4, <3>1 DEF PopFront
        <4> QED
          BY <1>b, <3>2, <3>6, <4>2, <4>3, HoldersFinite DEF PendingExact
      <3>9. Barrier'  BY <3>7 DEF Barrier
      <3>10. Phases'
        BY <1>b, <2>4, <3>4, <3>6 DEF Phases, activated, PopFront
      <3>11. Requests'
        BY <1>16, <1>b, <3>4, <3>5, <3>6 DEF Requests, WaitAndPop
      <3>12. NoLostWakeup'
        BY <1>b, <3>4, <3>6 DEF NoLostWakeup
      <3> QED  BY <3>8, <3>9, <3>10, <3>11, <3>12
    <2> QED  BY <1>16, <2>2, <2>3, <2>4 DEF WaitAndPop
  <1>17. ASSUME NEW w \in Workers, CheckToken(w) PROVE Kept
    <2>1. CASE ~cancelationToken
      <3>1. request[w] # NoMap
        BY <1>17, <1>b, <2>1 DEF CheckToken, Requests, Phases
      <3> QED
        BY <1>17, <1>a, <2>1, <3>1, WorkerMoves DEF CheckToken, WorkerStates
    <2>2. CASE cancelationToken
      <3>1. ~InTick /\ queue = <<>> /\ Held = {} /\ pending = 0
        BY <1>b, <2>2 DEF InTick, Barrier
      <3>2. request[w] = NoMap  BY <3>1 DEF Held
      <3>3. /\ pc'[w] = "exited" /\ pc'[World] = pc[World]
            /\ \A v \in Workers \ {w} : pc'[v] = pc[v]
        BY <1>17, <1>b, <2>2 DEF CheckToken, Goto, TypeOK
      <3>4. request' = request
        BY <1>17, <1>b, <2>2, <3>2 DEF CheckToken, TypeOK
      <3>5. UNCHANGED <<queue, pending, cancelationToken, shutdown, threads, Holders, Held>>
        BY <1>17, <3>4 DEF CheckToken, updater, Holders, Held
      <3>6. PendingExact' /\ Barrier'
        BY <1>b, <3>1, <3>5 DEF PendingExact, Barrier
      <3>7. Phases'  BY <1>b, <3>3, <3>5 DEF Phases, activated
      <3>8. Requests'  BY <1>b, <2>2, <3>2, <3>3, <3>4, <3>5 DEF Requests
      <3>9. NoLostWakeup'  BY <1>b, <3>1, <3>3, <3>5 DEF NoLostWakeup
      <3> QED  BY <3>6, <3>7, <3>8, <3>9
    <2> QED  BY <2>1, <2>2
  <1>18. ASSUME NEW w \in Workers, update_finished(w) PROVE Kept
    <2>1. request[w] # NoMap  BY <1>18, <1>b DEF Requests, update_finished
    <2>2. InTick  BY <1>b, <2>1 DEF Barrier, Held
    <2>3. /\ pc'[w] = "pop"
          /\ pc'[World] = IF pc[World] = "asleep" THEN "wait" ELSE pc[World]
          /\ \A v \in Workers \ {w} : pc'[v] = pc[v]
      BY <1>18, <1>b DEF update_finished, TypeOK
    <2>4. /\ request'[w] = NoMap /\ request'[World] = request[World]
          /\ \A v \in Workers \ {w} : request'[v] = request[v]
      BY <1>18, <1>b DEF update_finished, TypeOK
    <2>5. /\ UNCHANGED <<queue, cancelationToken, shutdown, threads>>
          /\ pending' = pending - 1
      BY <1>18 DEF update_finished
    <2>6. PendingExact'
      <3>1. Holders' = Holders \ {w} /\ w \in Holders
        BY <2>1, <2>4 DEF Holders
      <3>2. Cardinality(Holders') = Cardinality(Holders) - 1
        BY <3>1, HoldersFinite, FS_RemoveElement
      <3>3. Len(queue) \in Nat  BY <1>b DEF TypeOK
      <3> QED  BY <1>b, <2>5, <3>2, <3>3, HoldersFinite DEF PendingExact
    <2>7. Barrier'  BY <2>2, <2>3, <2>5 DEF Barrier, InTick
    <2>8. Phases'  BY <1>b, <2>3, <2>5 DEF Phases, activated
    <2>9. Requests'
      <3>1. pc[w] # "exited"  BY <1>18 DEF update_finished
      <3> QED  BY <1>b, <2>3, <2>4, <2>5, <3>1 DEF Requests
    <2>10. NoLostWakeup'  BY <2>3, <2>5 DEF NoLostWakeup
    <2> QED  BY <2>6, <2>7, <2>8, <2>9, <2>10
  <1>19. ASSUME NEW t \in Threads, SpuriousWakeup(t) PROVE Kept
    <2>1. UNCHANGED <<request, updater>>  BY <1>19 DEF SpuriousWakeup, tickWork
    <2>2. CASE t = World
      <3>1. Goto(World, "wait") /\ pc[World] = "asleep"
        BY <1>19, <2>2 DEF SpuriousWakeup
      <3>2. InTick' \/ ~InTick
        BY <1>b, <2>1, <3>1 DEF InTick, Goto, TypeOK, updater
      <3> QED
        BY <1>a, <1>b, <2>1, <3>1, <3>2, WorldMoves DEF WorldStates, Phases
    <2>3. CASE t \in Workers
      BY <1>19, <1>a, <1>b, <2>1, <2>3, WorkerMoves
         DEF SpuriousWakeup, WorkerStates, Requests
    <2> QED  BY <2>2, <2>3
  <1>20. CASE UNCHANGED vars  BY <1>20, QuietStep DEF vars, updater
  <1>21. CASE WorldStep
    BY <1>21, <1>5, <1>6, <1>7, <1>8, <1>9, <1>10, <1>11, <1>12, <1>13, <1>14,
       <1>15 DEF WorldStep, WorldTick, WorldShutdown
  <1>22. ASSUME NEW w \in Workers, WorkerStep(w) PROVE Kept
    BY <1>22, <1>15, <1>16, <1>17, <1>18 DEF WorkerStep
  <1> QED
    BY <1>1, <1>2, <1>3, <1>4, <1>19, <1>20, <1>21, <1>22 DEF Next, Done

THEOREM StepIInv == IInv /\ [Next]_vars => IInv'
  BY TypeStep, GroupsStep DEF IInv

(***************************************************************************)
(* Type correctness: in particular pending_requests, a size_t, never wraps *)
(* below zero, for any number of threads and maps.                         *)
(***************************************************************************)
THEOREM TypeCorrect == Spec => []TypeOK
  <1>1. IInv => TypeOK  BY DEF IInv
  <1> QED  BY <1>1, InitIInv, StepIInv, PTL DEF Spec

(***************************************************************************)
(* The barrier: whatever the world thread does outside the tick runs       *)
(* beside no map update.                                                   *)
(***************************************************************************)
THEOREM BarrierHolds == Spec => []Barrier
  <1>1. IInv => Barrier  BY DEF IInv
  <1> QED  BY <1>1, InitIInv, StepIInv, PTL DEF Spec

\* pending_requests is exactly what is queued or held by a worker.
THEOREM PendingIsExact == Spec => []PendingExact
  <1>1. IInv => PendingExact  BY DEF IInv
  <1> QED  BY <1>1, InitIInv, StepIInv, PTL DEF Spec

(***************************************************************************)
(* No wakeup is lost between the two condition variables.                  *)
(***************************************************************************)
THEOREM WakeupsKept == Spec => []NoLostWakeup
  <1>1. IInv => NoLostWakeup  BY DEF IInv
  <1> QED  BY <1>1, InitIInv, StepIInv, PTL DEF Spec

(***************************************************************************)
(* A worker never calls through a null request, not even while the queue   *)
(* is being cancelled under it.                                            *)
(***************************************************************************)
THEOREM NullNeverCalled == Spec => []NoNullCall
  <1>1. IInv => NoNullCall
    BY DEF IInv, NoNullCall, Requests, Threads
  <1> QED  BY <1>1, InitIInv, StepIInv, PTL DEF Spec

-----------------------------------------------------------------------------
(***************************************************************************)
(* Second part: what one tick of MapUpdater does with the maps: the second *)
(* inductive invariant, RInv, on top of IInv.  It follows each map through *)
(* its places in a tick, from a loop to the queue to a thread, and shows   *)
(* that it is never in two of them.                                        *)
(***************************************************************************)

(***************************************************************************)
(* The queue as a set.                                                     *)
(***************************************************************************)
Distinct(q) == \A j, k \in DOMAIN q : q[j] = q[k] => j = k

LEMMA QueuedAppend ==
  ASSUME NEW q \in Seq(Maps), NEW m \in Maps
  PROVE  /\ QueuedIn(Append(q, m)) = QueuedIn(q) \cup {m}
         /\ Distinct(q) /\ m \notin QueuedIn(q) => Distinct(Append(q, m))
  <1>1. /\ Len(q) \in Nat /\ Len(Append(q, m)) = Len(q) + 1
        /\ DOMAIN q = 1 .. Len(q) /\ DOMAIN Append(q, m) = 1 .. Len(q) + 1
        /\ \A k \in 1 .. Len(q) : Append(q, m)[k] = q[k]
        /\ Append(q, m)[Len(q) + 1] = m
    OBVIOUS
  <1>2. \A x \in QueuedIn(q) : x \in QueuedIn(Append(q, m))
    BY <1>1 DEF QueuedIn
  <1>3. m \in QueuedIn(Append(q, m))
    BY <1>1 DEF QueuedIn
  <1>4. \A x \in QueuedIn(Append(q, m)) : x \in QueuedIn(q) \cup {m}
    BY <1>1 DEF QueuedIn
  <1>5. QueuedIn(Append(q, m)) = QueuedIn(q) \cup {m}
    BY <1>2, <1>3, <1>4
  <1>6. ASSUME Distinct(q), m \notin QueuedIn(q) PROVE Distinct(Append(q, m))
    BY <1>1, <1>6 DEF Distinct, QueuedIn
  <1> QED  BY <1>5, <1>6

LEMMA QueuedPop ==
  ASSUME NEW q \in Seq(Maps), q # <<>>
  PROVE  /\ Head(q) \in Maps
         /\ QueuedIn(q) = QueuedIn(Tail(q)) \cup {Head(q)}
         /\ Distinct(q) => Distinct(Tail(q)) /\ Head(q) \notin QueuedIn(Tail(q))
  <1>1. /\ Len(q) \in Nat \ {0} /\ Head(q) = q[1] /\ Head(q) \in Maps
        /\ DOMAIN q = 1 .. Len(q) /\ DOMAIN Tail(q) = 1 .. Len(q) - 1
        /\ \A k \in 1 .. Len(q) - 1 : Tail(q)[k] = q[k + 1]
    OBVIOUS
  <1>2. \A x \in QueuedIn(Tail(q)) : x \in QueuedIn(q)
    BY <1>1 DEF QueuedIn
  <1>3. Head(q) \in QueuedIn(q)
    BY <1>1 DEF QueuedIn
  <1>4. ASSUME NEW k \in 1 .. Len(q) PROVE q[k] \in QueuedIn(Tail(q)) \cup {Head(q)}
    <2>1. CASE k = 1  BY <1>1, <2>1
    <2>2. CASE k # 1
      <3>1. k - 1 \in 1 .. Len(q) - 1 /\ Tail(q)[k - 1] = q[k]
        BY <1>1, <2>2
      <3> QED  BY <1>1, <3>1 DEF QueuedIn
    <2> QED  BY <2>1, <2>2
  <1>5. QueuedIn(q) = QueuedIn(Tail(q)) \cup {Head(q)}
    <2>1. \A x \in QueuedIn(q) : x \in QueuedIn(Tail(q)) \cup {Head(q)}
      BY <1>1, <1>4 DEF QueuedIn
    <2> QED  BY <1>2, <1>3, <2>1
  <1>6. ASSUME Distinct(q) PROVE Distinct(Tail(q)) /\ Head(q) \notin QueuedIn(Tail(q))
    BY <1>1, <1>6 DEF Distinct, QueuedIn
  <1> QED  BY <1>1, <1>5, <1>6

LEMMA QueuedNone == QueuedIn(<<>>) = {}
  BY DEF QueuedIn

THEOREM InitRInv == Init => RInv
  <1> SUFFICES ASSUME Init PROVE RInv  OBVIOUS
  <1> USE ThreadsAssumption, MapsAssumption
  <1>1. QueuedIn(queue) = {} /\ Held = {} /\ ToUpdate = {}
    BY QueuedNone DEF Init, Held, ToUpdate
  <1>2. Apart  BY <1>1 DEF Init, Apart, OneRequestPerMap, InstancesOf
  <1>3. NoDanglingMap  BY <1>1 DEF Init, NoDanglingMap
  <1>4. Placed /\ Visited  BY DEF Init, Placed, Visited
  <1> QED  BY <1>2, <1>3, <1>4 DEF RInv

(***************************************************************************)
(* A step that moves threads but no request: nothing to update is lost or  *)
(* added, and a loop that still has maps to reach is still where it was.   *)
(***************************************************************************)
LEMMA Steady ==
  ASSUME RInv, UNCHANGED <<maps, toVisit, children, request, queue, visits>>,
         \A t \in Threads :
            /\ request[t] # NoMap =>
                   (pc'[t] \in {"check", "update"} <=> pc[t] \in {"check", "update"})
            /\ children[t] # {} => pc'[t] = "instances",
         toVisit # {} => pc'[World] \in {"visit", "update", "instances"},
         InTick' \/ pc'[World] = "delayed" => InTick \/ pc[World] = "delayed"
  PROVE  RInv'
  <1>1. Held' = Held /\ ToUpdate' = ToUpdate
    BY DEF Held, ToUpdate
  <1>2. Apart'  BY <1>1 DEF RInv, Apart, OneRequestPerMap
  <1>3. NoDanglingMap'  BY <1>1 DEF RInv, NoDanglingMap
  <1>4. Placed'  BY DEF RInv, Placed
  <1>5. Visited'  BY <1>1 DEF RInv, Visited, Waiting
  <1> QED  BY <1>2, <1>3, <1>4, <1>5 DEF RInv

(***************************************************************************)
(* What RInv and IInv say where a step needs it.                           *)
(***************************************************************************)
LEMMA RequestAtWork ==
  ASSUME IInv, NEW t \in Threads, pc[t] \in {"update", "instances", "finish"}
  PROVE  request[t] \in Held /\ request[t] \in Maps /\ InTick
  <1>1. request[t] # NoMap  BY DEF IInv, Requests, Threads, TypeOK, WorldStates
  <1>2. request[t] \in Held  BY <1>1 DEF Held
  <1>3. InTick  BY <1>2 DEF IInv, Barrier
  <1> QED  BY <1>1, <1>2, <1>3 DEF IInv, TypeOK

\* Outside a tick, nothing is left of it.
LEMMA NothingHeld ==
  ASSUME IInv, RInv, ~InTick
  PROVE  /\ QueuedIn(queue) = {} /\ Held = {}
         /\ \A t \in Threads : children[t] = {} /\ request[t] = NoMap
         /\ pc[World] \notin {"visit", "update", "instances"} => toVisit = {} /\ ToUpdate = {}
  <1>1. queue = <<>> /\ Held = {}  BY DEF IInv, Barrier
  <1>2. QueuedIn(queue) = {}  BY <1>1, QueuedNone
  <1>3. \A t \in Threads : request[t] = NoMap  BY <1>1 DEF Held
  <1>4. \A t \in Threads : children[t] = {}
    <2> SUFFICES ASSUME NEW t \in Threads, children[t] # {} PROVE FALSE  OBVIOUS
    <2>1. pc[t] = "instances"  BY DEF RInv, Placed
    <2> QED  BY <1>3, <2>1, RequestAtWork, <1>1
  <1>5. ASSUME pc[World] \notin {"visit", "update", "instances"}
        PROVE  toVisit = {} /\ ToUpdate = {}
    BY <1>1, <1>2, <1>5 DEF RInv, Placed, ToUpdate
  <1> QED  BY <1>1, <1>2, <1>3, <1>4, <1>5

(***************************************************************************)
(* The world thread outside the tick.                                      *)
(***************************************************************************)
LEMMA CreateBaseMapStep ==
  ASSUME IInv, RInv, NEW m \in BaseMaps, CreateBaseMap(m)
  PROVE  RInv'
  <1>1. pc[World] = "serial" /\ ~InTick  BY DEF CreateBaseMap, InTick
  <1>2. UNCHANGED <<pc, toVisit, children, request, visits, queue, Held, ToUpdate>>
    BY DEF CreateBaseMap, tickWork, updater, Held, ToUpdate
  <1>3. Apart'  BY <1>2 DEF RInv, Apart, OneRequestPerMap
  <1>4. NoDanglingMap'  BY <1>2 DEF RInv, NoDanglingMap, CreateBaseMap
  <1>5. Placed'
    BY <1>2, MapsAssumption DEF RInv, Placed, CreateBaseMap
  <1>6. Visited'  BY <1>1, <1>2 DEF Visited, InTick
  <1> QED  BY <1>3, <1>4, <1>5, <1>6 DEF RInv

LEMMA CreateInstanceStep ==
  ASSUME IInv, RInv, NEW i \in Instances, CreateInstance(i)
  PROVE  RInv'
  <1>1. pc[World] = "serial"  BY DEF CreateInstance
  <1>2. UNCHANGED <<pc, toVisit, children, request, visits, queue, Held, ToUpdate>>
    BY DEF CreateInstance, tickWork, updater, Held, ToUpdate
  <1>3. Apart'  BY <1>2 DEF RInv, Apart, OneRequestPerMap
  <1>4. NoDanglingMap'  BY <1>2 DEF RInv, NoDanglingMap, CreateInstance
  <1>5. Placed'  BY <1>2 DEF RInv, Placed, CreateInstance
  <1>6. Visited'  BY <1>1, <1>2 DEF Visited, InTick
  <1> QED  BY <1>3, <1>4, <1>5, <1>6 DEF RInv

LEMMA BeginUpdateStep ==
  ASSUME IInv, RInv, BeginUpdate
  PROVE  RInv'
  <1> USE MapsAssumption
  <1>1. pc[World] = "serial" /\ ~InTick  BY DEF BeginUpdate, InTick
  <1>2. /\ QueuedIn(queue) = {} /\ Held = {}
        /\ \A t \in Threads : children[t] = {} /\ request[t] = NoMap
    BY <1>1, NothingHeld
  <1>3. /\ pc' = [pc EXCEPT ![World] = "visit"] /\ pc'[World] = "visit"
        /\ UNCHANGED <<maps, children, request, queue, Held>>
        /\ toVisit' = maps \cap BaseMaps
    BY DEF BeginUpdate, updater, Goto, Held, IInv, TypeOK, Threads
  <1>4. QueuedIn(queue)' = {} /\ ToUpdate' = maps \cap BaseMaps
    BY <1>2, <1>3 DEF ToUpdate
  <1>5. Apart'
    BY <1>2, <1>3, <1>4 DEF RInv, Apart, OneRequestPerMap
  <1>6. NoDanglingMap'
    BY <1>2, <1>3, <1>4 DEF RInv, NoDanglingMap
  <1>7. Placed'  BY <1>2, <1>3 DEF RInv, Placed
  <1>8. Visited'
    <2>1. \A m \in maps : Waiting(m)'
      <3> TAKE m \in maps
      <3>1. m \in BaseMaps \/ m \in Instances
        BY DEF IInv, TypeOK, Maps
      <3>2. CASE m \in BaseMaps  BY <1>4, <3>2 DEF Waiting
      <3>3. CASE m \in Instances
        BY <1>4, <3>3 DEF Waiting, RInv, Placed
      <3> QED  BY <3>1, <3>2, <3>3
    <2>2. \A m \in maps' : visits'[m] = 0
      BY <1>3 DEF BeginUpdate, IInv, TypeOK
    <2> QED  BY <1>3, <2>1, <2>2 DEF Visited
  <1> QED  BY <1>5, <1>6, <1>7, <1>8 DEF RInv

LEMMA UnloadMapStep ==
  ASSUME IInv, RInv, NEW m \in BaseMaps, UnloadMap(m)
  PROVE  RInv'
  <1> USE MapsAssumption
  <1>1. pc[World] = "unload" /\ ~InTick  BY DEF UnloadMap, InTick
  <1>2. /\ QueuedIn(queue) = {} /\ Held = {} /\ toVisit = {}
        /\ \A t \in Threads : children[t] = {}
    BY <1>1, NothingHeld
  <1>3. UNCHANGED <<pc, toVisit, children, request, visits, queue, Held, ToUpdate>>
    BY DEF UnloadMap, tickWork, updater, Held, ToUpdate
  <1>4. Apart'  BY <1>3 DEF RInv, Apart, OneRequestPerMap
  <1>5. NoDanglingMap'  BY <1>2, <1>3 DEF NoDanglingMap
  <1>6. Placed'
    BY <1>2, <1>3 DEF RInv, Placed, UnloadMap, InstancesOf
  <1>7. Visited'  BY <1>1, <1>3 DEF Visited, InTick
  <1> QED  BY <1>4, <1>5, <1>6, <1>7 DEF RInv

(***************************************************************************)
(* MapManager::Update's loop takes a base map: to the queue, or into its   *)
(* own hands.                                                              *)
(***************************************************************************)
LEMMA ScheduleBaseMapStep ==
  ASSUME IInv, RInv, NEW m \in BaseMaps, ScheduleBaseMap(m)
  PROVE  RInv'
  <1> USE MapsAssumption
  <1>1. /\ pc[World] = "visit" /\ m \in toVisit /\ toVisit' = toVisit \ {m}
        /\ queue' = Append(queue, m) /\ queue \in Seq(Maps) /\ m \in Maps
        /\ UNCHANGED <<maps, children, request, visits, Held>>
    BY DEF ScheduleBaseMap, schedule_update, IInv, TypeOK, Maps, Held
  <1>2. m \notin QueuedIn(queue) /\ m \notin Held
    BY <1>1 DEF RInv, Apart
  <1>3. QueuedIn(queue)' = QueuedIn(queue) \cup {m} /\ Distinct(queue')
    BY <1>1, <1>2, QueuedAppend DEF RInv, Apart, OneRequestPerMap, Distinct
  <1>4. \A t \in Threads : pc'[t] = pc[t] \/ (pc[t] = "asleep" /\ pc'[t] = "pop")
    BY DEF ScheduleBaseMap, schedule_update, NotifyOne, Goto, IInv, TypeOK, Threads
  <1>5. ToUpdate' = ToUpdate
    BY <1>1, <1>3, <1>4 DEF ToUpdate
  <1>6. pc'[World] = pc[World]
    BY <1>1, <1>4 DEF Threads
  <1>7. Apart'
    <2>1. OneRequestPerMap'
      BY <1>1, <1>2, <1>3 DEF RInv, Apart, OneRequestPerMap, Distinct
    <2>2. (toVisit \cap (QueuedIn(queue) \cup Held) = {})'
      BY <1>1, <1>3 DEF RInv, Apart
    <2>3. \A t \in Threads : /\ children'[t] \subseteq InstancesOf(request'[t])
                             /\ children'[t] \cap (QueuedIn(queue)' \cup Held') = {}
      BY <1>1, <1>3 DEF RInv, Apart, InstancesOf
    <2>4. \A i \in Instances \cap (QueuedIn(queue)' \cup Held') : Parent[i] \notin ToUpdate'
      BY <1>1, <1>3, <1>5 DEF RInv, Apart
    <2> QED  BY <2>1, <2>2, <2>3, <2>4 DEF Apart
  <1>8. NoDanglingMap'  BY <1>1, <1>3 DEF RInv, NoDanglingMap
  <1>9. Placed'
    BY <1>1, <1>4, <1>6 DEF RInv, Placed
  <1>10. Visited'
    <2>1. \A x : Waiting(x)' <=> Waiting(x)
      BY <1>1, <1>5 DEF Waiting
    <2>2. InTick' <=> InTick
      BY <1>6 DEF InTick, ScheduleBaseMap, schedule_update
    <2> QED  BY <1>1, <1>6, <2>1, <2>2 DEF RInv, Visited
  <1> QED  BY <1>7, <1>8, <1>9, <1>10 DEF RInv

LEMMA UpdateBaseMapInlineStep ==
  ASSUME IInv, RInv, NEW m \in BaseMaps, UpdateBaseMapInline(m)
  PROVE  RInv'
  <1> USE MapsAssumption
  <1>1. /\ pc[World] = "visit" /\ m \in toVisit /\ toVisit' = toVisit \ {m}
        /\ UNCHANGED <<maps, children, visits, queue, cancelationToken>>
        /\ pc' = [pc EXCEPT ![World] = "update"] /\ pc'[World] = "update"
        /\ request' = [request EXCEPT ![World] = m] /\ request'[World] = m
        /\ \A t \in Threads \ {World} : pc'[t] = pc[t] /\ request'[t] = request[t]
    BY DEF UpdateBaseMapInline, Goto, IInv, TypeOK, updater, Threads
  <1>2. m \notin QueuedIn(queue) /\ m \notin Held /\ m # NoMap
    BY <1>1 DEF RInv, Apart
  <1>3. request[World] = NoMap /\ children[World] = {}
    BY <1>1 DEF IInv, Requests, RInv, Placed, Threads
  <1>4. Held' = Held \cup {m}
    BY <1>1, <1>2, <1>3 DEF Held, Threads
  <1>5. ToUpdate' = ToUpdate
    BY <1>1, <1>2, <1>3, <1>4 DEF ToUpdate, Held, Threads
  <1>6. Apart'
    <2>1. OneRequestPerMap'
      BY <1>1, <1>2, <1>3, <1>4 DEF RInv, Apart, OneRequestPerMap, Held
    <2>2. (toVisit \cap (QueuedIn(queue) \cup Held) = {})'
      BY <1>1, <1>4 DEF RInv, Apart
    <2>3. \A t \in Threads : /\ children'[t] \subseteq InstancesOf(request'[t])
                             /\ children'[t] \cap (QueuedIn(queue)' \cup Held') = {}
      BY <1>1, <1>3, <1>4 DEF RInv, Apart, InstancesOf
    <2>4. \A i \in Instances \cap (QueuedIn(queue)' \cup Held') : Parent[i] \notin ToUpdate'
      BY <1>1, <1>4, <1>5 DEF RInv, Apart
    <2> QED  BY <2>1, <2>2, <2>3, <2>4 DEF Apart
  <1>7. NoDanglingMap'  BY <1>1, <1>4 DEF RInv, NoDanglingMap
  <1>8. Placed'  BY <1>1, <1>3 DEF RInv, Placed
  <1>9. Visited'
    <2>1. \A x : Waiting(x)' <=> Waiting(x)
      BY <1>1, <1>5 DEF Waiting
    <2>2. InTick' <=> InTick
      BY <1>1 DEF InTick
    <2> QED  BY <1>1, <2>1, <2>2 DEF RInv, Visited
  <1> QED  BY <1>6, <1>7, <1>8, <1>9 DEF RInv

(***************************************************************************)
(* A thread updates its map.  Until now the map's instances have waited    *)
(* for it; now they wait for this thread's loop.                           *)
(***************************************************************************)
LEMMA MapUpdateStep ==
  ASSUME IInv, RInv, NEW t \in Threads, MapUpdate(t)
  PROVE  RInv'
  <1> USE MapsAssumption
  <1>0. PICK r : r = request[t]  OBVIOUS
  <1>1. /\ pc[t] = "update" /\ r = request[t] /\ r # NoMap /\ r \in Held /\ r \in Maps /\ InTick
        /\ UNCHANGED <<maps, toVisit, request, queue, cancelationToken, Held>>
        /\ pc' = [pc EXCEPT ![t] = "instances"] /\ pc'[t] = "instances"
        /\ \A u \in Threads \ {t} : pc'[u] = pc[u] /\ children'[u] = children[u]
        /\ children'[t] = maps \cap InstancesOf(r)
        /\ visits' = [visits EXCEPT ![r] = @ + 1]
    BY <1>0, RequestAtWork DEF MapUpdate, Goto, Visit, updater, Held, IInv, TypeOK
  <1>2. r \in ToUpdate /\ r \in maps /\ r \notin toVisit /\ r \notin QueuedIn(queue)
    BY <1>1 DEF ToUpdate, RInv, NoDanglingMap, Apart, OneRequestPerMap
  <1>3. \A u \in Threads : request[u] = r => u = t
    BY <1>1 DEF RInv, Apart, OneRequestPerMap
  <1>4. ToUpdate' = ToUpdate \ {r}
    BY <1>1, <1>2, <1>3 DEF ToUpdate
  <1>5. children[t] = {}  BY <1>1 DEF RInv, Placed
  <1>6. \A i \in InstancesOf(r) : i \notin QueuedIn(queue) \cup Held
    BY <1>2 DEF RInv, Apart, InstancesOf
  <1>7. Apart'
    <2>1. OneRequestPerMap' /\ (toVisit \cap (QueuedIn(queue) \cup Held) = {})'
      BY <1>1 DEF RInv, Apart, OneRequestPerMap
    <2>2. \A u \in Threads : /\ children'[u] \subseteq InstancesOf(request'[u])
                             /\ children'[u] \cap (QueuedIn(queue)' \cup Held') = {}
      BY <1>1, <1>6 DEF RInv, Apart, InstancesOf
    <2>3. \A i \in Instances \cap (QueuedIn(queue)' \cup Held') : Parent[i] \notin ToUpdate'
      BY <1>1, <1>4 DEF RInv, Apart
    <2> QED  BY <2>1, <2>2, <2>3 DEF Apart
  <1>8. NoDanglingMap'  BY <1>1 DEF RInv, NoDanglingMap
  <1>9. Placed'
    <2>1. toVisit' # {} => pc'[World] \in {"visit", "update", "instances"}
      BY <1>1 DEF RInv, Placed, Threads
    <2> QED  BY <1>1, <2>1 DEF RInv, Placed
  <1>10. ~Waiting(r)'
    <2>1. r \notin ToUpdate'  BY <1>4
    <2>2. \A u \in Threads : r \notin children'[u]
      BY <1>1 DEF RInv, Apart, InstancesOf, Maps
    <2>3. r \in Instances => Parent[r] \notin ToUpdate'
      BY <1>1, <1>4 DEF RInv, Apart
    <2> QED  BY <2>1, <2>2, <2>3 DEF Waiting
  <1>11. \A m \in maps \ {r} : Waiting(m)' <=> Waiting(m)
    BY <1>1, <1>2, <1>4, <1>5 DEF Waiting, InstancesOf
  <1>12. Visited'
    <2>1. visits[r] = 0  BY <1>1, <1>2 DEF RInv, Visited, Waiting
    <2>2. visits'[r] = 1 /\ \A m \in maps \ {r} : visits'[m] = visits[m]
      BY <1>1, <2>1 DEF IInv, TypeOK
    <2> QED  BY <1>1, <1>10, <1>11, <2>2 DEF RInv, Visited
  <1> QED  BY <1>7, <1>8, <1>9, <1>12 DEF RInv

(***************************************************************************)
(* MapInstanced::Update's loop over its instances.  The one at hand is in  *)
(* no other thread's loop, not queued and not held.                        *)
(***************************************************************************)
LEMMA LoopInstance ==
  ASSUME IInv, RInv, NEW t \in Threads, NEW i \in Instances,
         pc[t] = "instances", i \in children[t]
  PROVE  /\ InTick /\ i \in maps /\ i \in Maps /\ i \notin BaseMaps
         /\ request[t] \in Held /\ request[t] \in Maps /\ Parent[i] = request[t]
         /\ i \notin toVisit /\ i \notin QueuedIn(queue) /\ i \notin Held
         /\ \A u \in Threads \ {t} : i \notin children[u] /\ request[u] # request[t]
         /\ i \notin ToUpdate /\ Parent[i] \notin ToUpdate
         /\ visits[i] = 0
  <1> USE MapsAssumption
  <1>1. InTick /\ request[t] \in Held /\ request[t] \in Maps
    BY RequestAtWork
  <1>2. i \in maps /\ i \in Maps /\ i \notin BaseMaps /\ Parent[i] = request[t]
    BY DEF RInv, NoDanglingMap, Apart, InstancesOf, Maps
  <1>3. i \notin toVisit  BY <1>2 DEF IInv, TypeOK
  <1>4. i \notin QueuedIn(queue) /\ i \notin Held  BY DEF RInv, Apart
  <1>5. \A u \in Threads \ {t} : request[u] # request[t]
    BY <1>1, MapsAssumption DEF RInv, Apart, OneRequestPerMap, Maps
  <1>6. \A u \in Threads \ {t} : i \notin children[u]
    BY <1>2, <1>5 DEF RInv, Apart, InstancesOf
  <1>7. i \notin ToUpdate  BY <1>3, <1>4 DEF ToUpdate
  <1>8. Parent[i] \notin ToUpdate
    BY <1>1, <1>2, <1>5 DEF ToUpdate, RInv, Apart, OneRequestPerMap
  <1>9. visits[i] = 0  BY <1>1, <1>2 DEF RInv, Visited, Waiting
  <1> QED  BY <1>1, <1>2, <1>3, <1>4, <1>5, <1>6, <1>7, <1>8, <1>9

\* The instance leaves the loop; if it is destroyed it leaves the maps as well.
LEMMA LoopStep ==
  ASSUME IInv, RInv, NEW t \in Threads, NEW i \in Instances,
         pc[t] = "instances", i \in children[t],
         UNCHANGED <<pc, toVisit, request, queue, cancelationToken>>,
         children' = [children EXCEPT ![t] = @ \ {i}],
         \/ maps' = maps \ {i} /\ visits' = visits
         \/ maps' = maps /\ visits' = [visits EXCEPT ![i] = @ + 1]
  PROVE  RInv'
  <1> USE MapsAssumption
  <1>1. /\ children'[t] = children[t] \ {i}
        /\ \A u \in Threads \ {t} : children'[u] = children[u]
    BY DEF IInv, TypeOK
  <1>2. Held' = Held /\ ToUpdate' = ToUpdate
    BY DEF Held, ToUpdate
  <1>3. Apart'
    <2>1. OneRequestPerMap' /\ (toVisit \cap (QueuedIn(queue) \cup Held) = {})'
      BY <1>2 DEF RInv, Apart, OneRequestPerMap
    <2>2. \A u \in Threads : children'[u] \subseteq children[u]
      BY <1>1
    <2>3. \A u \in Threads : /\ children'[u] \subseteq InstancesOf(request'[u])
                             /\ children'[u] \cap (QueuedIn(queue)' \cup Held') = {}
      BY <1>2, <2>2 DEF RInv, Apart, InstancesOf
    <2>4. \A j \in Instances \cap (QueuedIn(queue)' \cup Held') : Parent[j] \notin ToUpdate'
      BY <1>2 DEF RInv, Apart
    <2> QED  BY <2>1, <2>3, <2>4 DEF Apart
  <1>4. NoDanglingMap'
    BY <1>1, <1>2, LoopInstance DEF RInv, NoDanglingMap
  <1>5. Placed'
    <2>1. \A u \in Threads : children'[u] # {} => pc'[u] = "instances"
      BY <1>1 DEF RInv, Placed
    <2>2. \A j \in maps' \cap Instances : Parent[j] \in maps'
      <3> TAKE j \in maps' \cap Instances
      <3>1. Parent[j] \in maps /\ Parent[j] \in BaseMaps  BY DEF RInv, Placed
      <3> QED  BY <3>1
    <2> QED  BY <2>1, <2>2 DEF RInv, Placed
  <1>6. Visited'
    <2>1. \A m \in maps \ {i} : Waiting(m)' <=> Waiting(m)
      BY <1>1, <1>2 DEF Waiting
    <2>2. ~Waiting(i)'
      BY <1>1, <1>2, LoopInstance DEF Waiting
    <2>3. \A m \in maps \ {i} : visits'[m] = visits[m]
      BY DEF IInv, TypeOK
    <2>4. i \in maps' => visits'[i] = 1
      BY LoopInstance DEF IInv, TypeOK
    <2>5. InTick  BY LoopInstance
    <2> QED  BY <2>1, <2>2, <2>3, <2>4, <2>5 DEF RInv, Visited
  <1> QED  BY <1>3, <1>4, <1>5, <1>6 DEF RInv

LEMMA ScheduleInstanceStep ==
  ASSUME IInv, RInv, NEW t \in Threads, NEW i \in Instances, ScheduleInstance(t, i)
  PROVE  RInv'
  <1> USE MapsAssumption
  <1>1. /\ pc[t] = "instances" /\ i \in children[t]
        /\ children'[t] = children[t] \ {i}
        /\ \A u \in Threads \ {t} : children'[u] = children[u]
        /\ queue' = Append(queue, i) /\ queue \in Seq(Maps) /\ i \in Maps
        /\ UNCHANGED <<maps, toVisit, request, visits, cancelationToken, Held>>
    BY DEF ScheduleInstance, schedule_update, IInv, TypeOK, Maps, Held
  <1>2. \A u \in Threads : pc'[u] = pc[u] \/ (pc[u] = "asleep" /\ pc'[u] = "pop")
    BY DEF ScheduleInstance, schedule_update, NotifyOne, Goto, IInv, TypeOK, Threads
  <1>3. QueuedIn(queue)' = QueuedIn(queue) \cup {i} /\ Distinct(queue')
    BY <1>1, LoopInstance, QueuedAppend DEF RInv, Apart, OneRequestPerMap, Distinct
  <1>4. ToUpdate' = ToUpdate \cup {i}
    BY <1>1, <1>2, <1>3 DEF ToUpdate
  <1>5. pc'[World] \in {"visit", "update", "instances"}
          <=> pc[World] \in {"visit", "update", "instances"}
    BY <1>2 DEF Threads
  <1>6. Apart'
    <2>1. OneRequestPerMap'
      BY <1>1, <1>3, LoopInstance DEF RInv, Apart, OneRequestPerMap, Distinct
    <2>2. (toVisit \cap (QueuedIn(queue) \cup Held) = {})'
      BY <1>1, <1>3, LoopInstance DEF RInv, Apart
    <2>3. \A u \in Threads : /\ children'[u] \subseteq InstancesOf(request'[u])
                             /\ children'[u] \cap (QueuedIn(queue)' \cup Held') = {}
      BY <1>1, <1>3, LoopInstance DEF RInv, Apart, InstancesOf
    <2>4. \A j \in Instances \cap (QueuedIn(queue)' \cup Held') : Parent[j] \notin ToUpdate'
      <3> TAKE j \in Instances \cap (QueuedIn(queue)' \cup Held')
      <3>1. Parent[j] \notin ToUpdate
        BY <1>1, <1>3, LoopInstance DEF RInv, Apart
      <3> QED  BY <1>4, <3>1
    <2> QED  BY <2>1, <2>2, <2>3, <2>4 DEF Apart
  <1>7. NoDanglingMap'
    BY <1>1, <1>3, LoopInstance DEF RInv, NoDanglingMap
  <1>8. Placed'
    BY <1>1, <1>2, <1>5 DEF RInv, Placed
  <1>9. Visited'
    <2>1. \A m \in maps : Waiting(m)' <=> Waiting(m)
      BY <1>1, <1>4 DEF Waiting
    <2>2. InTick  BY <1>1, LoopInstance
    <2> QED  BY <1>1, <2>1, <2>2 DEF RInv, Visited
  <1> QED  BY <1>6, <1>7, <1>8, <1>9 DEF RInv

(***************************************************************************)
(* The call returns: the world thread, or a worker that has counted the    *)
(* request off, lets go of its map.                                        *)
(***************************************************************************)
LEMMA LetGo ==
  ASSUME IInv, RInv, NEW t \in Threads, request[t] # NoMap, children[t] = {},
         pc[t] \notin {"check", "update"}, pc'[t] \notin {"check", "update"},
         UNCHANGED <<maps, toVisit, children, queue, visits>>,
         request' = [request EXCEPT ![t] = NoMap],
         \A u \in Threads \ {t} : pc'[u] = pc[u] \/ (pc[u] = "asleep" /\ pc'[u] = "wait"),
         toVisit # {} => pc'[World] \in {"visit", "update", "instances"},
         InTick, pc'[World] # "delayed"
  PROVE  RInv'
  <1> USE MapsAssumption
  <1>1. request'[t] = NoMap /\ \A u \in Threads \ {t} : request'[u] = request[u]
    BY DEF IInv, TypeOK
  <1>2. Held' = Held \ {request[t]}
    BY <1>1 DEF Held, RInv, Apart, OneRequestPerMap
  <1>3. ToUpdate' = ToUpdate
    BY <1>1, <1>2 DEF ToUpdate, Held
  <1>4. Apart'
    <2>1. OneRequestPerMap' /\ (toVisit \cap (QueuedIn(queue) \cup Held) = {})'
      BY <1>1, <1>2 DEF RInv, Apart, OneRequestPerMap
    <2>2. \A u \in Threads : /\ children'[u] \subseteq InstancesOf(request'[u])
                             /\ children'[u] \cap (QueuedIn(queue)' \cup Held') = {}
      BY <1>1, <1>2 DEF RInv, Apart, InstancesOf
    <2>3. \A i \in Instances \cap (QueuedIn(queue)' \cup Held') : Parent[i] \notin ToUpdate'
      BY <1>2, <1>3 DEF RInv, Apart
    <2> QED  BY <2>1, <2>2, <2>3 DEF Apart
  <1>5. NoDanglingMap'  BY <1>2 DEF RInv, NoDanglingMap
  <1>6. Placed'  BY DEF RInv, Placed
  <1>7. Visited'  BY <1>3 DEF RInv, Visited, Waiting
  <1> QED  BY <1>4, <1>5, <1>6, <1>7 DEF RInv

LEMMA UpdateReturnsStep ==
  ASSUME IInv, RInv, NEW t \in Threads, UpdateReturns(t)
  PROVE  RInv'
  <1>1. /\ pc[t] = "instances" /\ children[t] = {}
        /\ UNCHANGED <<maps, toVisit, children, visits, queue, cancelationToken>>
        /\ \A u \in Threads \ {t} : pc'[u] = pc[u]
        /\ pc'[t] = IF t = World THEN "visit" ELSE "finish"
    BY DEF UpdateReturns, Goto, updater, IInv, TypeOK
  <1>2. InTick /\ request[t] # NoMap
    BY <1>1, RequestAtWork DEF Held
  <1>3. CASE t = World
    BY <1>1, <1>2, <1>3, LetGo DEF UpdateReturns, Threads
  <1>4. CASE t # World
    <2>1. pc'[World] = pc[World] /\ request' = request
      BY <1>1, <1>4 DEF Threads, UpdateReturns
    <2>2. InTick'  BY <1>1, <1>2, <2>1 DEF InTick
    <2>3. toVisit # {} => pc'[World] \in {"visit", "update", "instances"}
      BY <2>1 DEF RInv, Placed
    <2>4. \A u \in Threads : children[u] # {} => pc'[u] = "instances"
      BY <1>1 DEF RInv, Placed
    <2>5. \A u \in Threads :
            pc'[u] \in {"check", "update"} <=> pc[u] \in {"check", "update"}
      BY <1>1, <1>4
    <2> QED  BY <1>1, <1>2, <2>1, <2>3, <2>4, <2>5, Steady
  <1> QED  BY <1>3, <1>4

LEMMA FinishedStep ==
  ASSUME IInv, RInv, NEW w \in Workers, update_finished(w)
  PROVE  RInv'
  <1> USE ThreadsAssumption
  <1>1. /\ pc[w] = "finish" /\ pc'[w] = "pop" /\ w \in Threads /\ w # World
        /\ UNCHANGED <<maps, toVisit, children, visits, queue, cancelationToken>>
        /\ request' = [request EXCEPT ![w] = NoMap]
        /\ \A u \in Threads \ {w} : pc'[u] = pc[u] \/ (pc[u] = "asleep" /\ pc'[u] = "wait")
    BY DEF update_finished, IInv, TypeOK, Threads
  <1>2. InTick /\ request[w] # NoMap
    BY <1>1, RequestAtWork DEF Held
  <1>3. children[w] = {}  BY <1>1 DEF RInv, Placed
  <1>4. pc'[World] = pc[World] \/ (pc[World] = "asleep" /\ pc'[World] = "wait")
    BY <1>1 DEF Threads
  <1>5. pc'[World] # "delayed"  BY <1>2, <1>4 DEF InTick
  <1>6. toVisit # {} => pc'[World] \in {"visit", "update", "instances"}
    BY <1>4 DEF RInv, Placed
  <1> QED  BY <1>1, <1>2, <1>3, <1>5, <1>6, LetGo

(***************************************************************************)
(* The front of the queue moves to a worker's hands.                       *)
(***************************************************************************)
LEMMA PopFrontStep ==
  ASSUME IInv, RInv, NEW w \in Workers, WaitAndPop(w), PopFront(w)
  PROVE  RInv'
  <1> USE ThreadsAssumption, MapsAssumption
  <1>0. PICK h : h = Head(queue)  OBVIOUS
  <1>1. /\ pc[w] = "pop" /\ w \in Threads /\ w # World
        /\ queue \in Seq(Maps) /\ queue # <<>> /\ queue' = Tail(queue)
        /\ UNCHANGED <<maps, toVisit, children, visits, cancelationToken>>
        /\ pc'[w] = "check" /\ \A u \in Threads \ {w} : pc'[u] = pc[u]
        /\ request'[w] = h /\ \A u \in Threads \ {w} : request'[u] = request[u]
    BY <1>0 DEF WaitAndPop, PopFront, Goto, IInv, TypeOK, Threads
  <1>2. request[w] = NoMap  BY <1>1 DEF IInv, Requests
  <1>3. /\ h \in Maps /\ h # NoMap /\ Distinct(queue')
        /\ QueuedIn(queue) = QueuedIn(queue)' \cup {h} /\ h \notin QueuedIn(queue)'
    BY <1>0, <1>1, QueuedPop DEF RInv, Apart, OneRequestPerMap, Distinct, Maps
  <1>4. Held' = Held \cup {h} /\ h \notin Held
    <2>1. h \notin Held  BY <1>3 DEF RInv, Apart, OneRequestPerMap
    <2> QED  BY <1>1, <1>2, <1>3, <2>1 DEF Held
  <1>5. QueuedIn(queue)' \cup Held' = QueuedIn(queue) \cup Held
    BY <1>3, <1>4
  <1>6. ToUpdate' = ToUpdate
    BY <1>1, <1>2, <1>3, <1>4 DEF ToUpdate, Held
  <1>7. children[w] = {}  BY <1>1 DEF RInv, Placed
  <1>8. Apart'
    <2>1. OneRequestPerMap'
      <3>1. \A j, k \in DOMAIN queue' : queue'[j] = queue'[k] => j = k
        BY <1>3 DEF Distinct
      <3>2. \A t, u \in Threads : request'[t] = request'[u] /\ request'[t] # NoMap => t = u
        BY <1>1, <1>4 DEF Held, RInv, Apart, OneRequestPerMap
      <3>3. QueuedIn(queue)' \cap Held' = {}
        BY <1>3, <1>4 DEF RInv, Apart, OneRequestPerMap
      <3> QED  BY <3>1, <3>2, <3>3 DEF OneRequestPerMap
    <2>2. (toVisit \cap (QueuedIn(queue) \cup Held) = {})'
      BY <1>1, <1>5 DEF RInv, Apart
    <2>3. \A u \in Threads : /\ children'[u] \subseteq InstancesOf(request'[u])
                             /\ children'[u] \cap (QueuedIn(queue)' \cup Held') = {}
      BY <1>1, <1>5, <1>7 DEF RInv, Apart, InstancesOf
    <2>4. \A i \in Instances \cap (QueuedIn(queue)' \cup Held') : Parent[i] \notin ToUpdate'
      BY <1>5, <1>6 DEF RInv, Apart
    <2> QED  BY <2>1, <2>2, <2>3, <2>4 DEF Apart
  <1>9. NoDanglingMap'  BY <1>1, <1>5 DEF RInv, NoDanglingMap
  <1>10. pc'[World] = pc[World]  BY <1>1 DEF Threads
  <1>11. Placed'  BY <1>1, <1>7, <1>10 DEF RInv, Placed
  <1>12. Visited'  BY <1>1, <1>6, <1>10 DEF RInv, Visited, Waiting, InTick
  <1> QED  BY <1>8, <1>9, <1>11, <1>12 DEF RInv

(***************************************************************************)
(* The end of the world: nothing is queued when the queue is cancelled.    *)
(***************************************************************************)
LEMMA CancelStep ==
  ASSUME IInv, RInv, Cancel
  PROVE  RInv'
  <1>1. pc[World] = "cancel" /\ ~InTick  BY DEF Cancel, InTick
  <1>2. queue' = queue  BY <1>1 DEF Cancel, IInv, Barrier
  <1>3. /\ UNCHANGED <<maps, toVisit, children, request, visits, cancelationToken>>
        /\ pc'[World] = "join"
        /\ \A t \in Threads : children[t] = {} /\ request[t] = NoMap
        /\ toVisit = {}
    BY <1>1, NothingHeld DEF Cancel, tickWork, Threads
  <1> QED  BY <1>2, <1>3, Steady DEF InTick

(***************************************************************************)
(* The world thread steps on with nothing in its loop; a worker steps on   *)
(* with the request it holds, or without one.                              *)
(***************************************************************************)
LEMMA WorldSteady ==
  ASSUME IInv, RInv, NEW label \in WorldStates, Goto(World, label),
         UNCHANGED <<maps, tickWork, queue>>,
         pc[World] \notin {"update", "instances"},
         label \notin {"update", "instances"}, toVisit = {},
         InTick' \/ label = "delayed" => InTick \/ pc[World] = "delayed"
  PROVE  RInv'
  <1>1. pc'[World] = label /\ \A u \in Threads \ {World} : pc'[u] = pc[u]
    BY DEF Goto, IInv, TypeOK, Threads
  <1>2. request[World] = NoMap  BY DEF IInv, Requests
  <1>3. children[World] = {}  BY DEF RInv, Placed, Threads
  <1>4. \A u \in Threads : children[u] # {} => pc'[u] = "instances"
    BY <1>1, <1>3 DEF RInv, Placed
  <1> QED  BY <1>1, <1>2, <1>4, Steady DEF tickWork

LEMMA WorkerSteady ==
  ASSUME IInv, RInv, NEW w \in Workers, NEW label \in WorkerStates, Goto(w, label),
         UNCHANGED <<maps, toVisit, children, request, visits, queue, cancelationToken>>,
         pc[w] # "instances",
         request[w] # NoMap =>
            (label \in {"check", "update"} <=> pc[w] \in {"check", "update"})
  PROVE  RInv'
  <1> USE ThreadsAssumption
  <1>1. /\ pc'[w] = label /\ pc'[World] = pc[World]
        /\ \A u \in Threads \ {w} : pc'[u] = pc[u]
    BY DEF Goto, IInv, TypeOK, Threads
  <1>2. children[w] = {}  BY DEF RInv, Placed, Threads
  <1>3. \A u \in Threads : children[u] # {} => pc'[u] = "instances"
    BY <1>1, <1>2 DEF RInv, Placed
  <1>4. toVisit # {} => pc'[World] \in {"visit", "update", "instances"}
    BY <1>1 DEF RInv, Placed
  <1> QED  BY <1>1, <1>3, <1>4, Steady DEF InTick

(***************************************************************************)
(* Where the world thread goes when it has no map in hand: it enters the   *)
(* parallel part only through BeginUpdate.                                 *)
(***************************************************************************)
Leads(label) ==
    /\ Goto(World, label)
    /\ label \in {"wait", "asleep", "delayed", "cancel", "serial", "unload",
                  "token", "join", "done"}
    /\ label = "delayed" => pc[World] \in {"visit", "wait"} /\ ~cancelationToken
    /\ label \in {"wait", "asleep"} /\ ~cancelationToken' => pc[World] \in {"visit", "wait"}

LEMMA WorldLeads ==
  ASSUME IInv, EndVisits \/ wait \/ DelayedUpdate \/ BeginUnload \/ EndUnload \/ SetToken \/ Join
  PROVE  \E label \in WorldStates : Leads(label)
  <1> USE DEF WorldStates, Leads
  <1>a. pc[World] = "visit" => ~cancelationToken  BY DEF IInv, Phases
  <1>1. CASE EndVisits  BY <1>a, <1>1 DEF EndVisits
  <1>2. CASE wait
    <2>1. Leads("asleep") \/ Leads("cancel") \/ Leads("delayed")
      BY <1>2 DEF wait
    <2> QED  BY <2>1
  <1>3. CASE DelayedUpdate  BY <1>3 DEF DelayedUpdate
  <1>4. CASE BeginUnload  BY <1>4 DEF BeginUnload
  <1>5. CASE EndUnload  BY <1>5 DEF EndUnload
  <1>6. CASE SetToken  BY <1>6 DEF SetToken
  <1>7. CASE Join  BY <1>7 DEF Join
  <1> QED  BY <1>1, <1>2, <1>3, <1>4, <1>5, <1>6, <1>7

THEOREM StepRInv == IInv /\ RInv /\ [Next]_vars => RInv'
  <1> SUFFICES ASSUME IInv, RInv, [Next]_vars PROVE RInv'  OBVIOUS
  <1> USE ThreadsAssumption DEF WorldStates, WorkerStates
  <1>0. pc[World] \notin {"visit", "update", "instances"} => toVisit = {}
    BY DEF RInv, Placed
  <1>1. ASSUME NEW m \in BaseMaps, CreateBaseMap(m) PROVE RInv'
    BY <1>1, CreateBaseMapStep
  <1>2. ASSUME NEW i \in Instances, CreateInstance(i) PROVE RInv'
    BY <1>2, CreateInstanceStep
  <1>3. CASE BeginUpdate  BY <1>3, BeginUpdateStep
  <1>4. ASSUME NEW m \in BaseMaps, ScheduleBaseMap(m) PROVE RInv'
    BY <1>4, ScheduleBaseMapStep
  <1>5. ASSUME NEW m \in BaseMaps, UpdateBaseMapInline(m) PROVE RInv'
    BY <1>5, UpdateBaseMapInlineStep
  <1>6. ASSUME NEW m \in BaseMaps, UnloadMap(m) PROVE RInv'
    BY <1>6, UnloadMapStep
  <1>7. CASE Cancel  BY <1>7, CancelStep
  <1>8. CASE EndVisits \/ wait \/ DelayedUpdate \/ BeginUnload \/ EndUnload \/ SetToken \/ Join
    <2>1. PICK label \in WorldStates : Leads(label)  BY <1>8, WorldLeads
    <2>2. /\ UNCHANGED <<maps, tickWork, queue>>
          /\ cancelationToken => cancelationToken'
          /\ pc[World] \notin {"update", "instances"} /\ toVisit = {}
      BY <1>0, <1>8 DEF EndVisits, wait, DelayedUpdate, BeginUnload, EndUnload, SetToken,
         Join, updater
    <2>3. pc'[World] = label  BY <2>1 DEF Leads, Goto, IInv, TypeOK, Threads
    <2>4. InTick' \/ label = "delayed" => InTick
      BY <2>1, <2>2, <2>3 DEF Leads, InTick, IInv, TypeOK
    <2> QED  BY <2>1, <2>2, <2>4, WorldSteady DEF Leads
  <1>9. ASSUME NEW t \in Threads, UpdateStep(t) PROVE RInv'
    <2>1. CASE MapUpdate(t)  BY <2>1, MapUpdateStep
    <2>2. ASSUME NEW i \in Instances,
                 DestroyInstance(t, i) \/ KeepInstance(t, i) \/ UpdateInstanceInline(t, i)
          PROVE  RInv'
      BY <2>2, LoopStep
         DEF DestroyInstance, KeepInstance, UpdateInstanceInline, Visit, updater
    <2>3. ASSUME NEW i \in Instances, ScheduleInstance(t, i) PROVE RInv'
      BY <2>3, ScheduleInstanceStep
    <2>4. CASE UpdateReturns(t)  BY <2>4, UpdateReturnsStep
    <2> QED  BY <1>9, <2>1, <2>2, <2>3, <2>4 DEF UpdateStep
  <1>10. ASSUME NEW w \in Workers, WaitAndPop(w) PROVE RInv'
    <2>1. request[w] = NoMap  BY <1>10 DEF IInv, Requests, WaitAndPop
    <2>2. CASE WaitForPush(w)
      BY <1>10, <2>1, <2>2, WorkerSteady DEF WaitAndPop, WaitForPush
    <2>3. CASE PopNothing(w)
      BY <1>10, <2>1, <2>3, WorkerSteady DEF WaitAndPop, PopNothing
    <2>4. CASE PopFront(w)  BY <1>10, <2>4, PopFrontStep
    <2> QED  BY <1>10, <2>2, <2>3, <2>4 DEF WaitAndPop
  <1>11. ASSUME NEW w \in Workers, CheckToken(w) PROVE RInv'
    <2>1. CASE cancelationToken
      <3>1. request[w] = NoMap
        BY <2>1 DEF IInv, Barrier, InTick, Held, Threads
      <3>2. request' = request
        BY <1>11, <2>1, <3>1 DEF CheckToken, IInv, TypeOK
      <3> QED  BY <1>11, <2>1, <3>1, <3>2, WorkerSteady DEF CheckToken, updater
    <2>2. CASE ~cancelationToken
      BY <1>11, <2>2, WorkerSteady DEF CheckToken, updater
    <2> QED  BY <2>1, <2>2
  <1>12. ASSUME NEW w \in Workers, update_finished(w) PROVE RInv'
    BY <1>12, FinishedStep
  <1>13. ASSUME NEW t \in Threads, SpuriousWakeup(t) PROVE RInv'
    <2>1. CASE t = World
      <3>1. pc'[World] = "wait" /\ UNCHANGED cancelationToken
        BY <1>13, <2>1 DEF SpuriousWakeup, Goto, IInv, TypeOK, updater
      <3> QED
        BY <1>0, <1>13, <2>1, <3>1, WorldSteady DEF SpuriousWakeup, InTick, updater
    <2>2. CASE t \in Workers
      BY <1>13, <2>2, WorkerSteady DEF SpuriousWakeup, tickWork, updater, IInv, Requests
    <2> QED  BY <2>1, <2>2 DEF Threads
  <1>14. CASE UNCHANGED vars
    <2>1. \A t \in Threads : children[t] # {} => pc[t] = "instances"
      BY DEF RInv, Placed
    <2> QED  BY <1>0, <1>14, <2>1, Steady DEF vars, InTick
  <1>15. CASE WorldStep
    BY <1>15, <1>4, <1>5, <1>6, <1>7, <1>8, <1>9
       DEF WorldStep, WorldTick, WorldShutdown, Threads
  <1>16. ASSUME NEW w \in Workers, WorkerStep(w) PROVE RInv'
    BY <1>16, <1>9, <1>10, <1>11, <1>12 DEF WorkerStep, Threads
  <1> QED
    BY <1>1, <1>2, <1>3, <1>8, <1>13, <1>14, <1>15, <1>16 DEF Next, Done

(***************************************************************************)
(* For any number of workers, maps and instances: no map is queued twice,  *)
(* held by two threads or both, and none of those maps, nor of those a     *)
(* loop has still to reach, has been destroyed.                            *)
(***************************************************************************)
THEOREM RequestsAreSound == Spec => []RequestsSound
  <1>1. RInv => RequestsSound  BY DEF RInv, Apart, RequestsSound
  <1> QED  BY <1>1, InitIInv, StepIInv, InitRInv, StepRInv, PTL DEF Spec

(***************************************************************************)
(* When DelayedUpdate begins, every map there is has had its turn in this  *)
(* tick exactly once.                                                      *)
(***************************************************************************)
THEOREM MapsUpdatedOnce == Spec => []EveryMapOnce
  <1>1. IInv /\ RInv => EveryMapOnce
    <2> SUFFICES ASSUME IInv, RInv, pc[World] = "delayed", NEW m \in maps
                 PROVE  visits[m] = 1
      BY DEF EveryMapOnce
    <2>1. ToUpdate = {} /\ \A t \in Threads : children[t] = {}
      BY NothingHeld DEF InTick
    <2> QED  BY <2>1 DEF RInv, Visited, Waiting
  <1> QED  BY <1>1, InitIInv, StepIInv, InitRInv, StepRInv, PTL DEF Spec

(***************************************************************************)
(* MapUpdater implements UpdateBarrier: the queue, the counter and the     *)
(* threads together are a fork-join.                                       *)
(***************************************************************************)
USE DEF Barriers!vars

LEMMA InitBarrier == Init => Barriers!Init
  <1> SUFFICES ASSUME Init PROVE Barriers!Init  OBVIOUS
  <1>1. QueuedIn(queue) = {} /\ Held = {}
    BY QueuedNone DEF Init, Held
  <1>2. phase = "serial" /\ outstanding = {}
    BY <1>1, ThreadsAssumption DEF Init, InTick, Threads, phase, outstanding
  <1>3. handled = {}  BY DEF Init, handled
  <1> QED  BY <1>2, <1>3 DEF Barriers!Init

\* A step that neither visits a map nor moves one in or out of the tick.
LEMMA BarrierStutter ==
  ASSUME visits' = visits, outstanding' = outstanding, phase' = phase
  PROVE  UNCHANGED Barriers!vars
  BY DEF handled

LEMMA BarrierFork ==
  ASSUME IInv, RInv, BeginUpdate
  PROVE  Barriers!Next
  <1>1. pc[World] = "serial" /\ ~InTick /\ ~cancelationToken
    BY DEF BeginUpdate, InTick, IInv, Phases
  <1>2. pc'[World] = "visit" /\ UNCHANGED <<request, queue, cancelationToken, Held>>
    BY DEF BeginUpdate, updater, Goto, Held, IInv, TypeOK, Threads
  <1>3. phase = "serial" /\ phase' = "parallel"
    BY <1>1, <1>2 DEF phase, InTick
  <1>4. outstanding' = maps \cap BaseMaps
    BY <1>1, <1>2, NothingHeld DEF outstanding, BeginUpdate
  <1>5. handled' = {}  BY DEF handled, BeginUpdate
  <1>6. outstanding' \in SUBSET Maps  BY <1>4 DEF Maps
  <1>7. Barriers!Fork(outstanding')  BY <1>3, <1>5 DEF Barriers!Fork
  <1> QED  BY <1>6, <1>7 DEF Barriers!Next

LEMMA BarrierAbsorb ==
  ASSUME IInv, RInv, NEW t \in Threads, NEW i \in Instances,
         KeepInstance(t, i) \/ UpdateInstanceInline(t, i)
  PROVE  Barriers!Next
  <1>1. pc[t] = "instances" /\ i \in children[t]
    BY DEF KeepInstance, UpdateInstanceInline
  <1>2. UNCHANGED <<pc, toVisit, request, queue, cancelationToken, Held, InTick>>
    BY DEF KeepInstance, UpdateInstanceInline, updater, Held, InTick
  <1>3. phase = "parallel" /\ UNCHANGED <<phase, outstanding>>
    BY <1>1, <1>2, LoopInstance DEF phase, outstanding
  <1>4. outstanding # {} /\ i \notin outstanding /\ i \notin handled /\ i \in Maps
    BY <1>1, LoopInstance DEF outstanding, handled
  <1>5. visits' = [visits EXCEPT ![i] = 1]
    BY <1>1, LoopInstance DEF KeepInstance, UpdateInstanceInline, Visit, IInv, TypeOK
  <1>6. \A m \in Maps : visits'[m] > 0 <=> m = i \/ visits[m] > 0
    BY <1>5 DEF IInv, TypeOK
  <1>7. handled' = handled \cup {i}
    BY <1>3, <1>4, <1>6 DEF handled
  <1>8. Barriers!Absorb(i)  BY <1>3, <1>4, <1>7 DEF Barriers!Absorb
  <1> QED  BY <1>4, <1>8 DEF Barriers!Next

LEMMA BarrierAdd ==
  ASSUME IInv, RInv, NEW t \in Threads, NEW i \in Instances, ScheduleInstance(t, i)
  PROVE  Barriers!Next
  <1>1. /\ pc[t] = "instances" /\ i \in children[t]
        /\ queue' = Append(queue, i) /\ queue \in Seq(Maps) /\ i \in Maps
        /\ UNCHANGED <<toVisit, request, visits, cancelationToken, Held>>
    BY DEF ScheduleInstance, schedule_update, IInv, TypeOK, Maps, Held
  <1>2. InTick /\ pc'[World] = pc[World]
    <2>1. InTick  BY <1>1, LoopInstance
    <2>2. pc'[World] = pc[World]
      BY ThreadsAssumption
         DEF ScheduleInstance, schedule_update, NotifyOne, Goto, IInv, TypeOK, Threads
    <2> QED  BY <2>1, <2>2
  <1>3. phase = "parallel" /\ phase' = phase
    BY <1>1, <1>2 DEF phase, InTick
  <1>4. outstanding # {} /\ i \notin outstanding /\ i \notin handled
    BY <1>1, LoopInstance DEF outstanding, handled
  <1>5. outstanding' = outstanding \cup {i}
    BY <1>1, QueuedAppend DEF outstanding
  <1>6. handled' = handled
    BY <1>1, <1>5, LoopInstance DEF handled
  <1>7. Barriers!Add(i)  BY <1>3, <1>4, <1>5, <1>6 DEF Barriers!Add
  <1> QED  BY <1>1, <1>7 DEF Barriers!Next

LEMMA BarrierFinish ==
  ASSUME IInv, RInv, NEW t \in Threads, NEW m \in Maps, request[t] = m,
         pc[t] \in {"instances", "finish"}, children[t] = {},
         UNCHANGED <<toVisit, visits, queue, cancelationToken>>,
         request' = [request EXCEPT ![t] = NoMap], InTick'
  PROVE  Barriers!Next
  <1> USE MapsAssumption
  <1>1. request'[t] = NoMap /\ \A u \in Threads \ {t} : request'[u] = request[u]
    BY DEF IInv, TypeOK
  <1>2. m \in Held /\ m # NoMap /\ InTick
    BY RequestAtWork, MapsAssumption DEF Held, Maps
  <1>3. /\ m \in maps /\ m \notin toVisit /\ m \notin QueuedIn(queue)
        /\ \A u \in Threads \ {t} : request[u] # m
    BY <1>2 DEF RInv, NoDanglingMap, Apart, OneRequestPerMap
  <1>4. outstanding' = outstanding \ {m} /\ m \in outstanding
    BY <1>1, <1>2, <1>3 DEF outstanding, Held
  <1>5. ~Waiting(m)
    <2>1. m \notin ToUpdate  BY <1>2, <1>3 DEF ToUpdate
    <2>2. m \in Instances => Parent[m] \notin ToUpdate
      BY <1>2 DEF RInv, Apart
    <2>3. \A u \in Threads : m \notin children[u]
      BY <1>2 DEF RInv, Apart
    <2> QED  BY <2>1, <2>2, <2>3 DEF Waiting
  <1>6. visits[m] = 1  BY <1>2, <1>3, <1>5 DEF RInv, Visited
  <1>7. handled' = handled \cup {m}
    BY <1>4, <1>6 DEF handled
  <1>8. phase = "parallel" /\ phase' = phase
    BY <1>2 DEF phase
  <1>9. Barriers!Finish(m)  BY <1>4, <1>7, <1>8 DEF Barriers!Finish
  <1> QED  BY <1>9 DEF Barriers!Next

\* A step of the world thread with nothing in hand: the join, the stop or neither.
LEMMA BarrierWorld ==
  ASSUME IInv, RInv, RInv', IInv',
         EndVisits \/ wait \/ DelayedUpdate \/ BeginUnload \/ EndUnload \/ SetToken \/ Join
  PROVE  [Barriers!Next]_Barriers!vars
  <1>1. UNCHANGED <<toVisit, request, queue, visits, Held>>
    BY DEF EndVisits, wait, DelayedUpdate, BeginUnload, EndUnload, SetToken, Join,
       updater, tickWork, Held
  <1>2. outstanding' = outstanding /\ handled' = handled
    BY <1>1 DEF outstanding, handled
  <1>3. InTick' => InTick
    BY DEF EndVisits, wait, DelayedUpdate, BeginUnload, EndUnload, SetToken, Join,
       updater, InTick, Goto, IInv, TypeOK, Threads
  <1>4. pc[World] # "done"
    BY DEF EndVisits, wait, DelayedUpdate, BeginUnload, EndUnload, SetToken, Join
  <1>5. CASE InTick /\ ~InTick'
    <2>1. pc'[World] # "done"
      BY <1>5 DEF InTick, EndVisits, wait, DelayedUpdate, BeginUnload, EndUnload, SetToken,
         Join, Goto, IInv, TypeOK, Threads
    <2>2. phase = "parallel" /\ phase' = "serial"  BY <1>5, <2>1 DEF phase
    <2>3. outstanding = {}
      <3>1. queue' = <<>> /\ Held' = {}  BY <1>5 DEF IInv, Barrier
      <3>2. toVisit = {}
        BY DEF RInv, Placed, EndVisits, wait, DelayedUpdate, BeginUnload, EndUnload,
           SetToken, Join
      <3> QED  BY <1>1, <3>1, <3>2, QueuedNone DEF outstanding
    <2>4. Barriers!Join  BY <1>2, <2>2, <2>3 DEF Barriers!Join
    <2> QED  BY <2>4 DEF Barriers!Next
  <1>6. CASE ~InTick /\ pc'[World] = "done"
    <2>1. phase = "serial" /\ phase' = "stopped"
      BY <1>3, <1>4, <1>6 DEF phase
    <2>2. Barriers!Stop  BY <1>2, <2>1 DEF Barriers!Stop
    <2> QED  BY <2>2 DEF Barriers!Next
  <1>7. CASE (InTick /\ InTick') \/ (~InTick /\ pc'[World] # "done")
    <2>1. phase' = phase  BY <1>3, <1>4, <1>7 DEF phase
    <2> QED  BY <1>1, <1>2, <2>1, BarrierStutter
  <1> QED  BY <1>5, <1>6, <1>7, <1>4 DEF InTick

\* A thread steps on, or a map is created, destroyed or visited inside its own turn.
LEMMA BarrierQuiet ==
  ASSUME UNCHANGED <<toVisit, request, queue, visits, cancelationToken>>,
         pc'[World] = pc[World]
  PROVE  UNCHANGED Barriers!vars
  <1>1. outstanding' = outstanding  BY DEF outstanding, Held
  <1>2. phase' = phase  BY DEF phase, InTick
  <1> QED  BY <1>1, <1>2, BarrierStutter

LEMMA StepBarrier ==
  IInv /\ RInv /\ [Next]_vars /\ IInv' /\ RInv' => [Barriers!Next]_Barriers!vars
  <1> SUFFICES ASSUME IInv, RInv, [Next]_vars, IInv', RInv'
               PROVE  [Barriers!Next]_Barriers!vars
    OBVIOUS
  <1> USE ThreadsAssumption, MapsAssumption
  <1>w. ASSUME NEW w \in Workers, NEW label, Goto(w, label) PROVE pc'[World] = pc[World]
    BY <1>w DEF Goto, IInv, TypeOK, Threads
  <1>1. ASSUME NEW m \in Maps, CreateBaseMap(m) \/ CreateInstance(m) \/ UnloadMap(m)
        PROVE  UNCHANGED Barriers!vars
    BY <1>1, BarrierQuiet DEF CreateBaseMap, CreateInstance, UnloadMap, tickWork, updater
  <1>2. CASE BeginUpdate  BY <1>2, BarrierFork
  <1>3. ASSUME NEW m \in BaseMaps, ScheduleBaseMap(m) PROVE UNCHANGED Barriers!vars
    <2>1. /\ m \in toVisit /\ toVisit' = toVisit \ {m} /\ m \in Maps
          /\ queue' = Append(queue, m) /\ queue \in Seq(Maps)
          /\ UNCHANGED <<visits, cancelationToken, Held>>
      BY <1>3 DEF ScheduleBaseMap, schedule_update, IInv, TypeOK, Maps, Held
    <2>2. outstanding' = outstanding  BY <2>1, QueuedAppend DEF outstanding
    <2>3. pc'[World] = pc[World]
      BY <1>3, <1>w DEF ScheduleBaseMap, schedule_update, NotifyOne
    <2>4. phase' = phase  BY <2>1, <2>3 DEF phase, InTick
    <2> QED  BY <2>1, <2>2, <2>4, BarrierStutter
  <1>4. ASSUME NEW m \in BaseMaps, UpdateBaseMapInline(m) PROVE UNCHANGED Barriers!vars
    <2>1. /\ pc[World] = "visit" /\ pc'[World] = "update"
          /\ m \in toVisit /\ toVisit' = toVisit \ {m}
          /\ request' = [request EXCEPT ![World] = m]
          /\ UNCHANGED <<visits, queue, cancelationToken>>
      BY <1>4 DEF UpdateBaseMapInline, Goto, IInv, TypeOK, updater, Threads
    <2>2. request[World] = NoMap  BY <2>1 DEF IInv, Requests
    <2>3. m # NoMap  BY MapsAssumption
    <2>4. request'[World] = m /\ \A u \in Threads \ {World} : request'[u] = request[u]
      BY <2>1 DEF IInv, TypeOK, Threads
    <2>5. Held' = Held \cup {m}  BY <2>2, <2>3, <2>4 DEF Held, Threads
    <2>6. outstanding' = outstanding  BY <2>1, <2>5 DEF outstanding
    <2>7. phase' = phase  BY <2>1 DEF phase, InTick
    <2> QED  BY <2>1, <2>6, <2>7, BarrierStutter
  <1>5. CASE EndVisits \/ wait \/ DelayedUpdate \/ BeginUnload \/ EndUnload \/ SetToken \/ Join
    BY <1>5, BarrierWorld
  <1>6. CASE Cancel
    <2>1. pc[World] = "cancel" /\ pc'[World] = "join" /\ queue = <<>>
      BY <1>6 DEF Cancel, IInv, Barrier, InTick, Threads
    <2>2. UNCHANGED <<toVisit, request, queue, visits, cancelationToken, Held>>
      BY <1>6, <2>1 DEF Cancel, tickWork, Held
    <2>3. outstanding' = outstanding  BY <2>2 DEF outstanding
    <2>4. phase' = phase  BY <2>1, <2>2 DEF phase, InTick
    <2> QED  BY <2>2, <2>3, <2>4, BarrierStutter
  <1>7. ASSUME NEW t \in Threads, MapUpdate(t) PROVE UNCHANGED Barriers!vars
    <2>0. PICK r : r = request[t]  OBVIOUS
    <2>1. /\ r \in Held /\ r \in Maps /\ InTick /\ pc[t] = "update"
          /\ visits' = [visits EXCEPT ![r] = @ + 1]
          /\ UNCHANGED <<toVisit, request, queue, cancelationToken, Held>>
      BY <1>7, <2>0, RequestAtWork DEF MapUpdate, Visit, updater, Held
    <2>2. pc'[World] = pc[World] \/ (pc'[World] = "instances" /\ pc[World] = "update")
      BY <1>7 DEF MapUpdate, Goto, IInv, TypeOK, Threads
    <2>3. outstanding' = outstanding /\ r \in outstanding
      BY <2>1 DEF outstanding
    <2>4. \A m \in Maps \ {r} : visits'[m] = visits[m]
      BY <2>1 DEF IInv, TypeOK
    <2>5. handled' = handled  BY <2>3, <2>4 DEF handled
    <2>6. phase' = phase  BY <2>1, <2>2 DEF phase, InTick
    <2> QED  BY <2>3, <2>5, <2>6
  <1>8. ASSUME NEW t \in Threads, UpdateReturns(t) PROVE [Barriers!Next]_Barriers!vars
    <2>1. CASE t = World
      <3>1. /\ request[World] \in Maps /\ InTick
            /\ pc[World] = "instances" /\ pc'[World] = "visit" /\ children[World] = {}
            /\ UNCHANGED <<toVisit, visits, queue, cancelationToken>>
            /\ request' = [request EXCEPT ![World] = NoMap]
        BY <1>8, <2>1, RequestAtWork DEF UpdateReturns, Goto, updater, IInv, TypeOK, Threads
      <3>2. InTick'  BY <3>1 DEF InTick
      <3> QED  BY <2>1, <3>1, <3>2, BarrierFinish
    <2>2. CASE t \in Workers
      BY <1>8, <1>w, <2>2, BarrierQuiet DEF UpdateReturns, updater
    <2> QED  BY <2>1, <2>2 DEF Threads
  <1>9. ASSUME NEW t \in Threads, UpdateStep(t) PROVE [Barriers!Next]_Barriers!vars
    <2>1. ASSUME NEW i \in Instances, DestroyInstance(t, i) PROVE UNCHANGED Barriers!vars
      BY <2>1, BarrierQuiet DEF DestroyInstance, updater
    <2>2. ASSUME NEW i \in Instances,
                 KeepInstance(t, i) \/ UpdateInstanceInline(t, i) \/ ScheduleInstance(t, i)
          PROVE  Barriers!Next
      BY <2>2, BarrierAbsorb, BarrierAdd
    <2> QED  BY <1>7, <1>8, <1>9, <2>1, <2>2 DEF UpdateStep
  <1>10. ASSUME NEW w \in Workers, WaitAndPop(w) PROVE UNCHANGED Barriers!vars
    <2>1. CASE WaitForPush(w) \/ PopNothing(w)
      BY <1>10, <1>w, <2>1, BarrierQuiet DEF WaitAndPop, WaitForPush, PopNothing
    <2>2. CASE PopFront(w)
      <3>0. PICK h : h = Head(queue)  OBVIOUS
      <3>1. /\ pc[w] = "pop" /\ queue \in Seq(Maps) /\ queue # <<>> /\ queue' = Tail(queue)
            /\ UNCHANGED <<toVisit, visits, cancelationToken>>
            /\ request' = [request EXCEPT ![w] = h] /\ pc'[World] = pc[World]
        BY <1>10, <1>w, <2>2, <3>0 DEF WaitAndPop, PopFront, IInv, TypeOK
      <3>2. request[w] = NoMap  BY <3>1 DEF IInv, Requests
      <3>3. QueuedIn(queue) = QueuedIn(queue)' \cup {h} /\ h \in Maps /\ h # NoMap
        BY <3>0, <3>1, QueuedPop DEF Maps
      <3>4. request'[w] = h /\ \A u \in Threads \ {w} : request'[u] = request[u]
        BY <3>1 DEF IInv, TypeOK, Threads
      <3>5. Held' = Held \cup {h}  BY <3>2, <3>3, <3>4 DEF Held, Threads
      <3>6. outstanding' = outstanding  BY <3>1, <3>3, <3>5 DEF outstanding
      <3>7. phase' = phase  BY <3>1 DEF phase, InTick
      <3> QED  BY <3>1, <3>6, <3>7, BarrierStutter
    <2> QED  BY <1>10, <2>1, <2>2 DEF WaitAndPop
  <1>11. ASSUME NEW w \in Workers, CheckToken(w) PROVE UNCHANGED Barriers!vars
    <2>1. request' = request
      <3>1. CASE cancelationToken
        <4>1. request[w] = NoMap  BY <3>1 DEF IInv, Barrier, InTick, Held, Threads
        <4> QED  BY <1>11, <3>1, <4>1 DEF CheckToken, IInv, TypeOK
      <3>2. CASE ~cancelationToken  BY <1>11, <3>2 DEF CheckToken
      <3> QED  BY <3>1, <3>2
    <2> QED  BY <1>11, <1>w, <2>1, BarrierQuiet DEF CheckToken, updater
  <1>12. ASSUME NEW w \in Workers, update_finished(w) PROVE Barriers!Next
    <2>1. /\ pc[w] = "finish" /\ w \in Threads
          /\ UNCHANGED <<toVisit, visits, queue, cancelationToken>>
          /\ request' = [request EXCEPT ![w] = NoMap]
          /\ pc'[World] = IF pc[World] = "asleep" THEN "wait" ELSE pc[World]
      BY <1>12 DEF update_finished, IInv, TypeOK, Threads
    <2>2. request[w] \in Maps /\ InTick  BY <2>1, RequestAtWork
    <2>3. children[w] = {}  BY <2>1 DEF RInv, Placed
    <2>4. InTick'  BY <2>1, <2>2 DEF InTick
    <2> QED  BY <2>1, <2>2, <2>3, <2>4, BarrierFinish
  <1>13. ASSUME NEW t \in Threads, SpuriousWakeup(t) PROVE UNCHANGED Barriers!vars
    <2>1. pc'[World] = pc[World] \/ (pc[World] = "asleep" /\ pc'[World] = "wait")
      BY <1>13 DEF SpuriousWakeup, Goto, IInv, TypeOK, Threads
    <2>2. UNCHANGED <<visits, cancelationToken, outstanding>>
      BY <1>13 DEF SpuriousWakeup, tickWork, updater, outstanding, Held
    <2>3. phase' = phase  BY <2>1, <2>2 DEF phase, InTick
    <2> QED  BY <2>2, <2>3, BarrierStutter
  <1>14. CASE UNCHANGED vars  BY <1>14, BarrierQuiet DEF vars
  <1>15. CASE WorldStep
    BY <1>15, <1>1, <1>3, <1>4, <1>5, <1>6, <1>9
       DEF WorldStep, WorldTick, WorldShutdown, Threads, Maps
  <1>16. ASSUME NEW w \in Workers, WorkerStep(w) PROVE [Barriers!Next]_Barriers!vars
    BY <1>16, <1>9, <1>10, <1>11, <1>12 DEF WorkerStep, Threads
  <1> QED
    BY <1>1, <1>2, <1>5, <1>13, <1>14, <1>15, <1>16 DEF Next, Done, Maps

(***************************************************************************)
(* The tick of MapManager and its workers is a fork-join over the maps,    *)
(* whatever their number: UpdateBarrier is what World::Update may rely on. *)
(***************************************************************************)
THEOREM ImplementsBarrier == Spec => BarrierSpec
  <1>1. Init => IInv /\ RInv /\ Barriers!Init
    BY InitIInv, InitRInv, InitBarrier
  <1>2. IInv /\ RInv /\ [Next]_vars =>
            IInv' /\ RInv' /\ [Barriers!Next]_Barriers!vars
    BY StepIInv, StepRInv, StepBarrier
  <1> QED  BY <1>1, <1>2, PTL DEF Spec, BarrierSpec, Barriers!Spec
=============================================================================
