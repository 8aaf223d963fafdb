----------------------------- MODULE MapUpdater -----------------------------
(***************************************************************************)
(* One tick of the world's maps: MapManager::Update hands every base map   *)
(* to the worker threads of MapUpdater, an instanced map hands its own     *)
(* instances to them in turn, and the world thread waits until no request  *)
(* is pending.  Shutdown (MapManager::UnloadAll) deletes the maps and then *)
(* stops the workers through the cancelation token and the queue's Cancel. *)
(*                                                                         *)
(* Sources: Maps/MapUpdater.cpp, Maps/MapManager.cpp, Maps/MapInstanced.cpp*)
(* and Threading/ProducerConsumerQueue.h.  The two mutexes (the updater's  *)
(* _lock and the queue's _queueLock) delimit the atomic steps; the two     *)
(* condition variables are the threads whose pc is "asleep".  What a map   *)
(* does to its own objects in Map::Update is abstracted to one visit.      *)
(***************************************************************************)
EXTENDS Naturals, Sequences, FiniteSets

CONSTANTS
    Workers,    \* threads MapUpdater::activate may start
    World,      \* the thread that runs World::Update and the shutdown
    BaseMaps,   \* keys of MapManager::i_maps
    Instances,  \* instance ids, over all MapInstanced
    Parent,     \* the MapInstanced an instance belongs to
    NoMap       \* the null MapUpdateRequest*

ASSUME ThreadsAssumption == IsFiniteSet(Workers) /\ World \notin Workers
ASSUME MapsAssumption ==
    /\ BaseMaps \cap Instances = {}
    /\ NoMap \notin BaseMaps \cup Instances
    /\ Parent \in [Instances -> BaseMaps]

Threads == Workers \cup {World}
Maps == BaseMaps \cup Instances
InstancesOf(m) == {i \in Instances : Parent[i] = m}

VARIABLES
    pc,                \* where each thread is
    maps,              \* the Map objects that exist
    toVisit,           \* base maps MapManager::Update's loop has still to reach
    children,          \* instances each MapInstanced::Update loop has still to reach
    request,           \* the map each thread is updating, or NoMap
    queue,             \* MapUpdater::_queue
    pending,           \* MapUpdater::pending_requests
    cancelationToken,  \* MapUpdater::_cancelationToken
    shutdown,          \* ProducerConsumerQueue::_shutdown
    threads,           \* MapUpdater::_workerThreads; none: updates are inline
    visits             \* history: how often this tick dealt with each map

vars == <<pc, maps, toVisit, children, request, queue, pending,
          cancelationToken, shutdown, threads, visits>>

updater == <<queue, pending, cancelationToken, shutdown, threads>>
tickWork == <<toVisit, children, request, visits>>

WorldStates == {"serial", "visit", "wait", "asleep", "delayed", "update",
                "instances", "unload", "token", "cancel", "join", "done"}
WorkerStates == {"pop", "asleep", "check", "update", "instances", "finish",
                 "exited"}

TypeOK ==
    /\ pc \in [Threads -> WorldStates \cup WorkerStates]
    /\ pc[World] \in WorldStates
    /\ \A w \in Workers : pc[w] \in WorkerStates
    /\ maps \subseteq Maps
    /\ toVisit \subseteq BaseMaps
    /\ children \in [Threads -> SUBSET Instances]
    /\ request \in [Threads -> Maps \cup {NoMap}]
    /\ queue \in Seq(Maps)
    /\ pending \in Nat
    /\ cancelationToken \in BOOLEAN
    /\ shutdown \in BOOLEAN
    /\ threads \subseteq Workers
    /\ visits \in [Maps -> Nat]

activated == threads # {}

Init ==
    /\ threads \in SUBSET Workers
    /\ pc = [t \in Threads |-> IF t = World THEN "serial"
                               ELSE IF t \in threads THEN "pop" ELSE "exited"]
    /\ maps = {}
    /\ toVisit = {}
    /\ children = [t \in Threads |-> {}]
    /\ request = [t \in Threads |-> NoMap]
    /\ queue = <<>>
    /\ pending = 0
    /\ cancelationToken = FALSE
    /\ shutdown = FALSE
    /\ visits = [m \in Maps |-> 0]

Goto(t, label) == pc' = [pc EXCEPT ![t] = label]
Visit(m) == visits' = [visits EXCEPT ![m] = @ + 1]

(***************************************************************************)
(* schedule_update holds _lock over the increment and the Push, whose      *)
(* notify_one wakes one of the workers asleep on the queue, if any.        *)
(***************************************************************************)

NotifyOne ==
    \/ /\ \A w \in Workers : pc[w] # "asleep"
       /\ UNCHANGED pc
    \/ \E w \in Workers : pc[w] = "asleep" /\ Goto(w, "pop")

(***************************************************************************)
(* Mutants: the plausible bug each property of the runs is shown to catch. *)
(* None is part of the specification.                                      *)
(***************************************************************************)

\* MapUpdater::wait that checks _queue.Empty() instead of pending_requests.
wait_on_queue ==
    /\ pc[World] = "wait"
    /\ \/ queue # <<>> /\ Goto(World, "asleep")
       \/ queue = <<>> /\ cancelationToken /\ Goto(World, "cancel")
       \/ queue = <<>> /\ ~cancelationToken /\ Goto(World, "delayed")
    /\ UNCHANGED <<maps, tickWork, updater>>

\* schedule_update without the increment of pending_requests.
schedule_update_uncounted(m) ==
    /\ queue' = Append(queue, m)
    /\ NotifyOne
    /\ UNCHANGED <<pending, cancelationToken, shutdown, threads>>

\* ProducerConsumerQueue::Push without notify_one.
schedule_update_silent(m) ==
    /\ pending' = pending + 1
    /\ queue' = Append(queue, m)
    /\ UNCHANGED <<pc, cancelationToken, shutdown, threads>>

\* WaitAndPop reads the front and forgets to pop it.
WaitAndPop_front(w) ==
    /\ pc[w] = "pop"
    /\ \/ /\ queue = <<>> /\ ~shutdown
          /\ Goto(w, "asleep")
          /\ UNCHANGED request
       \/ /\ queue # <<>> \/ shutdown
          /\ Goto(w, "check")
          /\ request' = IF shutdown THEN request
                        ELSE [request EXCEPT ![w] = Head(queue)]
    /\ UNCHANGED <<maps, toVisit, children, visits, updater>>

\* MapInstanced::Update that schedules an instance and forgets to step on.
ScheduleInstance_stuck(t, i) ==
    /\ pc[t] = "instances"
    /\ i \in children[t]
    /\ activated
    /\ pending' = pending + 1
    /\ queue' = Append(queue, i)
    /\ NotifyOne
    /\ UNCHANGED <<maps, tickWork, cancelationToken, shutdown, threads>>

\* update_finished without notify_all.
update_finished_silent(w) ==
    /\ pc[w] = "finish"
    /\ pending' = pending - 1
    /\ Goto(w, "pop")
    /\ request' = [request EXCEPT ![w] = NoMap]
    /\ UNCHANGED <<maps, toVisit, children, visits, queue,
                   cancelationToken, shutdown, threads>>

\* deactivate that never sets the token before it cancels the queue.
SetToken_late ==
    /\ pc[World] = "token"
    /\ Goto(World, "cancel")
    /\ UNCHANGED <<maps, tickWork, updater>>

\* ProducerConsumerQueue::Cancel without notify_all.
Cancel_silent ==
    /\ pc[World] = "cancel"
    /\ queue' = <<>>
    /\ shutdown' = TRUE
    /\ Goto(World, "join")
    /\ UNCHANGED <<maps, tickWork, pending, cancelationToken, threads>>

schedule_update(m) ==
    /\ pending' = pending + 1
    /\ queue' = Append(queue, m)
    /\ NotifyOne
    /\ UNCHANGED <<cancelationToken, shutdown, threads>>

(***************************************************************************)
(* The world thread outside the map update.                                *)
(***************************************************************************)

\* MapManager::CreateBaseMap, as the world thread calls it.
CreateBaseMap(m) ==
    /\ pc[World] = "serial"
    /\ m \notin maps
    /\ maps' = maps \cup {m}
    /\ UNCHANGED <<pc, tickWork, updater>>

\* MapInstanced::CreateInstanceForPlayer when no map has the id yet: its
\* callers (worldport acknowledgement, login) are handled by the world thread.
CreateInstance(i) ==
    /\ pc[World] = "serial"
    /\ Parent[i] \in maps
    /\ i \notin maps
    /\ maps' = maps \cup {i}
    /\ UNCHANGED <<pc, tickWork, updater>>

\* MapManager::Update, from i_timer.Passed() to the head of its loop.
BeginUpdate ==
    /\ pc[World] = "serial"
    /\ Goto(World, "visit")
    /\ toVisit' = maps \cap BaseMaps
    /\ visits' = [m \in Maps |-> 0]
    /\ UNCHANGED <<maps, children, request, updater>>

ScheduleBaseMap(m) ==
    /\ pc[World] = "visit"
    /\ m \in toVisit
    /\ activated
    /\ schedule_update(m)
    /\ toVisit' = toVisit \ {m}
    /\ UNCHANGED <<maps, children, request, visits>>

UpdateBaseMapInline(m) ==
    /\ pc[World] = "visit"
    /\ m \in toVisit
    /\ ~activated
    /\ Goto(World, "update")
    /\ request' = [request EXCEPT ![World] = m]
    /\ toVisit' = toVisit \ {m}
    /\ UNCHANGED <<maps, children, visits, updater>>

EndVisits ==
    /\ pc[World] = "visit"
    /\ toVisit = {}
    /\ Goto(World, IF activated THEN "wait" ELSE "delayed")
    /\ UNCHANGED <<maps, tickWork, updater>>

\* MapUpdater::wait: called by Update, and by deactivate once the token is set.
wait ==
    /\ pc[World] = "wait"
    /\ \/ pending > 0 /\ Goto(World, "asleep")
       \/ pending = 0 /\ cancelationToken /\ Goto(World, "cancel")
       \/ pending = 0 /\ ~cancelationToken /\ Goto(World, "delayed")
    /\ UNCHANGED <<maps, tickWork, updater>>

\* The second loop of MapManager::Update; nothing else may be running by now.
DelayedUpdate ==
    /\ pc[World] = "delayed"
    /\ Goto(World, "serial")
    /\ UNCHANGED <<maps, tickWork, updater>>

(***************************************************************************)
(* A map's update, on a worker or (inline) on the world thread.            *)
(***************************************************************************)

\* Map::Update, to its end; a MapInstanced then starts on its instances.
MapUpdate(t) ==
    /\ pc[t] = "update"
    /\ request[t] # NoMap
    /\ Visit(request[t])
    /\ children' = [children EXCEPT ![t] = maps \cap InstancesOf(request[t])]
    /\ Goto(t, "instances")
    /\ UNCHANGED <<maps, toVisit, request, updater>>

\* CanUnload and, after RemoveAllPlayers, nobody left in it: the instance goes.
DestroyInstance(t, i) ==
    /\ pc[t] = "instances"
    /\ i \in children[t]
    /\ maps' = maps \ {i}
    /\ children' = [children EXCEPT ![t] = @ \ {i}]
    /\ UNCHANGED <<pc, toVisit, request, visits, updater>>

\* CanUnload, but HavePlayers: left as it is until the next tick.
KeepInstance(t, i) ==
    /\ pc[t] = "instances"
    /\ i \in children[t]
    /\ Visit(i)
    /\ children' = [children EXCEPT ![t] = @ \ {i}]
    /\ UNCHANGED <<pc, maps, toVisit, request, updater>>

ScheduleInstance(t, i) ==
    /\ pc[t] = "instances"
    /\ i \in children[t]
    /\ activated
    /\ schedule_update(i)
    /\ children' = [children EXCEPT ![t] = @ \ {i}]
    /\ UNCHANGED <<maps, toVisit, request, visits>>

UpdateInstanceInline(t, i) ==
    /\ pc[t] = "instances"
    /\ i \in children[t]
    /\ ~activated
    /\ Visit(i)
    /\ children' = [children EXCEPT ![t] = @ \ {i}]
    /\ UNCHANGED <<pc, maps, toVisit, request, updater>>

\* Map::Update and the instance loop return to their caller.
UpdateReturns(t) ==
    /\ pc[t] = "instances"
    /\ children[t] = {}
    /\ Goto(t, IF t = World THEN "visit" ELSE "finish")
    /\ request' = IF t = World THEN [request EXCEPT ![t] = NoMap] ELSE request
    /\ UNCHANGED <<maps, toVisit, children, visits, updater>>

(***************************************************************************)
(* MapUpdater::WorkerThread.                                               *)
(***************************************************************************)

\* One turn of WaitAndPop under _queueLock: sleep, return without a value, or
\* take the front.
WaitForPush(w) ==
    /\ queue = <<>> /\ ~shutdown
    /\ Goto(w, "asleep")
    /\ UNCHANGED <<queue, request>>

PopNothing(w) ==
    /\ shutdown
    /\ Goto(w, "check")
    /\ UNCHANGED <<queue, request>>

PopFront(w) ==
    /\ queue # <<>> /\ ~shutdown
    /\ Goto(w, "check")
    /\ request' = [request EXCEPT ![w] = Head(queue)]
    /\ queue' = Tail(queue)

WaitAndPop(w) ==
    /\ pc[w] = "pop"
    /\ WaitForPush(w) \/ PopNothing(w) \/ PopFront(w)
    /\ UNCHANGED <<maps, toVisit, children, visits, pending,
                   cancelationToken, shutdown, threads>>

CheckToken(w) ==
    /\ pc[w] = "check"
    /\ IF cancelationToken
       THEN /\ Goto(w, "exited")
            /\ request' = [request EXCEPT ![w] = NoMap]
       ELSE /\ Goto(w, "update")
            /\ UNCHANGED request
    /\ UNCHANGED <<maps, toVisit, children, visits, updater>>

\* MapUpdateRequest::call's second half, `delete request` and the loop's
\* `request = nullptr`; notify_all wakes the world thread if it is waiting.
update_finished(w) ==
    /\ pc[w] = "finish"
    /\ pending' = pending - 1
    /\ pc' = [pc EXCEPT ![w] = "pop",
                        ![World] = IF @ = "asleep" THEN "wait" ELSE @]
    /\ request' = [request EXCEPT ![w] = NoMap]
    /\ UNCHANGED <<maps, toVisit, children, visits, queue,
                   cancelationToken, shutdown, threads>>

\* std::condition_variable::wait may return without a notification.
SpuriousWakeup(t) ==
    /\ pc[t] = "asleep"
    /\ Goto(t, IF t = World THEN "wait" ELSE "pop")
    /\ UNCHANGED <<maps, tickWork, updater>>

(***************************************************************************)
(* MapManager::UnloadAll and MapUpdater::deactivate.                       *)
(***************************************************************************)

BeginUnload ==
    /\ pc[World] = "serial"
    /\ Goto(World, "unload")
    /\ UNCHANGED <<maps, tickWork, updater>>

\* Unload and delete one base map, its instances first (MapInstanced::UnloadAll).
UnloadMap(m) ==
    /\ pc[World] = "unload"
    /\ m \in maps \cap BaseMaps
    /\ maps' = maps \ ({m} \cup InstancesOf(m))
    /\ UNCHANGED <<pc, tickWork, updater>>

EndUnload ==
    /\ pc[World] = "unload"
    /\ maps \cap BaseMaps = {}
    /\ Goto(World, IF activated THEN "token" ELSE "done")
    /\ UNCHANGED <<maps, tickWork, updater>>

\* deactivate sets the token before it waits and cancels the queue.
SetToken ==
    /\ pc[World] = "token"
    /\ cancelationToken' = TRUE
    /\ Goto(World, "wait")
    /\ UNCHANGED <<maps, tickWork, queue, pending, shutdown, threads>>

\* ProducerConsumerQueue::Cancel: drop what is queued, wake every worker.
Cancel ==
    /\ pc[World] = "cancel"
    /\ queue' = <<>>
    /\ shutdown' = TRUE
    /\ pc' = [t \in Threads |-> IF t = World THEN "join"
                                ELSE IF pc[t] = "asleep" THEN "pop" ELSE pc[t]]
    /\ UNCHANGED <<maps, tickWork, pending, cancelationToken, threads>>

Join ==
    /\ pc[World] = "join"
    /\ \A w \in Workers : pc[w] = "exited"
    /\ Goto(World, "done")
    /\ UNCHANGED <<maps, tickWork, updater>>

Done ==
    /\ pc[World] = "done"
    /\ UNCHANGED vars

-----------------------------------------------------------------------------
WorldTick ==
    \/ \E m \in BaseMaps : ScheduleBaseMap(m) \/ UpdateBaseMapInline(m)
    \/ EndVisits \/ wait \/ DelayedUpdate

WorldShutdown ==
    \/ \E m \in BaseMaps : UnloadMap(m)
    \/ EndUnload \/ SetToken \/ Cancel \/ Join

UpdateStep(t) ==
    \/ MapUpdate(t)
    \/ \E i \in Instances : \/ DestroyInstance(t, i) \/ KeepInstance(t, i)
                            \/ ScheduleInstance(t, i)
                            \/ UpdateInstanceInline(t, i)
    \/ UpdateReturns(t)

WorkerStep(w) ==
    WaitAndPop(w) \/ CheckToken(w) \/ UpdateStep(w) \/ update_finished(w)

WorldStep == WorldTick \/ WorldShutdown \/ UpdateStep(World)

Next ==
    \/ \E m \in BaseMaps : CreateBaseMap(m)
    \/ \E i \in Instances : CreateInstance(i)
    \/ BeginUpdate \/ BeginUnload
    \/ WorldStep
    \/ \E w \in Workers : WorkerStep(w)
    \/ \E t \in Threads : SpuriousWakeup(t)
    \/ Done

Spec == Init /\ [][Next]_vars

(***************************************************************************)
(* The operating system runs every thread that can run, and a map's update *)
(* ends (the freeze detector aborts the process otherwise).  When the next *)
(* tick or the shutdown begins, and spurious wakeups, are left open.       *)
(***************************************************************************)
Fairness == WF_vars(WorldStep) /\ \A w \in Workers : WF_vars(WorkerStep(w))

FairSpec == Spec /\ Fairness

-----------------------------------------------------------------------------
QueuedIn(s) == {s[k] : k \in DOMAIN s}
Holders == {w \in Workers : request[w] # NoMap}
Held == {request[t] : t \in Threads} \ {NoMap}

\* The world thread is inside the parallel part of MapManager::Update.
InTick == pc[World] \in {"visit", "wait", "asleep", "update", "instances"}
                        /\ ~cancelationToken

(***************************************************************************)
(* wait() is the only barrier between the map threads and the rest of the  *)
(* world: outside the tick no request is queued and no thread updates a    *)
(* map, so sessions, groups and the creation or deletion of maps never run *)
(* beside a map update.                                                    *)
(***************************************************************************)
Barrier == ~InTick => queue = <<>> /\ Held = {} /\ pending = 0

(***************************************************************************)
(* pending_requests counts exactly the requests that are queued or held by *)
(* a worker: neither is a request forgotten (wait() would hang) nor        *)
(* counted twice off (size_t underflow, or wait() returns early).          *)
(***************************************************************************)
PendingExact == pending = Len(queue) + Cardinality(Holders)

(***************************************************************************)
(* No map is updated by two threads at once, and none is queued twice or   *)
(* queued while a thread updates it.                                       *)
(***************************************************************************)
OneRequestPerMap ==
    /\ \A j, k \in DOMAIN queue : queue[j] = queue[k] => j = k
    /\ \A t, u \in Threads :
           request[t] = request[u] /\ request[t] # NoMap => t = u
    /\ QueuedIn(queue) \cap Held = {}

(***************************************************************************)
(* A request holds a Map&: no map is destroyed (by its parent's loop or by *)
(* the shutdown) while a request for it is queued or running, or while a   *)
(* loop still has to reach it.                                             *)
(***************************************************************************)
NoDanglingMap ==
    QueuedIn(queue) \cup Held \cup toVisit
        \cup UNION {children[t] : t \in Threads} \subseteq maps

\* What the workers and the loops that feed them hold is sound: no map twice,
\* and none that is gone.
RequestsSound == OneRequestPerMap /\ NoDanglingMap

(***************************************************************************)
(* The worker loop calls through its request without a null check: the     *)
(* token must be visible before WaitAndPop can return empty-handed.        *)
(***************************************************************************)
NoNullCall == \A t \in Threads : pc[t] = "update" => request[t] # NoMap

(***************************************************************************)
(* When the delayed updates run, this tick has dealt with every existing   *)
(* map exactly once: no base map or instance is skipped or updated twice.  *)
(***************************************************************************)
EveryMapOnce == pc[World] = "delayed" => \A m \in maps : visits[m] = 1

(***************************************************************************)
(* No wakeup is lost: the world thread sleeps only while a request is      *)
(* pending, and a queued request always has a worker awake to take it.     *)
(***************************************************************************)
NoLostWakeup ==
    /\ pc[World] = "asleep" => pending > 0
    /\ queue # <<>> => \E w \in Workers : pc[w] \notin {"asleep", "exited"}

\* Every tick ends: the barrier never waits forever.
TickCompletes == pc[World] = "visit" ~> pc[World] = "serial"

\* A shutdown that has begun ends, with every worker thread joined.
ShutdownCompletes ==
    pc[World] = "unload" ~> /\ pc[World] = "done"
                            /\ \A w \in Workers : pc[w] = "exited"

-----------------------------------------------------------------------------
(***************************************************************************)
(* The inductive invariant behind Barrier, NoNullCall and NoLostWakeup:    *)
(* which thread may be where, and what it holds there.                     *)
(***************************************************************************)
Phases ==
    /\ activated => pc[World] \notin {"update", "instances"}
    /\ ~activated => queue = <<>>
    /\ ~activated => pc[World] \notin {"wait", "asleep", "token", "cancel", "join"}
    /\ cancelationToken =>
           pc[World] \in {"wait", "asleep", "cancel", "join", "done"}
    /\ pc[World] \in {"cancel", "join"} => cancelationToken
    /\ shutdown => cancelationToken

Requests ==
    /\ request[World] # NoMap <=> pc[World] \in {"update", "instances"}
    /\ \A w \in Workers :
        /\ pc[w] \in {"pop", "asleep", "exited"} => request[w] = NoMap
        /\ pc[w] \in {"update", "instances", "finish"} => request[w] # NoMap
        /\ pc[w] = "check" /\ request[w] = NoMap => shutdown
        /\ pc[w] = "exited" => cancelationToken \/ w \notin threads
        /\ w \notin threads => pc[w] = "exited"

IInv == TypeOK /\ PendingExact /\ Barrier /\ Phases /\ Requests /\ NoLostWakeup

(***************************************************************************)
(* The inductive invariant behind RequestsSound, EveryMapOnce and the      *)
(* refinement.  A map whose own update is still to come is in ToUpdate; an *)
(* instance whose parent is there has not been looked at either.           *)
(***************************************************************************)
ToUpdate ==
    toVisit \cup QueuedIn(queue)
        \cup {m \in Held : \E t \in Threads : /\ pc[t] \in {"check", "update"}
                                            /\ request[t] = m}

Apart ==
    /\ OneRequestPerMap
    /\ toVisit \cap (QueuedIn(queue) \cup Held) = {}
    /\ \A t \in Threads :
        /\ children[t] \subseteq InstancesOf(request[t])
        /\ children[t] \cap (QueuedIn(queue) \cup Held) = {}
    /\ \A i \in Instances \cap (QueuedIn(queue) \cup Held) : Parent[i] \notin ToUpdate

Placed ==
    /\ \A t \in Threads : children[t] # {} => pc[t] = "instances"
    /\ toVisit # {} => pc[World] \in {"visit", "update", "instances"}
    /\ \A i \in maps \cap Instances : Parent[i] \in maps

Waiting(m) ==
    \/ m \in ToUpdate
    \/ \E t \in Threads : m \in children[t]
    \/ m \in Instances /\ Parent[m] \in ToUpdate

Visited ==
    InTick \/ pc[World] = "delayed" =>
        \A m \in maps : visits[m] = IF Waiting(m) THEN 0 ELSE 1

RInv == Apart /\ NoDanglingMap /\ Placed /\ Visited

-----------------------------------------------------------------------------
(***************************************************************************)
(* Refinement of UpdateBarrier.                                            *)
(***************************************************************************)
phase == IF InTick THEN "parallel"
         ELSE IF pc[World] = "done" THEN "stopped" ELSE "serial"
outstanding == toVisit \cup QueuedIn(queue) \cup Held
handled == {m \in Maps : visits[m] > 0} \ outstanding

Barriers == INSTANCE UpdateBarrier WITH
                phase <- phase,
                outstanding <- outstanding,
                handled <- handled

BarrierSpec == Barriers!Spec
=============================================================================
