# DestinyCore: TLA+ specifications

DestinyCore is a game server of the TrinityCore family. One process, the
worldserver, runs

* the **world thread**, which calls `World::Update` in a loop: sessions, maps,
  groups, auctions, events and timers, one after the other;
* **map update threads** (`MapUpdate.Threads`, 1 by default), which update maps
  while the world thread waits for them;
* **network threads** (`Network.Threads`, 1 by default), which read packets, do the
  authentication and hand sessions and packets to the world thread;
* **database worker threads**, one or more for each of four connection pools,
  which execute what the other threads post.

Most of the code is sequential rules on one of these threads. What is hard to get
right, and hard to test, is what passes between them: barriers, queues, raw
pointers, retries and shutdown. The specifications start there.

In what follows `Maps/`, `Server/`, `World/` and so on are directories of
`src/src/server/game`; `Database/` is `src/src/server/database/Database`, `Networking/` is
`src/src/server/shared/Networking`.

## Inventory

### Map update threads — `Maps/MapUpdater`, `MapManager`, `MapInstanced`, `Threading/ProducerConsumerQueue.h`

*State*: the base maps (`i_maps`) and the instances of each instanced map; the
queue of update requests, `pending_requests`, the cancellation token, the queue's
shutdown flag. *Operations*: create a base map or an instance, schedule an update,
take and execute a request, finish it, wait, `DelayedUpdate`, destroy an
instance, unload everything, stop the workers. *Interaction*: the world thread
schedules base maps; a worker that updates an instanced map schedules the
instances of that map; the world thread sleeps until `pending_requests` is 0.
*Hard*: a request scheduled while the world thread is about to conclude that none
is left, notifications sent before anybody waits, spurious wakeups, workers
between test and wait at shutdown, instances destroyed in the loop that schedules.
*Correct when*: nothing of the world runs beside a map update, each map is
updated once a tick, a request never names a destroyed map, ticks and shutdown end.

### Instance ids — `Maps/MapManager.cpp:336-400`

*State*: `_nextInstanceId` and a `std::vector<bool>`. *Operations*: load the saved
ids, generate, free. *Interaction*: ids are freed by the world thread (resets) and
by map threads (a battleground map is destroyed). *Hard*: growth of the vector,
unlocked frees on two threads. *Correct when*: no two instances share an id.

### Database worker pool — `Database/`

*State*: an `io_context` with the queue of posted work, connections with their
session on the MySQL server (in a transaction or not, uncommitted statements),
`_queueSize`, the global `_deadlockLock`. *Operations*: post a transaction or a
statement, execute it directly, retry after a deadlock, reopen a lost connection,
ping, close. *Interaction*: any thread posts; `AsyncCommitTransaction` reports back
through a future; the MySQL server answers, deadlocks, refuses or vanishes.
*Hard*: a deadlock in the middle of a transaction, a connection that is lost there,
callers that wait for each other, closing with work in the queue. *Correct when*:
a transaction is applied whole and once or not at all, its caller is told which,
posted work keeps its order, everything ends.

### Sessions — `Server/WorldSession`, `Server/WorldSocket`, `World/World.cpp`, `Handlers/CharacterHandler.cpp`

*State*: sockets (open, closing, closed) with a pointer to their session; the
session with its two sockets, player, loading flag, key, `expireTime`, `forceExit`;
`m_sessions`, `m_QueuedPlayer`, `addSessQueue`, `_linkSocketQueue`. *Operations*:
authenticate, acknowledge encryption, admit or queue, log in (key, instance
connection, query holder, player), retry or abort a login, log out, expire, kick,
delete, shut down. *Interaction*: network threads make sessions and queue them,
packets and instance connections for the world thread; the database answers through
callbacks in `WorldSession::Update`. *Hard*: raw pointers kept in sockets and in the
queue of players, relogin of an account that plays, loads or waits, a connection
that is lost at any point, a login attempt answered after the client gave it up.
*Correct when*: nobody uses a deleted session, the player limit is neither exceeded
nor wasted, the queue is served in order, closed connections and shutdown log
everybody out.

### Networking — `Networking/`, `Server/WorldSocketMgr`, `Server/WorldSocket`, `Threading/MPSCQueue.h`

*State*: per socket the packets other threads append (`_bufferQueue`), the buffers being
written (`_writeQueue`), `_isWritingAsync`, `_closed`, `_closing`; per network thread
`_newSockets`, `_sockets`, `_connections` and the accept socket; per acceptor the thread
it has chosen. *Operations*: accept, hand a connection to a thread, take over new sockets,
update each (flush, write, answer of a query), remove a closed one, handle completed reads
and writes, send, close, close with delay. *Interaction*: acceptors run on the threads of the
common `io_context`, sockets on their network thread, senders on the world and map threads.
*Hard*: an append in two steps, a write that takes part of a buffer, a close that waits for an
empty queue, two acceptors that take the same accept socket, a count kept by two
threads. *Correct when*: the bytes of the packets leave once and in order, a socket is
touched by its own thread only, is counted exactly and leaves when it is closed.

### Instance saves and resets — `Instances/InstanceSaveMgr`, `Maps/MapInstanced`, `Maps/Map.cpp`, `Groups/Group.cpp`, `Entities/Player/Player.cpp`

*State*: the loaded instance maps with their unload timers and players, the saves with the
players and groups bound to each, the queue of resets, the rows of `instance`,
`character_instance` and `group_instance`, the ids in use. *Operations*: enter, leave and
return to an instance, log in (in two steps around the query) and out, join, leave and
lead a party, reset on request or by time, unload a map, restart. *Interaction*: player, group,
map and save manager call each other and keep pointers to each other. *Hard*: a player who is
out of the world but still linked to his map, binds that move between player and group, a
login query that read a bind since reset, a save deleted while somebody points to it. *Correct
when*: both ends of a bind agree, everybody inside is inside the map he was granted, what is
stored awaits a reset, and no stranger enters an instance.

### Other components

| Component | State and operations | Hard behaviour | Correct when | Status |
|---|---|---|---|---|
| Query callbacks (`Database/QueryCallback.cpp`, `AsyncCallbackProcessor.h`) | chains of futures and callbacks, walked once an update | callbacks that add callbacks, abort of a chain | each answer is delivered once, in order, never after its owner's death | planned |
| Event processor (`common/Utilities/EventProcessor.cpp`) | events by time, abort state | events that kill or add events while they run | an event runs or aborts once | planned |
| Maps and grids (`Maps/Map.cpp`, `Grids/`) | players, unload timer; grid states, remove lists | unloading against entering | a map with players stays | partly: players and timers in `InstanceSaves`, life of maps in `MapUpdater` |
| Battleground queue, dungeon finder | groups, invitations, proposals with timeouts | answers that race a timeout | a player is invited once, places are not lost | planned |
| Groups and loot rolls | members, binds; votes | member leaves, last vote against timeout | an item has one winner | partly: the binds of a party of two in `InstanceSaves` |
| Thread utilities (`common/Threading`) | the queues between threads | append in two steps, cancelled waits | nothing is lost or reordered | partly: in `MapUpdater` and `Socket` |
| Trade | two windows, accept flags, state index | change against accept, early returns | both agreed to what is exchanged | planned |
| Auctions, mail, guild bank | bids, money, items, transactions | expiry against buyout, partial saves | money and items are neither lost nor doubled | planned |
| Pools, game events | spawned members, event states | nested pools, timers | the limit of a pool is never exceeded | planned |
| World timers | shutdown timer, freeze detector | cancel, idle mode, clock steps | a shutdown ends when due | planned |
| Spells, entities, AI, quests, achievements | numeric game state | none between threads | game rules | not modelled: sequential, data too large for TLC |
| Handlers, chat, scripts, Lua, content scripts | request checks and callbacks | none of their own | — | not modelled, except the login and reset handlers |
| bnetserver, updater, console, SOAP, logging, tools, protocol, vendored code | I/O and generated code | — | — | not modelled |

`PROJECT.json` lists every component with its reason, and the hazards with their lines.

## Modules

| Module | Models |
|---|---|
| `MapUpdater` | threads, queue, counter and condition variables of a tick; the life of maps; shutdown |
| `UpdateBarrier` | what a tick promises: a fork-join over maps, with no queue and no threads |
| `MapUpdaterProofs` | proofs about `MapUpdater`: counter, barrier, wakeups; what a tick does to each map |
| `InstanceIds` | the id allocator, down to words of `vector<bool>` |
| `InstanceIdsProofs` | proofs about it |
| `MySQLConnection` | one connection and its session on the server: statements, deadlock, refusal, loss, reconnection |
| `DatabaseWorkerPool` | extends it: queue, workers, direct callers, retries, ping, `Close` |
| `DatabasePoolProofs` | proofs about both |
| `WorldSessions` | network thread, world thread and clients around the life of a session |
| `WorldSessionProofs`, `WorldQueueProofs` | proofs about it: sockets and sessions, shutdown; the queue of players |
| `Socket` | one connection: its two queues, its writes and its two ways to close |
| `NetworkThread` | extends it: acceptors, network threads, senders and clients |
| `NetworkThreadProofs`, `SocketStreamProofs` | proofs about them: hand-over of connections; what goes through a socket |
| `InstanceSaves` | maps, saves, binds, rows and resets of normal dungeons |
| `InstanceSavesProofs` | proofs about it |
| `MC...` | the instances TLC checks |

How a module corresponds to the code, definition by definition, is in the `map` of
`PROJECT.json`. In general a variable has the name of the member it stands for; an
action is a function, or the part of it between two points where another thread can
act (a lock taken or released, a statement sent, a queue shared); a thread's place
is in `pc`, `at` or `pc`/`cur`. Operators whose name ends in a suffix such as
`_silent` or `_uncounted` are mutants: plausible bugs that are no part of a
specification, kept to show that the properties notice them.

**MapUpdater.** The two mutexes delimit the steps. A thread asleep on a condition
variable has the place `asleep`; `notify_one` picks one sleeper, `notify_all` all,
and `SpuriousWakeup` wakes anybody. A map's own update is one step, `MapUpdate`.
How many threads were started (`threads`) is chosen at the beginning; with none, maps are
updated inline. Whether an instance may be destroyed
(a timer) is nondeterministic. Maps are created by the world thread between ticks.
`BarrierSpec` is the refinement of `UpdateBarrier`: `phase` follows the world thread's place,
`outstanding` is what a loop has still to reach, what is queued and what a thread holds,
`handled` what has had its turn.

**InstanceIds.** `GenerateInstanceId` is a step of the world thread. A free on a map
thread is split: compare, assign, load the word, store the word. The constants keep
the ratio of the code (steps of 32 in words of 64) at a smaller size.

**MySQLConnection, DatabaseWorkerPool.** A transaction is a sequence of `Size[t]`
statements; the database is the number of times each has become durable
(`applied`). Server steps (a deadlock, a refused statement, a lost connection, a
successful or failed reopening) are actions of their own. `disturbed` records the
tasks whose own connection was lost under them. It is assumed that START
TRANSACTION, COMMIT and ROLLBACK fail only with the connection, and that
`mysql_errno(nullptr)` is 0, as it is in the client library.

**WorldSessions.** A session and its realm socket share a name. The world thread goes
through `UpdateSessions` as the code does: instance sockets, new sessions, then each
session (idle check, packets, database answers, logout, cleanup, removal); steps of
the network thread interleave with all of it. `CloseSocket` is one step of the world
thread (what lies between its two effects touches nothing shared) and two of the network
thread (`Lose`, `Leave`). A closed socket keeps no session pointer, so the rest of a
batch of packets finds none. A network thread that closes a socket whose lock it holds
waits for itself (`stuck`). A client may send a login when it is not allowed to (before its session is
initialized only if it is `Hasty`, a bound: the code asks for no more than that it does not wait in
the queue), vanish
at any time, and give up on a connection attempt that succeeds in the end. Time
(`SocketTimeOutTime`, the 20 s of a logout) is nondeterministic; `expireTime` counts
updates.


**Socket, NetworkThread.** A packet is a name with a size in units, and a buffer a sequence of
units. `Enqueue` is two steps, as in `MPSCQueue`: exchange the head, then link the node;
`Dequeue` stops at a node that is not linked. `FlushBufferQueue` packs packets into
buffers, and one that is larger than the buffer into one of its own. A step of a
network thread is `WorldSocket::Update` up to its flush, the look at the queue, one
`HandleQueue`, or the answer of a query; a handler of a completed read or write runs only
between updates (`net[t].at = "run"`), on the thread that owns the connection. The kernel takes
what its `Room` allows; `MustWait` starts an asynchronous write, which completes when there is
room again or the connection breaks. Reading, headers, compression and encryption are not
modelled, nor is starting and stopping the network. The query of `CheckIp` and of the
authentication may be answered at any time, in any way, or never.

**InstanceSaves.** The handlers of player, group, map and save manager call each other, so what
they share is one record and each call is an operator from record to record; a handler that a
packet, the timer of a map or the reset queue starts is one action of the world thread. A login is two,
since its query is answered later. A far teleport is two as well: out of the world at once, out of the
map with the acknowledgement (`phase = "transit"`). Rows are written in the order of the
statements, so a `Restart` at any moment finds those of the handlers done. It takes time: expired rows
are deleted by the clock at its beginning, and the resets queued that are later than `at`, when
`LoadResetTimes` has read the clock again; in between, that takes the reset time of a row from the last
respawn in its instance (`KeptRow`), if creatures are dead there. `CreatureDies` postpones the reset of a
save likewise, while it is loaded. The saves `LoadGroups` makes cannot be reset (`canReset`), and the bind
row of an instance that has none survives its login, as the null id matches nothing (`Null`). The
history variable `unqueued` holds the rows the last start has kept without queueing their reset, until
that is queued or the row deleted. Modelled are normal dungeons
and a party of two. Raids and heroic dungeons (permanent binds, global resets, warnings), changes
of difficulty, game masters, the player cap and script data are not; nor are map threads that call
the save manager while others do.

## Runs

| Run | Instance | Shows |
|---|---|---|
| `map_updater` | 0 to 2 workers, 2 base maps, 2 instances of one | barrier, life of maps, one turn each, no lost wakeup, ticks and shutdown end, `UpdateBarrier` is implemented |
| `instance_ids` | steps of 4 in words of 8, ids up to 7, one map thread | no id is given out twice |
| `instance_ids_growth` (violation) | ids up to 10 | an id that is a multiple of the step is given out twice |
| `db_pool_async` | 1 or 2 workers and a synchronous connection; transactions of one and two statements posted and called directly, a single statement | all or nothing, true reports, order, queue size, termination |
| `db_connection_lost` (violation) | one of each | a transaction cut in two by a lost connection |
| `session_queue` | 4 connections, 3 accounts, one skips the queue, limit 1 | limit, no empty place, order, no stale pointer in the queue |
| `session_login` | 2 connections of one account, 2 instance connections, 2 attempts | no use after delete, closed sessions leave, shutdown logs everybody out |
| `session_leak` (violation) | 1 connection | a session that is never deleted |
| `session_two_characters` (violation) | 1 connection, 2 instance connections | two players of one session |
| `network_threads` | 2 connections, 2 acceptors, 2 threads, 2 senders, two packets | counts, one thread per socket, the byte stream, closed sockets leave, delayed closes drain, acceptors go on |
| `socket_delayed_close` (violation) | 1 connection | a socket with nothing to write is never closed |
| `instance_saves` | 2 players, 2 dungeons, 2 ids | binds and saves agree, entries are granted, nobody outside a loaded map, stored instances await a reset (but those a start has kept past it), no stranger inside |

**Bounds.** Two workers are the least with which one schedules while the other
finishes; two instances the least with which one is destroyed while the other is
queued. A transaction of two statements is the least that can be cut. The pool
retries at most `Attempts` (5 in the code) or `DirectRetries` (5) times; with 2
there is a first, a middle and a last attempt. `MaxLosses = 1` allows one lost
connection a run, and a ping is posted only when nothing else is queued or unfinished.
Ids in the passing run stay below the first full word, since the code is wrong
beyond it (`instance_ids_growth`); with two map threads instead of one `NextIsLowest` does
not hold either, because `FreeInstanceId` takes no lock (`MapManager.cpp:396-399`).
In `session_queue`, three accounts and a limit of 1
are the least with which two sessions wait; the fourth connection is a relogin.
Nobody logs in there (`MaxKeys` is 0), since admission does not look at players other
than through `loading`, which a refused login sets. In `session_login` two keys and
two instance connections are the least with which a login is retried and both attempts
arrive; the code allows five. Of its clients the second alone logs in before its session is initialized,
the run with both being too long; the theorems hold for any. A client acknowledges encryption once for a
socket, as the protocol has it; the code does not check that. `ExpireTicks = 2` lets a session with a lost socket live through one update.

`MCDatabaseWorkerPool` bounds what is combined: either posted work and pings, on one or two workers,
or direct callers that contend with each other and one posted transaction.
`MCNetworkThread` lets packets flow on one connection at a time, while the acceptors wait;
two connections race through acceptance and registration only. Both bounds leave every step
alone that a fairness condition asks for. A buffer of 2, packets of 1 and 3 and a kernel of 2 units
give a packet that shares a buffer, one that has its own, partial and blocked writes; one failed
socket option is enough to leave a connection behind. In `instance_saves` two ids are enough for a
freed one to be given out again; `Lifetime = 0` and `MaxTime = 1` let a reset fall due once
and rows outlive it, and no respawn is later than that; `MaxChanges = 3` allows three logins, party
changes and restarts in one dungeon, `MaxChangesOfTwo = 2` two once the second dungeon is known
(three and three also passed, in a run too long to keep). Three
are what it takes for a party to meet in an instance (two logins, an invitation), or to log in,
crash and log in again.

**Fairness.** Threads that can run are scheduled (weak fairness of the world thread,
each worker, each connection's server side, and of `Close`). In the pool, the retry loop
has strong fairness of its timeout: its clock advances while it loops, so it cannot fail
forever. A map's update ends, as the freeze detector aborts a process where it does not. In
`NetworkThread` the acceptors, the network threads and the second step of a send are fair; a pending write
that the kernel can take completes in the end (strong fairness, since its handler runs between
updates only); a client need not connect, read or leave, and no query need be answered. In
`WorldSessions` only the world thread is fair: nothing is asked of the clients or of
the network thread, which may even be stuck. When a tick begins, when shutdown comes
and which spurious wakeups happen is never assumed.

Deadlock checking is off where the system stops: after shutdown in `WorldSessions`,
in `InstanceIds` when all ids are in use, in the network runs when every client has gone, and in
`instance_saves` when the budget of changes is spent.

**What is exempt.** `AllOrNothing` and `ReportedOutcome` do not speak of tasks whose own
connection was lost (`disturbed`), for which the code breaks them (`db_connection_lost`).
`NoUseAfterDelete` does not speak of an instance connection whose client has asked for
another one since: `AddInstanceConnection` overwrites the socket without closing it, its
session pointer survives the session, and only a client that goes on sending
there would reach it. `AdmissionLimit` does not count accounts that skip the queue or were
disconnected; with `DisconnectToleranceInterval` set the latter stay exempt for good, as
`HasRecentlyDisconnected` swaps the arguments of `difftime`. `DelayedCloseDrains` speaks of sockets
with something to write (`socket_delayed_close` has the others) and lets one wait whose client does
not read. `StoredAwaitsReset` does not speak of the rows in `unqueued`: kept by the last start, since they were not
expired when it began, but not queued, since they no longer were to come when it read the clock again
(`InstanceSaveMgr.cpp:284`, `:316`, `:381`). Such a row stays without a reset until its last
player leaves or the next start.
`AcceptorResumes` does not speak of an acceptor that meets an accept socket
`WorldSocketMgr::OnSocketOpen` left filled when it could not set an option (`WorldSocketMgr.cpp:124`).

## Findings

Each is a run that ends in the state described; `PROJECT.json` quotes the line it contradicts.

1. `MapManager.cpp:385`: the vector of instance ids does not grow for a multiple of
   32; that id is handed out twice.
2. `MySQLConnection.cpp:269`: a connection lost in a transaction is reopened and only the failed
   statement sent again; the rest commits without its beginning.
3. `WorldSocket.cpp:977`: a connection lost before the encryption acknowledgement leaks its
   session, and the account stays marked online.
4. `CharacterHandler.cpp:873`: a login retried while its first attempt is being accepted
   puts two Player objects into the world.
5. `Socket.h:242`: `DelayedCloseSocket` "marks the socket for closing after write buffer becomes
   empty" (`Socket.h:156`), but one whose buffer is empty already stays open: `HandleQueue` returns
   before it looks at `_closing`. A banned address is refused that way.

### Observed in the code, without a run of its own

* `MapManager.cpp:77`: `CreateBaseMap` finds, then creates and inserts, without a second look
  under `_mapsLock`.
* `DatabaseWorkerPool.cpp:180`: `Close` stops the `io_context` and drops what is queued, also the
  saves `KickAll` has just posted; `:534`: it destroys connections while another worker may walk
  the same vector.
* `World.cpp:599`: the response to a refused instance connection is lost when a write under way
  empties the socket's queue before the next update packs it: the socket is closing, and closes.
* `World.cpp:3414`: the shutdown timer is compared with an unsigned difference of times, so a clock set
  back ends the countdown at once.
* `Map.cpp:3842`: a player is linked to the map (`SetMap`) before `AddPlayerToMap` takes the reset
  of a normal instance off the queue, and `SetResetSchedule` finds him inside: it stays queued, against the
  comments at `Map.cpp:3576`, `Map.cpp:3843` and `InstanceSaveMgr.cpp:118`.
* `Map.cpp:3639`: two players who leave an instance before either teleport is acknowledged leave
  its unload timer off, and the map stays loaded.
* A player who logs in again into an instance whose id has been freed stores a row for an id
  that is not registered; a login query answered after a reset makes a save for a freed id.
* After a due reset with one member inside, the two members of a party can be in two
  instances of one dungeon; the leader keeps a solo bind whose rows the group's reset deleted.
* Each login of a save queues another event for it.
* `InstanceSaveMgr.cpp:284`, `:381`: a row whose reset time is the second of a start, or passes while the
  server starts, is neither deleted nor queued (`unqueued` in `InstanceSaves`).

## Proofs

`MapUpdaterProofs` shows for every number of workers, base maps and instances

* `TypeCorrect`: the type invariant, so `pending_requests` never wraps below zero;
* `BarrierHolds`: outside the parallel part of a tick nothing is queued or being updated;
* `PendingIsExact`: `pending_requests` is what is queued plus what workers hold;
* `WakeupsKept`: nobody sleeps on a condition that holds;
* `NullNeverCalled`: no worker calls through the null request a cancelled queue returns.

These hold for any number of started threads, none included. None is inductive alone. `IInv` adds to them `Phases` (which parts of the world
thread's loop exclude which flags: the token is only set after the barrier, the queue is
only used if there are workers) and `Requests` (at which places a thread holds a map).
The step that needs both is `wait`: it may return when `pending_requests` is 0, and by
`PendingExact` that means that the queue is empty and no worker holds a map.
Assumptions: the set of workers is finite and the world thread is not one of them; base maps,
instances and the null request are different things.

Its second part shows, for the same parameters,

* `RequestsAreSound`: no map is queued or updated twice at once, and none that is queued, being
  updated or still to be reached by a loop has been destroyed;
* `MapsUpdatedOnce`: when `DelayedUpdate` begins, every map has had its turn exactly once;
* `ImplementsBarrier`: `MapUpdater` implements `UpdateBarrier`, step by step.

Its invariant `RInv` follows a map through its turn. In a tick it is in one place (`Placed`,
`Apart`): still to be reached by the world thread's loop or by that of the thread that
updates its parent, in the queue, or held by one thread; and it has been counted once it is in none
(`Visited`). `Waiting` says for each place of a thread which maps its loop has still to reach, all of
which exist. The refinement needs all of it: `outstanding` is empty when the world thread goes on
only because there is no place left where a map could be.

`NetworkThreadProofs` shows, for any number of network threads, acceptors, senders and connections,

* `ConnectionsAreExact`: `_connections` of a thread is the number of sockets registered with it;
* `OneThreadUpdates`: a socket is registered with the thread whose `io_context` runs its handlers.

The invariant `HandOver` follows a connection from the accept socket (`Assigned`) through the
new socket (`Created`) into the list of its thread (`OnItsWay`): it is in one of these places, on
behalf of one acceptor, and its owner is that acceptor's thread. Two acceptors with the
same thread are kept apart by the accept socket, which holds one connection. `AtOwnSocket` says that
what an update still has to look at is on its list; so what it removes was counted. That a
least loaded thread exists (the `CHOOSE` of `SelectThreadWithMinConnections`) is a lemma from the
well-foundedness of the naturals. Assumptions: thread indices are naturals, 0 among them.

`SocketStreamProofs` adds, for any sizes of packets, buffers and the kernel's room and any number of
senders,

* `NetworkTypes`: the type invariant;
* `StreamIsIntact`: what the client has read, what is on the wire and what is queued are
  together what was sent, in order, as long as the connection lasts.

`StreamInv` adds that the wire holds no more than there is room for, that a sender past its
check is at a socket that was authenticated, and that nothing is queued for
a connection before it is greeted (`NotGreeted`, `Untouched`): the greeting goes into the write
queue, in front of what waits in the senders' queue, and would overtake it. Each operation moves units within
`Stream`: the loop of `WorldSocket::Update` from the queue to the buffers (`FlushKeeps`, with
`PackAll` for the packing), `HandleQueue` from the first buffer to the wire (`WriteKeeps`). What a
fold and `FlattenSeq` compute for sequences of any length is shown by induction about a set
of naturals (`AllNaturals`, from well-foundedness): the library's induction theorems are out of reach. With
`HandOver`, `StreamInv` is inductive: the callback that greets a connection runs on one
that is registered, and only there.

`DatabasePoolProofs` shows for every set of connections, tasks, sizes and retry limits

* `Atomicity`: `AllOrNothing`;
* `OutcomeReported`: what the caller is told is what the database holds;
* `ExclusiveUse`: a task runs on one connection at a time, and is queued at most once.

Its `IInv` relates each connection's place to its session on the server (`SessionOK`,
`ProgressOK`: the uncommitted statements are exactly the prefix of the task already
sent, or nothing after a deadlock), assigns each running task to one connection
(`Assigned`, `QueueOK`), and gives the durable statements of a task by its status
(`StatusOK`). The proof treats a connection's step with the lemma `OtherConnection`, that
no other connection's invariant is touched.

Its second part shows, for the same parameters,

* `PoolTypeOK`: the type invariant, with the attempts to reopen a connection that are left;
* `QueueSizeIsExact`: `_queueSize` is what is queued plus what workers execute;
* `TasksFinishInOrder`: with one worker thread, a task that finishes is the oldest that has not.

`PoolInv` adds to `IInv` that a pool that is closed has no thread left, that a lost
connection has attempts left, and `OneThreadOrder`: the tasks that have not finished are the one the
thread executes, if any, and those of the queue, with pings in front of them only. `unfinished` is a
history variable: the posted tasks in their order, each removed when it finishes.

`WorldSessionProofs` shows for every set of clients, accounts and instance connections, any
limit, any clients that do not wait for the initialization and any number of login attempts

* `SessionTypes`: the type invariant;
* `NoDeletedSession`: a socket that still handles packets hands them to a session that exists;
* `EveryPlayerLogsOut`: after `KickAll` and the one `UpdateSessions` that follows, no session has
  a player.

`SessionInv` is the conjunction of what they need. `SessionsKnown`: `m_sessions` and
`addSessQueue` hold acknowledged sessions that exist, and a session outside `m_sessions` has no player,
no login on its way and no instance connection.
`RealmSockets` and `LinksKnown`: a socket that is open points to the session that has it as
`m_Socket`, unless a later key has superseded it. `ThreadAt`: the session the world thread is at is
in `m_sessions`, and not among those still to visit. `KickedLeave` follows shutdown: a session the last update has still to visit
is forced to exit and closed, or has never had a login answered, so that its player leaves with it.
Neither property holds without the others: which sessions exist depends on which the loop visits.

`WorldQueueProofs` adds, for every set of accounts and every `PlayerLimit`,

* `QueueHoldsSessions`: what `m_QueuedPlayer` points to exists, is the current session of
  its account, is there once and marked as queued;
* `NobodyWaitsInVain`: nobody waits while a place is free;
* `LimitIsKept`: no more players than the limit are let in;
* `QueueIsServedInOrder`: who is let in has nobody in front of him, and nobody loses a place.

`QueueInv` says besides that who waits is not being initialised, and that `m_sessions` is
finite, for its size is compared with the limit. The steps are few, but each changes
two cardinalities: a session that leaves frees a place or shortens the queue, and
`RemoveQueuedPlayer` lets one in only if it does. Both rest on `SessionInvariant`.

`InstanceIdsProofs` shows for every size of the vector's words and of the steps in which it grows, and
every set of saved ids,

* `UsedIdsAreMarked` and `NoIdTwice`: an id in use has its bit, and is not the next that
  is handed out, for any number of map threads;
* `LowestIdIsNext`: with one map thread the next id is the lowest that is free.

`AllocatorInv` says of a call of `FreeInstanceId` that is half done what the word it has read may
be: old, but with a bit for every id that is in use, as ids are only generated while no
thread is in a call. So a word that is written back may undo another free, and never a
generated id. `LowestInv` adds, for one thread, that nothing has changed the word since it was read. The
assumptions are named in the theorems: `FirstWord`, no id above the first word of bits is generated (beyond it
the code is wrong: `instance_ids_growth`); and for the
last theorem `OneMapThread`, the default of `MapUpdate.Threads`, without which it is false.
Sizes, least and largest elements are dealt with by lemmas from the well-foundedness of the naturals.

`InstanceSavesProofs` shows for every set of players, every finite set of dungeons, any lifetime of a
save and any bounds on ids, time and changes

* `TypeCorrect`: the type invariant;
* `TwoEndsAgree`: the binds of players and party and the lists of the saves agree;
* `EntryGranted`: whoever is sent to an instance is let in, and bound to it where the code asserts it;
* `NobodyOutOfMaps`: the map a player counts as inside is loaded and stays so;
* `StoredWillReset`: a row nobody is inside of has its reset in the queue, unless the last start has kept
  it without (`unqueued`);
* `NoStrangers`: two players who may stay in an instance are members of the party.

The inductive invariant `SavesInv` is all of these with three additions. `RowsAwaitReset` is stronger than
`StoredAwaitsReset`: the reset of every row outside `unqueued` is queued, with players inside as well. That is what makes
the property inductive (nothing has to be put back when the last player leaves), and holds because the
player who enters is linked to the map first (`Map.cpp:3842`): no entry ever takes a reset off.
`InsideOnline`: who is not online is in
no map, so a login finds him outside, and who may not stay is inside one. `AnswersFinite`: the rows a login
has read are finitely many, so that the loop over them ends.

The handlers work on one record, and so do the lemmas. Each says what an operator does to a record that is
`Good` (typed, the two ends agree, rows are queued, players are housed in loaded maps): that
the result `Follows` (all of that still holds, nobody has moved and no row lost its reset) or
`Resets` (the same without the queue, whose due events are taken off once their rows are deleted), and
which binds have changed. The loops of the code over binds, rows and maps are folds over finite
sets in no given order; `FoldExists` and `FoldStays` show once, by induction on subsets
(`SubsetInduction`, from well-foundedness), that a property of every step is one of the
result. `NoStranger` carries `InstancePrivate` through an entry: who is inside already and may
stay is in the party of whoever enters, or `CheckInstanceValidity` does not let the newcomer stay.

Assumptions: `InstanceSavesAssumption`, the types of the constants and that dungeons are
finitely many and different from what stands for none.

Every safety property the passing runs check is a theorem. Only model-checked is liveness, for fairness and
ENABLED are outside the prover: `TickCompletes`, `ShutdownCompletes`, `TasksFinish`,
`CloseCompletes`, `ClosedSessionLeaves`, `ClosedSocketLeaves`, `DelayedCloseDrains`, `AcceptorResumes`.

## Not modelled

Within the modelled components: unsynchronised creation of base maps on map threads
(`MapManager.cpp:77`); queries with results and prepared statements; the walk over connections
during `Close` with several workers (`DatabaseWorkerPool.cpp:534`); the receive queue of a
session and its requeued packets; bots, which are sessions without sockets; a player limit
changed at run time; the `account.online` column; in the network reading, headers, compression,
encryption, start and stop; in instance saves raids, heroic dungeons, parties of more than two,
changes of difficulty and the calls of map threads.

The rest of the repository is content scripts, generated code, vendored libraries, tools and
sequential game rules over large numeric state: see the components in `PROJECT.json`.

## Plan

Done: `MapUpdater`, `UpdateBarrier`, `InstanceIds`, `MySQLConnection`, `DatabaseWorkerPool`,
`WorldSessions`, `Socket`, `NetworkThread`, `InstanceSaves`.

Next, in this order:

1. `QueryCallbacks`: chains and holders, and their owner's death; composed with `WorldSessions`
   and the pool for the online column.
2. Trade and auctions: protocols of two players with a transaction at the end.
3. `EventProcessor`; abstractly, a set of events each of which ends once.
4. `BattlegroundQueue`, loot rolls: protocols of several players with timeouts.
5. Grid states, pools, the shutdown timer.

Proofs come with each new module; the safety properties of the present ones are proved.
