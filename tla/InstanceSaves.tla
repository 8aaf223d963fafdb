---------------------------- MODULE InstanceSaves ----------------------------
(***************************************************************************)
(* The instances of normal dungeons: their maps, the saves that bind       *)
(* players and groups to them, the rows that keep the saves across a       *)
(* restart and the queue of their resets.                                  *)
(*                                                                         *)
(* A player counts as inside a map (HavePlayers) from SetMap to ResetMap,  *)
(* which is longer than being in its world: a far teleport takes him out   *)
(* of the world at once, but out of the map only when his client has       *)
(* acknowledged the new one ("transit").                                   *)
(*                                                                         *)
(* Handlers call each other through the save manager, the player, the      *)
(* group and the map, so what they share is one record, `mgr`, and a call  *)
(* is an operator from a record to a record.  Every handler is one step    *)
(* of the world thread.  Time is counted in units, and a reset is due once *)
(* its unit is over: what depends on the second within it is left out.     *)
(***************************************************************************)
EXTENDS Naturals, Sequences, FiniteSets, SequencesExt, FiniteSetsExt, Folds

CONSTANTS
    Players,
    Maps,        \* normal dungeons
    Lifetime,    \* units from the creation of a save to that of its reset: 2 h
    MaxId,       \* bound: no instance id above this one is generated
    MaxTime,     \* bound: no event happens after this time
    MaxChanges   \* bound: on logins, parties and restarts together

ASSUME InstanceSavesAssumption ==
    /\ 0 \notin Maps /\ IsFiniteSet(Maps)
    /\ Lifetime \in Nat
    /\ MaxId \in Nat /\ MaxTime \in Nat /\ MaxChanges \in Nat

VARIABLES
    mgr,         \* maps, saves, binds, rows and queue: see Managed
    used,        \* ids that GenerateInstanceId takes for used
    now,
    phase,       \* of each player
    valid,       \* m_InstanceValid
    saved,       \* map and instance_id in the characters row of each player
    answer,      \* the character_instance rows a login query has read
    leader, members,  \* of the one group; members is {} when there is none
    failed,      \* an ASSERT has failed
    unqueued,    \* history: rows the last start has kept without their reset
    changes      \* logins, parties and restarts so far

vars == <<mgr, used, now, phase, valid, saved, answer, leader, members, failed, unqueued, changes>>
player == <<phase, valid, saved, answer>>
group  == <<leader, members>>

Ids     == 1 .. MaxId
Keys    == Maps \X Ids
Outside == <<>>
NoSave  == [map |-> 0, reset |-> 0, players |-> {}, group |-> FALSE, canReset |-> FALSE]
NoRow   == [map |-> 0, reset |-> 0]
Null    == [id |-> 0, map |-> 0, reset |-> 0]
NoOne   == [none |-> TRUE]

Rows   == [map : Maps, reset : Nat] \cup {NoRow}
Saves  == [map : Maps, reset : Nat, players : SUBSET Players, group : BOOLEAN,
           canReset : BOOLEAN] \cup {NoSave}
Events == [at : Nat, map : Maps, id : Ids]
Answers == [id : Ids, map : Maps, reset : Nat] \cup {Null}

\* The timer of a map: not loaded, off (somebody has entered), off but to be
\* short (m_unloadWhenEmpty), running, or due at the next update.
Timers == {"none", "off", "closing", "running", "soon"}

Managed ==
    [ timer : [Keys -> Timers],
      in : [Players -> Keys \cup {Outside}],       \* m_mapRef
      save : [Ids -> Saves],                       \* m_instanceSaveById
      events : Seq(Events),                        \* m_resetTimeQueue
      bind : [Players -> [Maps -> {0} \cup Ids]],  \* Player::m_boundInstances
      groupBind : [Maps -> {0} \cup Ids],          \* Group::m_boundInstances
      stored : [Ids -> Rows],                      \* instance
      row : [Players -> SUBSET Ids],               \* character_instance
      groupRow : SUBSET Ids ]                      \* group_instance

TypeOK ==
    /\ mgr \in Managed
    /\ used \subseteq Ids /\ now \in 0 .. MaxTime
    /\ phase \in [Players -> {"offline", "loading", "world", "transit"}]
    /\ valid \in [Players -> BOOLEAN]
    /\ saved \in [Players -> (Maps \X (0 .. MaxId)) \cup {Outside}]
    /\ answer \in [Players -> SUBSET Answers]
    /\ members \subseteq Players
    /\ IF members = {} THEN leader = NoOne ELSE leader \in members
    /\ failed \in BOOLEAN /\ unqueued \subseteq Ids /\ changes \in 0 .. MaxChanges

Changed == changes < MaxChanges /\ changes' = changes + 1

Nobody == [p \in Players |-> [m \in Maps |-> 0]]

Init ==
    /\ mgr = [ timer |-> [k \in Keys |-> "none"],
               in |-> [p \in Players |-> Outside],
               save |-> [i \in Ids |-> NoSave], events |-> <<>>,
               bind |-> Nobody, groupBind |-> [m \in Maps |-> 0],
               stored |-> [i \in Ids |-> NoRow],
               row |-> [p \in Players |-> {}], groupRow |-> {} ]
    /\ used = {} /\ now = 0
    /\ phase = [p \in Players |-> "offline"]
    /\ valid = [p \in Players |-> TRUE]
    /\ saved = [p \in Players |-> Outside]
    /\ answer = [p \in Players |-> {}]
    /\ leader = NoOne /\ members = {} /\ failed = FALSE /\ unqueued = {} /\ changes = 0

-----------------------------------------------------------------------------
(***************************************************************************)
(* The saves.                                                              *)
(***************************************************************************)
Inside(s, k) == {p \in Players : s.in[p] = k}
HavePlayers(s, k) == Inside(s, k) # {}
Loaded(s, k) == s.timer[k] # "none"
Known(s, i) == s.save[i] # NoSave

\* SaveToDB updates the row of an instance, if there is one; a version that
\* inserts it, then the code's.
ResetTimeStored_inserted(row, at) == [row EXCEPT !.reset = at]

ResetTimeStored(row, at) == IF row = NoRow THEN row ELSE [row EXCEPT !.reset = at]

\* A save that binds nobody is dropped, unless somebody is in its map.
UnloadIfEmpty(s, i) ==
    LET v == s.save[i] IN
    IF \/ ~ Known(s, i)
       \/ v.players # {} \/ v.group
       \/ HavePlayers(s, <<v.map, i>>)
    THEN s
    ELSE [s EXCEPT !.save[i] = NoSave,
                   !.stored[i] = ResetTimeStored(@, v.reset)]

RemovePlayer(s, p, i) ==
    UnloadIfEmpty([s EXCEPT !.save[i].players = @ \ {p}], i)

RemoveGroup(s, i) == UnloadIfEmpty([s EXCEPT !.save[i].group = FALSE], i)

DeleteFromDB(s, i) ==
    [s EXCEPT !.stored[i] = NoRow,
              !.row = [p \in Players |-> @[p] \ {i}],
              !.groupRow = @ \ {i}]

\* The queue is a multimap, ordered by time: where the events from time t on
\* begin.  Events of one time are in the order they came.
From(q, t) == Min({n \in 1 .. Len(q) + 1 : n \in DOMAIN q => q[n].at >= t})

Scheduled(q, e) == InsertAt(q, From(q, e.at + 1), e)

\* operator== of two events compares their ids alone.
Cancelled(q, e) ==
    LET same  == {n \in DOMAIN q : q[n].id = e.id}
        exact == {n \in same : q[n].at = e.at}
    IN  IF same = {} THEN q
        ELSE RemoveAt(q, Min(IF exact = {} THEN same ELSE exact))

\* InstanceMap::SetResetSchedule
SetResetSchedule(s, on, k) ==
    IF HavePlayers(s, k) \/ ~ Known(s, k[2]) THEN s
    ELSE LET e == [at |-> s.save[k[2]].reset, map |-> k[1], id |-> k[2]]
         IN  [s EXCEPT !.events = IF on THEN Scheduled(@, e) ELSE Cancelled(@, e)]

\* A save made for a map that was entered is stored and gets its reset; one
\* made for a row that was read has both.
AddInstanceSave(s, m, i, reset, load) ==
    LET at == IF load THEN reset ELSE now + Lifetime IN
    IF Known(s, i) THEN s
    ELSE [s EXCEPT
           !.save[i] = [map |-> m, reset |-> at, players |-> {}, group |-> FALSE,
                        canReset |-> TRUE],
           !.events = IF load THEN @
                      ELSE Scheduled(@, [at |-> at, map |-> m, id |-> i]),
           !.stored[i] = IF load \/ @ # NoRow THEN @
                         ELSE [map |-> m, reset |-> at]]

-----------------------------------------------------------------------------
(***************************************************************************)
(* Binds of players and of the group.                                      *)
(***************************************************************************)
\* Player::BindToInstance, not permanent.  A bind read from a row writes none.
BindPlayer(s, p, i, load) ==
    LET m   == s.save[i].map
        old == s.bind[p][m]
        rows == IF load \/ old = i THEN s.row[p]
                ELSE IF old = 0 THEN s.row[p] \cup {i}
                ELSE {IF j = old THEN i ELSE j : j \in s.row[p]}
        freed == IF old \in {0, i} THEN s ELSE RemovePlayer(s, p, old)
    IN  [freed EXCEPT !.save[i].players = @ \cup {p},
                      !.bind[p][m] = i, !.row[p] = rows]

\* Group::BindToInstance.  The row of the bind it replaces stays.
BindGroup(s, i, load) ==
    LET m   == s.save[i].map
        old == s.groupBind[m]
        freed == IF old \in {0, i} THEN s ELSE RemoveGroup(s, old)
    IN  [freed EXCEPT !.save[i].group = TRUE,
                      !.groupBind[m] = i,
                      !.groupRow = IF load THEN @ ELSE @ \cup {i}]

\* Player::UnbindInstance, with its row.
UnbindPlayer(s, p, m) ==
    LET i == s.bind[p][m] IN
    IF i = 0 THEN s
    ELSE RemovePlayer([s EXCEPT !.bind[p][m] = 0, !.row[p] = @ \ {i}], p, i)

\* InstanceMap::Reset: with players inside the map unloads after them, unless
\* the reset was asked for ("all"), which then does nothing.
Reset(s, k, method) ==
    IF ~ Loaded(s, k) THEN s
    ELSE IF ~ HavePlayers(s, k) THEN [s EXCEPT !.timer[k] = "soon"]
    ELSE IF method # "all" /\ s.timer[k] = "off"
         THEN [s EXCEPT !.timer[k] = "closing"]
    ELSE s

\* One bind of Player::ResetInstances; method "all" or "join".
ResetBind(s, p, m, method) ==
    LET i == s.bind[p][m]
        k == <<m, i>>
        t == Reset(s, k, method)
    IN  IF ~ s.save[i].canReset THEN s
        ELSE IF HavePlayers(s, k) THEN t
        ELSE RemovePlayer([DeleteFromDB(t, i) EXCEPT !.bind[p][m] = 0], p, i)

ResetPlayer(s, p, method) ==
    FoldSet(LAMBDA m, t : ResetBind(t, p, m, method), s,
            {m \in Maps : s.bind[p][m] # 0})

\* One bind of Group::ResetInstances; method "all" or "disband".  A save that
\* cannot be reset only loses the group, and that when it disbands.
ResetGroupBind(s, m, method) ==
    LET i == s.groupBind[m]
        k == <<m, i>>
        resets == s.save[i].canReset
        t == IF resets THEN Reset(s, k, method) ELSE s
        deletes == resets /\ ~ HavePlayers(s, k)
        stripped == IF deletes THEN DeleteFromDB(t, i)
                    ELSE [t EXCEPT !.groupRow = @ \ {i}]
    IN  IF method = "all" /\ ~ deletes THEN t
        ELSE RemoveGroup([stripped EXCEPT !.groupBind[m] = 0], i)

ResetGroup(s, method) ==
    FoldSet(LAMBDA m, t : ResetGroupBind(t, m, method), s,
            {m \in Maps : s.groupBind[m] # 0})

\* Player::CheckInstanceValidity, of p in the group g: a version that lets solo
\* players share an instance, then the code's.
InstanceValid_shared(s, p, g, val) ==
    LET k == s.in[p] IN
    \/ k = Outside
    \/ /\ p \in g
       /\ s.groupBind[k[1]] = k[2]
       /\ \A q \in Inside(s, k) : val[q] => q \in g
    \/ p \notin g /\ s.bind[p][k[1]] = k[2]

InstanceValid(s, p, g, val) ==
    LET k == s.in[p] IN
    \/ k = Outside
    \/ /\ p \in g
       /\ s.groupBind[k[1]] = k[2]
       /\ \A q \in Inside(s, k) : val[q] => q \in g
    \/ /\ p \notin g
       /\ Inside(s, k) = {p}
       /\ s.bind[p][k[1]] = k[2]

-----------------------------------------------------------------------------
(***************************************************************************)
(* Entering and leaving a map.                                             *)
(***************************************************************************)
\* The instance that CreateInstanceForPlayer takes p to in the dungeon m; 0
\* is none.  A login names the instance of the last logout.
GroupTarget(s, p, m) == IF p \in members THEN s.groupBind[m] ELSE 0
NextInstanceId == Min((1 .. MaxId + 1) \ used)

Fresh(s, p, m, login) ==
    login = 0 /\ GroupTarget(s, p, m) = 0 /\ s.bind[p][m] = 0

Target(s, p, m, login) ==
    IF login # 0 THEN IF Loaded(s, <<m, login>>) THEN login ELSE 0
    ELSE IF GroupTarget(s, p, m) # 0 THEN GroupTarget(s, p, m)
    ELSE IF s.bind[p][m] # 0 THEN s.bind[p][m]
    ELSE NextInstanceId

\* A solo bind gives way to the group's, and the map is loaded: a version that
\* keeps the bind, then the code's.
CreateInstance_bound(s, p, k, login) ==
    IF Loaded(s, k) THEN s ELSE [s EXCEPT !.timer[k] = "running"]

CreateInstance(s, p, k, login) ==
    LET t == IF login = 0 /\ GroupTarget(s, p, k[1]) # 0
             THEN UnbindPlayer(s, p, k[1]) ELSE s
    IN  IF Loaded(t, k) THEN t ELSE [t EXCEPT !.timer[k] = "running"]

\* SetMap
Link(s, p, k) == [s EXCEPT !.in[p] = k]

\* AddPlayerToMap does not return false, and its ASSERT holds.
Admitted(s, p, k) ==
    p \in members => /\ s.bind[p][k[1]] \in {0, k[2]}
                     /\ s.groupBind[k[1]] \in {0, k[2]}
BindAgrees(s, p, k) == p \notin members => s.bind[p][k[1]] \in {0, k[2]}

Saved(s, k) == AddInstanceSave(s, k[1], k[2], 0, FALSE)

\* InstanceMap::AddPlayerToMap, of p who is linked to k.
AddPlayerToMap(s, p, k) ==
    LET t == Saved(s, k)
        bound == IF p \in members
                 THEN IF t.groupBind[k[1]] = 0 THEN BindGroup(t, k[2], FALSE) ELSE t
                 ELSE IF t.bind[p][k[1]] = 0 THEN BindPlayer(t, p, k[2], FALSE) ELSE t
    IN  [SetResetSchedule(bound, FALSE, k) EXCEPT !.timer[k] = "off"]

\* InstanceMap::RemovePlayerFromMap: only a logout deletes the player, and
\* with him his link.
RemovePlayerFromMap(s, p, deleted) ==
    LET k == s.in[p]
        timed == IF Inside(s, k) # {p} THEN s
                 ELSE [s EXCEPT !.timer[k] = CASE @ = "off"     -> "running"
                                               [] @ = "closing" -> "soon"
                                               [] OTHER         -> @]
        left == IF deleted THEN Link(timed, p, Outside) ELSE timed
    IN  UnloadIfEmpty(SetResetSchedule(left, TRUE, k), k[2])

\* TeleportTo out of a dungeon: his client has yet to acknowledge.
TeleportTo(p) ==
    /\ phase[p] = "world" /\ mgr.in[p] # Outside
    /\ mgr' = RemovePlayerFromMap(mgr, p, FALSE)
    /\ phase' = [phase EXCEPT ![p] = "transit"]
    /\ UNCHANGED <<used, now, valid, saved, answer, group, failed, changes>>

\* HandleMoveWorldportAck, of p who is outside or on the way.
Travels(p) == phase[p] = "transit" \/ (phase[p] = "world" /\ mgr.in[p] = Outside)

WorldportOut(p) ==
    /\ phase[p] = "transit"
    /\ mgr' = Link(mgr, p, Outside)
    /\ phase' = [phase EXCEPT ![p] = "world"]
    /\ valid' = [valid EXCEPT ![p] = TRUE]
    /\ UNCHANGED <<used, now, saved, answer, group, failed, changes>>

WorldportInto(p, m) ==
    /\ Travels(p)
    /\ mgr.in[p] # Outside => mgr.in[p][1] # m
    /\ LET k == <<m, Target(mgr, p, m, 0)>>
           made == CreateInstance(mgr, p, k, 0)
       IN  /\ k \in Keys
           /\ used' = IF Fresh(mgr, p, m, 0) THEN used \cup {k[2]} ELSE used
           /\ failed' = (failed \/ ~ Admitted(made, p, k) \/ ~ BindAgrees(made, p, k))
           /\ mgr' = AddPlayerToMap(Link(made, p, k), p, k)
    /\ phase' = [phase EXCEPT ![p] = "world"]
    /\ valid' = [valid EXCEPT ![p] = @ /\ InstanceValid(mgr', p, members, valid)]
    /\ UNCHANGED <<now, saved, answer, group, changes>>

-----------------------------------------------------------------------------
(***************************************************************************)
(* The group: two players in a party.                                      *)
(***************************************************************************)
\* The leader's binds become the group's, and a new group takes over the
\* instance its leader stands in when nobody is bound to it.
ConvertLeaderInstancesToGroup(s, p, switch) ==
    LET binds == {m \in Maps : s.bind[p][m] # 0}
        kept(m, t) == IF switch /\ t.groupBind[m] # 0 THEN t
                      ELSE BindGroup(t, t.bind[p][m], FALSE)
        each(m, t) == IF switch THEN UnbindPlayer(kept(m, t), p, m) ELSE kept(m, t)
        copied == FoldSet(each, s, binds)
        here == s.in[p]
        unbound == /\ ~ switch /\ here # Outside
                   /\ Known(copied, here[2])
                   /\ copied.save[here[2]].players = {}
                   /\ ~ copied.save[here[2]].group
    IN  IF unbound THEN BindGroup(copied, here[2], FALSE) ELSE copied

Connected(p) == phase[p] \in {"world", "transit"}

\* HandlePartyInviteResponse: Create, AddMember of the leader and of q.
AcceptInvite(p, q) ==
    /\ members = {} /\ p # q
    /\ Changed
    /\ Connected(p) /\ phase[q] = "world"
    /\ LET made == ConvertLeaderInstancesToGroup(mgr, p, FALSE)
           v1 == [valid EXCEPT ![p] = InstanceValid(made, p, {p}, valid)]
       IN  /\ valid' = [v1 EXCEPT ![q] = InstanceValid(made, q, {p, q}, v1)]
           /\ mgr' = ResetPlayer(made, q, "join")
    /\ leader' = p /\ members' = {p, q}
    /\ UNCHANGED <<used, now, phase, saved, answer, failed>>

\* Group::Disband, which is also how a member leaves a group of two.
Disbanded(s) == ResetGroup(s, "disband")
Homebound == [p \in Players |->
                valid[p] /\ ~ (p \in members /\ Connected(p) /\ mgr.in[p] # Outside)]

Disband ==
    /\ members # {}
    /\ \E p \in members : phase[p] = "world"
    /\ mgr' = Disbanded(mgr)
    /\ valid' = Homebound
    /\ leader' = NoOne /\ members' = {}
    /\ UNCHANGED <<used, now, phase, saved, answer, failed, changes>>

ChangeLeader(p) ==
    /\ p \in members \ {leader}
    /\ Connected(p) /\ phase[leader] = "world"
    /\ mgr' = ConvertLeaderInstancesToGroup(mgr, p, TRUE)
    /\ leader' = p
    /\ UNCHANGED <<used, now, player, members, failed, changes>>

\* HandleResetInstancesOpcode
ResetInstances(p) ==
    /\ phase[p] = "world"
    /\ \/ p \notin members /\ mgr' = ResetPlayer(mgr, p, "all")
       \/ p = leader /\ mgr' = ResetGroup(mgr, "all")
    /\ UNCHANGED <<used, now, player, group, failed, changes>>

-----------------------------------------------------------------------------
(***************************************************************************)
(* Logout and login.                                                       *)
(***************************************************************************)
\* CleanupsBeforeDelete: the binds go with the player, their rows stay.
Forget(s, p) ==
    FoldSet(LAMBDA m, t : RemovePlayer([t EXCEPT !.bind[p][m] = 0], p, s.bind[p][m]),
            s, {m \in Maps : s.bind[p][m] # 0})

\* LogoutPlayer.  A player who is not allowed where he is goes home first; one
\* whose connection is alive leaves his party after he has been saved.
Logout(p, quits) ==
    /\ phase[p] = "world"
    /\ quits => p \in members
    /\ LET home == IF valid[p] THEN mgr
                   ELSE Link(RemovePlayerFromMap(mgr, p, FALSE), p, Outside)
           alone == Forget(IF quits THEN Disbanded(home) ELSE home, p)
       IN  /\ mgr' = IF home.in[p] = Outside THEN alone
                     ELSE RemovePlayerFromMap(alone, p, TRUE)
           /\ saved' = [saved EXCEPT ![p] = home.in[p]]
    /\ phase' = [phase EXCEPT ![p] = "offline"]
    /\ valid' = [(IF quits THEN Homebound ELSE valid) EXCEPT ![p] = TRUE]
    /\ IF quits THEN leader' = NoOne /\ members' = {} ELSE UNCHANGED group
    /\ UNCHANGED <<used, now, answer, failed, changes>>

\* The login query joins character_instance with instance, whose columns are
\* null for a row of no instance.
LoginQuery(p) ==
    /\ phase[p] = "offline"
    /\ Changed
    /\ phase' = [phase EXCEPT ![p] = "loading"]
    /\ answer' = [answer EXCEPT ![p] =
         {IF mgr.stored[i] = NoRow THEN Null
          ELSE [id |-> i, map |-> mgr.stored[i].map, reset |-> mgr.stored[i].reset]
            : i \in mgr.row[p]}]
    /\ UNCHANGED <<mgr, used, now, valid, saved, group, failed>>

\* _LoadBoundInstances: the row of a player in a group is deleted, and so would
\* be one of no instance, but for its id, which is null; the others bind him to
\* the save of that id.
LoadBind(s, p, r) ==
    IF r = Null \/ p \in members THEN [s EXCEPT !.row[p] = @ \ {r.id}]
    ELSE BindPlayer(AddInstanceSave(s, r.map, r.id, r.reset, TRUE), p, r.id, TRUE)

\* In the order of their ids: the last row is handled on top of the others.
LastRow(rows) == CHOOSE r \in rows : \A q \in rows : q.id <= r.id

LoadBoundInstances(s, p) ==
    MapThenFoldSet(LAMBDA r, t : LoadBind(t, p, r), s, LAMBDA r : r, LastRow, answer[p])

\* Player::GetInstanceSave
SaveFor(s, p, m) == IF GroupTarget(s, p, m) # 0 THEN GroupTarget(s, p, m)
                    ELSE s.bind[p][m]

\* The instance of the last logout, unless he is bound to another one.
LoginInstanceId(s, p) ==
    IF SaveFor(s, p, saved[p][1]) \in {0, saved[p][2]} THEN saved[p][2] ELSE 0

\* Where LoadFromDB puts him: outside, when that instance is not loaded.
LoginKey(s, p) ==
    IF saved[p] = Outside THEN Outside
    ELSE LET i == Target(s, p, saved[p][1], LoginInstanceId(s, p))
         IN  IF i = 0 THEN Outside ELSE <<saved[p][1], i>>

\* The rest of HandlePlayerLogin.
LoginLoad(p) ==
    /\ phase[p] = "loading"
    /\ LET s == LoadBoundInstances(mgr, p)
           k == LoginKey(s, p)
           login == LoginInstanceId(s, p)
           made == CreateInstance(s, p, k, login)
           linked == Link(made, p, k)
       IN  \/ /\ k = Outside
              /\ mgr' = s
              /\ phase' = [phase EXCEPT ![p] = "world"]
              /\ UNCHANGED <<used, valid, failed>>
           \/ /\ k \in Keys
              /\ used' = IF Fresh(s, p, k[1], login) THEN used \cup {k[2]} ELSE used
              /\ failed' = (failed \/ ~ BindAgrees(made, p, k))
              /\ valid' = [valid EXCEPT ![p] = InstanceValid(linked, p, members, valid)]
              /\ IF Admitted(made, p, k)
                 THEN /\ mgr' = AddPlayerToMap(linked, p, k)
                      /\ phase' = [phase EXCEPT ![p] = "world"]
                 ELSE /\ mgr' = Saved(linked, k)
                      /\ phase' = [phase EXCEPT ![p] = "transit"]
    /\ answer' = [answer EXCEPT ![p] = {}]
    /\ UNCHANGED <<now, saved, group, changes>>

-----------------------------------------------------------------------------
(***************************************************************************)
(* The world: map updates, resets, time, restarts.                         *)
(***************************************************************************)
\* MapInstanced::Update finds the timer of k passed: a version that does not
\* look for players, then the code's.
DestroyInstance_unchecked(k) ==
    /\ mgr.timer[k] \in {"running", "soon"}
    /\ mgr' = [mgr EXCEPT !.timer[k] = "none"]
    /\ UNCHANGED <<used, now, player, group, failed, changes>>

DestroyInstance(k) ==
    /\ mgr.timer[k] \in {"running", "soon"}
    /\ ~ HavePlayers(mgr, k)
    /\ mgr' = [mgr EXCEPT !.timer[k] = "none"]
    /\ UNCHANGED <<used, now, player, group, failed, changes>>

\* _ResetSave: everybody is unbound, wherever he is.  A version that forgets the
\* group, then the code's.
ResetSave_players(s, i) ==
    LET v == s.save[i] IN
    [s EXCEPT !.save[i] = NoSave,
       !.bind = [p \in Players |->
                   IF p \in v.players THEN [@[p] EXCEPT ![v.map] = 0] ELSE @[p]]]

ResetSave(s, i) ==
    LET v == s.save[i] IN
    IF v = NoSave THEN s
    ELSE [s EXCEPT !.save[i] = NoSave,
           !.bind = [p \in Players |->
                       IF p \in v.players THEN [@[p] EXCEPT ![v.map] = 0] ELSE @[p]],
           !.groupBind = IF v.group THEN [@ EXCEPT ![v.map] = 0] ELSE @]

\* _ResetInstance
ResetInstance(s, e) ==
    Reset(DeleteFromDB(ResetSave(s, e.id), e.id), <<e.map, e.id>>, "respawn")

\* InstanceSaveManager::Update
Due == SubSeq(mgr.events, 1, From(mgr.events, now) - 1)

Update ==
    /\ Due # <<>>
    /\ mgr' = [FoldLeft(ResetInstance, mgr, Due) EXCEPT
                 !.events = SubSeq(@, From(@, now), Len(@))]
    /\ used' = used \ {e.id : e \in ToSet(Due)}
    /\ UNCHANGED <<now, player, group, failed, changes>>

Tick ==
    /\ now < MaxTime
    /\ now' = now + 1
    /\ UNCHANGED <<mgr, used, player, group, failed, changes>>

\* Unit::Kill, or a creature that dies by itself: the save is to outlast its
\* respawn.  Bound: no respawn is later than MaxTime.
CreatureDies(k, respawn) ==
    /\ Loaded(mgr, k) /\ Known(mgr, k[2])
    /\ respawn >= now
    /\ mgr.save[k[2]].reset < respawn + Lifetime
    /\ mgr' = [mgr EXCEPT !.save[k[2]].reset = respawn + Lifetime]
    /\ UNCHANGED <<used, now, player, group, failed, changes>>

\* A crash and LoadInstances: instances that are expired or that no row binds
\* are deleted, the ids of the others registered and their resets queued.
Kept == {i \in Ids : /\ mgr.stored[i] # NoRow
                     /\ mgr.stored[i].reset >= now
                     /\ i \in mgr.groupRow \/ \E p \in Players : i \in mgr.row[p]}

\* LoadResetTimes takes the reset time of an instance in which creatures are
\* dead from the last of their respawns.
KeptRow(respawn, i) ==
    IF i \notin Kept THEN NoRow
    ELSE IF i \in DOMAIN respawn
         THEN [mgr.stored[i] EXCEPT !.reset = respawn[i] + Lifetime]
    ELSE mgr.stored[i]

\* It has read the clock after the expired rows were deleted, and queues the
\* resets that are later still.
StillToCome(rows, at) == {i \in Ids : rows[i] # NoRow /\ rows[i].reset > at}

\* The group instances are loaded in the order of their ids.
LoadedGroupBind(m) ==
    LET ids == {i \in Kept \cap mgr.groupRow : mgr.stored[i].map = m}
    IN  IF ids = {} THEN 0 ELSE Max(ids)

\* LoadGroups: canReset is that somebody is bound for good, so that the saves
\* of normal dungeons cannot be reset.
LoadedSave(rows, i) ==
    IF i # LoadedGroupBind(rows[i].map) THEN NoSave
    ELSE [map |-> rows[i].map, reset |-> rows[i].reset,
          players |-> {}, group |-> TRUE, canReset |-> FALSE]

\* The resets of the instances ids: a version that forgets those of single
\* players, then the code's.
StoredReset(rows, i) == [at |-> rows[i].reset, map |-> rows[i].map, id |-> i]

RestoredEvents_of_groups(rows, ids) ==
    MapThenFoldSet(LAMBDA e, q : Scheduled(q, e), <<>>,
                   LAMBDA i : StoredReset(rows, i), Max, ids \cap mgr.groupRow)

RestoredEvents(rows, ids) ==
    MapThenFoldSet(LAMBDA e, q : Scheduled(q, e), <<>>,
                   LAMBDA i : StoredReset(rows, i), Max, ids)

Restarted(rows, at) ==
    [ timer |-> [k \in Keys |-> "none"],
      in |-> [p \in Players |-> Outside],
      save |-> [i \in Ids |-> LoadedSave(rows, i)],
      events |-> RestoredEvents(rows, StillToCome(rows, at)),
      bind |-> Nobody,
      groupBind |-> [m \in Maps |-> LoadedGroupBind(m)],
      stored |-> rows,
      row |-> [p \in Players |-> mgr.row[p] \cap Kept],
      groupRow |-> mgr.groupRow \cap Kept ]

\* creature_respawn holds the last respawn of the instances `dead`.  Bound: as
\* for CreatureDies.
Restart ==
    /\ Changed
    /\ \E at \in now .. MaxTime, dead \in SUBSET Kept :
         \E respawn \in [dead -> 0 .. MaxTime] :
            LET rows == [i \in Ids |-> KeptRow(respawn, i)] IN
            /\ now' = at
            /\ mgr' = Restarted(rows, at)
            /\ unqueued' = Kept \ StillToCome(rows, at)
    /\ used' = Kept
    /\ phase' = [p \in Players |-> "offline"]
    /\ valid' = [p \in Players |-> TRUE]
    /\ saved' = [p \in Players |->
         LET there == IF Connected(p) THEN mgr.in[p] ELSE saved[p]
         IN  IF there # Outside /\ there[2] \notin Kept THEN <<there[1], 0>> ELSE there]
    /\ answer' = [p \in Players |-> {}]
    /\ UNCHANGED <<group, failed>>

Handler ==
    \/ \E p \in Players :
         \/ TeleportTo(p) \/ WorldportOut(p)
         \/ \E m \in Maps : WorldportInto(p, m)
         \/ \E q \in Players : AcceptInvite(p, q)
         \/ ChangeLeader(p) \/ ResetInstances(p)
         \/ \E quits \in BOOLEAN : Logout(p, quits)
         \/ LoginQuery(p) \/ LoginLoad(p)
    \/ Disband
    \/ \E k \in Keys : DestroyInstance(k)
    \/ \E k \in Keys, respawn \in 0 .. MaxTime : CreatureDies(k, respawn)
    \/ Update \/ Tick

\* A row is no longer without its reset when that is queued or the row deleted.
Queued(s, i) == \E e \in ToSet(s.events) : e.id = i

Next ==
    \/ /\ Handler
       /\ unqueued' = {i \in unqueued : mgr'.stored[i] # NoRow /\ ~ Queued(mgr', i)}
    \/ Restart

Spec == Init /\ [][Next]_vars

-----------------------------------------------------------------------------
(***************************************************************************)
(* Properties.                                                             *)
(***************************************************************************)
\* A player or a group is bound to an instance exactly when its save lists
\* them: both keep pointers to each other, and neither is left behind when a
\* bind is replaced, converted, reset, forgotten at logout or loaded again.
BindsAndSavesAgree ==
    \A m \in Maps, i \in Ids :
        /\ \A p \in Players :
             (mgr.bind[p][m] = i) <=>
                (mgr.save[i].map = m /\ p \in mgr.save[i].players)
        /\ (mgr.groupBind[m] = i) <=> (mgr.save[i].map = m /\ mgr.save[i].group)

\* Nobody is sent to an instance that then turns him away (AddPlayerToMap
\* returns false and HandleMoveWorldportAck logs an error), and the ASSERT that
\* a solo player is bound to the instance he enters holds: the instance that
\* CreateInstanceForPlayer picks is the one AddPlayerToMap expects, whatever
\* the group, the resets and the other member did on the way.
EntryIsGranted == ~ failed

\* The map a player counts as inside is loaded, however long his teleport
\* lasts, and does not unload under a player who is in its world
\* (InstanceMap::UnloadAll, "this should not happen!").
InsideAMap ==
    \A p \in Players :
        mgr.in[p] # Outside =>
            /\ Loaded(mgr, mgr.in[p])
            /\ phase[p] = "world" => mgr.timer[mgr.in[p]] \in {"off", "closing"}

\* An instance nobody is inside keeps a row only as long as its reset is in
\* the queue.  The exception is a row that the last start has kept without
\* queueing its reset, because it fell due in the second of the start, while
\* that went on, or by the respawns it was taken from: until its last player
\* leaves, which queues it again, or the next start, only players delete it.
StoredAwaitsReset ==
    \A i \in Ids \ unqueued :
        (mgr.stored[i] # NoRow /\ ~ HavePlayers(mgr, <<mgr.stored[i].map, i>>))
            => Queued(mgr, i)

\* Two players who may both stay (m_InstanceValid) share an instance only as
\* members of the party, also when ids are freed and given out again or the
\* party has been made, left or disbanded inside.
InstancePrivate ==
    \A p, q \in Players :
        ( /\ p # q /\ mgr.in[p] = mgr.in[q] /\ mgr.in[p] # Outside
          /\ phase[p] = "world" /\ phase[q] = "world"
          /\ valid[p] /\ valid[q] )
        => p \in members /\ q \in members

-----------------------------------------------------------------------------
(***************************************************************************)
(* The inductive invariant.                                                *)
(***************************************************************************)
\* The reset of every other instance with a row is in the queue, also while
\* there are players inside: AddPlayerToMap finds the player who enters in the
\* map already, so SetResetSchedule never takes it off.
RowsAwaitReset ==
    \A i \in Ids \ unqueued :
        mgr.stored[i] # NoRow => \E n \in DOMAIN mgr.events : mgr.events[n].id = i

\* Who is not online is in no map, and who may not stay is inside one.
InsideOnline ==
    \A p \in Players :
        /\ phase[p] \in {"offline", "loading"} => mgr.in[p] = Outside /\ valid[p]
        /\ ~ valid[p] => mgr.in[p] # Outside

AnswersFinite == \A p \in Players : IsFiniteSet(answer[p])

SavesInv ==
    /\ TypeOK /\ BindsAndSavesAgree /\ EntryIsGranted /\ InsideAMap
    /\ RowsAwaitReset /\ InstancePrivate /\ InsideOnline /\ AnswersFinite

=============================================================================
