------------------------- MODULE InstanceSavesProofs -------------------------
(***************************************************************************)
(* Proofs about InstanceSaves, for every set of players and dungeons, any  *)
(* lifetime of a save and any bounds: the two ends of a bind agree, every  *)
(* entry is granted, nobody is in a map that is not loaded, the rows that  *)
(* are stored have a reset in the queue (unless the last start has kept    *)
(* them without it), and no stranger shares an instance.                   *)
(*                                                                         *)
(* The handlers work on one record.  The lemmas say of each operator what  *)
(* it does to a record that is Good for the players w in the world; the    *)
(* actions then are compositions of them.                                  *)
(***************************************************************************)
EXTENDS InstanceSaves, FiniteSetTheorems, SequenceTheorems, WellFoundedInduction, TLAPS

USE InstanceSavesAssumption

-----------------------------------------------------------------------------
(***************************************************************************)
(* Folds over finite sets: the values after each subset stay in D.         *)
(***************************************************************************)
LEMMA Naturals0 ==
  ASSUME NEW P, 0 \in P, \A n \in Nat : n \in P => n + 1 \in P
  PROVE  Nat \subseteq P
  <1> DEFINE B == Nat \ P
  <1> SUFFICES ASSUME B # {} PROVE FALSE  OBVIOUS
  <1>1. B \subseteq Nat  OBVIOUS
  <1>2. PICK m \in B : \A n \in B : <<n, m>> \notin OpToRel(<, Nat)
    BY <1>1, WFMin, NatLessThanWellFounded, Zenon
  <1>3. \A n \in B : ~(n < m)  BY <1>2, Zenon DEF OpToRel
  <1>4. m \in Nat /\ m \notin P /\ m # 0  OBVIOUS
  <1>5. m - 1 \in Nat /\ m - 1 < m /\ (m - 1) + 1 = m  BY <1>4
  <1>6. m - 1 \in P  BY <1>3, <1>5
  <1> QED  BY <1>4, <1>5, <1>6

\* c picks an element of each subset of S that is not empty.
Picks(c, S) == \A s \in (SUBSET S) \ {{}} : c[s] \in s

Less(s, c) == s \ {c[s]}

LEMMA SubsetInduction ==
  ASSUME NEW S, IsFiniteSet(S), NEW c, Picks(c, S), NEW Q, {} \in Q,
         \A s \in (SUBSET S) \ {{}} : Less(s, c) \in Q => s \in Q
  PROVE  SUBSET S \subseteq Q
  <1> DEFINE P == {n \in Nat : \A s \in SUBSET S : Cardinality(s) = n => s \in Q}
  <1>1. \A s \in SUBSET S : IsFiniteSet(s) /\ Cardinality(s) \in Nat
    BY FS_Subset, FS_CardinalityType
  <1>2. 0 \in P
    <2>1. \A s \in SUBSET S : Cardinality(s) = 0 => s = {}  BY <1>1, FS_EmptySet
    <2> QED  BY <2>1
  <1>3. ASSUME NEW n \in Nat, n \in P PROVE n + 1 \in P
    <2> SUFFICES ASSUME NEW s \in SUBSET S, Cardinality(s) = n + 1 PROVE s \in Q  OBVIOUS
    <2>1. s # {}  BY <1>1, FS_EmptySet
    <2>2. c[s] \in s  BY <2>1 DEF Picks
    <2>3. Less(s, c) \in SUBSET S  BY DEF Less
    <2>4. Cardinality(Less(s, c)) = Cardinality(s) - 1
      BY <1>1, <2>2, FS_RemoveElement DEF Less
    <2>5. Cardinality(Less(s, c)) = n  BY <2>4
    <2>6. Less(s, c) \in Q  BY <1>3, <2>3, <2>5
    <2> QED  BY <2>1, <2>6
  <1> HIDE DEF P
  <1>4. Nat \subseteq P  BY <1>2, <1>3, Naturals0
  <1> QED  BY <1>1, <1>4 DEF P

\* F[<<s, t>>] handles the element c[s] of s after the others, which left t.
FoldStep(g, s, c, base, F) == IF s = {} THEN base ELSE F[<<s, g[Less(s, c)]>>]

StaysIn(S, c, D, F) ==
    \A s \in (SUBSET S) \ {{}} : \A t \in D[Less(s, c)] : F[<<s, t>>] \in D[s]

FoldUpTo(g, S, c, base, D, F, n) ==
    \A s \in SUBSET S : Cardinality(s) <= n =>
        g[s] \in D[s] /\ g[s] = FoldStep(g, s, c, base, F)

LEMMA FoldGrows ==
  ASSUME NEW S, IsFiniteSet(S), NEW c, Picks(c, S), NEW D, NEW base \in D[{}],
         NEW F, StaysIn(S, c, D, F), NEW n \in Nat,
         NEW g, FoldUpTo(g, S, c, base, D, F, n)
  PROVE  \E h : FoldUpTo(h, S, c, base, D, F, n + 1)
  <1>1. \A s \in SUBSET S : IsFiniteSet(s) /\ Cardinality(s) \in Nat
    BY FS_Subset, FS_CardinalityType
  <1> DEFINE h == [s \in SUBSET S |-> IF Cardinality(s) <= n THEN g[s]
                                      ELSE F[<<s, g[Less(s, c)]>>]]
  <1>2. ASSUME NEW s \in SUBSET S, Cardinality(s) <= n + 1
        PROVE  h[s] \in D[s] /\ h[s] = FoldStep(h, s, c, base, F)
    <2>1. CASE s = {}
      <3>1. Cardinality(s) <= n  BY <2>1, FS_EmptySet
      <3>2. h[s] = g[s] /\ g[s] = base  BY <2>1, <3>1 DEF FoldUpTo, FoldStep
      <3> QED  BY <2>1, <3>2 DEF FoldStep
    <2>2. CASE s # {}
      <3>1. c[s] \in s  BY <2>2 DEF Picks
      <3>2. Cardinality(Less(s, c)) = Cardinality(s) - 1 /\ Less(s, c) \in SUBSET S
        BY <1>1, <3>1, FS_RemoveElement DEF Less
      <3>3. Cardinality(Less(s, c)) <= n  BY <1>1, <1>2, <3>2
      <3>4. h[Less(s, c)] = g[Less(s, c)]  BY <3>2, <3>3
      <3>5. g[Less(s, c)] \in D[Less(s, c)]  BY <3>2, <3>3 DEF FoldUpTo
      <3>6. CASE Cardinality(s) <= n
        <4>1. h[s] = g[s]  BY <3>6
        <4>2. g[s] \in D[s] /\ g[s] = FoldStep(g, s, c, base, F)  BY <3>6 DEF FoldUpTo
        <4> HIDE DEF h
        <4> QED  BY <3>4, <4>1, <4>2 DEF FoldStep
      <3>7. CASE ~(Cardinality(s) <= n)
        <4>1. h[s] = F[<<s, g[Less(s, c)]>>]  BY <3>7
        <4>2. F[<<s, g[Less(s, c)]>>] \in D[s]  BY <2>2, <3>5 DEF StaysIn
        <4> HIDE DEF h
        <4> QED  BY <2>2, <3>4, <4>1, <4>2 DEF FoldStep
      <3> QED  BY <3>6, <3>7
    <2> QED  BY <2>1, <2>2
  <1> HIDE DEF h
  <1> QED  BY <1>2 DEF FoldUpTo

FoldOf(g, S, c, base, F) == g = [s \in SUBSET S |-> FoldStep(g, s, c, base, F)]

LEMMA FoldExists ==
  ASSUME NEW S, IsFiniteSet(S), NEW c, Picks(c, S), NEW D, NEW base \in D[{}],
         NEW F, StaysIn(S, c, D, F)
  PROVE  \E g : FoldOf(g, S, c, base, F) /\ \A s \in SUBSET S : g[s] \in D[s]
  <1>1. \A s \in SUBSET S : IsFiniteSet(s) /\ Cardinality(s) \in Nat
    BY FS_Subset, FS_CardinalityType
  <1> DEFINE P == {n \in Nat : \E g : FoldUpTo(g, S, c, base, D, F, n)}
  <1>2. 0 \in P
    <2> DEFINE g == [s \in SUBSET S |-> base]
    <2>1. \A s \in SUBSET S : Cardinality(s) <= 0 => s = {}
      BY <1>1, FS_EmptySet
    <2>2. g[{}] = base  OBVIOUS
    <2>3. FoldUpTo(g, S, c, base, D, F, 0)  BY <2>1, <2>2 DEF FoldUpTo, FoldStep
    <2> QED  BY <2>3
  <1>3. ASSUME NEW n \in Nat, n \in P PROVE n + 1 \in P
    <2>1. PICK g : FoldUpTo(g, S, c, base, D, F, n)  BY <1>3
    <2>2. \E h : FoldUpTo(h, S, c, base, D, F, n + 1)  BY <2>1, FoldGrows
    <2> QED  BY <2>2
  <1> HIDE DEF P
  <1>4. Cardinality(S) \in P /\ Cardinality(S) \in Nat
    BY <1>1, <1>2, <1>3, Naturals0
  <1>5. PICK g : FoldUpTo(g, S, c, base, D, F, Cardinality(S))  BY <1>4 DEF P
  <1>6. \A s \in SUBSET S : g[s] \in D[s] /\ g[s] = FoldStep(g, s, c, base, F)
    BY <1>5, FS_Subset DEF FoldUpTo
  <1> DEFINE h == [s \in SUBSET S |-> g[s]]
  <1>7. \A s \in SUBSET S : h[s] = g[s] /\ h[Less(s, c)] = g[Less(s, c)]
    BY DEF Less
  <1>8. \A s \in SUBSET S : h[s] = FoldStep(h, s, c, base, F)
    BY <1>6, <1>7 DEF FoldStep
  <1>9. h = [s \in SUBSET S |-> FoldStep(h, s, c, base, F)]  BY <1>7, <1>8
  <1>10. FoldOf(h, S, c, base, F)  BY <1>9 DEF FoldOf
  <1>11. \A s \in SUBSET S : h[s] \in D[s]  BY <1>6, <1>7
  <1> HIDE DEF h
  <1> QED  BY <1>10, <1>11

LEMMA FoldStays ==
  ASSUME NEW S, IsFiniteSet(S), NEW c, Picks(c, S), NEW D, NEW F, StaysIn(S, c, D, F),
         NEW it, it[{}] \in D[{}],
         \A s \in (SUBSET S) \ {{}} :
            it[Less(s, c)] \in D[Less(s, c)] => it[s] = F[<<s, it[Less(s, c)]>>]
  PROVE  it[S] \in D[S]
  <1> DEFINE Q == {s \in SUBSET S : it[s] \in D[s]}
  <1>1. {} \in Q  OBVIOUS
  <1>2. ASSUME NEW s \in (SUBSET S) \ {{}}, Less(s, c) \in Q PROVE s \in Q
    BY <1>2 DEF StaysIn
  <1> HIDE DEF Q
  <1>3. SUBSET S \subseteq Q  BY <1>1, <1>2, SubsetInduction
  <1> QED  BY <1>3 DEF Q

-----------------------------------------------------------------------------
(***************************************************************************)
(* The fields of the record, one at a time.                                *)
(***************************************************************************)
LEMMA Fields ==
  ASSUME NEW s \in Managed
  PROVE  /\ s.timer \in [Keys -> Timers]
         /\ s.in \in [Players -> Keys \cup {Outside}]
         /\ s.save \in [Ids -> Saves]
         /\ s.events \in Seq(Events)
         /\ s.bind \in [Players -> [Maps -> {0} \cup Ids]]
         /\ s.groupBind \in [Maps -> {0} \cup Ids]
         /\ s.stored \in [Ids -> Rows]
         /\ s.row \in [Players -> SUBSET Ids]
         /\ s.groupRow \in SUBSET Ids
  BY DEF Managed

PutTimer(s, v) == [s EXCEPT !.timer = v]
PutIn(s, v) == [s EXCEPT !.in = v]
PutSave(s, v) == [s EXCEPT !.save = v]
PutEvents(s, v) == [s EXCEPT !.events = v]
PutBind(s, v) == [s EXCEPT !.bind = v]
PutGroupBind(s, v) == [s EXCEPT !.groupBind = v]
PutStored(s, v) == [s EXCEPT !.stored = v]
PutRow(s, v) == [s EXCEPT !.row = v]
PutGroupRow(s, v) == [s EXCEPT !.groupRow = v]

LEMMA TimerPut ==
  ASSUME NEW s \in Managed, NEW v \in [Keys -> Timers]
  PROVE  LET t == PutTimer(s, v) IN
         /\ t \in Managed /\ t.timer = v
         /\ t.in = s.in /\ t.save = s.save /\ t.events = s.events /\ t.bind = s.bind
         /\ t.groupBind = s.groupBind /\ t.stored = s.stored /\ t.row = s.row /\ t.groupRow = s.groupRow
  BY DEF Managed, PutTimer

LEMMA InPut ==
  ASSUME NEW s \in Managed, NEW v \in [Players -> Keys \cup {Outside}]
  PROVE  LET t == PutIn(s, v) IN
         /\ t \in Managed /\ t.in = v
         /\ t.timer = s.timer /\ t.save = s.save /\ t.events = s.events /\ t.bind = s.bind
         /\ t.groupBind = s.groupBind /\ t.stored = s.stored /\ t.row = s.row /\ t.groupRow = s.groupRow
  BY DEF Managed, PutIn

LEMMA SavePut ==
  ASSUME NEW s \in Managed, NEW v \in [Ids -> Saves]
  PROVE  LET t == PutSave(s, v) IN
         /\ t \in Managed /\ t.save = v
         /\ t.timer = s.timer /\ t.in = s.in /\ t.events = s.events /\ t.bind = s.bind
         /\ t.groupBind = s.groupBind /\ t.stored = s.stored /\ t.row = s.row /\ t.groupRow = s.groupRow
  BY DEF Managed, PutSave

LEMMA EventsPut ==
  ASSUME NEW s \in Managed, NEW v \in Seq(Events)
  PROVE  LET t == PutEvents(s, v) IN
         /\ t \in Managed /\ t.events = v
         /\ t.timer = s.timer /\ t.in = s.in /\ t.save = s.save /\ t.bind = s.bind
         /\ t.groupBind = s.groupBind /\ t.stored = s.stored /\ t.row = s.row /\ t.groupRow = s.groupRow
  BY DEF Managed, PutEvents

LEMMA BindPut ==
  ASSUME NEW s \in Managed, NEW v \in [Players -> [Maps -> {0} \cup Ids]]
  PROVE  LET t == PutBind(s, v) IN
         /\ t \in Managed /\ t.bind = v
         /\ t.timer = s.timer /\ t.in = s.in /\ t.save = s.save /\ t.events = s.events
         /\ t.groupBind = s.groupBind /\ t.stored = s.stored /\ t.row = s.row /\ t.groupRow = s.groupRow
  BY DEF Managed, PutBind

LEMMA GroupBindPut ==
  ASSUME NEW s \in Managed, NEW v \in [Maps -> {0} \cup Ids]
  PROVE  LET t == PutGroupBind(s, v) IN
         /\ t \in Managed /\ t.groupBind = v
         /\ t.timer = s.timer /\ t.in = s.in /\ t.save = s.save /\ t.events = s.events
         /\ t.bind = s.bind /\ t.stored = s.stored /\ t.row = s.row /\ t.groupRow = s.groupRow
  BY DEF Managed, PutGroupBind

LEMMA StoredPut ==
  ASSUME NEW s \in Managed, NEW v \in [Ids -> Rows]
  PROVE  LET t == PutStored(s, v) IN
         /\ t \in Managed /\ t.stored = v
         /\ t.timer = s.timer /\ t.in = s.in /\ t.save = s.save /\ t.events = s.events
         /\ t.bind = s.bind /\ t.groupBind = s.groupBind /\ t.row = s.row /\ t.groupRow = s.groupRow
  BY DEF Managed, PutStored

LEMMA RowPut ==
  ASSUME NEW s \in Managed, NEW v \in [Players -> SUBSET Ids]
  PROVE  LET t == PutRow(s, v) IN
         /\ t \in Managed /\ t.row = v
         /\ t.timer = s.timer /\ t.in = s.in /\ t.save = s.save /\ t.events = s.events
         /\ t.bind = s.bind /\ t.groupBind = s.groupBind /\ t.stored = s.stored /\ t.groupRow = s.groupRow
  BY DEF Managed, PutRow

LEMMA GroupRowPut ==
  ASSUME NEW s \in Managed, NEW v \in SUBSET Ids
  PROVE  LET t == PutGroupRow(s, v) IN
         /\ t \in Managed /\ t.groupRow = v
         /\ t.timer = s.timer /\ t.in = s.in /\ t.save = s.save /\ t.events = s.events
         /\ t.bind = s.bind /\ t.groupBind = s.groupBind /\ t.stored = s.stored /\ t.row = s.row
  BY DEF Managed, PutGroupRow

-----------------------------------------------------------------------------
(***************************************************************************)
(* What the lemmas keep: both ends of the binds, the resets, the maps.     *)
(***************************************************************************)
Lists(s, m, i, p) == s.save[i].map = m /\ p \in s.save[i].players
ListsGroup(s, m, i) == s.save[i].map = m /\ s.save[i].group

Agree(s) ==
    \A m \in Maps, i \in Ids :
        /\ \A p \in Players : (s.bind[p][m] = i) <=> Lists(s, m, i, p)
        /\ (s.groupBind[m] = i) <=> ListsGroup(s, m, i)

IsQueued(s, i) == \E n \in DOMAIN s.events : s.events[n].id = i
RowsQueued(s) ==
    \A i \in Ids : s.stored[i] # NoRow => IsQueued(s, i) \/ i \in unqueued

Housed(s, w) ==
    \A p \in Players :
        s.in[p] # Outside =>
            /\ s.timer[s.in[p]] # "none"
            /\ p \in w => s.timer[s.in[p]] \in {"off", "closing"}

Good(s, w) == s \in Managed /\ Agree(s) /\ RowsQueued(s) /\ Housed(s, w)

\* Parts of a record that an operator leaves alone.
SamePlaces(s, t) == t.timer = s.timer /\ t.in = s.in
SameBinds(s, t) == t.bind = s.bind /\ t.groupBind = s.groupBind
NoNewRows(s, t) ==
    /\ t.events = s.events
    /\ \A i \in Ids : s.stored[i] = NoRow => t.stored[i] = NoRow

LEMMA PlacesKept ==
  ASSUME NEW s, NEW t, NEW w, SamePlaces(s, t), Housed(s, w)
  PROVE  Housed(t, w)
  BY DEF SamePlaces, Housed

LEMMA RowsKept ==
  ASSUME NEW s, NEW t, NoNewRows(s, t), RowsQueued(s)
  PROVE  RowsQueued(t)
  BY DEF NoNewRows, RowsQueued, IsQueued

LEMMA SaveIs ==
  ASSUME NEW v \in Saves
  PROVE  \/ v = NoSave
         \/ /\ v.map \in Maps /\ v.reset \in Nat /\ v.players \in SUBSET Players
            /\ v.group \in BOOLEAN /\ v # NoSave
            /\ v.canReset \in BOOLEAN
            /\ v = [map |-> v.map, reset |-> v.reset, players |-> v.players,
                    group |-> v.group, canReset |-> v.canReset]
  <1> SUFFICES ASSUME v # NoSave
               PROVE  /\ v.map \in Maps /\ v.reset \in Nat
                      /\ v.players \in SUBSET Players /\ v.group \in BOOLEAN
                      /\ v.canReset \in BOOLEAN
                      /\ v = [map |-> v.map, reset |-> v.reset, players |-> v.players,
                              group |-> v.group, canReset |-> v.canReset]
    OBVIOUS
  <1>1. v \in [map : Maps, reset : Nat, players : SUBSET Players, group : BOOLEAN,
             canReset : BOOLEAN]
    BY DEF Saves
  <1> QED  BY <1>1

LEMMA NoSaveIs ==
  /\ NoSave \in Saves /\ NoSave.map = 0 /\ NoSave.players = {} /\ NoSave.group = FALSE
  /\ \A p : [NoSave EXCEPT !.players = NoSave.players \ {p}] = NoSave
  /\ [NoSave EXCEPT !.group = FALSE] = NoSave
  <1>1. NoSave.map = 0 /\ NoSave.players = {} /\ NoSave.group = FALSE  BY DEF NoSave
  <1>2. NoSave \in Saves  BY DEF Saves
  <1>3. ASSUME NEW p PROVE [NoSave EXCEPT !.players = NoSave.players \ {p}] = NoSave
    <2>1. NoSave.players \ {p} = {}  BY <1>1
    <2>2. [NoSave EXCEPT !.players = {}] = NoSave  BY DEF NoSave
    <2> QED  BY <2>1, <2>2
  <1>4. [NoSave EXCEPT !.group = FALSE] = NoSave
    <2>1. PICK g : g = FALSE  OBVIOUS
    <2>2. NoSave = [map |-> 0, reset |-> 0, players |-> {}, group |-> g, canReset |-> g]
      BY <2>1 DEF NoSave
    <2>3. [NoSave EXCEPT !.group = g] = NoSave  BY <2>2
    <2> QED  BY <2>1, <2>3
  <1> QED  BY <1>1, <1>2, <1>3, <1>4

LEMMA NewSave ==
  ASSUME NEW m \in Maps, NEW r \in Nat, NEW ps \in SUBSET Players, NEW g \in BOOLEAN,
         NEW c \in BOOLEAN
  PROVE  LET v == [map |-> m, reset |-> r, players |-> ps, group |-> g, canReset |-> c] IN
         /\ v \in Saves /\ v # NoSave
         /\ v.map = m /\ v.reset = r /\ v.players = ps /\ v.group = g
  <1> DEFINE v == [map |-> m, reset |-> r, players |-> ps, group |-> g, canReset |-> c]
  <1>1. v \in Saves  BY DEF Saves
  <1>2. v.map = m /\ m # 0 /\ NoSave.map = 0  BY NoSaveIs
  <1>3. v # NoSave  BY <1>2
  <1> QED  BY <1>1, <1>2, <1>3

\* The save without p, or without the group.
LEMMA SaveShrinks ==
  ASSUME NEW v \in Saves, NEW p
  PROVE  LET x == [v EXCEPT !.players = v.players \ {p}]
             y == [v EXCEPT !.group = FALSE]
         IN  /\ x \in Saves /\ x.map = v.map /\ x.players = v.players \ {p}
             /\ x.group = v.group
             /\ y \in Saves /\ y.map = v.map /\ y.players = v.players /\ y.group = FALSE
  <1>1. CASE v = NoSave  BY <1>1, NoSaveIs
  <1>2. CASE v # NoSave
    <2>1. v \in [map : Maps, reset : Nat, players : SUBSET Players, group : BOOLEAN,
             canReset : BOOLEAN]
      BY <1>2 DEF Saves
    <2> QED  BY <2>1 DEF Saves
  <1> QED  BY <1>1, <1>2

LEMMA RowIs ==
  /\ NoRow \in Rows /\ NoRow.map = 0 /\ NoRow.reset = 0
  /\ \A r \in Rows : r # NoRow => r \in [map : Maps, reset : Nat]
  BY DEF Rows, NoRow

LEMMA NewRow ==
  ASSUME NEW m \in Maps, NEW at \in Nat
  PROVE  LET r == [map |-> m, reset |-> at] IN r \in Rows /\ r # NoRow
  <1> DEFINE r == [map |-> m, reset |-> at]
  <1>1. r \in Rows  BY DEF Rows
  <1>2. r.map = m /\ m # 0 /\ NoRow.map = 0  BY RowIs
  <1> QED  BY <1>1, <1>2

LEMMA ResetTimeKeepsRow ==
  ASSUME NEW r \in Rows, NEW at \in Nat
  PROVE  ResetTimeStored(r, at) \in Rows /\ (r = NoRow => ResetTimeStored(r, at) = NoRow)
  <1>1. CASE r = NoRow  BY <1>1, RowIs DEF ResetTimeStored
  <1>2. CASE r # NoRow
    <2>1. r \in [map : Maps, reset : Nat]  BY <1>2, RowIs
    <2>2. [r EXCEPT !.reset = at] \in [map : Maps, reset : Nat]  BY <2>1
    <2> QED  BY <1>2, <2>2 DEF ResetTimeStored, Rows
  <1> QED  BY <1>1, <1>2

-----------------------------------------------------------------------------
(***************************************************************************)
(* Saves that are dropped, and rows that are deleted.                      *)
(***************************************************************************)
\* A save whose lists do not change, or that is dropped with empty lists.
SameLists(s, t) ==
    \A m \in Maps, j \in Ids :
        /\ \A q \in Players : Lists(t, m, j, q) <=> Lists(s, m, j, q)
        /\ ListsGroup(t, m, j) <=> ListsGroup(s, m, j)

LEMMA UnloadIfEmptyDoes ==
  ASSUME NEW s \in Managed, NEW i \in Ids
  PROVE  LET t == UnloadIfEmpty(s, i) IN
         /\ t \in Managed /\ SamePlaces(s, t) /\ SameBinds(s, t) /\ NoNewRows(s, t)
         /\ SameLists(s, t)
         /\ \A j \in Ids \ {i} : t.save[j] = s.save[j]
  <1> DEFINE v == s.save[i]
             u == [s.save EXCEPT ![i] = NoSave]
             r == [s.stored EXCEPT ![i] = ResetTimeStored(s.stored[i], v.reset)]
  <1>1. CASE UnloadIfEmpty(s, i) = s
    BY <1>1 DEF SamePlaces, SameBinds, NoNewRows, SameLists
  <1>2. CASE UnloadIfEmpty(s, i) # s
    <2>1. v # NoSave /\ v.players = {} /\ ~ v.group
      BY <1>2 DEF UnloadIfEmpty, Known
    <2>2. v \in Saves /\ s.stored[i] \in Rows  BY Fields
    <2>3. v.reset \in Nat  BY <2>1, <2>2, SaveIs
    <2>4. u \in [Ids -> Saves]  BY Fields, NoSaveIs
    <2>5. r \in [Ids -> Rows]  BY <2>2, <2>3, Fields, ResetTimeKeepsRow
    <2>6. \A j \in Ids : s.stored[j] = NoRow => r[j] = NoRow
      BY <2>2, <2>3, Fields, ResetTimeKeepsRow
    <2>7. PICK x : x = PutSave(s, u)  OBVIOUS
    <2>8. /\ x \in Managed /\ x.save = u /\ x.timer = s.timer /\ x.in = s.in
          /\ x.events = s.events /\ x.bind = s.bind /\ x.groupBind = s.groupBind
          /\ x.stored = s.stored
      BY <2>4, <2>7, SavePut
    <2>9. PICK t : t = PutStored(x, r)  OBVIOUS
    <2>10. /\ t \in Managed /\ t.save = u /\ t.timer = s.timer /\ t.in = s.in
           /\ t.events = s.events /\ t.bind = s.bind /\ t.groupBind = s.groupBind
           /\ t.stored = r
      BY <2>5, <2>8, <2>9, StoredPut
    <2>11. UnloadIfEmpty(s, i) = t
      BY <1>2, <2>7, <2>8, <2>9 DEF UnloadIfEmpty, PutSave, PutStored
    <2>12. \A j \in Ids \ {i} : u[j] = s.save[j]  BY Fields
    <2>13. u[i] = NoSave  BY Fields
    <2>14. SameLists(s, t)
      <3> SUFFICES ASSUME NEW m \in Maps, NEW j \in Ids
                   PROVE  /\ \A q \in Players : Lists(t, m, j, q) <=> Lists(s, m, j, q)
                          /\ ListsGroup(t, m, j) <=> ListsGroup(s, m, j)
        BY DEF SameLists
      <3>1. CASE j = i
        BY <2>1, <2>10, <2>13, <3>1, NoSaveIs DEF Lists, ListsGroup
      <3>2. CASE j # i  BY <2>10, <2>12, <3>2 DEF Lists, ListsGroup
      <3> QED  BY <3>1, <3>2
    <2> HIDE DEF u, r, v
    <2> QED
      BY <2>6, <2>10, <2>11, <2>12, <2>14 DEF SamePlaces, SameBinds, NoNewRows
  <1> QED  BY <1>1, <1>2

LEMMA RemovePlayerDoes ==
  ASSUME NEW s \in Managed, NEW i \in Ids, NEW p \in Players
  PROVE  LET t == RemovePlayer(s, p, i) IN
         /\ t \in Managed /\ SamePlaces(s, t) /\ SameBinds(s, t) /\ NoNewRows(s, t)
         /\ \A m \in Maps, j \in Ids :
              /\ \A q \in Players :
                   Lists(t, m, j, q) <=> Lists(s, m, j, q) /\ ~(j = i /\ q = p)
              /\ ListsGroup(t, m, j) <=> ListsGroup(s, m, j)
         /\ \A j \in Ids \ {i} : t.save[j] = s.save[j]
  <1>1. PICK v : v = [s.save[i] EXCEPT !.players = s.save[i].players \ {p}]  OBVIOUS
  <1>2. s.save[i] \in Saves  BY Fields
  <1>3. v \in Saves /\ v.map = s.save[i].map /\ v.players = s.save[i].players \ {p}
        /\ v.group = s.save[i].group
    BY <1>1, <1>2, SaveShrinks
  <1>4. PICK u : u = [s.save EXCEPT ![i] = v]  OBVIOUS
  <1>5. u \in [Ids -> Saves] /\ u[i] = v /\ \A j \in Ids \ {i} : u[j] = s.save[j]
    BY <1>3, <1>4, Fields
  <1>6. PICK x \in Managed :
           /\ x = PutSave(s, u) /\ x.save = u /\ SamePlaces(s, x) /\ SameBinds(s, x)
           /\ x.events = s.events /\ x.stored = s.stored
    BY <1>5, SavePut DEF SamePlaces, SameBinds
  <1>7. PICK t : t = UnloadIfEmpty(x, i)  OBVIOUS
  <1>8. /\ t \in Managed /\ SamePlaces(x, t) /\ SameBinds(x, t) /\ NoNewRows(x, t)
        /\ SameLists(x, t) /\ \A j \in Ids \ {i} : t.save[j] = x.save[j]
    BY <1>7, UnloadIfEmptyDoes
  <1>9. RemovePlayer(s, p, i) = t
    BY <1>1, <1>4, <1>6, <1>7 DEF RemovePlayer, PutSave
  <1>10. ASSUME NEW m \in Maps, NEW j \in Ids
         PROVE  /\ \A q \in Players :
                     Lists(t, m, j, q) <=> Lists(s, m, j, q) /\ ~(j = i /\ q = p)
                /\ ListsGroup(t, m, j) <=> ListsGroup(s, m, j)
    <2>1. /\ \A q \in Players : Lists(t, m, j, q) <=> Lists(x, m, j, q)
          /\ ListsGroup(t, m, j) <=> ListsGroup(x, m, j)
      BY <1>8 DEF SameLists
    <2>2. CASE j = i  BY <1>3, <1>5, <1>6, <2>1, <2>2 DEF Lists, ListsGroup
    <2>3. CASE j # i  BY <1>5, <1>6, <2>1, <2>3 DEF Lists, ListsGroup
    <2> QED  BY <2>2, <2>3
  <1>11. SamePlaces(s, t) /\ SameBinds(s, t)
    BY <1>6, <1>8 DEF SamePlaces, SameBinds
  <1>12. NoNewRows(s, t)  BY <1>6, <1>8 DEF NoNewRows
  <1>13. \A j \in Ids \ {i} : t.save[j] = s.save[j]  BY <1>5, <1>6, <1>8
  <1> QED  BY <1>8, <1>9, <1>10, <1>11, <1>12, <1>13

LEMMA RemoveGroupDoes ==
  ASSUME NEW s \in Managed, NEW i \in Ids
  PROVE  LET t == RemoveGroup(s, i) IN
         /\ t \in Managed /\ SamePlaces(s, t) /\ SameBinds(s, t) /\ NoNewRows(s, t)
         /\ \A m \in Maps, j \in Ids :
              /\ \A q \in Players : Lists(t, m, j, q) <=> Lists(s, m, j, q)
              /\ ListsGroup(t, m, j) <=> ListsGroup(s, m, j) /\ j # i
         /\ \A j \in Ids \ {i} : t.save[j] = s.save[j]
  <1>1. PICK v : v = [s.save[i] EXCEPT !.group = FALSE]  OBVIOUS
  <1>2. s.save[i] \in Saves  BY Fields
  <1>3. v \in Saves /\ v.map = s.save[i].map /\ v.players = s.save[i].players
        /\ v.group = FALSE
    BY <1>1, <1>2, SaveShrinks
  <1>4. PICK u : u = [s.save EXCEPT ![i] = v]  OBVIOUS
  <1>5. u \in [Ids -> Saves] /\ u[i] = v /\ \A j \in Ids \ {i} : u[j] = s.save[j]
    BY <1>3, <1>4, Fields
  <1>6. PICK x \in Managed :
           /\ x = PutSave(s, u) /\ x.save = u /\ SamePlaces(s, x) /\ SameBinds(s, x)
           /\ x.events = s.events /\ x.stored = s.stored
    BY <1>5, SavePut DEF SamePlaces, SameBinds
  <1>7. PICK t : t = UnloadIfEmpty(x, i)  OBVIOUS
  <1>8. /\ t \in Managed /\ SamePlaces(x, t) /\ SameBinds(x, t) /\ NoNewRows(x, t)
        /\ SameLists(x, t) /\ \A j \in Ids \ {i} : t.save[j] = x.save[j]
    BY <1>7, UnloadIfEmptyDoes
  <1>9. RemoveGroup(s, i) = t
    BY <1>1, <1>4, <1>6, <1>7 DEF RemoveGroup, PutSave
  <1>10. ASSUME NEW m \in Maps, NEW j \in Ids
         PROVE  /\ \A q \in Players : Lists(t, m, j, q) <=> Lists(s, m, j, q)
                /\ ListsGroup(t, m, j) <=> ListsGroup(s, m, j) /\ j # i
    <2>1. /\ \A q \in Players : Lists(t, m, j, q) <=> Lists(x, m, j, q)
          /\ ListsGroup(t, m, j) <=> ListsGroup(x, m, j)
      BY <1>8 DEF SameLists
    <2>2. CASE j = i  BY <1>3, <1>5, <1>6, <2>1, <2>2 DEF Lists, ListsGroup
    <2>3. CASE j # i  BY <1>5, <1>6, <2>1, <2>3 DEF Lists, ListsGroup
    <2> QED  BY <2>2, <2>3
  <1>11. SamePlaces(s, t) /\ SameBinds(s, t)
    BY <1>6, <1>8 DEF SamePlaces, SameBinds
  <1>12. NoNewRows(s, t)  BY <1>6, <1>8 DEF NoNewRows
  <1>13. \A j \in Ids \ {i} : t.save[j] = s.save[j]  BY <1>5, <1>6, <1>8
  <1> QED  BY <1>8, <1>9, <1>10, <1>11, <1>12, <1>13

LEMMA DeleteFromDBDoes ==
  ASSUME NEW s \in Managed, NEW i \in Ids
  PROVE  LET t == DeleteFromDB(s, i) IN
         /\ t \in Managed /\ SamePlaces(s, t) /\ SameBinds(s, t) /\ NoNewRows(s, t)
         /\ t.save = s.save /\ t.stored[i] = NoRow
  <1>1. PICK d : d = [s.stored EXCEPT ![i] = NoRow]  OBVIOUS
  <1>2. PICK r : r = [p \in Players |-> s.row[p] \ {i}]  OBVIOUS
  <1>3. PICK g : g = s.groupRow \ {i}  OBVIOUS
  <1>4. /\ d \in [Ids -> Rows] /\ d[i] = NoRow
        /\ \A j \in Ids : s.stored[j] = NoRow => d[j] = NoRow
    BY <1>1, Fields, RowIs
  <1>5. r \in [Players -> SUBSET Ids] /\ g \in SUBSET Ids  BY <1>2, <1>3, Fields
  <1>6. PICK x \in Managed :
           /\ x = PutStored(s, d) /\ x.stored = d /\ x.save = s.save
           /\ SamePlaces(s, x) /\ SameBinds(s, x)
           /\ x.events = s.events /\ x.row = s.row /\ x.groupRow = s.groupRow
    BY <1>4, StoredPut DEF SamePlaces, SameBinds
  <1>7. PICK y \in Managed :
           /\ y = PutRow(x, r) /\ y.stored = d /\ y.save = s.save
           /\ SamePlaces(s, y) /\ SameBinds(s, y)
           /\ y.events = s.events /\ y.groupRow = s.groupRow
    BY <1>5, <1>6, RowPut DEF SamePlaces, SameBinds
  <1>8. PICK t \in Managed :
           /\ t = PutGroupRow(y, g) /\ t.stored = d /\ t.save = s.save
           /\ SamePlaces(s, t) /\ SameBinds(s, t) /\ t.events = s.events
    BY <1>5, <1>7, GroupRowPut DEF SamePlaces, SameBinds
  <1>9. DeleteFromDB(s, i) = t
    BY <1>1, <1>2, <1>3, <1>6, <1>7, <1>8 DEF DeleteFromDB, PutStored, PutRow, PutGroupRow
  <1>10. NoNewRows(s, t)  BY <1>4, <1>8 DEF NoNewRows
  <1> QED  BY <1>4, <1>8, <1>9, <1>10

-----------------------------------------------------------------------------
(***************************************************************************)
(* The queue of resets.                                                    *)
(***************************************************************************)
LEMMA LeastNatural ==
  ASSUME NEW S, S \subseteq Nat, S # {}
  PROVE  Min(S) \in S /\ \A n \in S : Min(S) <= n
  <1>1. PICK m \in S : \A n \in S : <<n, m>> \notin OpToRel(<, Nat)
    BY WFMin, NatLessThanWellFounded, Zenon
  <1>2. \A n \in S : m \in Nat /\ n \in Nat /\ ~(n < m)
    BY <1>1, Zenon DEF OpToRel
  <1>3. \E x \in S : \A n \in S : x <= n  BY <1>2
  <1> QED  BY <1>3 DEF Min

LEMMA FromIs ==
  ASSUME NEW q \in Seq(Events), NEW t \in Nat
  PROVE  /\ From(q, t) \in 1 .. Len(q) + 1
         /\ From(q, t) \in DOMAIN q => q[From(q, t)].at >= t
         /\ \A n \in 1 .. From(q, t) - 1 : ~(q[n].at >= t)
  <1> DEFINE S == {n \in 1 .. Len(q) + 1 : n \in DOMAIN q => q[n].at >= t}
  <1>1. Len(q) + 1 \in S  OBVIOUS
  <1>2. S \subseteq Nat /\ S # {}  BY <1>1
  <1>3. Min(S) \in S /\ \A n \in S : Min(S) <= n  BY <1>2, LeastNatural
  <1>4. From(q, t) = Min(S)  BY DEF From
  <1>5. PICK f : f = From(q, t)  OBVIOUS
  <1>6. f \in S /\ \A n \in S : f <= n  BY <1>3, <1>4, <1>5
  <1>7. ASSUME NEW n \in 1 .. f - 1 PROVE ~(q[n].at >= t)
    <2>1. n \in 1 .. Len(q) + 1 /\ ~(f <= n)  BY <1>6
    <2>2. n \notin S  BY <1>6, <2>1
    <2> QED  BY <2>1, <2>2
  <1> QED  BY <1>5, <1>6, <1>7

\* An event that is queued stays; e comes to stand somewhere.
LEMMA ScheduledAdds ==
  ASSUME NEW q \in Seq(Events), NEW e \in Events
  PROVE  /\ Scheduled(q, e) \in Seq(Events)
         /\ \A n \in DOMAIN q : \E l \in DOMAIN Scheduled(q, e) : Scheduled(q, e)[l] = q[n]
         /\ \E l \in DOMAIN Scheduled(q, e) : Scheduled(q, e)[l] = e
  <1>0. e.at \in Nat  BY DEF Events
  <1>1. PICK f \in 1 .. Len(q) + 1 : f = From(q, e.at + 1)
    <2>1. PICK t \in Nat : t = e.at + 1  BY <1>0
    <2>2. From(q, t) \in 1 .. Len(q) + 1  BY FromIs
    <2> QED  BY <2>1, <2>2
  <1>2. PICK x : x = SubSeq(q, 1, f - 1)  OBVIOUS
  <1>3. PICK y : y = SubSeq(q, f, Len(q))  OBVIOUS
  <1>4. x \in Seq(Events) /\ Len(x) = f - 1 /\ \A n \in 1 .. f - 1 : x[n] = q[n]
    <2>1. \A i \in 1 .. f - 1 : q[i] \in Events  OBVIOUS
    <2> QED  BY <1>2, <2>1, SubSeqProperties
  <1>5. /\ y \in Seq(Events) /\ Len(y) = Len(q) - f + 1
        /\ \A n \in 1 .. Len(q) - f + 1 : y[n] = q[f + n - 1]
    <2>1. \A i \in f .. Len(q) : q[i] \in Events  OBVIOUS
    <2> QED  BY <1>3, <2>1, SubSeqProperties
  <1>6. PICK z \in Seq(Events) : z = x \o <<e>>
    <2>1. x \o <<e>> \in Seq(Events)  BY <1>4, ConcatProperties
    <2> QED  BY <2>1
  <1>7. Len(z) = f /\ (\A n \in 1 .. f - 1 : z[n] = q[n]) /\ z[f] = e
    BY <1>4, <1>6
  <1>8. PICK r \in Seq(Events) : r = z \o y
    <2>1. z \o y \in Seq(Events)  BY <1>5, ConcatProperties
    <2> QED  BY <2>1
  <1>9. Len(r) = Len(q) + 1  BY <1>5, <1>7, <1>8
  <1>10. \A n \in 1 .. f : r[n] = z[n]  BY <1>5, <1>7, <1>8, <1>9
  <1>11. \A n \in 1 .. Len(q) - f + 1 : r[f + n] = y[n]  BY <1>5, <1>7, <1>8, <1>9
  <1>12. Scheduled(q, e) = r
    BY <1>1, <1>2, <1>3, <1>6, <1>8 DEF Scheduled, InsertAt
  <1>13. ASSUME NEW n \in DOMAIN q PROVE \E l \in DOMAIN r : r[l] = q[n]
    <2>1. CASE n < f
      <3>1. n \in 1 .. f - 1 /\ n \in DOMAIN r  BY <1>9, <2>1
      <3> QED  BY <1>7, <1>10, <3>1
    <2>2. CASE ~(n < f)
      <3>1. /\ (n - f) + 1 \in 1 .. Len(q) - f + 1
            /\ f + ((n - f) + 1) - 1 = n
            /\ f + ((n - f) + 1) \in DOMAIN r
        BY <1>9, <2>2
      <3> QED  BY <1>5, <1>11, <3>1
    <2> QED  BY <2>1, <2>2
  <1>14. f \in DOMAIN r /\ r[f] = e  BY <1>7, <1>9, <1>10
  <1> QED  BY <1>8, <1>12, <1>13, <1>14

RowsWait(s, t) ==
    \A i \in Ids :
        /\ IsQueued(s, i) => IsQueued(t, i)
        /\ t.stored[i] # NoRow => s.stored[i] # NoRow \/ IsQueued(t, i)

LEMMA RowsWaitOn ==
  /\ \A s, t : NoNewRows(s, t) => RowsWait(s, t)
  /\ \A s, t : RowsWait(s, t) /\ RowsQueued(s) => RowsQueued(t)
  /\ \A s, t, u : RowsWait(s, t) /\ RowsWait(t, u) => RowsWait(s, u)
  BY DEF NoNewRows, RowsWait, RowsQueued, IsQueued

LEMMA QueuePutWaits ==
  ASSUME NEW s \in Managed, NEW e \in Events
  PROVE  LET t == PutEvents(s, Scheduled(s.events, e)) IN
         /\ t \in Managed /\ SamePlaces(s, t) /\ SameBinds(s, t)
         /\ t.save = s.save /\ t.stored = s.stored
         /\ \A i \in Ids : IsQueued(s, i) => IsQueued(t, i)
         /\ IsQueued(t, e.id)
  <1>1. PICK q \in Seq(Events) : q = s.events  BY Fields
  <1>2. PICK r \in Seq(Events) : r = Scheduled(q, e)  BY ScheduledAdds
  <1>3. /\ \A n \in DOMAIN q : \E l \in DOMAIN r : r[l] = q[n]
        /\ \E l \in DOMAIN r : r[l] = e
    <2>1. /\ \A n \in DOMAIN q : \E l \in DOMAIN Scheduled(q, e) : Scheduled(q, e)[l] = q[n]
          /\ \E l \in DOMAIN Scheduled(q, e) : Scheduled(q, e)[l] = e
      BY ScheduledAdds
    <2> QED  BY <1>2, <2>1
  <1>4. PICK t \in Managed :
           /\ t = PutEvents(s, r) /\ t.events = r /\ SamePlaces(s, t) /\ SameBinds(s, t)
           /\ t.save = s.save /\ t.stored = s.stored
    BY <1>2, EventsPut DEF SamePlaces, SameBinds
  <1>5. \A i \in Ids : IsQueued(s, i) => IsQueued(t, i)
    BY <1>1, <1>3, <1>4 DEF IsQueued
  <1>6. IsQueued(t, e.id)  BY <1>3, <1>4 DEF IsQueued
  <1> QED  BY <1>1, <1>2, <1>4, <1>5, <1>6

LEMMA SetResetScheduleDoes ==
  ASSUME NEW s \in Managed, NEW k \in Keys
  PROVE  /\ HavePlayers(s, k) => SetResetSchedule(s, FALSE, k) = s
         /\ LET t == SetResetSchedule(s, TRUE, k) IN
            /\ t \in Managed /\ SamePlaces(s, t) /\ SameBinds(s, t) /\ RowsWait(s, t)
            /\ t.save = s.save
  <1>1. HavePlayers(s, k) => SetResetSchedule(s, FALSE, k) = s  BY DEF SetResetSchedule
  <1>2. CASE HavePlayers(s, k) \/ ~ Known(s, k[2])
    <2>1. SetResetSchedule(s, TRUE, k) = s  BY <1>2 DEF SetResetSchedule
    <2> QED  BY <1>1, <2>1 DEF SamePlaces, SameBinds, RowsWait
  <1>3. CASE ~(HavePlayers(s, k) \/ ~ Known(s, k[2]))
    <2>1. k[1] \in Maps /\ k[2] \in Ids  BY DEF Keys
    <2>2. s.save[k[2]] \in Saves /\ s.save[k[2]] # NoSave  BY <1>3, <2>1, Fields DEF Known
    <2>3. s.save[k[2]].reset \in Nat  BY <2>2, SaveIs
    <2>4. PICK e : e = [at |-> s.save[k[2]].reset, map |-> k[1], id |-> k[2]]  OBVIOUS
    <2>5. e \in Events  BY <2>1, <2>3, <2>4 DEF Events
    <2>6. PICK t : t = PutEvents(s, Scheduled(s.events, e))  OBVIOUS
    <2>7. SetResetSchedule(s, TRUE, k) = t
      BY <1>3, <2>4, <2>6 DEF SetResetSchedule, PutEvents
    <2>8. /\ t \in Managed /\ SamePlaces(s, t) /\ SameBinds(s, t)
          /\ t.save = s.save /\ t.stored = s.stored
          /\ \A i \in Ids : IsQueued(s, i) => IsQueued(t, i)
      BY <2>5, <2>6, QueuePutWaits
    <2> QED  BY <1>1, <2>7, <2>8 DEF RowsWait
  <1> QED  BY <1>2, <1>3

LEMMA AddInstanceSaveDoes ==
  ASSUME NEW s \in Managed, NEW m \in Maps, NEW i \in Ids, NEW reset \in Nat,
         NEW load \in BOOLEAN, now \in Nat
  PROVE  LET t == AddInstanceSave(s, m, i, reset, load) IN
         /\ t \in Managed /\ SamePlaces(s, t) /\ SameBinds(s, t) /\ RowsWait(s, t)
         /\ SameLists(s, t) /\ Known(t, i)
  <1>1. CASE Known(s, i)
    <2>1. AddInstanceSave(s, m, i, reset, load) = s  BY <1>1 DEF AddInstanceSave
    <2> QED  BY <1>1, <2>1 DEF SamePlaces, SameBinds, RowsWait, SameLists
  <1>2. CASE ~ Known(s, i)
    <2>1. PICK at \in Nat : at = IF load THEN reset ELSE now + Lifetime  OBVIOUS
    <2>2. PICK v : v = [map |-> m, reset |-> at, players |-> {}, group |-> FALSE,
                        canReset |-> TRUE]
      OBVIOUS
    <2>3. v \in Saves /\ v # NoSave /\ v.map = m /\ v.players = {} /\ v.group = FALSE
      <3>1. PICK ps \in SUBSET Players, g \in BOOLEAN, c \in BOOLEAN :
               ps = {} /\ g = FALSE /\ c = TRUE
        OBVIOUS
      <3>2. v = [map |-> m, reset |-> at, players |-> ps, group |-> g, canReset |-> c]
        BY <2>2, <3>1
      <3>3. v \in Saves /\ v # NoSave /\ v.map = m /\ v.players = ps /\ v.group = g
        BY <3>2, NewSave
      <3> QED  BY <3>1, <3>3
    <2>4. PICK u : u = [s.save EXCEPT ![i] = v]  OBVIOUS
    <2>5. u \in [Ids -> Saves] /\ u[i] = v /\ \A j \in Ids \ {i} : u[j] = s.save[j]
      BY <2>3, <2>4, Fields
    <2>6. PICK x \in Managed :
             /\ x = PutSave(s, u) /\ x.save = u /\ SamePlaces(s, x) /\ SameBinds(s, x)
             /\ x.events = s.events /\ x.stored = s.stored
      BY <2>5, SavePut DEF SamePlaces, SameBinds
    <2>7. PICK e : e = [at |-> at, map |-> m, id |-> i]  OBVIOUS
    <2>8. e \in Events /\ e.id = i  BY <2>7 DEF Events
    <2>9. PICK y : y = PutEvents(x, IF load THEN s.events ELSE Scheduled(s.events, e))
      OBVIOUS
    <2>10. /\ y \in Managed /\ y.save = u /\ SamePlaces(s, y) /\ SameBinds(s, y)
           /\ y.stored = s.stored
           /\ \A j \in Ids : IsQueued(s, j) => IsQueued(y, j)
           /\ ~ load => IsQueued(y, i)
      <3>1. CASE load
        <4>1. s.events \in Seq(Events)  BY Fields
        <4>2. y = PutEvents(x, s.events)  BY <2>9, <3>1
        <4> QED  BY <2>6, <3>1, <4>1, <4>2, EventsPut DEF SamePlaces, SameBinds, IsQueued
      <3>2. CASE ~ load
        <4>1. y = PutEvents(x, Scheduled(x.events, e))  BY <2>6, <2>9, <3>2
        <4>2. /\ y \in Managed /\ SamePlaces(x, y) /\ SameBinds(x, y)
              /\ y.save = x.save /\ y.stored = x.stored
              /\ \A j \in Ids : IsQueued(x, j) => IsQueued(y, j)
              /\ IsQueued(y, i)
          BY <2>6, <2>8, <4>1, QueuePutWaits
        <4>3. \A j \in Ids : IsQueued(s, j) => IsQueued(x, j)  BY <2>6 DEF IsQueued
        <4> QED  BY <2>6, <4>2, <4>3 DEF SamePlaces, SameBinds
      <3> QED  BY <3>1, <3>2
    <2>11. PICK r \in Rows : r = [map |-> m, reset |-> at]  BY NewRow
    <2>12. PICK d : d = [s.stored EXCEPT ![i] =
                            IF load \/ s.stored[i] # NoRow THEN s.stored[i] ELSE r]
      OBVIOUS
    <2>13. d \in [Ids -> Rows]  BY <2>12, Fields
    <2>14. \A j \in Ids : d[j] # NoRow => s.stored[j] # NoRow \/ (j = i /\ ~ load)
      BY <2>12, Fields
    <2>15. PICK t \in Managed :
              /\ t = PutStored(y, d) /\ t.save = u /\ t.stored = d /\ t.events = y.events
              /\ SamePlaces(s, t) /\ SameBinds(s, t)
      BY <2>10, <2>13, StoredPut DEF SamePlaces, SameBinds
    <2>16. AddInstanceSave(s, m, i, reset, load) = t
      BY <1>2, <2>1, <2>2, <2>4, <2>6, <2>7, <2>9, <2>10, <2>11, <2>12, <2>15
      DEF AddInstanceSave, PutSave, PutEvents, PutStored
    <2>17. RowsWait(s, t)  BY <2>10, <2>14, <2>15 DEF RowsWait, IsQueued
    <2>18. SameLists(s, t)
      <3> SUFFICES ASSUME NEW n \in Maps, NEW j \in Ids
                   PROVE  /\ \A q \in Players : Lists(t, n, j, q) <=> Lists(s, n, j, q)
                          /\ ListsGroup(t, n, j) <=> ListsGroup(s, n, j)
        BY DEF SameLists
      <3>1. s.save[i] = NoSave  BY <1>2 DEF Known
      <3>2. CASE j = i
        BY <2>3, <2>5, <2>15, <3>1, <3>2, NoSaveIs DEF Lists, ListsGroup
      <3>3. CASE j # i  BY <2>5, <2>15, <3>3 DEF Lists, ListsGroup
      <3> QED  BY <3>2, <3>3
    <2>19. Known(t, i)  BY <2>3, <2>5, <2>15 DEF Known
    <2> QED  BY <2>15, <2>16, <2>17, <2>18, <2>19
  <1> QED  BY <1>1, <1>2

-----------------------------------------------------------------------------
(***************************************************************************)
(* Binds: how the lists of the saves change with them.                     *)
(***************************************************************************)
\* The binds with that of p to an instance of m set to i.
Rebound(s, t, p, m, i) ==
    \A q \in Players, n \in Maps :
        t.bind[q][n] = IF q = p /\ n = m THEN i ELSE s.bind[q][n]

LEMMA BindChanges ==
  ASSUME NEW s \in Managed, NEW p \in Players, NEW m \in Maps, NEW i \in {0} \cup Ids
  PROVE  LET b == [s.bind EXCEPT ![p] = [s.bind[p] EXCEPT ![m] = i]] IN
         /\ b \in [Players -> [Maps -> {0} \cup Ids]]
         /\ \A q \in Players, n \in Maps :
              b[q][n] = IF q = p /\ n = m THEN i ELSE s.bind[q][n]
  <1>1. PICK b0 : b0 = s.bind  OBVIOUS
  <1>2. b0 \in [Players -> [Maps -> {0} \cup Ids]]  BY <1>1, Fields
  <1>3. PICK c : c = [b0[p] EXCEPT ![m] = i]  OBVIOUS
  <1>4. /\ c \in [Maps -> {0} \cup Ids]
        /\ \A n \in Maps : c[n] = IF n = m THEN i ELSE b0[p][n]
    BY <1>2, <1>3
  <1>5. PICK b : b = [b0 EXCEPT ![p] = c]  OBVIOUS
  <1>6. b \in [Players -> [Maps -> {0} \cup Ids]]  BY <1>2, <1>4, <1>5
  <1>7. \A q \in Players : b[q] = IF q = p THEN c ELSE b0[q]  BY <1>2, <1>5
  <1> QED  BY <1>1, <1>3, <1>4, <1>5, <1>6, <1>7

LEMMA BindTypes ==
  ASSUME NEW s \in Managed, NEW p \in Players, NEW m \in Maps
  PROVE  s.bind[p][m] \in {0} \cup Ids /\ s.groupBind[m] \in {0} \cup Ids /\ 0 \notin Ids
  <1>1. s.bind[p] \in [Maps -> {0} \cup Ids]  BY Fields
  <1>2. 0 \notin Ids  BY DEF Ids
  <1> QED  BY <1>1, <1>2, Fields

\* p's bind to the instance i of m ends: both ends are gone.
LEMMA BindEnds ==
  ASSUME NEW s \in Managed, NEW x \in Managed, Agree(s),
         NEW p \in Players, NEW m \in Maps, NEW i \in Ids, s.bind[p][m] = i,
         x.save = s.save, x.groupBind = s.groupBind, Rebound(s, x, p, m, 0)
  PROVE  Agree(RemovePlayer(x, p, i))
  <1>1. PICK t : t = RemovePlayer(x, p, i)  OBVIOUS
  <1>2. /\ SameBinds(x, t)
        /\ \A n \in Maps, j \in Ids :
             /\ \A q \in Players :
                  Lists(t, n, j, q) <=> Lists(x, n, j, q) /\ ~(j = i /\ q = p)
             /\ ListsGroup(t, n, j) <=> ListsGroup(x, n, j)
    BY <1>1, RemovePlayerDoes
  <1>3. /\ \A n \in Maps, j \in Ids, q \in Players : Lists(x, n, j, q) <=> Lists(s, n, j, q)
        /\ \A n \in Maps, j \in Ids : ListsGroup(x, n, j) <=> ListsGroup(s, n, j)
    BY DEF Lists, ListsGroup
  <1>4. ASSUME NEW n \in Maps, NEW j \in Ids, NEW q \in Players
        PROVE  (t.bind[q][n] = j) <=> Lists(t, n, j, q)
    <2>1. (s.bind[q][n] = j) <=> Lists(s, n, j, q)  BY DEF Agree
    <2>2. t.bind[q][n] = IF q = p /\ n = m THEN 0 ELSE s.bind[q][n]
      BY <1>2 DEF SameBinds, Rebound
    <2>3. Lists(t, n, j, q) <=> Lists(s, n, j, q) /\ ~(j = i /\ q = p)  BY <1>2, <1>3
    <2>4. CASE q = p /\ n = m  BY <2>1, <2>2, <2>3, <2>4, BindTypes
    <2>5. CASE q = p /\ n # m
      <3>1. Lists(s, m, i, p)  BY DEF Agree
      <3>2. ~ Lists(s, n, i, p)  BY <2>5, <3>1 DEF Lists
      <3> QED  BY <2>1, <2>2, <2>3, <2>5, <3>2
    <2>6. CASE q # p  BY <2>1, <2>2, <2>3, <2>6
    <2> QED  BY <2>4, <2>5, <2>6
  <1>5. ASSUME NEW n \in Maps, NEW j \in Ids
        PROVE  (t.groupBind[n] = j) <=> ListsGroup(t, n, j)
    BY <1>2, <1>3 DEF Agree, SameBinds
  <1> QED  BY <1>1, <1>4, <1>5 DEF Agree

LEMMA UnbindPlayerDoes ==
  ASSUME NEW s \in Managed, Agree(s), NEW p \in Players, NEW m \in Maps
  PROVE  LET t == UnbindPlayer(s, p, m) IN
         /\ t \in Managed /\ SamePlaces(s, t) /\ NoNewRows(s, t) /\ Agree(t)
         /\ Rebound(s, t, p, m, 0) /\ t.groupBind = s.groupBind
  <1>1. PICK i : i = s.bind[p][m]  OBVIOUS
  <1>2. i \in {0} \cup Ids  BY <1>1, BindTypes
  <1>3. CASE i = 0
    <2>1. UnbindPlayer(s, p, m) = s  BY <1>1, <1>3 DEF UnbindPlayer
    <2> QED  BY <1>1, <1>3, <2>1 DEF SamePlaces, NoNewRows, Rebound
  <1>4. CASE i # 0
    <2>1. PICK b : b = [s.bind EXCEPT ![p] = [s.bind[p] EXCEPT ![m] = 0]]  OBVIOUS
    <2>2. /\ b \in [Players -> [Maps -> {0} \cup Ids]]
          /\ \A q \in Players, n \in Maps :
               b[q][n] = IF q = p /\ n = m THEN 0 ELSE s.bind[q][n]
      BY <2>1, BindChanges
    <2>3. PICK x \in Managed :
             /\ x = PutBind(s, b) /\ x.bind = b /\ SamePlaces(s, x)
             /\ x.groupBind = s.groupBind /\ x.save = s.save
             /\ x.events = s.events /\ x.stored = s.stored /\ x.row = s.row
      BY <2>2, BindPut DEF SamePlaces
    <2>4. PICK r : r = [s.row EXCEPT ![p] = s.row[p] \ {i}]  OBVIOUS
    <2>5. r \in [Players -> SUBSET Ids]  BY <2>4, Fields
    <2>6. PICK y \in Managed :
             /\ y = PutRow(x, r) /\ y.bind = b /\ SamePlaces(s, y)
             /\ y.groupBind = s.groupBind /\ y.save = s.save
             /\ y.events = s.events /\ y.stored = s.stored
      BY <2>3, <2>5, RowPut DEF SamePlaces
    <2>7. UnbindPlayer(s, p, m) = RemovePlayer(y, p, i)
      BY <1>1, <1>4, <2>1, <2>3, <2>4, <2>6 DEF UnbindPlayer, PutBind, PutRow
    <2>8. Rebound(s, y, p, m, 0)  BY <2>2, <2>6 DEF Rebound
    <2>9. i \in Ids  BY <1>2, <1>4
    <2>10. Agree(RemovePlayer(y, p, i))  BY <1>1, <2>6, <2>8, <2>9, BindEnds
    <2>11. PICK t : t = RemovePlayer(y, p, i)  OBVIOUS
    <2>12. t \in Managed /\ SamePlaces(y, t) /\ SameBinds(y, t) /\ NoNewRows(y, t)
      BY <2>9, <2>11, RemovePlayerDoes
    <2>13. SamePlaces(s, t) /\ NoNewRows(s, t) /\ t.groupBind = s.groupBind
      BY <2>6, <2>12 DEF SamePlaces, SameBinds, NoNewRows
    <2>14. Rebound(s, t, p, m, 0)  BY <2>8, <2>12 DEF Rebound, SameBinds
    <2> QED  BY <2>7, <2>10, <2>11, <2>12, <2>13, <2>14
  <1> QED  BY <1>3, <1>4

LEMMA SaveGrows ==
  ASSUME NEW v \in Saves, v # NoSave, NEW p \in Players
  PROVE  LET x == [v EXCEPT !.players = v.players \cup {p}]
             y == [v EXCEPT !.group = TRUE]
         IN  /\ x \in Saves /\ x.map = v.map /\ x.players = v.players \cup {p}
             /\ x.group = v.group
             /\ y \in Saves /\ y.map = v.map /\ y.players = v.players /\ y.group = TRUE
  <1>1. v \in [map : Maps, reset : Nat, players : SUBSET Players, group : BOOLEAN,
             canReset : BOOLEAN]
    BY DEF Saves
  <1> QED  BY <1>1 DEF Saves

\* The instance i of m takes the place of old, which is another one or none.
LEMMA BindBegins ==
  ASSUME NEW s, NEW t, Agree(s), s \in Managed,
         NEW p \in Players, NEW m \in Maps, NEW i \in Ids, s.save[i].map = m,
         Rebound(s, t, p, m, i), t.groupBind = s.groupBind,
         \A n \in Maps, j \in Ids :
           /\ \A q \in Players :
                Lists(t, n, j, q) <=> \/ Lists(s, n, j, q) /\ ~(j = s.bind[p][m] /\ q = p)
                                      \/ n = m /\ j = i /\ q = p
           /\ ListsGroup(t, n, j) <=> ListsGroup(s, n, j)
  PROVE  Agree(t)
  <1>1. ASSUME NEW n \in Maps, NEW j \in Ids, NEW q \in Players
        PROVE  (t.bind[q][n] = j) <=> Lists(t, n, j, q)
    <2>1. (s.bind[q][n] = j) <=> Lists(s, n, j, q)  BY DEF Agree
    <2>2. t.bind[q][n] = IF q = p /\ n = m THEN i ELSE s.bind[q][n]  BY DEF Rebound
    <2>3. Lists(t, n, j, q) <=> \/ Lists(s, n, j, q) /\ ~(j = s.bind[p][m] /\ q = p)
                                \/ n = m /\ j = i /\ q = p
      OBVIOUS
    <2>4. CASE q = p /\ n = m  BY <2>1, <2>2, <2>3, <2>4
    <2>5. CASE q = p /\ n # m
      <3>1. j = s.bind[p][m] => Lists(s, m, j, p)  BY DEF Agree
      <3>2. ~(Lists(s, n, j, p) /\ Lists(s, m, j, p))  BY <2>5 DEF Lists
      <3> QED  BY <2>1, <2>2, <2>3, <2>5, <3>1, <3>2
    <2>6. CASE q # p  BY <2>1, <2>2, <2>3, <2>6
    <2> QED  BY <2>4, <2>5, <2>6
  <1>2. ASSUME NEW n \in Maps, NEW j \in Ids
        PROVE  (t.groupBind[n] = j) <=> ListsGroup(t, n, j)
    BY DEF Agree
  <1> QED  BY <1>1, <1>2 DEF Agree

\* BindPlayer with names for its parts.
OldBind(s, p, i) == s.bind[p][s.save[i].map]
Freed(s, p, i) ==
    IF OldBind(s, p, i) \in {0, i} THEN s ELSE RemovePlayer(s, p, OldBind(s, p, i))
NewRows(s, p, i, load) ==
    IF load \/ OldBind(s, p, i) = i THEN s.row[p]
    ELSE IF OldBind(s, p, i) = 0 THEN s.row[p] \cup {i}
    ELSE {IF j = OldBind(s, p, i) THEN i ELSE j : j \in s.row[p]}

LEMMA BindPlayerIs ==
  ASSUME NEW s, NEW p, NEW i, NEW load
  PROVE  BindPlayer(s, p, i, load) =
           [Freed(s, p, i) EXCEPT !.save[i].players = @ \cup {p},
                                  !.bind[p][s.save[i].map] = i,
                                  !.row[p] = NewRows(s, p, i, load)]
  BY DEF BindPlayer, Freed, NewRows, OldBind

LEMMA BindPlayerDoes ==
  ASSUME NEW s \in Managed, Agree(s), NEW p \in Players, NEW i \in Ids, Known(s, i),
         NEW load \in BOOLEAN
  PROVE  LET t == BindPlayer(s, p, i, load) IN
         /\ t \in Managed /\ SamePlaces(s, t) /\ NoNewRows(s, t) /\ Agree(t)
         /\ t.groupBind = s.groupBind
  <1>1. PICK m : m = s.save[i].map  OBVIOUS
  <1>2. s.save[i] \in Saves /\ s.save[i] # NoSave  BY Fields DEF Known
  <1>3. m \in Maps  BY <1>1, <1>2, SaveIs
  <1>4. PICK old \in {0} \cup Ids : old = OldBind(s, p, i) /\ old = s.bind[p][m]
    BY <1>1, <1>3, BindTypes DEF OldBind
  <1>5. PICK f : f = Freed(s, p, i) /\ f = IF old \in {0, i} THEN s ELSE RemovePlayer(s, p, old)
    BY <1>4 DEF Freed
  <1>6. /\ f \in Managed /\ SamePlaces(s, f) /\ SameBinds(s, f) /\ NoNewRows(s, f)
        /\ f.save[i] = s.save[i]
        /\ \A n \in Maps, j \in Ids \ {i} :
             /\ \A q \in Players :
                  Lists(f, n, j, q) <=> Lists(s, n, j, q) /\ ~(j = old /\ q = p)
             /\ ListsGroup(f, n, j) <=> ListsGroup(s, n, j)
    <2>1. CASE old \in {0, i}
      <3>1. f = s  BY <1>5, <2>1
      <3>2. \A j \in Ids \ {i} : j # old  BY <2>1 DEF Ids
      <3> QED  BY <3>1, <3>2 DEF SamePlaces, SameBinds, NoNewRows
    <2>2. CASE old \notin {0, i}
      <3>1. f = RemovePlayer(s, p, old) /\ old \in Ids /\ i \in Ids \ {old}
        BY <1>5, <2>2
      <3> QED  BY <3>1, RemovePlayerDoes
    <2> QED  BY <2>1, <2>2
  <1>7. PICK v : v = [f.save[i] EXCEPT !.players = f.save[i].players \cup {p}]  OBVIOUS
  <1>8. /\ v \in Saves /\ v.map = m /\ v.players = s.save[i].players \cup {p}
        /\ v.group = s.save[i].group
    <2>1. PICK w \in Saves : w = s.save[i] /\ w # NoSave  BY <1>2
    <2>2. v = [w EXCEPT !.players = w.players \cup {p}]  BY <1>6, <1>7, <2>1
    <2>3. LET x == [w EXCEPT !.players = w.players \cup {p}] IN
          x \in Saves /\ x.map = w.map /\ x.players = w.players \cup {p} /\ x.group = w.group
      BY <2>1, SaveGrows
    <2> QED  BY <1>1, <2>1, <2>2, <2>3
  <1>9. PICK u : u = [f.save EXCEPT ![i] = v]  OBVIOUS
  <1>10. u \in [Ids -> Saves] /\ u[i] = v /\ \A j \in Ids \ {i} : u[j] = f.save[j]
    BY <1>6, <1>8, <1>9, Fields
  <1>11. PICK x \in Managed :
            /\ x = PutSave(f, u) /\ x.save = u /\ SamePlaces(f, x) /\ SameBinds(f, x)
            /\ x.events = f.events /\ x.stored = f.stored /\ x.row = f.row
    BY <1>6, <1>10, SavePut DEF SamePlaces, SameBinds
  <1>12. PICK b : b = [x.bind EXCEPT ![p] = [x.bind[p] EXCEPT ![m] = i]]  OBVIOUS
  <1>13. /\ b \in [Players -> [Maps -> {0} \cup Ids]]
         /\ \A q \in Players, n \in Maps :
              b[q][n] = IF q = p /\ n = m THEN i ELSE x.bind[q][n]
    BY <1>3, <1>12, BindChanges
  <1>14. PICK y \in Managed :
            /\ y = PutBind(x, b) /\ y.bind = b /\ y.save = u /\ SamePlaces(f, y)
            /\ y.groupBind = f.groupBind /\ y.row = f.row
            /\ y.events = f.events /\ y.stored = f.stored
    BY <1>11, <1>13, BindPut DEF SamePlaces, SameBinds
  <1>15. PICK rows : rows = NewRows(s, p, i, load)  OBVIOUS
  <1>16. rows \in SUBSET Ids
    <2>1. s.row[p] \in SUBSET Ids  BY Fields
    <2> QED  BY <1>15, <2>1 DEF NewRows
  <1>17. PICK r : r = [y.row EXCEPT ![p] = rows]  OBVIOUS
  <1>18. r \in [Players -> SUBSET Ids]  BY <1>16, <1>17, Fields
  <1>19. PICK t \in Managed :
            /\ t = PutRow(y, r) /\ t.bind = b /\ t.save = u /\ SamePlaces(f, t)
            /\ t.groupBind = f.groupBind /\ t.events = f.events /\ t.stored = f.stored
    BY <1>14, <1>18, RowPut DEF SamePlaces
  <1>20. BindPlayer(s, p, i, load) = t
    <2>1. BindPlayer(s, p, i, load) =
             [f EXCEPT !.save[i].players = @ \cup {p}, !.bind[p][m] = i, !.row[p] = rows]
      BY <1>1, <1>5, <1>15, BindPlayerIs
    <2>2. t = [f EXCEPT !.save[i].players = @ \cup {p}, !.bind[p][m] = i, !.row[p] = rows]
      BY <1>7, <1>9, <1>11, <1>12, <1>14, <1>17, <1>19 DEF PutSave, PutBind, PutRow
    <2> QED  BY <2>1, <2>2
  <1>21. SamePlaces(s, t) /\ NoNewRows(s, t) /\ t.groupBind = s.groupBind
    BY <1>6, <1>19 DEF SamePlaces, SameBinds, NoNewRows
  <1>22. Rebound(s, t, p, m, i)
    BY <1>6, <1>11, <1>13, <1>19 DEF Rebound, SameBinds
  <1>23. ASSUME NEW n \in Maps, NEW j \in Ids
         PROVE  /\ \A q \in Players :
                     Lists(t, n, j, q) <=> \/ Lists(s, n, j, q) /\ ~(j = old /\ q = p)
                                           \/ n = m /\ j = i /\ q = p
                /\ ListsGroup(t, n, j) <=> ListsGroup(s, n, j)
    <2>1. CASE j = i
      BY <1>1, <1>8, <1>10, <1>19, <2>1 DEF Lists, ListsGroup
    <2>2. CASE j # i
      <3>1. t.save[j] = f.save[j]  BY <1>10, <1>19, <2>2
      <3>2. /\ \A q \in Players : Lists(t, n, j, q) <=> Lists(f, n, j, q)
            /\ ListsGroup(t, n, j) <=> ListsGroup(f, n, j)
        BY <3>1 DEF Lists, ListsGroup
      <3> QED  BY <1>6, <2>2, <3>2
    <2> QED  BY <2>1, <2>2
  <1>24. Agree(t)  BY <1>1, <1>3, <1>4, <1>21, <1>22, <1>23, BindBegins
  <1> QED  BY <1>19, <1>20, <1>21, <1>24

OldGroupBind(s, i) == s.groupBind[s.save[i].map]
FreedOfGroup(s, i) ==
    IF OldGroupBind(s, i) \in {0, i} THEN s ELSE RemoveGroup(s, OldGroupBind(s, i))

LEMMA BindGroupIs ==
  ASSUME NEW s, NEW i, NEW load
  PROVE  BindGroup(s, i, load) =
           [FreedOfGroup(s, i) EXCEPT !.save[i].group = TRUE,
                                      !.groupBind[s.save[i].map] = i,
                                      !.groupRow = IF load THEN @ ELSE @ \cup {i}]
  BY DEF BindGroup, FreedOfGroup, OldGroupBind

LEMMA GroupBindBegins ==
  ASSUME NEW s, NEW t, Agree(s), s \in Managed,
         NEW m \in Maps, NEW i \in Ids, s.save[i].map = m, t.bind = s.bind,
         \A n \in Maps : t.groupBind[n] = IF n = m THEN i ELSE s.groupBind[n],
         \A n \in Maps, j \in Ids :
           /\ \A q \in Players : Lists(t, n, j, q) <=> Lists(s, n, j, q)
           /\ ListsGroup(t, n, j) <=> \/ ListsGroup(s, n, j) /\ j # s.groupBind[m]
                                      \/ n = m /\ j = i
  PROVE  Agree(t)
  <1>1. ASSUME NEW n \in Maps, NEW j \in Ids
        PROVE  (t.groupBind[n] = j) <=> ListsGroup(t, n, j)
    <2>1. (s.groupBind[n] = j) <=> ListsGroup(s, n, j)  BY DEF Agree
    <2>2. CASE n = m  BY <2>1, <2>2
    <2>3. CASE n # m
      <3>1. j = s.groupBind[m] => ListsGroup(s, m, j)  BY DEF Agree
      <3>2. ~(ListsGroup(s, n, j) /\ ListsGroup(s, m, j))  BY <2>3 DEF ListsGroup
      <3> QED  BY <2>1, <2>3, <3>1, <3>2
    <2> QED  BY <2>2, <2>3
  <1>2. ASSUME NEW n \in Maps, NEW j \in Ids, NEW q \in Players
        PROVE  (t.bind[q][n] = j) <=> Lists(t, n, j, q)
    BY DEF Agree
  <1> QED  BY <1>1, <1>2 DEF Agree

LEMMA BindGroupDoes ==
  ASSUME NEW s \in Managed, Agree(s), NEW i \in Ids, Known(s, i), NEW load \in BOOLEAN
  PROVE  LET t == BindGroup(s, i, load) IN
         /\ t \in Managed /\ SamePlaces(s, t) /\ NoNewRows(s, t) /\ Agree(t)
         /\ t.bind = s.bind
  <1>1. PICK m : m = s.save[i].map  OBVIOUS
  <1>2. s.save[i] \in Saves /\ s.save[i] # NoSave  BY Fields DEF Known
  <1>3. m \in Maps  BY <1>1, <1>2, SaveIs
  <1>4. PICK old \in {0} \cup Ids : old = OldGroupBind(s, i) /\ old = s.groupBind[m]
    <2>1. s.groupBind[m] \in {0} \cup Ids  BY <1>3, Fields
    <2> QED  BY <1>1, <2>1 DEF OldGroupBind
  <1>5. PICK f : f = FreedOfGroup(s, i) /\ f = IF old \in {0, i} THEN s ELSE RemoveGroup(s, old)
    BY <1>4 DEF FreedOfGroup
  <1>6. /\ f \in Managed /\ SamePlaces(s, f) /\ SameBinds(s, f) /\ NoNewRows(s, f)
        /\ f.save[i] = s.save[i]
        /\ \A n \in Maps, j \in Ids \ {i} :
             /\ \A q \in Players : Lists(f, n, j, q) <=> Lists(s, n, j, q)
             /\ ListsGroup(f, n, j) <=> ListsGroup(s, n, j) /\ j # old
    <2>1. CASE old \in {0, i}
      <3>1. f = s  BY <1>5, <2>1
      <3>2. \A j \in Ids \ {i} : j # old  BY <2>1 DEF Ids
      <3> QED  BY <3>1, <3>2 DEF SamePlaces, SameBinds, NoNewRows
    <2>2. CASE old \notin {0, i}
      <3>1. f = RemoveGroup(s, old) /\ old \in Ids /\ i \in Ids \ {old}
        BY <1>5, <2>2
      <3> QED  BY <3>1, RemoveGroupDoes
    <2> QED  BY <2>1, <2>2
  <1>7. PICK v : v = [f.save[i] EXCEPT !.group = TRUE]  OBVIOUS
  <1>8. /\ v \in Saves /\ v.map = m /\ v.players = s.save[i].players /\ v.group = TRUE
    <2>1. PICK w \in Saves : w = s.save[i] /\ w # NoSave  BY <1>2
    <2>2. v = [w EXCEPT !.group = TRUE]  BY <1>6, <1>7, <2>1
    <2>3. LET y == [w EXCEPT !.group = TRUE] IN
          y \in Saves /\ y.map = w.map /\ y.players = w.players /\ y.group = TRUE
      <3>1. w \in [map : Maps, reset : Nat, players : SUBSET Players, group : BOOLEAN,
             canReset : BOOLEAN]
        BY <2>1 DEF Saves
      <3> QED  BY <3>1 DEF Saves
    <2> QED  BY <1>1, <2>1, <2>2, <2>3
  <1>9. PICK u : u = [f.save EXCEPT ![i] = v]  OBVIOUS
  <1>10. u \in [Ids -> Saves] /\ u[i] = v /\ \A j \in Ids \ {i} : u[j] = f.save[j]
    BY <1>6, <1>8, <1>9, Fields
  <1>11. PICK x \in Managed :
            /\ x = PutSave(f, u) /\ x.save = u /\ SamePlaces(f, x) /\ SameBinds(f, x)
            /\ x.events = f.events /\ x.stored = f.stored
    BY <1>6, <1>10, SavePut DEF SamePlaces, SameBinds
  <1>12. PICK b : b = [x.groupBind EXCEPT ![m] = i]  OBVIOUS
  <1>13. /\ b \in [Maps -> {0} \cup Ids]
         /\ \A n \in Maps : b[n] = IF n = m THEN i ELSE x.groupBind[n]
    BY <1>3, <1>12, Fields
  <1>14. PICK y \in Managed :
            /\ y = PutGroupBind(x, b) /\ y.groupBind = b /\ y.save = u /\ SamePlaces(f, y)
            /\ y.bind = f.bind /\ y.events = f.events /\ y.stored = f.stored
    BY <1>11, <1>13, GroupBindPut DEF SamePlaces, SameBinds
  <1>15. PICK r : r = IF load THEN y.groupRow ELSE y.groupRow \cup {i}  OBVIOUS
  <1>16. r \in SUBSET Ids  BY <1>15, Fields
  <1>17. PICK t \in Managed :
            /\ t = PutGroupRow(y, r) /\ t.groupBind = b /\ t.save = u /\ SamePlaces(f, t)
            /\ t.bind = f.bind /\ t.events = f.events /\ t.stored = f.stored
    BY <1>14, <1>16, GroupRowPut DEF SamePlaces
  <1>18. BindGroup(s, i, load) = t
    <2>1. BindGroup(s, i, load) =
             [f EXCEPT !.save[i].group = TRUE, !.groupBind[m] = i,
                       !.groupRow = IF load THEN @ ELSE @ \cup {i}]
      BY <1>1, <1>5, BindGroupIs
    <2>2. t = [f EXCEPT !.save[i].group = TRUE, !.groupBind[m] = i,
                        !.groupRow = IF load THEN @ ELSE @ \cup {i}]
      BY <1>7, <1>9, <1>11, <1>12, <1>14, <1>15, <1>17
      DEF PutSave, PutGroupBind, PutGroupRow
    <2> QED  BY <2>1, <2>2
  <1>19. SamePlaces(s, t) /\ NoNewRows(s, t) /\ t.bind = s.bind
    BY <1>6, <1>17 DEF SamePlaces, SameBinds, NoNewRows
  <1>20. \A n \in Maps : t.groupBind[n] = IF n = m THEN i ELSE s.groupBind[n]
    BY <1>6, <1>11, <1>13, <1>17 DEF SameBinds
  <1>21. ASSUME NEW n \in Maps, NEW j \in Ids
         PROVE  /\ \A q \in Players : Lists(t, n, j, q) <=> Lists(s, n, j, q)
                /\ ListsGroup(t, n, j) <=> \/ ListsGroup(s, n, j) /\ j # old
                                           \/ n = m /\ j = i
    <2>1. CASE j = i
      BY <1>1, <1>8, <1>10, <1>17, <2>1 DEF Lists, ListsGroup
    <2>2. CASE j # i
      <3>1. t.save[j] = f.save[j]  BY <1>10, <1>17, <2>2
      <3>2. /\ \A q \in Players : Lists(t, n, j, q) <=> Lists(f, n, j, q)
            /\ ListsGroup(t, n, j) <=> ListsGroup(f, n, j)
        BY <3>1 DEF Lists, ListsGroup
      <3> QED  BY <1>6, <2>2, <3>2
    <2> QED  BY <2>1, <2>2
  <1>22. Agree(t)  BY <1>1, <1>3, <1>4, <1>19, <1>20, <1>21, GroupBindBegins
  <1> QED  BY <1>17, <1>18, <1>19, <1>22

-----------------------------------------------------------------------------
(***************************************************************************)
(* Resets.                                                                 *)
(***************************************************************************)
SameTables(s, t) ==
    t.save = s.save /\ SameBinds(s, t) /\ t.events = s.events /\ t.stored = s.stored

LEMMA TimerChanges ==
  ASSUME NEW s \in Managed, NEW k \in Keys, NEW x \in Timers
  PROVE  LET t == [s EXCEPT !.timer[k] = x] IN
         /\ t \in Managed /\ t.in = s.in /\ SameTables(s, t)
         /\ \A l \in Keys : t.timer[l] = IF l = k THEN x ELSE s.timer[l]
  <1>1. PICK v : v = [s.timer EXCEPT ![k] = x]  OBVIOUS
  <1>2. v \in [Keys -> Timers] /\ \A l \in Keys : v[l] = IF l = k THEN x ELSE s.timer[l]
    BY <1>1, Fields
  <1>3. PICK t \in Managed :
           t = PutTimer(s, v) /\ t.timer = v /\ t.in = s.in /\ SameTables(s, t)
    BY <1>2, TimerPut DEF SameTables, SameBinds
  <1>4. [s EXCEPT !.timer[k] = x] = t  BY <1>1, <1>3 DEF PutTimer
  <1>5. \A l \in Keys : t.timer[l] = IF l = k THEN x ELSE s.timer[l]  BY <1>2, <1>3
  <1>6. PICK u : u = [s EXCEPT !.timer[k] = x]  OBVIOUS
  <1>7. u \in Managed /\ u.in = s.in /\ SameTables(s, u)  BY <1>3, <1>4, <1>6
  <1>8. \A l \in Keys : u.timer[l] = IF l = k THEN x ELSE s.timer[l]  BY <1>4, <1>5, <1>6
  <1> QED  BY <1>6, <1>7, <1>8

LEMMA PlaceType ==
  ASSUME NEW s \in Managed, NEW p \in Players
  PROVE  s.in[p] # Outside => s.in[p] \in Keys /\ s.timer[s.in[p]] \in Timers
  BY Fields

LEMMA ResetDoes ==
  ASSUME NEW s \in Managed, NEW k \in Keys, NEW method
  PROVE  LET t == Reset(s, k, method) IN
         /\ t \in Managed /\ t.in = s.in /\ SameTables(s, t)
         /\ \A w : Housed(s, w) => Housed(t, w)
  <1>1. CASE Reset(s, k, method) = s  BY <1>1 DEF SameTables, SameBinds
  <1>2. CASE ~ HavePlayers(s, k) /\ Reset(s, k, method) = [s EXCEPT !.timer[k] = "soon"]
    <2>1. PICK t : t = [s EXCEPT !.timer[k] = "soon"]  OBVIOUS
    <2>2. "soon" \in Timers  BY DEF Timers
    <2>3. /\ t \in Managed /\ t.in = s.in /\ SameTables(s, t)
          /\ \A l \in Keys : t.timer[l] = IF l = k THEN "soon" ELSE s.timer[l]
      BY <2>1, <2>2, TimerChanges
    <2>4. \A p \in Players : s.in[p] # k  BY <1>2 DEF HavePlayers, Inside
    <2>5. \A p \in Players : s.in[p] # Outside => t.timer[t.in[p]] = s.timer[s.in[p]]
      BY <2>3, <2>4, PlaceType
    <2>6. ASSUME NEW w, Housed(s, w) PROVE Housed(t, w)  BY <2>3, <2>5, <2>6 DEF Housed
    <2> QED  BY <1>2, <2>1, <2>3, <2>6
  <1>3. CASE s.timer[k] = "off" /\ Reset(s, k, method) = [s EXCEPT !.timer[k] = "closing"]
    <2>1. PICK t : t = [s EXCEPT !.timer[k] = "closing"]  OBVIOUS
    <2>2. "closing" \in Timers  BY DEF Timers
    <2>3. /\ t \in Managed /\ t.in = s.in /\ SameTables(s, t)
          /\ \A l \in Keys : t.timer[l] = IF l = k THEN "closing" ELSE s.timer[l]
      BY <2>1, <2>2, TimerChanges
    <2>4. ASSUME NEW w, Housed(s, w) PROVE Housed(t, w)
      <3> SUFFICES ASSUME NEW p \in Players, t.in[p] # Outside
                   PROVE  /\ t.timer[t.in[p]] # "none"
                          /\ p \in w => t.timer[t.in[p]] \in {"off", "closing"}
        BY DEF Housed
      <3>1. s.in[p] \in Keys  BY <2>3, PlaceType
      <3> QED  BY <2>3, <2>4, <3>1 DEF Housed
    <2> QED  BY <1>3, <2>1, <2>3, <2>4
  <1> QED  BY <1>1, <1>2, <1>3 DEF Reset

\* What a step of a reset or of a conversion keeps.
Follows(s, t) ==
    /\ t \in Managed /\ Agree(t) /\ t.in = s.in
    /\ RowsWait(s, t)
    /\ \A w : Housed(s, w) => Housed(t, w)

BindsElse(s, t, p, m) ==
    \A q \in Players, n \in Maps : (q # p \/ n # m) => t.bind[q][n] = s.bind[q][n]

LEMMA FollowsOn ==
  /\ \A s, t, u : Follows(s, t) /\ Follows(t, u) => Follows(s, u)
  /\ \A s : s \in Managed /\ Agree(s) => Follows(s, s)
  /\ \A s, t : /\ t \in Managed /\ Agree(t) /\ SamePlaces(s, t) /\ NoNewRows(s, t)
               => Follows(s, t)
  /\ \A s, t, w : Follows(s, t) /\ Good(s, w) => Good(t, w)
  <1>1. ASSUME NEW s, NEW t, NEW u, Follows(s, t), Follows(t, u) PROVE Follows(s, u)
    BY <1>1, RowsWaitOn DEF Follows
  <1>2. ASSUME NEW s, s \in Managed, Agree(s) PROVE Follows(s, s)
    BY <1>2 DEF Follows, RowsWait
  <1>3. ASSUME NEW s, NEW t, t \in Managed, Agree(t), SamePlaces(s, t), NoNewRows(s, t)
        PROVE  Follows(s, t)
    <2>1. \A w : Housed(s, w) => Housed(t, w)  BY <1>3, PlacesKept
    <2>2. RowsWait(s, t)  BY <1>3, RowsWaitOn
    <2>3. t.in = s.in  BY <1>3 DEF SamePlaces
    <2> QED  BY <1>3, <2>1, <2>2, <2>3 DEF Follows
  <1>4. ASSUME NEW s, NEW t, NEW w, Follows(s, t), Good(s, w) PROVE Good(t, w)
    BY <1>4, RowsWaitOn DEF Follows, Good
  <1> QED  BY <1>1, <1>2, <1>3, <1>4

LEMMA ResetBindDoes ==
  ASSUME NEW s \in Managed, Agree(s), NEW p \in Players, NEW m \in Maps, NEW method,
         s.bind[p][m] # 0
  PROVE  LET t == ResetBind(s, p, m, method) IN
         Follows(s, t) /\ t.groupBind = s.groupBind /\ BindsElse(s, t, p, m)
  <1>1. PICK i \in Ids : i = s.bind[p][m]  BY BindTypes
  <1>2. PICK k \in Keys : k = <<m, i>>  BY DEF Keys
  <1>3. PICK x : x = Reset(s, k, method)  OBVIOUS
  <1>4. /\ x \in Managed /\ x.in = s.in /\ SameTables(s, x)
        /\ \A w : Housed(s, w) => Housed(x, w)
    BY <1>3, ResetDoes
  <1>5. Agree(x)  BY <1>4 DEF SameTables, SameBinds, Agree, Lists, ListsGroup
  <1>6. Follows(s, x) /\ x.groupBind = s.groupBind /\ x.bind = s.bind
    BY <1>4, <1>5 DEF Follows, RowsWait, SameTables, IsQueued, SameBinds
  <1>7. CASE HavePlayers(s, k)
    <2>1. ResetBind(s, p, m, method) \in {s, x}
      BY <1>1, <1>2, <1>3, <1>7 DEF ResetBind
    <2>2. Follows(s, s)  BY FollowsOn
    <2> QED  BY <1>6, <2>1, <2>2 DEF BindsElse
  <1>9. CASE ~ s.save[i].canReset
    <2>1. ResetBind(s, p, m, method) = s  BY <1>1, <1>9 DEF ResetBind
    <2>2. Follows(s, s)  BY FollowsOn
    <2> QED  BY <2>1, <2>2 DEF BindsElse
  <1>8. CASE ~ HavePlayers(s, k) /\ s.save[i].canReset
    <2>1. PICK d : d = DeleteFromDB(x, i)  OBVIOUS
    <2>2. /\ d \in Managed /\ SamePlaces(x, d) /\ SameBinds(x, d) /\ NoNewRows(x, d)
          /\ d.save = x.save
      BY <1>4, <2>1, DeleteFromDBDoes
    <2>3. PICK b : b = [d.bind EXCEPT ![p] = [d.bind[p] EXCEPT ![m] = 0]]  OBVIOUS
    <2>4. /\ b \in [Players -> [Maps -> {0} \cup Ids]]
          /\ \A q \in Players, n \in Maps :
               b[q][n] = IF q = p /\ n = m THEN 0 ELSE d.bind[q][n]
      BY <2>2, <2>3, BindChanges
    <2>5. PICK y \in Managed :
             /\ y = PutBind(d, b) /\ y.bind = b /\ SamePlaces(d, y)
             /\ y.groupBind = d.groupBind /\ y.save = d.save
             /\ y.events = d.events /\ y.stored = d.stored
      BY <2>2, <2>4, BindPut DEF SamePlaces
    <2>6. PICK t : t = RemovePlayer(y, p, i)  OBVIOUS
    <2>7. ResetBind(s, p, m, method) = t
      BY <1>1, <1>2, <1>3, <1>8, <2>1, <2>3, <2>5, <2>6 DEF ResetBind, PutBind
    <2>8. Rebound(x, y, p, m, 0) /\ y.save = x.save /\ y.groupBind = x.groupBind
      BY <2>2, <2>4, <2>5 DEF Rebound, SameBinds
    <2>9. Agree(t)  BY <1>1, <1>4, <1>5, <1>6, <2>6, <2>8, BindEnds
    <2>10. t \in Managed /\ SamePlaces(y, t) /\ SameBinds(y, t) /\ NoNewRows(y, t)
      BY <2>6, RemovePlayerDoes
    <2>11. SamePlaces(x, t) /\ NoNewRows(x, t)
      BY <2>2, <2>5, <2>10 DEF SamePlaces, NoNewRows
    <2>12. Follows(s, t)  BY <1>6, <2>9, <2>10, <2>11, FollowsOn
    <2>13. t.groupBind = s.groupBind  BY <1>6, <2>8, <2>10 DEF SameBinds
    <2>14. BindsElse(s, t, p, m)
      BY <1>6, <2>8, <2>10 DEF BindsElse, Rebound, SameBinds
    <2> QED  BY <2>7, <2>12, <2>13, <2>14
  <1> QED  BY <1>7, <1>8, <1>9

\* The group's bind to the instance i of m ends.
LEMMA GroupBindEnds ==
  ASSUME NEW s \in Managed, NEW x \in Managed, Agree(s),
         NEW m \in Maps, NEW i \in Ids, s.groupBind[m] = i,
         x.save = s.save, x.bind = s.bind,
         \A n \in Maps : x.groupBind[n] = IF n = m THEN 0 ELSE s.groupBind[n]
  PROVE  Agree(RemoveGroup(x, i))
  <1>1. PICK t : t = RemoveGroup(x, i)  OBVIOUS
  <1>2. /\ SameBinds(x, t)
        /\ \A n \in Maps, j \in Ids :
             /\ \A q \in Players : Lists(t, n, j, q) <=> Lists(x, n, j, q)
             /\ ListsGroup(t, n, j) <=> ListsGroup(x, n, j) /\ j # i
    BY <1>1, RemoveGroupDoes
  <1>3. /\ \A n \in Maps, j \in Ids, q \in Players : Lists(x, n, j, q) <=> Lists(s, n, j, q)
        /\ \A n \in Maps, j \in Ids : ListsGroup(x, n, j) <=> ListsGroup(s, n, j)
    BY DEF Lists, ListsGroup
  <1>4. ASSUME NEW n \in Maps, NEW j \in Ids, NEW q \in Players
        PROVE  (t.bind[q][n] = j) <=> Lists(t, n, j, q)
    BY <1>2, <1>3 DEF Agree, SameBinds
  <1>5. ASSUME NEW n \in Maps, NEW j \in Ids
        PROVE  (t.groupBind[n] = j) <=> ListsGroup(t, n, j)
    <2>1. (s.groupBind[n] = j) <=> ListsGroup(s, n, j)  BY DEF Agree
    <2>2. t.groupBind[n] = IF n = m THEN 0 ELSE s.groupBind[n]  BY <1>2 DEF SameBinds
    <2>3. ListsGroup(t, n, j) <=> ListsGroup(s, n, j) /\ j # i  BY <1>2, <1>3
    <2>4. CASE n = m
      <3>1. j # 0  BY DEF Ids
      <3> QED  BY <2>1, <2>2, <2>3, <2>4, <3>1
    <2>5. CASE n # m
      <3>1. ListsGroup(s, m, i)  BY DEF Agree
      <3>2. ~ ListsGroup(s, n, i)  BY <2>5, <3>1 DEF ListsGroup
      <3> QED  BY <2>1, <2>2, <2>3, <2>5, <3>2
    <2> QED  BY <2>4, <2>5
  <1> QED  BY <1>1, <1>4, <1>5 DEF Agree

GroupBindsElse(s, t, m) == \A n \in Maps \ {m} : t.groupBind[n] = s.groupBind[n]

LEMMA ResetGroupBindDoes ==
  ASSUME NEW s \in Managed, Agree(s), NEW m \in Maps, NEW method, s.groupBind[m] # 0
  PROVE  LET t == ResetGroupBind(s, m, method) IN
         Follows(s, t) /\ t.bind = s.bind /\ GroupBindsElse(s, t, m)
  <1>1. PICK i \in Ids : i = s.groupBind[m]
    <2>1. s.groupBind[m] \in {0} \cup Ids  BY Fields
    <2> QED  BY <2>1
  <1>2. PICK k \in Keys : k = <<m, i>>  BY DEF Keys
  <1>3. PICK x : x = IF s.save[i].canReset THEN Reset(s, k, method) ELSE s  OBVIOUS
  <1>4. /\ x \in Managed /\ x.in = s.in /\ SameTables(s, x)
        /\ \A w : Housed(s, w) => Housed(x, w)
    <2>1. CASE s.save[i].canReset  BY <1>3, <2>1, ResetDoes
    <2>2. CASE ~ s.save[i].canReset  BY <1>3, <2>2 DEF SameTables, SameBinds
    <2> QED  BY <2>1, <2>2
  <1>5. Agree(x)  BY <1>4 DEF SameTables, SameBinds, Agree, Lists, ListsGroup
  <1>6. Follows(s, x) /\ x.groupBind = s.groupBind /\ x.bind = s.bind
    BY <1>4, <1>5 DEF Follows, RowsWait, SameTables, IsQueued, SameBinds
  <1>0. PICK deletes : deletes = (s.save[i].canReset /\ ~ HavePlayers(s, k))  OBVIOUS
  <1>7. CASE ~ deletes /\ method = "all"
    <2>1. ResetGroupBind(s, m, method) = x  BY <1>0, <1>1, <1>2, <1>3, <1>7 DEF ResetGroupBind
    <2> QED  BY <1>6, <2>1 DEF GroupBindsElse
  <1>8. CASE ~(~ deletes /\ method = "all")
    <2>1. PICK d : d = IF deletes THEN DeleteFromDB(x, i)
                       ELSE [x EXCEPT !.groupRow = @ \ {i}]
      OBVIOUS
    <2>2. /\ d \in Managed /\ SamePlaces(x, d) /\ SameBinds(x, d) /\ NoNewRows(x, d)
          /\ d.save = x.save
      <3>1. CASE deletes  BY <1>4, <2>1, <3>1, DeleteFromDBDoes
      <3>2. CASE ~ deletes
        <4>1. x.groupRow \ {i} \in SUBSET Ids  BY <1>4, Fields
        <4>2. d = PutGroupRow(x, x.groupRow \ {i})  BY <2>1, <3>2 DEF PutGroupRow
        <4> QED  BY <1>4, <4>1, <4>2, GroupRowPut DEF SamePlaces, SameBinds, NoNewRows
      <3> QED  BY <3>1, <3>2
    <2>3. PICK b : b = [d.groupBind EXCEPT ![m] = 0]  OBVIOUS
    <2>4. /\ b \in [Maps -> {0} \cup Ids]
          /\ \A n \in Maps : b[n] = IF n = m THEN 0 ELSE d.groupBind[n]
      BY <2>2, <2>3, Fields
    <2>5. PICK y \in Managed :
             /\ y = PutGroupBind(d, b) /\ y.groupBind = b /\ SamePlaces(d, y)
             /\ y.bind = d.bind /\ y.save = d.save
             /\ y.events = d.events /\ y.stored = d.stored
      BY <2>2, <2>4, GroupBindPut DEF SamePlaces
    <2>6. PICK t : t = RemoveGroup(y, i)  OBVIOUS
    <2>7. ResetGroupBind(s, m, method) = t
      BY <1>0, <1>1, <1>2, <1>3, <1>8, <2>1, <2>3, <2>5, <2>6
         DEF ResetGroupBind, PutGroupBind
    <2>8. /\ \A n \in Maps : y.groupBind[n] = IF n = m THEN 0 ELSE x.groupBind[n]
          /\ y.save = x.save /\ y.bind = x.bind
      BY <2>2, <2>4, <2>5 DEF SameBinds
    <2>9. Agree(t)  BY <1>1, <1>4, <1>5, <1>6, <2>6, <2>8, GroupBindEnds
    <2>10. t \in Managed /\ SamePlaces(y, t) /\ SameBinds(y, t) /\ NoNewRows(y, t)
      BY <2>6, RemoveGroupDoes
    <2>11. SamePlaces(x, t) /\ NoNewRows(x, t)
      BY <2>2, <2>5, <2>10 DEF SamePlaces, NoNewRows
    <2>12. Follows(s, t)  BY <1>6, <2>9, <2>10, <2>11, FollowsOn
    <2>13. t.bind = s.bind  BY <1>6, <2>8, <2>10 DEF SameBinds
    <2>14. GroupBindsElse(s, t, m)
      BY <1>6, <2>8, <2>10 DEF GroupBindsElse, SameBinds
    <2> QED  BY <2>7, <2>12, <2>13, <2>14
  <1> QED  BY <1>7, <1>8

-----------------------------------------------------------------------------
(***************************************************************************)
(* The folds of the handlers over the dungeons of a player or a group.     *)
(***************************************************************************)

\* The binds of p to the dungeons of S that are not in x are as in s.
StillBound(s, t, p, S, x) == \A m \in S \ x : t.bind[p][m] = s.bind[p][m]
GroupStillBound(s, t, S, x) == \A m \in S \ x : t.groupBind[m] = s.groupBind[m]

LEMMA ResetPlayerDoes ==
  ASSUME NEW s \in Managed, Agree(s), NEW p \in Players, NEW method
  PROVE  Follows(s, ResetPlayer(s, p, method))
  <1> DEFINE S == {m \in Maps : s.bind[p][m] # 0}
             c == [x \in SUBSET S |-> CHOOSE m \in x : TRUE]
             D == [x \in SUBSET S |-> {t \in Managed : Follows(s, t) /\ StillBound(s, t, p, S, x)}]
             F == [z \in (SUBSET S) \X Managed |-> ResetBind(z[2], p, c[z[1]], method)]
             body(it) == [x \in SUBSET S |-> IF x = {} THEN s
                            ELSE ResetBind(it[x \ {CHOOSE m \in x : TRUE}], p, CHOOSE m \in x : TRUE, method)]
             it == CHOOSE it : it = body(it)
  <1>1. IsFiniteSet(S) /\ S \subseteq Maps  BY FS_Subset
  <1>2. ResetPlayer(s, p, method) = it[S]  BY DEF ResetPlayer, FoldSet, MapThenFoldSet
  <1>3. Picks(c, S)
    BY DEF Picks
  <1>4. s \in D[{}]
    BY FollowsOn DEF StillBound
  <1>5. ASSUME NEW x \in (SUBSET S) \ {{}}, NEW t \in D[Less(x, c)]
        PROVE  ResetBind(t, p, c[x], method) \in D[x]
    <2>1. c[x] \in x /\ c[x] \in Maps /\ s.bind[p][c[x]] # 0 /\ Less(x, c) \in SUBSET S
      BY <1>3 DEF Picks, Less
    <2>2. t \in Managed /\ Follows(s, t) /\ StillBound(s, t, p, S, Less(x, c))
      BY <2>1
    <2>3. t.bind[p][c[x]] # 0  BY <2>1, <2>2 DEF StillBound, Less
    <2>4. PICK m : m = c[x]  OBVIOUS
    <2>5. PICK u : u = ResetBind(t, p, m, method)  OBVIOUS
    <2>6. Follows(t, u) /\ BindsElse(t, u, p, m)
      <3> HIDE DEF S, c, D, F
      <3>1. Agree(t) /\ m \in Maps /\ t.bind[p][m] # 0
        BY <2>1, <2>2, <2>3, <2>4 DEF Follows
      <3> QED  BY <2>2, <2>5, <3>1, ResetBindDoes
    <2>7. Follows(s, u) /\ u \in Managed  BY <2>2, <2>6, FollowsOn DEF Follows
    <2>8. StillBound(s, u, p, S, x)
      BY <1>1, <2>1, <2>2, <2>4, <2>6 DEF StillBound, Less, BindsElse
    <2> QED  BY <2>4, <2>5, <2>7, <2>8
  <1>6. \A x \in (SUBSET S) \ {{}} : \A t \in D[Less(x, c)] :
          F[<<x, t>>] = ResetBind(t, p, c[x], method)
    BY DEF Less
  <1> HIDE DEF F, D, S, c
  <1>7. StaysIn(S, c, D, F)
    <2> SUFFICES ASSUME NEW x \in (SUBSET S) \ {{}}, NEW t \in D[Less(x, c)]
                 PROVE  F[<<x, t>>] \in D[x]
      BY DEF StaysIn
    <2> QED  BY <1>5, <1>6
  <1>8. PICK g : FoldOf(g, S, c, s, F) /\ \A x \in SUBSET S : g[x] \in D[x]
    BY <1>1, <1>3, <1>4, <1>7, FoldExists
  <1>9. g = body(g)
    <2>1. ASSUME NEW x \in SUBSET S, x # {}
          PROVE  g[x] = ResetBind(g[x \ {CHOOSE m \in x : TRUE}], p, CHOOSE m \in x : TRUE, method)
      <3>1. c[x] = CHOOSE m \in x : TRUE  BY DEF c
      <3>2. Less(x, c) \in SUBSET S  BY DEF Less
      <3>3. g[x] = F[<<x, g[Less(x, c)]>>]  BY <1>8, <2>1 DEF FoldStep, FoldOf
      <3>4. g[Less(x, c)] \in D[Less(x, c)]  BY <1>8, <3>2
      <3>5. g[x] = ResetBind(g[Less(x, c)], p, c[x], method)  BY <1>6, <2>1, <3>3, <3>4
      <3> QED  BY <3>1, <3>5 DEF Less
    <2>2. g[{}] = s  BY <1>8 DEF FoldStep, FoldOf
    <2>3. g = [x \in SUBSET S |-> g[x]]  BY <1>8 DEF FoldOf
    <2> QED  BY <2>1, <2>2, <2>3
  <1>10. it = body(it)
    <2>1. \E h : h = body(h)  BY <1>9
    <2> HIDE DEF body
    <2> QED  BY <2>1
  <1>11. it[{}] \in D[{}]
    <2>1. it[{}] = s  BY <1>10
    <2> QED  BY <1>4, <2>1
  <1>12. ASSUME NEW x \in (SUBSET S) \ {{}}, it[Less(x, c)] \in D[Less(x, c)]
         PROVE  it[x] = F[<<x, it[Less(x, c)]>>]
    <2>1. it[x] = ResetBind(it[x \ {CHOOSE m \in x : TRUE}], p, CHOOSE m \in x : TRUE, method)
      BY <1>10
    <2>2. c[x] = CHOOSE m \in x : TRUE  BY DEF c
    <2>3. it[x] = ResetBind(it[Less(x, c)], p, c[x], method)  BY <2>1, <2>2 DEF Less
    <2> QED  BY <1>6, <1>12, <2>3
  <1> HIDE DEF it
  <1>13. it[S] \in D[S]  BY <1>1, <1>3, <1>7, <1>11, <1>12, FoldStays
  <1>14. Follows(s, it[S])  BY <1>13 DEF D
  <1> QED  BY <1>2, <1>14

LEMMA ResetGroupDoes ==
  ASSUME NEW s \in Managed, Agree(s), NEW method
  PROVE  Follows(s, ResetGroup(s, method))
  <1> DEFINE S == {m \in Maps : s.groupBind[m] # 0}
             c == [x \in SUBSET S |-> CHOOSE m \in x : TRUE]
             D == [x \in SUBSET S |-> {t \in Managed : Follows(s, t) /\ GroupStillBound(s, t, S, x)}]
             F == [z \in (SUBSET S) \X Managed |-> ResetGroupBind(z[2], c[z[1]], method)]
             body(it) == [x \in SUBSET S |-> IF x = {} THEN s
                            ELSE ResetGroupBind(it[x \ {CHOOSE m \in x : TRUE}], CHOOSE m \in x : TRUE, method)]
             it == CHOOSE it : it = body(it)
  <1>1. IsFiniteSet(S) /\ S \subseteq Maps  BY FS_Subset
  <1>2. ResetGroup(s, method) = it[S]  BY DEF ResetGroup, FoldSet, MapThenFoldSet
  <1>3. Picks(c, S)
    BY DEF Picks
  <1>4. s \in D[{}]
    BY FollowsOn DEF GroupStillBound
  <1>5. ASSUME NEW x \in (SUBSET S) \ {{}}, NEW t \in D[Less(x, c)]
        PROVE  ResetGroupBind(t, c[x], method) \in D[x]
    <2>1. c[x] \in x /\ c[x] \in Maps /\ s.groupBind[c[x]] # 0 /\ Less(x, c) \in SUBSET S
      BY <1>3 DEF Picks, Less
    <2>2. t \in Managed /\ Follows(s, t) /\ GroupStillBound(s, t, S, Less(x, c))
      BY <2>1
    <2>3. t.groupBind[c[x]] # 0  BY <2>1, <2>2 DEF GroupStillBound, Less
    <2>4. PICK m : m = c[x]  OBVIOUS
    <2>5. PICK u : u = ResetGroupBind(t, m, method)  OBVIOUS
    <2>6. Follows(t, u) /\ GroupBindsElse(t, u, m)
      <3> HIDE DEF S, c, D, F
      <3>1. Agree(t) /\ m \in Maps /\ t.groupBind[m] # 0
        BY <2>1, <2>2, <2>3, <2>4 DEF Follows
      <3> QED  BY <2>2, <2>5, <3>1, ResetGroupBindDoes
    <2>7. Follows(s, u) /\ u \in Managed  BY <2>2, <2>6, FollowsOn DEF Follows
    <2>8. GroupStillBound(s, u, S, x)
      BY <1>1, <2>1, <2>2, <2>4, <2>6 DEF GroupStillBound, Less, GroupBindsElse
    <2> QED  BY <2>4, <2>5, <2>7, <2>8
  <1>6. \A x \in (SUBSET S) \ {{}} : \A t \in D[Less(x, c)] :
          F[<<x, t>>] = ResetGroupBind(t, c[x], method)
    BY DEF Less
  <1> HIDE DEF F, D, S, c
  <1>7. StaysIn(S, c, D, F)
    <2> SUFFICES ASSUME NEW x \in (SUBSET S) \ {{}}, NEW t \in D[Less(x, c)]
                 PROVE  F[<<x, t>>] \in D[x]
      BY DEF StaysIn
    <2> QED  BY <1>5, <1>6
  <1>8. PICK g : FoldOf(g, S, c, s, F) /\ \A x \in SUBSET S : g[x] \in D[x]
    BY <1>1, <1>3, <1>4, <1>7, FoldExists
  <1>9. g = body(g)
    <2>1. ASSUME NEW x \in SUBSET S, x # {}
          PROVE  g[x] = ResetGroupBind(g[x \ {CHOOSE m \in x : TRUE}], CHOOSE m \in x : TRUE, method)
      <3>1. c[x] = CHOOSE m \in x : TRUE  BY DEF c
      <3>2. Less(x, c) \in SUBSET S  BY DEF Less
      <3>3. g[x] = F[<<x, g[Less(x, c)]>>]  BY <1>8, <2>1 DEF FoldStep, FoldOf
      <3>4. g[Less(x, c)] \in D[Less(x, c)]  BY <1>8, <3>2
      <3>5. g[x] = ResetGroupBind(g[Less(x, c)], c[x], method)  BY <1>6, <2>1, <3>3, <3>4
      <3> QED  BY <3>1, <3>5 DEF Less
    <2>2. g[{}] = s  BY <1>8 DEF FoldStep, FoldOf
    <2>3. g = [x \in SUBSET S |-> g[x]]  BY <1>8 DEF FoldOf
    <2> QED  BY <2>1, <2>2, <2>3
  <1>10. it = body(it)
    <2>1. \E h : h = body(h)  BY <1>9
    <2> HIDE DEF body
    <2> QED  BY <2>1
  <1>11. it[{}] \in D[{}]
    <2>1. it[{}] = s  BY <1>10
    <2> QED  BY <1>4, <2>1
  <1>12. ASSUME NEW x \in (SUBSET S) \ {{}}, it[Less(x, c)] \in D[Less(x, c)]
         PROVE  it[x] = F[<<x, it[Less(x, c)]>>]
    <2>1. it[x] = ResetGroupBind(it[x \ {CHOOSE m \in x : TRUE}], CHOOSE m \in x : TRUE, method)
      BY <1>10
    <2>2. c[x] = CHOOSE m \in x : TRUE  BY DEF c
    <2>3. it[x] = ResetGroupBind(it[Less(x, c)], c[x], method)  BY <2>1, <2>2 DEF Less
    <2> QED  BY <1>6, <1>12, <2>3
  <1> HIDE DEF it
  <1>13. it[S] \in D[S]  BY <1>1, <1>3, <1>7, <1>11, <1>12, FoldStays
  <1>14. Follows(s, it[S])  BY <1>13 DEF D
  <1> QED  BY <1>2, <1>14

\* One dungeon of CleanupsBeforeDelete, of a player with the binds of s.
ForgetBind(s, t, p, m) == RemovePlayer([t EXCEPT !.bind[p][m] = 0], p, s.bind[p][m])

LEMMA ForgetBindDoes ==
  ASSUME NEW s, NEW t \in Managed, Agree(t), NEW p \in Players, NEW m \in Maps,
         t.bind[p][m] # 0, s.bind[p][m] = t.bind[p][m]
  PROVE  LET u == ForgetBind(s, t, p, m) IN Follows(t, u) /\ BindsElse(t, u, p, m)
  <1>1. PICK i \in Ids : i = t.bind[p][m]  BY BindTypes
  <1>2. PICK b : b = [t.bind EXCEPT ![p] = [t.bind[p] EXCEPT ![m] = 0]]  OBVIOUS
  <1>3. /\ b \in [Players -> [Maps -> {0} \cup Ids]]
        /\ \A q \in Players, n \in Maps :
             b[q][n] = IF q = p /\ n = m THEN 0 ELSE t.bind[q][n]
    BY <1>2, BindChanges
  <1>4. PICK y \in Managed :
           /\ y = PutBind(t, b) /\ y.bind = b /\ SamePlaces(t, y)
           /\ y.groupBind = t.groupBind /\ y.save = t.save
           /\ y.events = t.events /\ y.stored = t.stored
    BY <1>3, BindPut DEF SamePlaces
  <1>5. PICK u : u = RemovePlayer(y, p, i)  OBVIOUS
  <1>6. ForgetBind(s, t, p, m) = u
    BY <1>1, <1>2, <1>4, <1>5 DEF ForgetBind, PutBind
  <1>7. Rebound(t, y, p, m, 0)  BY <1>3, <1>4 DEF Rebound
  <1>8. Agree(u)  BY <1>1, <1>4, <1>5, <1>7, BindEnds
  <1>9. u \in Managed /\ SamePlaces(y, u) /\ SameBinds(y, u) /\ NoNewRows(y, u)
    BY <1>5, RemovePlayerDoes
  <1>10. SamePlaces(t, u) /\ NoNewRows(t, u)  BY <1>4, <1>9 DEF SamePlaces, NoNewRows
  <1>11. Follows(t, u)  BY <1>8, <1>9, <1>10, FollowsOn
  <1>12. BindsElse(t, u, p, m)  BY <1>7, <1>9 DEF BindsElse, Rebound, SameBinds
  <1> QED  BY <1>6, <1>11, <1>12

LEMMA ForgetDoes ==
  ASSUME NEW s \in Managed, Agree(s), NEW p \in Players
  PROVE  Follows(s, Forget(s, p))
  <1> DEFINE S == {m \in Maps : s.bind[p][m] # 0}
             c == [x \in SUBSET S |-> CHOOSE m \in x : TRUE]
             D == [x \in SUBSET S |-> {t \in Managed : Follows(s, t) /\ StillBound(s, t, p, S, x)}]
             F == [z \in (SUBSET S) \X Managed |-> ForgetBind(s, z[2], p, c[z[1]])]
             body(it) == [x \in SUBSET S |-> IF x = {} THEN s
                            ELSE ForgetBind(s, it[x \ {CHOOSE m \in x : TRUE}], p, CHOOSE m \in x : TRUE)]
             it == CHOOSE it : it = body(it)
  <1>1. IsFiniteSet(S) /\ S \subseteq Maps  BY FS_Subset
  <1>2. Forget(s, p) = it[S]  BY DEF Forget, ForgetBind, FoldSet, MapThenFoldSet
  <1>3. Picks(c, S)
    BY DEF Picks
  <1>4. s \in D[{}]
    BY FollowsOn DEF StillBound
  <1>5. ASSUME NEW x \in (SUBSET S) \ {{}}, NEW t \in D[Less(x, c)]
        PROVE  ForgetBind(s, t, p, c[x]) \in D[x]
    <2>1. c[x] \in x /\ c[x] \in Maps /\ s.bind[p][c[x]] # 0 /\ Less(x, c) \in SUBSET S
      BY <1>3 DEF Picks, Less
    <2>2. t \in Managed /\ Follows(s, t) /\ StillBound(s, t, p, S, Less(x, c))
      BY <2>1
    <2>3. t.bind[p][c[x]] = s.bind[p][c[x]]  BY <2>1, <2>2 DEF StillBound, Less
    <2>4. PICK m : m = c[x]  OBVIOUS
    <2>5. PICK u : u = ForgetBind(s, t, p, m)  OBVIOUS
    <2>6. Follows(t, u) /\ BindsElse(t, u, p, m)
      <3> HIDE DEF S, c, D, F
      <3>1. /\ Agree(t) /\ m \in Maps /\ t.bind[p][m] # 0
            /\ s.bind[p][m] = t.bind[p][m]
        BY <2>1, <2>2, <2>3, <2>4 DEF Follows
      <3> QED  BY <2>2, <2>5, <3>1, ForgetBindDoes
    <2>7. Follows(s, u) /\ u \in Managed  BY <2>2, <2>6, FollowsOn DEF Follows
    <2>8. StillBound(s, u, p, S, x)
      BY <1>1, <2>1, <2>2, <2>4, <2>6 DEF StillBound, Less, BindsElse
    <2> QED  BY <2>4, <2>5, <2>7, <2>8
  <1>6. \A x \in (SUBSET S) \ {{}} : \A t \in D[Less(x, c)] :
          F[<<x, t>>] = ForgetBind(s, t, p, c[x])
    BY DEF Less
  <1> HIDE DEF F, D, S, c
  <1>7. StaysIn(S, c, D, F)
    <2> SUFFICES ASSUME NEW x \in (SUBSET S) \ {{}}, NEW t \in D[Less(x, c)]
                 PROVE  F[<<x, t>>] \in D[x]
      BY DEF StaysIn
    <2> QED  BY <1>5, <1>6
  <1>8. PICK g : FoldOf(g, S, c, s, F) /\ \A x \in SUBSET S : g[x] \in D[x]
    BY <1>1, <1>3, <1>4, <1>7, FoldExists
  <1>9. g = body(g)
    <2>1. ASSUME NEW x \in SUBSET S, x # {}
          PROVE  g[x] = ForgetBind(s, g[x \ {CHOOSE m \in x : TRUE}], p, CHOOSE m \in x : TRUE)
      <3>1. c[x] = CHOOSE m \in x : TRUE  BY DEF c
      <3>2. Less(x, c) \in SUBSET S  BY DEF Less
      <3>3. g[x] = F[<<x, g[Less(x, c)]>>]  BY <1>8, <2>1 DEF FoldStep, FoldOf
      <3>4. g[Less(x, c)] \in D[Less(x, c)]  BY <1>8, <3>2
      <3>5. g[x] = ForgetBind(s, g[Less(x, c)], p, c[x])  BY <1>6, <2>1, <3>3, <3>4
      <3> QED  BY <3>1, <3>5 DEF Less
    <2>2. g[{}] = s  BY <1>8 DEF FoldStep, FoldOf
    <2>3. g = [x \in SUBSET S |-> g[x]]  BY <1>8 DEF FoldOf
    <2> QED  BY <2>1, <2>2, <2>3
  <1>10. it = body(it)
    <2>1. \E h : h = body(h)  BY <1>9
    <2> HIDE DEF body
    <2> QED  BY <2>1
  <1>11. it[{}] \in D[{}]
    <2>1. it[{}] = s  BY <1>10
    <2> QED  BY <1>4, <2>1
  <1>12. ASSUME NEW x \in (SUBSET S) \ {{}}, it[Less(x, c)] \in D[Less(x, c)]
         PROVE  it[x] = F[<<x, it[Less(x, c)]>>]
    <2>1. it[x] = ForgetBind(s, it[x \ {CHOOSE m \in x : TRUE}], p, CHOOSE m \in x : TRUE)
      BY <1>10
    <2>2. c[x] = CHOOSE m \in x : TRUE  BY DEF c
    <2>3. it[x] = ForgetBind(s, it[Less(x, c)], p, c[x])  BY <2>1, <2>2 DEF Less
    <2> QED  BY <1>6, <1>12, <2>3
  <1> HIDE DEF it
  <1>13. it[S] \in D[S]  BY <1>1, <1>3, <1>7, <1>11, <1>12, FoldStays
  <1>14. Follows(s, it[S])  BY <1>13 DEF D
  <1> QED  BY <1>2, <1>14

\* One dungeon of ConvertLeaderInstancesToGroup, and all of them.
KeptBind(t, p, m, switch) ==
    IF switch /\ t.groupBind[m] # 0 THEN t ELSE BindGroup(t, t.bind[p][m], FALSE)
EachBind(t, p, m, switch) ==
    IF switch THEN UnbindPlayer(KeptBind(t, p, m, switch), p, m)
    ELSE KeptBind(t, p, m, switch)
Copied(s, p, switch) ==
    FoldSet(LAMBDA m, t : EachBind(t, p, m, switch), s, {m \in Maps : s.bind[p][m] # 0})

LEMMA EachBindDoes ==
  ASSUME NEW t \in Managed, Agree(t), NEW p \in Players, NEW m \in Maps,
         t.bind[p][m] # 0, NEW switch \in BOOLEAN
  PROVE  LET u == EachBind(t, p, m, switch) IN Follows(t, u) /\ BindsElse(t, u, p, m)
  <1>1. PICK i \in Ids : i = t.bind[p][m]  BY BindTypes
  <1>2. PICK x : x = KeptBind(t, p, m, switch)  OBVIOUS
  <1>3. Follows(t, x) /\ x.bind = t.bind
    <2>1. CASE x = t  BY <2>1, FollowsOn
    <2>2. CASE x = BindGroup(t, i, FALSE)
      <3>1. t.save[i].map = m  BY <1>1 DEF Agree, Lists
      <3>2. Known(t, i)  BY <3>1, NoSaveIs DEF Known
      <3>3. /\ x \in Managed /\ SamePlaces(t, x) /\ NoNewRows(t, x) /\ Agree(x)
            /\ x.bind = t.bind
        BY <2>2, <3>2, BindGroupDoes
      <3> QED  BY <3>3, FollowsOn
    <2> QED  BY <1>1, <1>2, <2>1, <2>2 DEF KeptBind
  <1>4. CASE switch
    <2>1. PICK u : u = UnbindPlayer(x, p, m)  OBVIOUS
    <2>2. x \in Managed /\ Agree(x)  BY <1>3 DEF Follows
    <2>3. /\ u \in Managed /\ SamePlaces(x, u) /\ NoNewRows(x, u) /\ Agree(u)
          /\ Rebound(x, u, p, m, 0)
      BY <2>1, <2>2, UnbindPlayerDoes
    <2>4. Follows(t, u)  BY <1>3, <2>3, FollowsOn
    <2>5. BindsElse(t, u, p, m)  BY <1>3, <2>3 DEF BindsElse, Rebound
    <2>6. EachBind(t, p, m, switch) = u  BY <1>2, <1>4, <2>1 DEF EachBind
    <2> QED  BY <2>4, <2>5, <2>6
  <1>5. CASE ~ switch
    <2>1. EachBind(t, p, m, switch) = x  BY <1>2, <1>5 DEF EachBind
    <2> QED  BY <1>3, <2>1 DEF BindsElse
  <1> QED  BY <1>4, <1>5

LEMMA CopiedDoes ==
  ASSUME NEW s \in Managed, Agree(s), NEW p \in Players, NEW switch \in BOOLEAN
  PROVE  Follows(s, Copied(s, p, switch))
  <1> DEFINE S == {m \in Maps : s.bind[p][m] # 0}
             c == [x \in SUBSET S |-> CHOOSE m \in x : TRUE]
             D == [x \in SUBSET S |-> {t \in Managed : Follows(s, t) /\ StillBound(s, t, p, S, x)}]
             F == [z \in (SUBSET S) \X Managed |-> EachBind(z[2], p, c[z[1]], switch)]
             body(it) == [x \in SUBSET S |-> IF x = {} THEN s
                            ELSE EachBind(it[x \ {CHOOSE m \in x : TRUE}], p, CHOOSE m \in x : TRUE, switch)]
             it == CHOOSE it : it = body(it)
  <1>1. IsFiniteSet(S) /\ S \subseteq Maps  BY FS_Subset
  <1>2. Copied(s, p, switch) = it[S]  BY DEF Copied, FoldSet, MapThenFoldSet
  <1>3. Picks(c, S)
    BY DEF Picks
  <1>4. s \in D[{}]
    BY FollowsOn DEF StillBound
  <1>5. ASSUME NEW x \in (SUBSET S) \ {{}}, NEW t \in D[Less(x, c)]
        PROVE  EachBind(t, p, c[x], switch) \in D[x]
    <2>1. c[x] \in x /\ c[x] \in Maps /\ s.bind[p][c[x]] # 0 /\ Less(x, c) \in SUBSET S
      BY <1>3 DEF Picks, Less
    <2>2. t \in Managed /\ Follows(s, t) /\ StillBound(s, t, p, S, Less(x, c))
      BY <2>1
    <2>3. t.bind[p][c[x]] = s.bind[p][c[x]]  BY <2>1, <2>2 DEF StillBound, Less
    <2>4. PICK m : m = c[x]  OBVIOUS
    <2>5. PICK u : u = EachBind(t, p, m, switch)  OBVIOUS
    <2>6. Follows(t, u) /\ BindsElse(t, u, p, m)
      <3> HIDE DEF S, c, D, F
      <3>1. /\ Agree(t) /\ m \in Maps /\ t.bind[p][m] # 0
            /\ s.bind[p][m] = t.bind[p][m]
        BY <2>1, <2>2, <2>3, <2>4 DEF Follows
      <3> QED  BY <2>2, <2>5, <3>1, EachBindDoes
    <2>7. Follows(s, u) /\ u \in Managed  BY <2>2, <2>6, FollowsOn DEF Follows
    <2>8. StillBound(s, u, p, S, x)
      BY <1>1, <2>1, <2>2, <2>4, <2>6 DEF StillBound, Less, BindsElse
    <2> QED  BY <2>4, <2>5, <2>7, <2>8
  <1>6. \A x \in (SUBSET S) \ {{}} : \A t \in D[Less(x, c)] :
          F[<<x, t>>] = EachBind(t, p, c[x], switch)
    BY DEF Less
  <1> HIDE DEF F, D, S, c
  <1>7. StaysIn(S, c, D, F)
    <2> SUFFICES ASSUME NEW x \in (SUBSET S) \ {{}}, NEW t \in D[Less(x, c)]
                 PROVE  F[<<x, t>>] \in D[x]
      BY DEF StaysIn
    <2> QED  BY <1>5, <1>6
  <1>8. PICK g : FoldOf(g, S, c, s, F) /\ \A x \in SUBSET S : g[x] \in D[x]
    BY <1>1, <1>3, <1>4, <1>7, FoldExists
  <1>9. g = body(g)
    <2>1. ASSUME NEW x \in SUBSET S, x # {}
          PROVE  g[x] = EachBind(g[x \ {CHOOSE m \in x : TRUE}], p, CHOOSE m \in x : TRUE, switch)
      <3>1. c[x] = CHOOSE m \in x : TRUE  BY DEF c
      <3>2. Less(x, c) \in SUBSET S  BY DEF Less
      <3>3. g[x] = F[<<x, g[Less(x, c)]>>]  BY <1>8, <2>1 DEF FoldStep, FoldOf
      <3>4. g[Less(x, c)] \in D[Less(x, c)]  BY <1>8, <3>2
      <3>5. g[x] = EachBind(g[Less(x, c)], p, c[x], switch)  BY <1>6, <2>1, <3>3, <3>4
      <3> QED  BY <3>1, <3>5 DEF Less
    <2>2. g[{}] = s  BY <1>8 DEF FoldStep, FoldOf
    <2>3. g = [x \in SUBSET S |-> g[x]]  BY <1>8 DEF FoldOf
    <2> QED  BY <2>1, <2>2, <2>3
  <1>10. it = body(it)
    <2>1. \E h : h = body(h)  BY <1>9
    <2> HIDE DEF body
    <2> QED  BY <2>1
  <1>11. it[{}] \in D[{}]
    <2>1. it[{}] = s  BY <1>10
    <2> QED  BY <1>4, <2>1
  <1>12. ASSUME NEW x \in (SUBSET S) \ {{}}, it[Less(x, c)] \in D[Less(x, c)]
         PROVE  it[x] = F[<<x, it[Less(x, c)]>>]
    <2>1. it[x] = EachBind(it[x \ {CHOOSE m \in x : TRUE}], p, CHOOSE m \in x : TRUE, switch)
      BY <1>10
    <2>2. c[x] = CHOOSE m \in x : TRUE  BY DEF c
    <2>3. it[x] = EachBind(it[Less(x, c)], p, c[x], switch)  BY <2>1, <2>2 DEF Less
    <2> QED  BY <1>6, <1>12, <2>3
  <1> HIDE DEF it
  <1>13. it[S] \in D[S]  BY <1>1, <1>3, <1>7, <1>11, <1>12, FoldStays
  <1>14. Follows(s, it[S])  BY <1>13 DEF D
  <1> QED  BY <1>2, <1>14

LEMMA ConvertIs ==
  ASSUME NEW s, NEW p, NEW switch
  PROVE  LET t == ConvertLeaderInstancesToGroup(s, p, switch)
             c == Copied(s, p, switch)
         IN  \/ t = c
             \/ /\ s.in[p] # Outside /\ Known(c, s.in[p][2])
                /\ t = BindGroup(c, s.in[p][2], FALSE)
  BY DEF ConvertLeaderInstancesToGroup, Copied, EachBind, KeptBind

LEMMA ConvertDoes ==
  ASSUME NEW s \in Managed, Agree(s), NEW p \in Players, NEW switch \in BOOLEAN
  PROVE  Follows(s, ConvertLeaderInstancesToGroup(s, p, switch))
  <1>1. PICK t : t = ConvertLeaderInstancesToGroup(s, p, switch)  OBVIOUS
  <1>2. PICK c : c = Copied(s, p, switch)  OBVIOUS
  <1>3. Follows(s, c)  BY <1>2, CopiedDoes
  <1>4. CASE t = c  BY <1>1, <1>3, <1>4
  <1>5. CASE /\ s.in[p] # Outside /\ Known(c, s.in[p][2])
             /\ t = BindGroup(c, s.in[p][2], FALSE)
    <2>1. PICK i : i = s.in[p][2]  OBVIOUS
    <2>2. s.in[p] \in Keys  BY <1>5, PlaceType
    <2>3. i \in Ids  BY <2>1, <2>2 DEF Keys
    <2>4. c \in Managed /\ Agree(c) /\ Known(c, i)  BY <1>3, <1>5, <2>1 DEF Follows
    <2>5. t = BindGroup(c, i, FALSE)  BY <1>5, <2>1
    <2>6. t \in Managed /\ SamePlaces(c, t) /\ NoNewRows(c, t) /\ Agree(t)
      BY <2>3, <2>4, <2>5, BindGroupDoes
    <2> QED  BY <1>1, <1>3, <2>6, FollowsOn
  <1> QED  BY <1>1, <1>2, <1>4, <1>5, ConvertIs

-----------------------------------------------------------------------------
(***************************************************************************)
(* Entering and leaving a map.                                             *)
(***************************************************************************)
LEMMA AgreeKept ==
  /\ \A s, t : Agree(s) /\ SameBinds(s, t) /\ SameLists(s, t) => Agree(t)
  /\ \A s, t : Agree(s) /\ SameBinds(s, t) /\ t.save = s.save => Agree(t)
  /\ \A s, t : Agree(s) /\ SameTables(s, t) => Agree(t)
  <1>1. ASSUME NEW s, NEW t, Agree(s), SameBinds(s, t), SameLists(s, t) PROVE Agree(t)
    BY <1>1 DEF Agree, SameBinds, SameLists
  <1>2. ASSUME NEW s, NEW t, Agree(s), SameBinds(s, t), t.save = s.save PROVE Agree(t)
    BY <1>2 DEF Agree, SameBinds, Lists, ListsGroup
  <1> QED  BY <1>1, <1>2 DEF SameTables

LEMMA TablesWait ==
  \A s, t : SameTables(s, t) => RowsWait(s, t)
  BY DEF SameTables, RowsWait, IsQueued

LEMMA CreateInstanceDoes ==
  ASSUME NEW s \in Managed, Agree(s), NEW p \in Players, NEW k \in Keys, NEW login
  PROVE  LET t == CreateInstance(s, p, k, login) IN
         /\ Follows(s, t) /\ Loaded(t, k) /\ t.groupBind = s.groupBind
         /\ IF login = 0 /\ GroupTarget(s, p, k[1]) # 0
            THEN t.bind[p][k[1]] = 0 ELSE t.bind = s.bind
  <1>1. PICK x : x = IF login = 0 /\ GroupTarget(s, p, k[1]) # 0
                     THEN UnbindPlayer(s, p, k[1]) ELSE s
    OBVIOUS
  <1>2. /\ Follows(s, x) /\ x.groupBind = s.groupBind /\ x \in Managed /\ Agree(x)
        /\ IF login = 0 /\ GroupTarget(s, p, k[1]) # 0
           THEN x.bind[p][k[1]] = 0 ELSE x.bind = s.bind
    <2>1. CASE x = s /\ ~(login = 0 /\ GroupTarget(s, p, k[1]) # 0)
      BY <2>1, FollowsOn
    <2>2. CASE x = UnbindPlayer(s, p, k[1]) /\ login = 0 /\ GroupTarget(s, p, k[1]) # 0
      <3>1. PICK m \in Maps : m = k[1]  BY DEF Keys
      <3>2. x = UnbindPlayer(s, p, m)  BY <2>2, <3>1
      <3>3. /\ x \in Managed /\ SamePlaces(s, x) /\ NoNewRows(s, x) /\ Agree(x)
            /\ Rebound(s, x, p, m, 0) /\ x.groupBind = s.groupBind
        BY <3>2, UnbindPlayerDoes
      <3>4. x.bind[p][m] = 0  BY <3>3 DEF Rebound
      <3> QED  BY <2>2, <3>1, <3>3, <3>4, FollowsOn
    <2> QED  BY <1>1, <2>1, <2>2
  <1>3. PICK t : t = CreateInstance(s, p, k, login)  OBVIOUS
  <1>4. t = IF Loaded(x, k) THEN x ELSE [x EXCEPT !.timer[k] = "running"]
    BY <1>1, <1>3 DEF CreateInstance
  <1>5. CASE Loaded(x, k)  BY <1>2, <1>3, <1>4, <1>5
  <1>6. CASE ~ Loaded(x, k)
    <2>1. "running" \in Timers  BY DEF Timers
    <2>2. /\ t \in Managed /\ t.in = x.in /\ SameTables(x, t)
          /\ \A l \in Keys : t.timer[l] = IF l = k THEN "running" ELSE x.timer[l]
      BY <1>2, <1>4, <1>6, <2>1, TimerChanges
    <2>3. Agree(t) /\ RowsWait(x, t)  BY <1>2, <2>2, AgreeKept, TablesWait
    <2>4. ASSUME NEW w, Housed(x, w) PROVE Housed(t, w)
      <3>1. \A q \in Players : x.in[q] # Outside => x.in[q] # k /\ x.in[q] \in Keys
        BY <1>2, <1>6, <2>4, PlaceType DEF Housed, Loaded
      <3>2. \A q \in Players : x.in[q] # Outside => t.timer[t.in[q]] = x.timer[x.in[q]]
        BY <2>2, <3>1
      <3> QED  BY <2>2, <2>4, <3>2 DEF Housed
    <2>5. Follows(x, t)  BY <2>2, <2>3, <2>4 DEF Follows
    <2>6. Follows(s, t)  BY <1>2, <2>5, FollowsOn
    <2>7. Loaded(t, k)  BY <2>2 DEF Loaded
    <2>8. t.groupBind = x.groupBind /\ t.bind = x.bind  BY <2>2 DEF SameTables, SameBinds
    <2> QED  BY <1>2, <1>3, <2>6, <2>7, <2>8
  <1> QED  BY <1>5, <1>6

LEMMA LinkDoes ==
  ASSUME NEW s \in Managed, NEW p \in Players, NEW k \in Keys \cup {Outside}
  PROVE  LET t == Link(s, p, k) IN
         /\ t \in Managed /\ t.timer = s.timer /\ SameTables(s, t)
         /\ \A q \in Players : t.in[q] = IF q = p THEN k ELSE s.in[q]
  <1>1. PICK v : v = [s.in EXCEPT ![p] = k]  OBVIOUS
  <1>2. /\ v \in [Players -> Keys \cup {Outside}]
        /\ \A q \in Players : v[q] = IF q = p THEN k ELSE s.in[q]
    BY <1>1, Fields
  <1>3. PICK t \in Managed :
           t = PutIn(s, v) /\ t.in = v /\ t.timer = s.timer /\ SameTables(s, t)
    BY <1>2, InPut DEF SameTables, SameBinds
  <1>4. Link(s, p, k) = t  BY <1>1, <1>3 DEF Link, PutIn
  <1>5. \A q \in Players : t.in[q] = IF q = p THEN k ELSE s.in[q]  BY <1>2, <1>3
  <1> QED  BY <1>3, <1>4, <1>5

LEMMA SavedDoes ==
  ASSUME NEW s \in Managed, Agree(s), NEW k \in Keys, now \in Nat
  PROVE  LET t == Saved(s, k) IN
         /\ t \in Managed /\ Agree(t) /\ SamePlaces(s, t) /\ RowsWait(s, t)
         /\ Known(t, k[2])
  <1>1. PICK m \in Maps, i \in Ids : k = <<m, i>>  BY DEF Keys
  <1>2. PICK t : t = AddInstanceSave(s, m, i, 0, FALSE)  OBVIOUS
  <1>3. /\ t \in Managed /\ SamePlaces(s, t) /\ SameBinds(s, t) /\ RowsWait(s, t)
        /\ SameLists(s, t) /\ Known(t, i)
    BY <1>2, AddInstanceSaveDoes
  <1>4. Agree(t)  BY <1>3, AgreeKept
  <1>5. Saved(s, k) = t /\ k[2] = i  BY <1>1, <1>2 DEF Saved
  <1> QED  BY <1>3, <1>4, <1>5

LEMMA AddPlayerToMapDoes ==
  ASSUME NEW s \in Managed, Agree(s), RowsQueued(s), NEW p \in Players, NEW k \in Keys,
         s.in[p] = k, now \in Nat, NEW w, Housed(s, w \ {p})
  PROVE  LET t == AddPlayerToMap(s, p, k) IN Good(t, w \cup {p}) /\ t.in = s.in
  <1>1. PICK x : x = Saved(s, k)  OBVIOUS
  <1>2. /\ x \in Managed /\ Agree(x) /\ SamePlaces(s, x) /\ RowsWait(s, x)
        /\ Known(x, k[2])
    BY <1>1, SavedDoes
  <1>3. PICK i \in Ids : i = k[2]  BY DEF Keys
  <1>4. PICK y : y = IF p \in members
                     THEN IF x.groupBind[k[1]] = 0 THEN BindGroup(x, k[2], FALSE) ELSE x
                     ELSE IF x.bind[p][k[1]] = 0 THEN BindPlayer(x, p, k[2], FALSE) ELSE x
    OBVIOUS
  <1>5. y \in Managed /\ Agree(y) /\ SamePlaces(x, y) /\ NoNewRows(x, y)
    <2>1. CASE y = x  BY <1>2, <2>1 DEF SamePlaces, NoNewRows
    <2>2. CASE y = BindGroup(x, i, FALSE)  BY <1>2, <1>3, <2>2, BindGroupDoes
    <2>3. CASE y = BindPlayer(x, p, i, FALSE)  BY <1>2, <1>3, <2>3, BindPlayerDoes
    <2> QED  BY <1>3, <1>4, <2>1, <2>2, <2>3
  <1>6. SamePlaces(s, y)  BY <1>2, <1>5 DEF SamePlaces
  <1>7. RowsQueued(y)  BY <1>2, <1>5, RowsWaitOn
  <1>8. HavePlayers(y, k)  BY <1>6 DEF SamePlaces, HavePlayers, Inside
  <1>9. SetResetSchedule(y, FALSE, k) = y  BY <1>5, <1>8, SetResetScheduleDoes
  <1>10. PICK t : t = [y EXCEPT !.timer[k] = "off"]  OBVIOUS
  <1>11. AddPlayerToMap(s, p, k) = t  BY <1>1, <1>4, <1>9, <1>10 DEF AddPlayerToMap
  <1>12. "off" \in Timers  BY DEF Timers
  <1>13. /\ t \in Managed /\ t.in = y.in /\ SameTables(y, t)
         /\ \A l \in Keys : t.timer[l] = IF l = k THEN "off" ELSE y.timer[l]
    BY <1>5, <1>10, <1>12, TimerChanges
  <1>14. Agree(t) /\ RowsQueued(t)  BY <1>5, <1>7, <1>13, AgreeKept, TablesWait, RowsWaitOn
  <1>15. Housed(t, w \cup {p})
    <2> SUFFICES ASSUME NEW q \in Players, t.in[q] # Outside
                 PROVE  /\ t.timer[t.in[q]] # "none"
                        /\ q \in w \cup {p} => t.timer[t.in[q]] \in {"off", "closing"}
      BY DEF Housed
    <2>1. t.in[q] = s.in[q] /\ s.in[q] \in Keys  BY <1>6, <1>13, PlaceType DEF SamePlaces
    <2>2. CASE s.in[q] = k  BY <1>13, <2>1, <2>2
    <2>3. CASE s.in[q] # k
      <3>1. t.timer[t.in[q]] = s.timer[s.in[q]]  BY <1>6, <1>13, <2>1, <2>3 DEF SamePlaces
      <3>2. q # p  BY <2>3
      <3>3. /\ s.timer[s.in[q]] # "none"
            /\ q \in w \ {p} => s.timer[s.in[q]] \in {"off", "closing"}
        BY <2>1 DEF Housed
      <3> QED  BY <3>1, <3>2, <3>3
    <2> QED  BY <2>2, <2>3
  <1>16. t.in = s.in  BY <1>6, <1>13 DEF SamePlaces
  <1> QED  BY <1>11, <1>13, <1>14, <1>15, <1>16 DEF Good

\* The timer of a map its last player leaves.
Timed(s, p, k) ==
    IF Inside(s, k) # {p} THEN s
    ELSE [s EXCEPT !.timer[k] = CASE @ = "off"     -> "running"
                                  [] @ = "closing" -> "soon"
                                  [] OTHER         -> @]

LEMMA TimedDoes ==
  ASSUME NEW s \in Managed, NEW p \in Players, NEW k \in Keys, s.in[p] = k,
         NEW w, Housed(s, w)
  PROVE  LET t == Timed(s, p, k) IN
         /\ t \in Managed /\ t.in = s.in /\ SameTables(s, t) /\ Housed(t, w \ {p})
  <1>1. CASE Inside(s, k) # {p}
    <2>1. Timed(s, p, k) = s  BY <1>1 DEF Timed
    <2> QED  BY <2>1 DEF SameTables, SameBinds, Housed
  <1>2. CASE Inside(s, k) = {p}
    <2>1. PICK z : z = s.timer[k]  OBVIOUS
    <2>2. z \in Timers /\ z # "none"  BY <2>1, PlaceType DEF Housed, Outside, Keys
    <2>3. PICK x : x = CASE z = "off" -> "running" [] z = "closing" -> "soon" [] OTHER -> z
      OBVIOUS
    <2>4. x \in Timers /\ x # "none"  BY <2>2, <2>3 DEF Timers
    <2>5. PICK t : t = [s EXCEPT !.timer[k] = x]  OBVIOUS
    <2>6. Timed(s, p, k) = t  BY <1>2, <2>1, <2>3, <2>5 DEF Timed
    <2>7. /\ t \in Managed /\ t.in = s.in /\ SameTables(s, t)
          /\ \A l \in Keys : t.timer[l] = IF l = k THEN x ELSE s.timer[l]
      BY <2>4, <2>5, TimerChanges
    <2>8. Housed(t, w \ {p})
      <3> SUFFICES ASSUME NEW q \in Players, t.in[q] # Outside
                   PROVE  /\ t.timer[t.in[q]] # "none"
                          /\ q \in w \ {p} => t.timer[t.in[q]] \in {"off", "closing"}
        BY DEF Housed
      <3>1. t.in[q] = s.in[q] /\ s.in[q] \in Keys  BY <2>7, PlaceType
      <3>2. CASE s.in[q] = k
        <4>1. q = p  BY <1>2, <3>2 DEF Inside
        <4> QED  BY <2>4, <2>7, <3>1, <3>2, <4>1
      <3>3. CASE s.in[q] # k  BY <2>7, <3>1, <3>3 DEF Housed
      <3> QED  BY <3>2, <3>3
    <2> QED  BY <2>6, <2>7, <2>8
  <1> QED  BY <1>1, <1>2

LEMMA RemovePlayerFromMapDoes ==
  ASSUME NEW s \in Managed, Agree(s), RowsQueued(s), NEW p \in Players, s.in[p] # Outside,
         NEW w, Housed(s, w), NEW deleted \in BOOLEAN
  PROVE  LET t == RemovePlayerFromMap(s, p, deleted) IN
         /\ Good(t, w \ {p})
         /\ \A q \in Players : t.in[q] = IF deleted /\ q = p THEN Outside ELSE s.in[q]
  <1>1. PICK k \in Keys : k = s.in[p]  BY PlaceType
  <1>2. PICK x : x = Timed(s, p, k)  OBVIOUS
  <1>3. /\ x \in Managed /\ x.in = s.in /\ SameTables(s, x) /\ Housed(x, w \ {p})
    BY <1>1, <1>2, TimedDoes
  <1>4. PICK y : y = IF deleted THEN Link(x, p, Outside) ELSE x  OBVIOUS
  <1>5. /\ y \in Managed /\ SameTables(s, y) /\ Housed(y, w \ {p})
        /\ \A q \in Players : y.in[q] = IF deleted /\ q = p THEN Outside ELSE s.in[q]
    <2>1. CASE ~ deleted  BY <1>3, <1>4, <2>1
    <2>2. CASE deleted
      <3>1. y = Link(x, p, Outside)  BY <1>4, <2>2
      <3>2. /\ y \in Managed /\ y.timer = x.timer /\ SameTables(x, y)
            /\ \A q \in Players : y.in[q] = IF q = p THEN Outside ELSE x.in[q]
        BY <1>3, <3>1, LinkDoes
      <3>3. SameTables(s, y)  BY <1>3, <3>2 DEF SameTables, SameBinds
      <3>4. Housed(y, w \ {p})  BY <1>3, <3>2 DEF Housed
      <3> QED  BY <1>3, <2>2, <3>2, <3>3, <3>4
    <2> QED  BY <2>1, <2>2
  <1>6. Agree(y) /\ RowsQueued(y)  BY <1>5, AgreeKept, TablesWait, RowsWaitOn
  <1>7. PICK z : z = SetResetSchedule(y, TRUE, k)  OBVIOUS
  <1>8. /\ z \in Managed /\ SamePlaces(y, z) /\ SameBinds(y, z) /\ RowsWait(y, z)
        /\ z.save = y.save
    BY <1>5, <1>7, SetResetScheduleDoes
  <1>9. Agree(z) /\ RowsQueued(z)  BY <1>6, <1>8, AgreeKept, RowsWaitOn
  <1>10. PICK i \in Ids : i = k[2]  BY DEF Keys
  <1>11. PICK t : t = UnloadIfEmpty(z, i)  OBVIOUS
  <1>12. /\ t \in Managed /\ SamePlaces(z, t) /\ SameBinds(z, t) /\ NoNewRows(z, t)
         /\ SameLists(z, t)
    BY <1>8, <1>11, UnloadIfEmptyDoes
  <1>13. Agree(t) /\ RowsQueued(t)  BY <1>9, <1>12, AgreeKept, RowsWaitOn
  <1>14. SamePlaces(y, t)  BY <1>8, <1>12 DEF SamePlaces
  <1>15. Housed(t, w \ {p})  BY <1>5, <1>14, PlacesKept
  <1>16. \A q \in Players : t.in[q] = IF deleted /\ q = p THEN Outside ELSE s.in[q]
    BY <1>5, <1>14 DEF SamePlaces
  <1>17. RemovePlayerFromMap(s, p, deleted) = t
    BY <1>1, <1>2, <1>4, <1>7, <1>10, <1>11 DEF RemovePlayerFromMap, Timed
  <1> QED  BY <1>12, <1>13, <1>15, <1>16, <1>17 DEF Good

-----------------------------------------------------------------------------
(***************************************************************************)
(* The binds a login reads.                                                *)
(***************************************************************************)

\* What a row that is read keeps: nothing moves.
Reads(s, t) == t \in Managed /\ Agree(t) /\ SamePlaces(s, t) /\ RowsWait(s, t)

LEMMA ReadsOn ==
  /\ \A s, t, u : Reads(s, t) /\ Reads(t, u) => Reads(s, u)
  /\ \A s : s \in Managed /\ Agree(s) => Reads(s, s)
  <1>1. ASSUME NEW s, NEW t, NEW u, Reads(s, t), Reads(t, u) PROVE Reads(s, u)
    BY <1>1, RowsWaitOn DEF Reads, SamePlaces
  <1>2. ASSUME NEW s, s \in Managed, Agree(s) PROVE Reads(s, s)
    BY <1>2 DEF Reads, RowsWait, SamePlaces
  <1> QED  BY <1>1, <1>2

LEMMA AnswerIs ==
  ASSUME NEW r \in Answers
  PROVE  /\ r.id \in 0 .. MaxId
         /\ r # Null => r.id \in Ids /\ r.map \in Maps /\ r.reset \in Nat
  <1>1. CASE r = Null  BY <1>1 DEF Null
  <1>2. CASE r # Null
    <2>1. r \in [id : Ids, map : Maps, reset : Nat]  BY <1>2 DEF Answers
    <2> QED  BY <2>1 DEF Ids
  <1> QED  BY <1>1, <1>2

LEMMA LoadBindDoes ==
  ASSUME NEW s \in Managed, Agree(s), NEW p \in Players, NEW r \in Answers, now \in Nat
  PROVE  Reads(s, LoadBind(s, p, r))
  <1>1. r # Null => r.id \in Ids /\ r.map \in Maps /\ r.reset \in Nat  BY AnswerIs
  <1>2. CASE r = Null \/ p \in members
    <2>1. PICK v : v = [s.row EXCEPT ![p] = s.row[p] \ {r.id}]  OBVIOUS
    <2>2. v \in [Players -> SUBSET Ids]  BY <2>1, Fields
    <2>3. PICK t \in Managed :
             /\ t = PutRow(s, v) /\ SamePlaces(s, t) /\ SameBinds(s, t) /\ t.save = s.save
             /\ t.events = s.events /\ t.stored = s.stored
      BY <2>2, RowPut DEF SamePlaces, SameBinds
    <2>4. LoadBind(s, p, r) = t  BY <1>2, <2>1, <2>3 DEF LoadBind, PutRow
    <2>5. Agree(t) /\ RowsWait(s, t)  BY <2>3, AgreeKept DEF RowsWait, IsQueued
    <2> QED  BY <2>3, <2>4, <2>5 DEF Reads
  <1>3. CASE ~(r = Null \/ p \in members)
    <2>1. PICK m \in Maps, i \in Ids, at \in Nat : m = r.map /\ i = r.id /\ at = r.reset
      BY <1>1, <1>3
    <2>2. PICK x : x = AddInstanceSave(s, m, i, at, TRUE)  OBVIOUS
    <2>3. /\ x \in Managed /\ SamePlaces(s, x) /\ SameBinds(s, x) /\ RowsWait(s, x)
          /\ SameLists(s, x) /\ Known(x, i)
      BY <2>2, AddInstanceSaveDoes
    <2>4. Agree(x)  BY <2>3, AgreeKept
    <2>5. PICK t : t = BindPlayer(x, p, i, TRUE)  OBVIOUS
    <2>6. t \in Managed /\ SamePlaces(x, t) /\ NoNewRows(x, t) /\ Agree(t)
      BY <2>3, <2>4, <2>5, BindPlayerDoes
    <2>7. SamePlaces(s, t) /\ RowsWait(s, t)  BY <2>3, <2>6, RowsWaitOn DEF SamePlaces
    <2>8. LoadBind(s, p, r) = t  BY <1>3, <2>1, <2>2, <2>5 DEF LoadBind
    <2> QED  BY <2>6, <2>7, <2>8 DEF Reads
  <1> QED  BY <1>2, <1>3

\* Sets of naturals with a bound have a greatest one.
LEMMA GreatestNatural ==
  ASSUME NEW S, S # {}, NEW b \in Nat, S \subseteq 0 .. b
  PROVE  \E n \in S : \A l \in S : l <= n
  <1> DEFINE B == {n \in Nat : \A l \in S : l <= n}
  <1>1. b \in B /\ B \subseteq Nat  OBVIOUS
  <1> HIDE DEF B
  <1>2. PICK n : n = Min(B) /\ n \in B /\ \A l \in B : n <= l  BY <1>1, LeastNatural
  <1>3. n \in Nat /\ \A l \in S : l <= n  BY <1>2 DEF B
  <1>4. CASE n \in S  BY <1>3, <1>4
  <1>5. CASE n \notin S
    <2>1. PICK l \in S : TRUE  OBVIOUS
    <2>2. n # 0  BY <1>3, <1>5, <2>1
    <2>3. n - 1 \in Nat /\ \A j \in S : j <= n - 1  BY <1>3, <1>5, <2>2
    <2>4. n - 1 \in B  BY <2>3 DEF B
    <2> QED  BY <1>2, <1>3, <2>4
  <1> QED  BY <1>4, <1>5

LEMMA LastRowIs ==
  ASSUME NEW rows, rows # {}, rows \subseteq Answers
  PROVE  LastRow(rows) \in rows
  <1> DEFINE S == {r.id : r \in rows}
  <1>1. \A r \in rows : r.id \in 0 .. MaxId  BY AnswerIs
  <1>2. S # {} /\ S \subseteq 0 .. MaxId /\ MaxId \in Nat  BY <1>1
  <1>3. PICK n \in S : \A l \in S : l <= n  BY <1>2, GreatestNatural
  <1>4. PICK r \in rows : n = r.id  OBVIOUS
  <1>5. \A q \in rows : q.id <= r.id  BY <1>3, <1>4
  <1>6. \E x \in rows : \A q \in rows : q.id <= x.id  BY <1>5
  <1> QED  BY <1>6 DEF LastRow

LEMMA LoadBoundInstancesDoes ==
  ASSUME NEW s \in Managed, Agree(s), NEW p \in Players, now \in Nat,
         IsFiniteSet(answer[p]), answer[p] \subseteq Answers
  PROVE  Reads(s, LoadBoundInstances(s, p))
  <1> DEFINE S == answer[p]
             c == [x \in SUBSET S |-> LastRow(x)]
             D == [x \in SUBSET S |-> {t \in Managed : Reads(s, t)}]
             F == [z \in (SUBSET S) \X Managed |-> LoadBind(z[2], p, c[z[1]])]
             body(it) == [x \in SUBSET S |-> IF x = {} THEN s
                            ELSE LoadBind(it[x \ {LastRow(x)}], p, LastRow(x))]
             it == CHOOSE it : it = body(it)
  <1>1. IsFiniteSet(S) /\ S \subseteq Answers  OBVIOUS
  <1>2. LoadBoundInstances(s, p) = it[S]  BY DEF LoadBoundInstances, MapThenFoldSet
  <1>3. Picks(c, S)
    BY <1>1, LastRowIs DEF Picks
  <1>4. s \in D[{}]
    BY ReadsOn
  <1>5. ASSUME NEW x \in (SUBSET S) \ {{}}, NEW t \in D[Less(x, c)]
        PROVE  LoadBind(t, p, c[x]) \in D[x]
    <2>1. c[x] \in x /\ c[x] \in Answers /\ Less(x, c) \in SUBSET S
      BY <1>1, <1>3 DEF Picks, Less
    <2>2. t \in Managed /\ Reads(s, t)  BY <2>1
    <2>3. PICK r \in Answers : r = c[x]  BY <2>1
    <2>4. PICK u : u = LoadBind(t, p, r)  OBVIOUS
    <2>5. Reads(t, u)
      <3> HIDE DEF S, c, D, F
      <3>1. Agree(t)  BY <2>2 DEF Reads
      <3> QED  BY <2>2, <2>4, <3>1, LoadBindDoes
    <2>6. Reads(s, u) /\ u \in Managed  BY <2>2, <2>5, ReadsOn DEF Reads
    <2> QED  BY <2>3, <2>4, <2>6
  <1>6. \A x \in (SUBSET S) \ {{}} : \A t \in D[Less(x, c)] :
          F[<<x, t>>] = LoadBind(t, p, c[x])
    BY DEF Less
  <1> HIDE DEF F, D, S, c
  <1>7. StaysIn(S, c, D, F)
    <2> SUFFICES ASSUME NEW x \in (SUBSET S) \ {{}}, NEW t \in D[Less(x, c)]
                 PROVE  F[<<x, t>>] \in D[x]
      BY DEF StaysIn
    <2> QED  BY <1>5, <1>6
  <1>8. PICK g : FoldOf(g, S, c, s, F) /\ \A x \in SUBSET S : g[x] \in D[x]
    BY <1>1, <1>3, <1>4, <1>7, FoldExists
  <1>9. g = body(g)
    <2>1. ASSUME NEW x \in SUBSET S, x # {}
          PROVE  g[x] = LoadBind(g[x \ {LastRow(x)}], p, LastRow(x))
      <3>1. c[x] = LastRow(x)  BY DEF c
      <3>2. Less(x, c) \in SUBSET S  BY DEF Less
      <3>3. g[x] = F[<<x, g[Less(x, c)]>>]  BY <1>8, <2>1 DEF FoldStep, FoldOf
      <3>4. g[Less(x, c)] \in D[Less(x, c)]  BY <1>8, <3>2
      <3>5. g[x] = LoadBind(g[Less(x, c)], p, c[x])  BY <1>6, <2>1, <3>3, <3>4
      <3> QED  BY <3>1, <3>5 DEF Less
    <2>2. g[{}] = s  BY <1>8 DEF FoldStep, FoldOf
    <2>3. g = [x \in SUBSET S |-> g[x]]  BY <1>8 DEF FoldOf
    <2> QED  BY <2>1, <2>2, <2>3
  <1>10. it = body(it)
    <2>1. \E h : h = body(h)  BY <1>9
    <2> HIDE DEF body
    <2> QED  BY <2>1
  <1>11. it[{}] \in D[{}]
    <2>1. it[{}] = s  BY <1>10
    <2> QED  BY <1>4, <2>1
  <1>12. ASSUME NEW x \in (SUBSET S) \ {{}}, it[Less(x, c)] \in D[Less(x, c)]
         PROVE  it[x] = F[<<x, it[Less(x, c)]>>]
    <2>1. it[x] = LoadBind(it[x \ {LastRow(x)}], p, LastRow(x))
      BY <1>10
    <2>2. c[x] = LastRow(x)  BY DEF c
    <2>3. it[x] = LoadBind(it[Less(x, c)], p, c[x])  BY <2>1, <2>2 DEF Less
    <2> QED  BY <1>6, <1>12, <2>3
  <1> HIDE DEF it
  <1>13. it[S] \in D[S]  BY <1>1, <1>3, <1>7, <1>11, <1>12, FoldStays
  <1>14. Reads(s, it[S])  BY <1>13 DEF D
  <1> QED  BY <1>2, <1>14

-----------------------------------------------------------------------------
(***************************************************************************)
(* The resets that are due.                                                *)
(***************************************************************************)
\* What a reset keeps.
Resets(s, t) ==
    /\ t \in Managed /\ Agree(t) /\ t.in = s.in /\ NoNewRows(s, t)
    /\ \A w : Housed(s, w) => Housed(t, w)

LEMMA ResetsOn ==
  /\ \A s, t, u : Resets(s, t) /\ Resets(t, u) => Resets(s, u)
  /\ \A s : s \in Managed /\ Agree(s) => Resets(s, s)
  <1>1. ASSUME NEW s, NEW t, NEW u, Resets(s, t), Resets(t, u) PROVE Resets(s, u)
    BY <1>1 DEF Resets, NoNewRows
  <1>2. ASSUME NEW s, s \in Managed, Agree(s) PROVE Resets(s, s)
    BY <1>2 DEF Resets, NoNewRows
  <1> QED  BY <1>1, <1>2

\* Both lists of the save i of m are gone, and with them their other ends.
LEMMA SaveEnds ==
  ASSUME NEW s \in Managed, Agree(s), NEW t, NEW i \in Ids, NEW m \in Maps,
         s.save[i].map = m, t.save[i] = NoSave,
         \A j \in Ids \ {i} : t.save[j] = s.save[j],
         \A q \in Players, n \in Maps :
            t.bind[q][n] = IF q \in s.save[i].players /\ n = m THEN 0 ELSE s.bind[q][n],
         \A n \in Maps :
            t.groupBind[n] = IF s.save[i].group /\ n = m THEN 0 ELSE s.groupBind[n]
  PROVE  Agree(t)
  <1>1. ASSUME NEW n \in Maps, NEW j \in Ids, NEW q \in Players
        PROVE  (t.bind[q][n] = j) <=> Lists(t, n, j, q)
    <2>1. /\ (s.bind[q][n] = j) <=> Lists(s, n, j, q)
          /\ (s.bind[q][n] = i) <=> Lists(s, n, i, q)
      BY DEF Agree
    <2>2. j # 0  BY DEF Ids
    <2>3. CASE j = i
      <3>1. ~ Lists(t, n, j, q)  BY <2>3, NoSaveIs DEF Lists
      <3>2. t.bind[q][n] # i  BY <2>1, <2>2, <2>3 DEF Lists
      <3> QED  BY <2>3, <3>1, <3>2
    <2>4. CASE j # i
      <3>1. Lists(t, n, j, q) <=> Lists(s, n, j, q)  BY <2>4 DEF Lists
      <3>2. q \in s.save[i].players /\ n = m => s.bind[q][n] = i  BY <2>1 DEF Lists
      <3> QED  BY <2>1, <2>2, <2>4, <3>1, <3>2
    <2> QED  BY <2>3, <2>4
  <1>2. ASSUME NEW n \in Maps, NEW j \in Ids
        PROVE  (t.groupBind[n] = j) <=> ListsGroup(t, n, j)
    <2>1. /\ (s.groupBind[n] = j) <=> ListsGroup(s, n, j)
          /\ (s.groupBind[n] = i) <=> ListsGroup(s, n, i)
      BY DEF Agree
    <2>2. j # 0  BY DEF Ids
    <2>3. CASE j = i
      <3>1. ~ ListsGroup(t, n, j)  BY <2>3, NoSaveIs DEF ListsGroup
      <3>2. t.groupBind[n] # i  BY <2>1, <2>2, <2>3 DEF ListsGroup
      <3> QED  BY <2>3, <3>1, <3>2
    <2>4. CASE j # i
      <3>1. ListsGroup(t, n, j) <=> ListsGroup(s, n, j)  BY <2>4 DEF ListsGroup
      <3>2. s.save[i].group /\ n = m => s.groupBind[n] = i  BY <2>1 DEF ListsGroup
      <3> QED  BY <2>1, <2>2, <2>4, <3>1, <3>2
    <2> QED  BY <2>3, <2>4
  <1> QED  BY <1>1, <1>2 DEF Agree

LEMMA ResetSaveDoes ==
  ASSUME NEW s \in Managed, Agree(s), NEW i \in Ids
  PROVE  LET t == ResetSave(s, i) IN
         /\ t \in Managed /\ Agree(t) /\ SamePlaces(s, t) /\ NoNewRows(s, t)
  <1>1. PICK v \in Saves : v = s.save[i]  BY Fields
  <1>2. CASE v = NoSave
    <2>1. ResetSave(s, i) = s  BY <1>1, <1>2 DEF ResetSave
    <2> QED  BY <2>1 DEF SamePlaces, NoNewRows
  <1>3. CASE v # NoSave
    <2>1. PICK m \in Maps : m = v.map  BY <1>3, SaveIs
    <2>2. PICK u : u = [s.save EXCEPT ![i] = NoSave]  OBVIOUS
    <2>3. /\ u \in [Ids -> Saves] /\ u[i] = NoSave
          /\ \A j \in Ids \ {i} : u[j] = s.save[j]
      BY <2>2, Fields, NoSaveIs
    <2>4. PICK b : b = [q \in Players |-> IF q \in v.players
                                          THEN [s.bind[q] EXCEPT ![m] = 0] ELSE s.bind[q]]
      OBVIOUS
    <2>5. ASSUME NEW q \in Players
          PROVE  /\ b[q] \in [Maps -> {0} \cup Ids]
                 /\ \A n \in Maps :
                      b[q][n] = IF q \in v.players /\ n = m THEN 0 ELSE s.bind[q][n]
      <3>1. PICK c \in [Maps -> {0} \cup Ids] : c = s.bind[q]  BY Fields
      <3>2. b[q] = IF q \in v.players THEN [c EXCEPT ![m] = 0] ELSE c  BY <2>4, <3>1
      <3> QED  BY <3>1, <3>2
    <2>6. b \in [Players -> [Maps -> {0} \cup Ids]]
      <3>1. b = [q \in Players |-> b[q]]  BY <2>4
      <3> QED  BY <2>5, <3>1
    <2>7. PICK d : d = IF v.group THEN [s.groupBind EXCEPT ![m] = 0] ELSE s.groupBind
      OBVIOUS
    <2>8. /\ d \in [Maps -> {0} \cup Ids]
          /\ \A n \in Maps : d[n] = IF v.group /\ n = m THEN 0 ELSE s.groupBind[n]
      BY <2>7, Fields
    <2>9. PICK x \in Managed :
             /\ x = PutSave(s, u) /\ x.save = u /\ SamePlaces(s, x) /\ SameBinds(s, x)
             /\ x.events = s.events /\ x.stored = s.stored
      BY <2>3, SavePut DEF SamePlaces, SameBinds
    <2>10. PICK y \in Managed :
             /\ y = PutBind(x, b) /\ y.bind = b /\ y.save = u /\ SamePlaces(s, y)
             /\ y.groupBind = s.groupBind /\ y.events = s.events /\ y.stored = s.stored
      BY <2>6, <2>9, BindPut DEF SamePlaces, SameBinds
    <2>11. PICK t \in Managed :
             /\ t = PutGroupBind(y, d) /\ t.groupBind = d /\ t.bind = b /\ t.save = u
             /\ SamePlaces(s, t) /\ t.events = s.events /\ t.stored = s.stored
      BY <2>8, <2>10, GroupBindPut DEF SamePlaces
    <2>12. ResetSave(s, i) = t
      BY <1>1, <1>3, <2>1, <2>2, <2>4, <2>7, <2>9, <2>10, <2>11
      DEF ResetSave, PutSave, PutBind, PutGroupBind
    <2>13. Agree(t)  BY <1>1, <2>1, <2>3, <2>5, <2>8, <2>11, SaveEnds
    <2> QED  BY <2>11, <2>12, <2>13 DEF NoNewRows
  <1> QED  BY <1>2, <1>3

LEMMA ResetInstanceDoes ==
  ASSUME NEW s \in Managed, Agree(s), NEW e \in Events
  PROVE  LET t == ResetInstance(s, e) IN Resets(s, t) /\ t.stored[e.id] = NoRow
  <1>1. PICK i \in Ids, m \in Maps : i = e.id /\ m = e.map  BY DEF Events
  <1>2. PICK x : x = ResetSave(s, i)  OBVIOUS
  <1>3. x \in Managed /\ Agree(x) /\ SamePlaces(s, x) /\ NoNewRows(s, x)
    BY <1>2, ResetSaveDoes
  <1>4. PICK y : y = DeleteFromDB(x, i)  OBVIOUS
  <1>5. /\ y \in Managed /\ SamePlaces(x, y) /\ SameBinds(x, y) /\ NoNewRows(x, y)
        /\ y.save = x.save /\ y.stored[i] = NoRow
    BY <1>3, <1>4, DeleteFromDBDoes
  <1>6. Agree(y)  BY <1>3, <1>5, AgreeKept
  <1>7. PICK k \in Keys : k = <<m, i>>  BY DEF Keys
  <1>8. PICK t : t = Reset(y, k, "respawn")  OBVIOUS
  <1>9. /\ t \in Managed /\ t.in = y.in /\ SameTables(y, t)
        /\ \A w : Housed(y, w) => Housed(t, w)
    BY <1>5, <1>8, ResetDoes
  <1>10. Agree(t)  BY <1>6, <1>9, AgreeKept
  <1>11. SamePlaces(s, y) /\ NoNewRows(s, y)  BY <1>3, <1>5 DEF SamePlaces, NoNewRows
  <1>12. \A w : Housed(s, w) => Housed(t, w)  BY <1>9, <1>11, PlacesKept
  <1>13. t.in = s.in /\ NoNewRows(s, t) /\ t.stored[i] = NoRow
    BY <1>5, <1>9, <1>11 DEF SamePlaces, NoNewRows, SameTables
  <1>14. ResetInstance(s, e) = t  BY <1>1, <1>2, <1>4, <1>7, <1>8 DEF ResetInstance
  <1> QED  BY <1>1, <1>9, <1>10, <1>12, <1>13, <1>14 DEF Resets

LEMMA MaxIs ==
  ASSUME NEW S, S # {}, NEW b \in Nat, S \subseteq 0 .. b
  PROVE  Max(S) \in S
  <1>1. PICK n \in S : \A l \in S : l <= n  BY GreatestNatural
  <1>2. \A l \in S : n >= l  BY <1>1
  <1>3. \E x \in S : \A y \in S : x >= y  BY <1>2
  <1> QED  BY <1>3 DEF Max

\* The rows of the events of q in x are deleted.
Deleted(t, q, x) == \A n \in x : t.stored[q[n].id] = NoRow

LEMMA ResetAllDoes ==
  ASSUME NEW s \in Managed, Agree(s), NEW q \in Seq(Events)
  PROVE  LET t == FoldLeft(ResetInstance, s, q) IN
         Resets(s, t) /\ Deleted(t, q, DOMAIN q)
  <1> DEFINE S == DOMAIN q
             c == [x \in SUBSET S |-> Max(x)]
             D == [x \in SUBSET S |-> {t \in Managed : Resets(s, t) /\ Deleted(t, q, x)}]
             F == [z \in (SUBSET S) \X Managed |-> ResetInstance(z[2], q[c[z[1]]])]
             body(it) == [x \in SUBSET S |-> IF x = {} THEN s
                            ELSE ResetInstance(it[x \ {Max(x)}], q[Max(x)])]
             it == CHOOSE it : it = body(it)
  <1>1. IsFiniteSet(S) /\ S = 1 .. Len(q) /\ Len(q) \in Nat  BY FS_Interval
  <1>2. FoldLeft(ResetInstance, s, q) = it[S]  BY DEF FoldLeft, MapThenFoldSet
  <1>3. Picks(c, S)
    BY <1>1, MaxIs DEF Picks
  <1>4. s \in D[{}]
    BY ResetsOn DEF Deleted
  <1>5. ASSUME NEW x \in (SUBSET S) \ {{}}, NEW t \in D[Less(x, c)]
        PROVE  ResetInstance(t, q[c[x]]) \in D[x]
    <2>1. c[x] \in x /\ c[x] \in DOMAIN q /\ Less(x, c) \in SUBSET S
      BY <1>3 DEF Picks, Less
    <2>2. t \in Managed /\ Resets(s, t) /\ Deleted(t, q, Less(x, c))  BY <2>1
    <2>3. PICK e \in Events : e = q[c[x]]  BY <1>1, <2>1
    <2>4. PICK u : u = ResetInstance(t, e)  OBVIOUS
    <2>5. Resets(t, u) /\ u.stored[e.id] = NoRow
      <3> HIDE DEF S, c, D, F
      <3>1. Agree(t)  BY <2>2 DEF Resets
      <3> QED  BY <2>2, <2>4, <3>1, ResetInstanceDoes
    <2>6. Resets(s, u) /\ u \in Managed  BY <2>2, <2>5, ResetsOn DEF Resets
    <2>7. Deleted(u, q, x)
      <3> SUFFICES ASSUME NEW n \in x PROVE u.stored[q[n].id] = NoRow  BY DEF Deleted
      <3>1. CASE n = c[x]  BY <2>3, <2>5, <3>1
      <3>2. CASE n # c[x]
        <4>1. t.stored[q[n].id] = NoRow  BY <2>2, <3>2 DEF Deleted, Less
        <4>2. n \in 1 .. Len(q)  BY <1>1
        <4>3. q[n] \in Events  BY <4>2
        <4>4. q[n].id \in Ids  BY <4>3 DEF Events
        <4> QED  BY <2>5, <4>1, <4>4 DEF Resets, NoNewRows
      <3> QED  BY <3>1, <3>2
    <2> QED  BY <2>3, <2>4, <2>6, <2>7
  <1>6. \A x \in (SUBSET S) \ {{}} : \A t \in D[Less(x, c)] :
          F[<<x, t>>] = ResetInstance(t, q[c[x]])
    BY DEF Less
  <1> HIDE DEF F, D, S, c
  <1>7. StaysIn(S, c, D, F)
    <2> SUFFICES ASSUME NEW x \in (SUBSET S) \ {{}}, NEW t \in D[Less(x, c)]
                 PROVE  F[<<x, t>>] \in D[x]
      BY DEF StaysIn
    <2> QED  BY <1>5, <1>6
  <1>8. PICK g : FoldOf(g, S, c, s, F) /\ \A x \in SUBSET S : g[x] \in D[x]
    BY <1>1, <1>3, <1>4, <1>7, FoldExists
  <1>9. g = body(g)
    <2>1. ASSUME NEW x \in SUBSET S, x # {}
          PROVE  g[x] = ResetInstance(g[x \ {Max(x)}], q[Max(x)])
      <3>1. c[x] = Max(x)  BY DEF c
      <3>2. Less(x, c) \in SUBSET S  BY DEF Less
      <3>3. g[x] = F[<<x, g[Less(x, c)]>>]  BY <1>8, <2>1 DEF FoldStep, FoldOf
      <3>4. g[Less(x, c)] \in D[Less(x, c)]  BY <1>8, <3>2
      <3>5. g[x] = ResetInstance(g[Less(x, c)], q[c[x]])  BY <1>6, <2>1, <3>3, <3>4
      <3> QED  BY <3>1, <3>5 DEF Less
    <2>2. g[{}] = s  BY <1>8 DEF FoldStep, FoldOf
    <2>3. g = [x \in SUBSET S |-> g[x]]  BY <1>8 DEF FoldOf
    <2> QED  BY <2>1, <2>2, <2>3
  <1>10. it = body(it)
    <2>1. \E h : h = body(h)  BY <1>9
    <2> HIDE DEF body
    <2> QED  BY <2>1
  <1>11. it[{}] \in D[{}]
    <2>1. it[{}] = s  BY <1>10
    <2> QED  BY <1>4, <2>1
  <1>12. ASSUME NEW x \in (SUBSET S) \ {{}}, it[Less(x, c)] \in D[Less(x, c)]
         PROVE  it[x] = F[<<x, it[Less(x, c)]>>]
    <2>1. it[x] = ResetInstance(it[x \ {Max(x)}], q[Max(x)])
      BY <1>10
    <2>2. c[x] = Max(x)  BY DEF c
    <2>3. it[x] = ResetInstance(it[Less(x, c)], q[c[x]])  BY <2>1, <2>2 DEF Less
    <2> QED  BY <1>6, <1>12, <2>3
  <1> HIDE DEF it
  <1>13. it[S] \in D[S]  BY <1>1, <1>3, <1>7, <1>11, <1>12, FoldStays
  <1>14. Resets(s, it[S]) /\ Deleted(it[S], q, S)  BY <1>13 DEF D
  <1>15. PICK r : r = it[S]  OBVIOUS
  <1>16. Resets(s, r) /\ Deleted(r, q, DOMAIN q)  BY <1>14, <1>15 DEF S
  <1> QED  BY <1>2, <1>15, <1>16

LEMMA UpdateDoes ==
  ASSUME mgr \in Managed, Agree(mgr), RowsQueued(mgr), now \in Nat, NEW w, Housed(mgr, w)
  PROVE  LET t == [FoldLeft(ResetInstance, mgr, Due) EXCEPT
                     !.events = SubSeq(@, From(@, now), Len(@))]
         IN  Good(t, w) /\ t.in = mgr.in
  <1>1. PICK q \in Seq(Events) : q = mgr.events  BY Fields
  <1>2. PICK n \in 1 .. Len(q) + 1 : n = From(q, now)  BY FromIs
  <1>3. /\ Due \in Seq(Events) /\ Len(Due) = n - 1
        /\ \A l \in 1 .. n - 1 : Due[l] = q[l]
    <2>1. Due = SubSeq(q, 1, n - 1)  BY <1>1, <1>2 DEF Due
    <2>2. \A l \in 1 .. n - 1 : q[l] \in Events  OBVIOUS
    <2>3. 1 \in Int /\ n - 1 \in Int  OBVIOUS
    <2>4. /\ SubSeq(q, 1, n - 1) \in Seq(Events)
          /\ Len(SubSeq(q, 1, n - 1)) = IF 1 <= n - 1 THEN (n - 1) - 1 + 1 ELSE 0
          /\ \A l \in 1 .. (n - 1) - 1 + 1 : SubSeq(q, 1, n - 1)[l] = q[1 + l - 1]
      BY <2>2, <2>3, SubSeqProperties
    <2>5. Len(q) \in Nat  OBVIOUS
    <2>6. (IF 1 <= n - 1 THEN (n - 1) - 1 + 1 ELSE 0) = n - 1  BY <2>5
    <2>7. \A l \in 1 .. n - 1 : l \in 1 .. (n - 1) - 1 + 1 /\ 1 + l - 1 = l  BY <2>5
    <2> QED  BY <2>1, <2>4, <2>6, <2>7
  <1>4. PICK d : d = FoldLeft(ResetInstance, mgr, Due)  OBVIOUS
  <1>5. Resets(mgr, d) /\ Deleted(d, Due, DOMAIN Due)  BY <1>3, <1>4, ResetAllDoes
  <1>6. d \in Managed /\ Agree(d) /\ d.in = mgr.in /\ d.events = q /\ Housed(d, w)
    BY <1>1, <1>5 DEF Resets, NoNewRows
  <1>7. PICK r : r = SubSeq(q, n, Len(q))  OBVIOUS
  <1>8. /\ r \in Seq(Events) /\ DOMAIN r = 1 .. Len(q) - n + 1
        /\ \A l \in 1 .. Len(q) - n + 1 : r[l] = q[n + l - 1]
    <2>1. \A l \in n .. Len(q) : q[l] \in Events  OBVIOUS
    <2>2. n \in Int /\ Len(q) \in Int /\ n <= Len(q) + 1  OBVIOUS
    <2>3. /\ r \in Seq(Events) /\ Len(r) = IF n <= Len(q) THEN Len(q) - n + 1 ELSE 0
          /\ \A l \in 1 .. Len(q) - n + 1 : r[l] = q[n + l - 1]
      BY <1>7, <2>1, <2>2, SubSeqProperties
    <2>4. (IF n <= Len(q) THEN Len(q) - n + 1 ELSE 0) = Len(q) - n + 1  BY <2>2
    <2>5. DOMAIN r = 1 .. Len(r)  BY <2>3
    <2> QED  BY <2>3, <2>4, <2>5
  <1>9. PICK t \in Managed :
           /\ t = PutEvents(d, r) /\ t.events = r /\ t.timer = d.timer /\ t.in = d.in
           /\ SameBinds(d, t) /\ t.save = d.save /\ t.stored = d.stored
    BY <1>6, <1>8, EventsPut DEF SameBinds
  <1>10. [d EXCEPT !.events = SubSeq(@, From(@, now), Len(@))] = t
    <2>1. SubSeq(d.events, From(d.events, now), Len(d.events)) = r  BY <1>2, <1>6, <1>7
    <2> QED  BY <1>9, <2>1 DEF PutEvents
  <1>11. Agree(t)  BY <1>6, <1>9, AgreeKept
  <1>12. Housed(t, w)  BY <1>6, <1>9 DEF Housed
  <1>13. RowsQueued(t)
    <2> SUFFICES ASSUME NEW i \in Ids \ unqueued, t.stored[i] # NoRow PROVE IsQueued(t, i)
      BY DEF RowsQueued
    <2>1. d.stored[i] # NoRow  BY <1>9
    <2>2. mgr.stored[i] # NoRow  BY <1>5, <2>1 DEF Resets, NoNewRows
    <2>3. PICK l \in DOMAIN q : q[l].id = i  BY <1>1, <2>2 DEF RowsQueued, IsQueued
    <2>4. l \in 1 .. Len(q) /\ Len(q) \in Nat  OBVIOUS
    <2>5. ~(l <= n - 1)
      <3> SUFFICES ASSUME l <= n - 1 PROVE FALSE  OBVIOUS
      <3>1. l \in 1 .. n - 1 /\ DOMAIN Due = 1 .. n - 1  BY <1>3, <2>4
      <3>2. d.stored[Due[l].id] = NoRow  BY <1>5, <3>1 DEF Deleted
      <3>3. Due[l] = q[l]  BY <1>3, <3>1
      <3> QED  BY <2>1, <2>3, <3>2, <3>3
    <2>6. l - n + 1 \in 1 .. Len(q) - n + 1 /\ n + (l - n + 1) - 1 = l  BY <2>4, <2>5
    <2>7. PICK j \in DOMAIN r : r[j] = q[l]  BY <1>8, <2>6
    <2> QED  BY <1>9, <2>3, <2>7 DEF IsQueued
  <1> QED  BY <1>4, <1>6, <1>9, <1>10, <1>11, <1>12, <1>13 DEF Good

-----------------------------------------------------------------------------
(***************************************************************************)
(* A restart.                                                              *)
(***************************************************************************)
\* The events of the ids of x are in q.
AllQueued(q, x) == \A i \in x : \E n \in DOMAIN q : q[n].id = i

LEMMA RestoredEventsDoes ==
  ASSUME NEW rows, NEW ids \in SUBSET Ids, \A i \in ids : StoredReset(rows, i) \in Events
  PROVE  /\ RestoredEvents(rows, ids) \in Seq(Events)
         /\ AllQueued(RestoredEvents(rows, ids), ids)
  <1> DEFINE S == ids
             c == [x \in SUBSET S |-> Max(x)]
             D == [x \in SUBSET S |-> {t \in Seq(Events) : AllQueued(t, x)}]
             F == [z \in (SUBSET S) \X Seq(Events) |-> Scheduled(z[2], StoredReset(rows, c[z[1]]))]
             body(it) == [x \in SUBSET S |-> IF x = {} THEN <<>>
                            ELSE Scheduled(it[x \ {Max(x)}], StoredReset(rows, Max(x)))]
             it == CHOOSE it : it = body(it)
  <1>1. IsFiniteSet(S) /\ S \subseteq 0 .. MaxId /\ MaxId \in Nat
    <2>1. MaxId \in Nat /\ MaxId \in Int /\ 1 \in Int  OBVIOUS
    <2>2. IsFiniteSet(1 .. MaxId)  BY <2>1, FS_Interval
    <2>3. ids \subseteq 1 .. MaxId  BY DEF Ids
    <2>4. IsFiniteSet(ids)  BY <2>2, <2>3, FS_Subset
    <2>5. ids \subseteq 0 .. MaxId  BY <2>1, <2>3
    <2> QED  BY <2>1, <2>4, <2>5
  <1>2. RestoredEvents(rows, ids) = it[S]  BY DEF RestoredEvents, MapThenFoldSet
  <1>3. Picks(c, S)
    BY <1>1, MaxIs DEF Picks
  <1>4. <<>> \in D[{}]
    BY DEF AllQueued
  <1>5. ASSUME NEW x \in (SUBSET S) \ {{}}, NEW t \in D[Less(x, c)]
        PROVE  Scheduled(t, StoredReset(rows, c[x])) \in D[x]
    <2>1. c[x] \in x /\ c[x] \in ids /\ Less(x, c) \in SUBSET S
      BY <1>3 DEF Picks, Less
    <2>2. t \in Seq(Events) /\ AllQueued(t, Less(x, c))  BY <2>1
    <2>3. PICK i \in ids : i = c[x]  BY <2>1
    <2>4. PICK e \in Events : e = StoredReset(rows, i)  OBVIOUS
    <2>5. e.id = i  BY <2>4 DEF StoredReset
    <2>6. PICK u : u = Scheduled(t, e)  OBVIOUS
    <2>7. /\ u \in Seq(Events)
          /\ \A n \in DOMAIN t : \E l \in DOMAIN u : u[l] = t[n]
          /\ \E l \in DOMAIN u : u[l] = e
      <3> HIDE DEF S, c, D, F
      <3>1. t \in Seq(Events)  BY <2>2
      <3>2. /\ Scheduled(t, e) \in Seq(Events)
            /\ \A n \in DOMAIN t : \E l \in DOMAIN Scheduled(t, e) : Scheduled(t, e)[l] = t[n]
            /\ \E l \in DOMAIN Scheduled(t, e) : Scheduled(t, e)[l] = e
        BY <3>1, ScheduledAdds
      <3> QED  BY <2>6, <3>2
    <2>8. AllQueued(u, x)
      <3> SUFFICES ASSUME NEW j \in x PROVE \E n \in DOMAIN u : u[n].id = j
        BY DEF AllQueued
      <3>1. CASE j = i  BY <2>5, <2>7, <3>1
      <3>2. CASE j # i
        <4>1. PICK n \in DOMAIN t : t[n].id = j  BY <2>2, <2>3, <3>2 DEF AllQueued, Less
        <4>2. PICK l \in DOMAIN u : u[l] = t[n]  BY <2>7
        <4> QED  BY <4>1, <4>2
      <3> QED  BY <3>1, <3>2
    <2> QED  BY <2>3, <2>4, <2>6, <2>7, <2>8
  <1>6. \A x \in (SUBSET S) \ {{}} : \A t \in D[Less(x, c)] :
          F[<<x, t>>] = Scheduled(t, StoredReset(rows, c[x]))
    BY DEF Less
  <1> HIDE DEF F, D, S, c
  <1>7. StaysIn(S, c, D, F)
    <2> SUFFICES ASSUME NEW x \in (SUBSET S) \ {{}}, NEW t \in D[Less(x, c)]
                 PROVE  F[<<x, t>>] \in D[x]
      BY DEF StaysIn
    <2> QED  BY <1>5, <1>6
  <1>8. PICK g : FoldOf(g, S, c, <<>>, F) /\ \A x \in SUBSET S : g[x] \in D[x]
    BY <1>1, <1>3, <1>4, <1>7, FoldExists
  <1>9. g = body(g)
    <2>1. ASSUME NEW x \in SUBSET S, x # {}
          PROVE  g[x] = Scheduled(g[x \ {Max(x)}], StoredReset(rows, Max(x)))
      <3>1. c[x] = Max(x)  BY DEF c
      <3>2. Less(x, c) \in SUBSET S  BY DEF Less
      <3>3. g[x] = F[<<x, g[Less(x, c)]>>]  BY <1>8, <2>1 DEF FoldStep, FoldOf
      <3>4. g[Less(x, c)] \in D[Less(x, c)]  BY <1>8, <3>2
      <3>5. g[x] = Scheduled(g[Less(x, c)], StoredReset(rows, c[x]))  BY <1>6, <2>1, <3>3, <3>4
      <3> QED  BY <3>1, <3>5 DEF Less
    <2>2. g[{}] = <<>>  BY <1>8 DEF FoldStep, FoldOf
    <2>3. g = [x \in SUBSET S |-> g[x]]  BY <1>8 DEF FoldOf
    <2> QED  BY <2>1, <2>2, <2>3
  <1>10. it = body(it)
    <2>1. \E h : h = body(h)  BY <1>9
    <2> HIDE DEF body
    <2> QED  BY <2>1
  <1>11. it[{}] \in D[{}]
    <2>1. it[{}] = <<>>  BY <1>10
    <2> QED  BY <1>4, <2>1
  <1>12. ASSUME NEW x \in (SUBSET S) \ {{}}, it[Less(x, c)] \in D[Less(x, c)]
         PROVE  it[x] = F[<<x, it[Less(x, c)]>>]
    <2>1. it[x] = Scheduled(it[x \ {Max(x)}], StoredReset(rows, Max(x)))
      BY <1>10
    <2>2. c[x] = Max(x)  BY DEF c
    <2>3. it[x] = Scheduled(it[Less(x, c)], StoredReset(rows, c[x]))  BY <2>1, <2>2 DEF Less
    <2> QED  BY <1>6, <1>12, <2>3
  <1> HIDE DEF it
  <1>13. it[S] \in D[S]  BY <1>1, <1>3, <1>7, <1>11, <1>12, FoldStays
  <1>14. it[S] \in Seq(Events) /\ AllQueued(it[S], S)  BY <1>13 DEF D
  <1>15. PICK r : r = it[S]  OBVIOUS
  <1>16. r \in Seq(Events) /\ AllQueued(r, ids)  BY <1>14, <1>15 DEF S
  <1> QED  BY <1>2, <1>15, <1>16

LEMMA LoadedGroupBindIs ==
  ASSUME NEW m
  PROVE  LET i == LoadedGroupBind(m) IN
         i = 0 \/ (i \in Kept \cap mgr.groupRow /\ i \in Ids /\ mgr.stored[i].map = m)
  <1> DEFINE ids == {i \in Kept \cap mgr.groupRow : mgr.stored[i].map = m}
  <1>1. CASE ids = {}  BY <1>1 DEF LoadedGroupBind
  <1>2. CASE ids # {}
    <2>1. LoadedGroupBind(m) = Max(ids)  BY <1>2 DEF LoadedGroupBind
    <2>2. ids \subseteq Ids  BY DEF Kept
    <2>3. MaxId \in Nat  OBVIOUS
    <2>4. ids \subseteq 0 .. MaxId
      <3>1. Ids \subseteq 0 .. MaxId  BY <2>3 DEF Ids
      <3> QED  BY <2>2, <3>1
    <2>5. Max(ids) \in ids
      <3> HIDE DEF ids
      <3> QED  BY <1>2, <2>3, <2>4, MaxIs
    <2> QED  BY <2>1, <2>2, <2>5
  <1> QED  BY <1>1, <1>2

\* rows are those that a restart keeps, with their reset times.
Survive(rows) ==
    /\ rows \in [Ids -> Rows]
    /\ \A i \in Ids : rows[i] # NoRow <=> i \in Kept
    /\ \A i \in Kept : /\ rows[i] \in [map : Maps, reset : Nat]
                       /\ rows[i].map = mgr.stored[i].map
                       /\ StoredReset(rows, i) \in Events

LEMMA KeptRows ==
  ASSUME mgr \in Managed, NEW dead \in SUBSET Kept, NEW respawn \in [dead -> 0 .. MaxTime]
  PROVE  /\ Kept \in SUBSET Ids
         /\ Survive([i \in Ids |-> KeptRow(respawn, i)])
  <1>1. Kept \in SUBSET Ids  BY DEF Kept
  <1>2. PICK rows : rows = [i \in Ids |-> KeptRow(respawn, i)]  OBVIOUS
  <1>3. ASSUME NEW i \in Kept
        PROVE  /\ rows[i] \in [map : Maps, reset : Nat] /\ rows[i] # NoRow
               /\ rows[i].map = mgr.stored[i].map
               /\ StoredReset(rows, i) \in Events
    <2>1. i \in Ids /\ mgr.stored[i] # NoRow  BY DEF Kept
    <2>2. mgr.stored[i] \in Rows  BY <2>1, Fields
    <2>3. PICK r \in [map : Maps, reset : Nat] : r = mgr.stored[i]  BY <2>1, <2>2, RowIs
    <2>4. DOMAIN respawn = dead  OBVIOUS
    <2>5. rows[i] = IF i \in dead THEN [r EXCEPT !.reset = respawn[i] + Lifetime] ELSE r
      BY <1>2, <2>1, <2>3, <2>4 DEF KeptRow
    <2>6. i \in dead => respawn[i] + Lifetime \in Nat  OBVIOUS
    <2>7. rows[i] \in [map : Maps, reset : Nat] /\ rows[i].map = r.map  BY <2>5, <2>6
    <2>8. rows[i].map # 0  BY <2>7
    <2>9. rows[i] # NoRow  BY <2>8, RowIs
    <2> QED  BY <2>1, <2>3, <2>7, <2>9 DEF StoredReset, Events
  <1>4. ASSUME NEW i \in Ids, i \notin Kept PROVE rows[i] = NoRow
    BY <1>2, <1>4 DEF KeptRow
  <1>5. rows \in [Ids -> Rows]
    <2>1. \A i \in Ids : rows[i] \in Rows  BY <1>3, <1>4, RowIs DEF Rows
    <2> QED  BY <1>2, <2>1
  <1> QED  BY <1>1, <1>2, <1>3, <1>4, <1>5 DEF Survive

LEMMA LoadedSaveIs ==
  ASSUME NEW rows, Survive(rows), NEW i \in Ids
  PROVE  /\ LoadedSave(rows, i) \in Saves /\ LoadedSave(rows, i).players = {}
         /\ \A m \in Maps : (LoadedSave(rows, i).map = m /\ LoadedSave(rows, i).group)
                               <=> LoadedGroupBind(m) = i
  <1>1. PICK n : n = rows[i].map  OBVIOUS
  <1>2. i # 0  BY DEF Ids
  <1>3. \A m : LoadedGroupBind(m) = i => i \in Kept /\ m = n
    BY <1>1, <1>2, LoadedGroupBindIs DEF Survive
  <1>4. CASE i # LoadedGroupBind(n)
    <2>1. LoadedSave(rows, i) = NoSave  BY <1>1, <1>4 DEF LoadedSave
    <2> QED  BY <1>3, <1>4, <2>1, NoSaveIs
  <1>5. CASE i = LoadedGroupBind(n)
    <2>1. i \in Kept  BY <1>3, <1>5
    <2>2. PICK r \in [map : Maps, reset : Nat] : r = rows[i]  BY <2>1 DEF Survive
    <2>3. n \in Maps /\ r.reset \in Nat /\ n = r.map  BY <1>1, <2>2
    <2>4. PICK v : v = [map |-> n, reset |-> r.reset, players |-> {}, group |-> TRUE,
                        canReset |-> FALSE]
      OBVIOUS
    <2>5. v \in Saves /\ v.map = n /\ v.players = {} /\ v.group = TRUE
      BY <2>3, <2>4, NewSave
    <2>6. LoadedSave(rows, i) = v  BY <1>1, <1>5, <2>2, <2>3, <2>4 DEF LoadedSave
    <2> QED  BY <1>3, <1>5, <2>3, <2>5, <2>6
  <1> QED  BY <1>4, <1>5

LEMMA RestartedDoes ==
  ASSUME mgr \in Managed, NEW w, NEW rows, Survive(rows), NEW at
  PROVE  LET r == Restarted(rows, at) IN
         /\ r \in Managed /\ Agree(r) /\ Housed(r, w)
         /\ \A i \in Ids : r.stored[i] # NoRow =>
              IsQueued(r, i) \/ i \in Kept \ StillToCome(rows, at)
         /\ \A p \in Players : r.in[p] = Outside
  <1>1. PICK tm : tm = [k \in Keys |-> "none"]  OBVIOUS
  <1>2. PICK in : in = [p \in Players |-> Outside]  OBVIOUS
  <1>3. PICK sv : sv = [i \in Ids |-> LoadedSave(rows, i)]  OBVIOUS
  <1>0. PICK ids \in SUBSET Ids : ids = StillToCome(rows, at) /\ ids \subseteq Kept
    <2>1. StillToCome(rows, at) \subseteq Ids  BY DEF StillToCome
    <2>2. ASSUME NEW i \in StillToCome(rows, at) PROVE i \in Kept
      <3>1. i \in Ids /\ rows[i] # NoRow  BY DEF StillToCome
      <3> QED  BY <3>1 DEF Survive
    <2> QED  BY <2>1, <2>2
  <1>4. PICK ev \in Seq(Events) : ev = RestoredEvents(rows, ids) /\ AllQueued(ev, ids)
    <2>1. \A i \in ids : StoredReset(rows, i) \in Events  BY <1>0 DEF Survive
    <2> QED  BY <2>1, RestoredEventsDoes
  <1>5. PICK gb : gb = [m \in Maps |-> LoadedGroupBind(m)]  OBVIOUS
  <1>7. PICK rw : rw = [p \in Players |-> mgr.row[p] \cap Kept]  OBVIOUS
  <1>8. PICK gr : gr = mgr.groupRow \cap Kept  OBVIOUS
  <1>9. PICK r : r = [ timer |-> tm, in |-> in, save |-> sv, events |-> ev, bind |-> Nobody,
                       groupBind |-> gb, stored |-> rows, row |-> rw, groupRow |-> gr ]
    OBVIOUS
  <1>10. Restarted(rows, at) = r
    BY <1>0, <1>1, <1>2, <1>3, <1>4, <1>5, <1>7, <1>8, <1>9 DEF Restarted
  <1>11. tm \in [Keys -> Timers]
    <2>1. "none" \in Timers  BY DEF Timers
    <2> QED  BY <1>1, <2>1
  <1>12. in \in [Players -> Keys \cup {Outside}]  BY <1>2
  <1>13. sv \in [Ids -> Saves]  BY <1>3, LoadedSaveIs
  <1>14. Nobody \in [Players -> [Maps -> {0} \cup Ids]]  BY DEF Nobody
  <1>15. gb \in [Maps -> {0} \cup Ids]  BY <1>5, LoadedGroupBindIs
  <1>6. Kept \in SUBSET Ids  BY DEF Kept
  <1>16. rows \in [Ids -> Rows]  BY DEF Survive
  <1>17. rw \in [Players -> SUBSET Ids]
    <2>1. \A p \in Players : mgr.row[p] \cap Kept \in SUBSET Ids  BY <1>6
    <2> QED  BY <1>7, <2>1
  <1>18. gr \in SUBSET Ids  BY <1>6, <1>8
  <1>19. r \in Managed
    BY <1>4, <1>9, <1>11, <1>12, <1>13, <1>14, <1>15, <1>16, <1>17, <1>18 DEF Managed
  <1>20. /\ r.in = in /\ r.save = sv /\ r.events = ev /\ r.bind = Nobody
         /\ r.groupBind = gb /\ r.stored = rows
    BY <1>9
  <1>21. Agree(r)
    <2>1. ASSUME NEW m \in Maps, NEW i \in Ids, NEW p \in Players
          PROVE  (r.bind[p][m] = i) <=> Lists(r, m, i, p)
      <3>1. r.bind[p][m] = 0 /\ i # 0  BY <1>20 DEF Nobody, Ids
      <3>2. r.save[i].players = {}  BY <1>3, <1>20, LoadedSaveIs
      <3> QED  BY <3>1, <3>2 DEF Lists
    <2>2. ASSUME NEW m \in Maps, NEW i \in Ids
          PROVE  (r.groupBind[m] = i) <=> ListsGroup(r, m, i)
      <3>1. r.groupBind[m] = LoadedGroupBind(m)  BY <1>5, <1>20
      <3>2. r.save[i] = LoadedSave(rows, i)  BY <1>3, <1>20
      <3> QED  BY <3>1, <3>2, LoadedSaveIs DEF ListsGroup
    <2> QED  BY <2>1, <2>2 DEF Agree
  <1>22. ASSUME NEW i \in Ids, r.stored[i] # NoRow
         PROVE  IsQueued(r, i) \/ i \in Kept \ StillToCome(rows, at)
    <2>1. i \in Kept  BY <1>20, <1>22 DEF Survive
    <2>2. i \in ids => IsQueued(r, i)  BY <1>4, <1>20 DEF AllQueued, IsQueued
    <2> QED  BY <1>0, <2>1, <2>2
  <1>23. \A p \in Players : r.in[p] = Outside  BY <1>2, <1>20
  <1>24. Housed(r, w)  BY <1>23 DEF Housed
  <1> QED  BY <1>10, <1>19, <1>21, <1>22, <1>23, <1>24

-----------------------------------------------------------------------------
(***************************************************************************)
(* Entries fit, and strangers do not meet.                                 *)
(***************************************************************************)
LEMMA EntryFits ==
  ASSUME NEW s \in Managed, Agree(s), NEW p \in Players, NEW m \in Maps, NEW login,
         NEW k \in Keys, k = <<m, Target(s, p, m, login)>>,
         login = 0 \/ p \in members \/ s.bind[p][m] \in {0, login}
  PROVE  LET made == CreateInstance(s, p, k, login) IN
         BindAgrees(made, p, k) /\ (login = 0 => Admitted(made, p, k))
  <1>1. PICK t : t = CreateInstance(s, p, k, login)  OBVIOUS
  <1>2. k[1] = m /\ k[2] = Target(s, p, m, login)  OBVIOUS
  <1>3. /\ t.groupBind = s.groupBind
        /\ IF login = 0 /\ GroupTarget(s, p, m) # 0
           THEN t.bind[p][m] = 0 ELSE t.bind = s.bind
    BY <1>1, <1>2, CreateInstanceDoes
  <1>4. ASSUME p \notin members PROVE t.bind[p][m] \in {0, k[2]}
    <2>1. GroupTarget(s, p, m) = 0  BY <1>4 DEF GroupTarget
    <2>2. t.bind = s.bind  BY <1>3, <2>1
    <2>3. CASE login = 0  BY <1>2, <2>1, <2>2, <2>3 DEF Target
    <2>4. CASE login # 0
      <3>1. k[2] \in Ids /\ 0 \notin Ids  BY DEF Keys, Ids
      <3>2. k[2] = login  BY <1>2, <2>4, <3>1 DEF Target
      <3> QED  BY <1>4, <2>2, <2>4, <3>2
    <2> QED  BY <2>3, <2>4
  <1>5. ASSUME p \in members, login = 0
        PROVE  t.bind[p][m] \in {0, k[2]} /\ t.groupBind[m] \in {0, k[2]}
    <2>1. GroupTarget(s, p, m) = s.groupBind[m]  BY <1>5 DEF GroupTarget
    <2>2. CASE s.groupBind[m] # 0  BY <1>2, <1>3, <1>5, <2>1, <2>2 DEF Target
    <2>3. CASE s.groupBind[m] = 0  BY <1>2, <1>3, <1>5, <2>1, <2>3 DEF Target
    <2> QED  BY <2>2, <2>3
  <1> QED  BY <1>1, <1>2, <1>4, <1>5 DEF BindAgrees, Admitted

\* Nobody who may stay shares the instance of p, except within the party g.
NoStranger(s, p, g, val) ==
    \A q \in Players \ {p} :
        (s.in[p] # Outside /\ s.in[q] = s.in[p] /\ val[q]) => p \in g /\ q \in g

LEMMA ValidIsPrivate ==
  ASSUME NEW s, NEW p, NEW g, NEW val, InstanceValid(s, p, g, val)
  PROVE  NoStranger(s, p, g, val)
  BY DEF InstanceValid, NoStranger, Inside

Visible(p) == mgr.in[p] # Outside /\ phase[p] = "world" /\ valid[p]

LEMMA PrivateNext ==
  ASSUME InstancePrivate, members \subseteq members',
         \A p \in Players :
            Visible(p)' => \/ Visible(p) /\ mgr'.in[p] = mgr.in[p]
                           \/ NoStranger(mgr', p, members', valid')
  PROVE  InstancePrivate'
  <1> SUFFICES ASSUME NEW p \in Players, NEW q \in Players, p # q,
                      mgr'.in[p] = mgr'.in[q], Visible(p)', Visible(q)'
               PROVE  p \in members' /\ q \in members'
    BY DEF InstancePrivate, Visible
  <1>1. CASE NoStranger(mgr', p, members', valid')  BY <1>1 DEF NoStranger, Visible
  <1>2. CASE NoStranger(mgr', q, members', valid')  BY <1>2 DEF NoStranger, Visible
  <1>3. CASE /\ Visible(p) /\ mgr'.in[p] = mgr.in[p]
             /\ Visible(q) /\ mgr'.in[q] = mgr.in[q]
    BY <1>3 DEF InstancePrivate, Visible
  <1> QED  BY <1>1, <1>2, <1>3

LEMMA PrivateParted ==
  ASSUME InstancePrivate,
         \A p \in Players :
            Visible(p)' => Visible(p) /\ mgr'.in[p] = mgr.in[p] /\ p \notin members
  PROVE  InstancePrivate'
  <1> SUFFICES ASSUME NEW p \in Players, NEW q \in Players, p # q,
                      mgr'.in[p] = mgr'.in[q], Visible(p)', Visible(q)'
               PROVE  FALSE
    BY DEF InstancePrivate, Visible
  <1> QED  BY DEF InstancePrivate, Visible

-----------------------------------------------------------------------------
(***************************************************************************)
(* Every action keeps the invariant.                                       *)
(***************************************************************************)
Phases == {"offline", "loading", "world", "transit"}

OthersTyped ==
    /\ used \subseteq Ids /\ now \in 0 .. MaxTime
    /\ phase \in [Players -> Phases]
    /\ valid \in [Players -> BOOLEAN]
    /\ saved \in [Players -> (Maps \X (0 .. MaxId)) \cup {Outside}]
    /\ answer \in [Players -> SUBSET Answers]
    /\ members \subseteq Players
    /\ IF members = {} THEN leader = NoOne ELSE leader \in members
    /\ failed \in BOOLEAN /\ changes \in 0 .. MaxChanges

InWorld == {p \in Players : phase[p] = "world"}

LEMMA Spread ==
  ASSUME SavesInv
  PROVE  /\ mgr \in Managed /\ Agree(mgr) /\ RowsQueued(mgr) /\ Housed(mgr, InWorld)
         /\ OthersTyped /\ now \in Nat /\ unqueued \subseteq Ids
         /\ failed = FALSE /\ InstancePrivate /\ InsideOnline /\ AnswersFinite
  <1>1. mgr \in Managed  BY DEF SavesInv, TypeOK
  <1>2. OthersTyped  BY DEF SavesInv, TypeOK, OthersTyped, Phases
  <1>3. Agree(mgr)
    BY DEF SavesInv, BindsAndSavesAgree, Agree, Lists, ListsGroup
  <1>4. RowsQueued(mgr)  BY DEF SavesInv, RowsAwaitReset, RowsQueued, IsQueued
  <1>5. Housed(mgr, InWorld)  BY DEF SavesInv, InsideAMap, Housed, InWorld, Loaded
  <1>6. now \in Nat  BY <1>2 DEF OthersTyped
  <1>7. failed = FALSE  BY <1>2 DEF SavesInv, EntryIsGranted, OthersTyped
  <1>8. unqueued \subseteq Ids  BY DEF SavesInv, TypeOK
  <1> QED  BY <1>1, <1>2, <1>3, <1>4, <1>5, <1>6, <1>7, <1>8 DEF SavesInv

LEMMA GatherParts ==
  ASSUME mgr' \in Managed, Agree(mgr'), Housed(mgr', InWorld'), RowsAwaitReset',
         unqueued' \subseteq Ids, OthersTyped', failed' = FALSE,
         InstancePrivate', InsideOnline', AnswersFinite'
  PROVE  SavesInv'
  <1>1. TypeOK'  BY DEF TypeOK, OthersTyped, Phases
  <1>2. BindsAndSavesAgree'
    BY DEF BindsAndSavesAgree, Agree, Lists, ListsGroup
  <1>3. InsideAMap'  BY DEF InsideAMap, Housed, InWorld, Loaded
  <1>4. EntryIsGranted'  BY DEF EntryIsGranted
  <1> QED  BY <1>1, <1>2, <1>3, <1>4 DEF SavesInv

\* What becomes of the rows without a reset in every step but a restart.
Dequeued == unqueued' = {i \in unqueued : mgr'.stored[i] # NoRow /\ ~ Queued(mgr', i)}

LEMMA QueuedIs ==
  ASSUME NEW s, NEW i
  PROVE  Queued(s, i) <=> IsQueued(s, i)
  BY DEF Queued, IsQueued, ToSet

LEMMA Gather ==
  ASSUME Dequeued, unqueued \subseteq Ids, Good(mgr', InWorld'), OthersTyped',
         failed' = FALSE, InstancePrivate', InsideOnline', AnswersFinite'
  PROVE  SavesInv'
  <1>1. mgr' \in Managed /\ Agree(mgr') /\ Housed(mgr', InWorld')  BY DEF Good
  <1>2. unqueued' \subseteq Ids  BY DEF Dequeued
  <1>3. RowsAwaitReset'
    <2> SUFFICES ASSUME NEW i \in Ids, i \notin unqueued', mgr'.stored[i] # NoRow
                 PROVE  \E n \in DOMAIN mgr'.events : mgr'.events[n].id = i
      BY DEF RowsAwaitReset
    <2>1. IsQueued(mgr', i)
      <3>1. CASE i \in unqueued
        <4>1. Queued(mgr', i)  BY <3>1 DEF Dequeued
        <4> QED  BY <4>1, QueuedIs
      <3>2. CASE i \notin unqueued  BY <3>2 DEF Good, RowsQueued
      <3> QED  BY <3>1, <3>2
    <2> QED  BY <2>1 DEF IsQueued
  <1> QED  BY <1>1, <1>2, <1>3, GatherParts

LEMMA InitHolds == Init => SavesInv
  <1> SUFFICES ASSUME Init PROVE SavesInv  OBVIOUS
  <1>1. mgr \in Managed
    <2>1. PICK tm \in [Keys -> Timers] : tm = [k \in Keys |-> "none"]
      <3>1. "none" \in Timers  BY DEF Timers
      <3> QED  BY <3>1
    <2>2. PICK in \in [Players -> Keys \cup {Outside}] : in = [p \in Players |-> Outside]
      OBVIOUS
    <2>3. PICK sv \in [Ids -> Saves] : sv = [i \in Ids |-> NoSave]  BY NoSaveIs
    <2>4. PICK gb \in [Maps -> {0} \cup Ids] : gb = [m \in Maps |-> 0]  OBVIOUS
    <2>5. PICK st \in [Ids -> Rows] : st = [i \in Ids |-> NoRow]  BY RowIs
    <2>6. PICK rw \in [Players -> SUBSET Ids] : rw = [p \in Players |-> {}]  OBVIOUS
    <2>7. Nobody \in [Players -> [Maps -> {0} \cup Ids]]  BY DEF Nobody
    <2>8. PICK ev \in Seq(Events) : ev = <<>>
      <3>1. <<>> \in Seq(Events)  OBVIOUS
      <3> QED  BY <3>1, Zenon
    <2>9. PICK gr \in SUBSET Ids : gr = {}  OBVIOUS
    <2>10. mgr = [ timer |-> tm, in |-> in, save |-> sv, events |-> ev, bind |-> Nobody,
                   groupBind |-> gb, stored |-> st, row |-> rw, groupRow |-> gr ]
      BY <2>1, <2>2, <2>3, <2>4, <2>5, <2>6, <2>8, <2>9 DEF Init
    <2> QED  BY <2>7, <2>10 DEF Managed
  <1>2. /\ mgr.in = [p \in Players |-> Outside] /\ mgr.save = [i \in Ids |-> NoSave]
        /\ mgr.bind = Nobody /\ mgr.groupBind = [m \in Maps |-> 0]
        /\ mgr.stored = [i \in Ids |-> NoRow]
    BY DEF Init
  <1>3. BindsAndSavesAgree
    <2> SUFFICES ASSUME NEW m \in Maps, NEW i \in Ids
                 PROVE  /\ \A p \in Players :
                             (mgr.bind[p][m] = i) <=>
                                (mgr.save[i].map = m /\ p \in mgr.save[i].players)
                        /\ (mgr.groupBind[m] = i) <=> (mgr.save[i].map = m /\ mgr.save[i].group)
      BY DEF BindsAndSavesAgree
    <2>1. i # 0 /\ mgr.save[i] = NoSave  BY <1>2 DEF Ids
    <2>2. mgr.groupBind[m] = 0 /\ \A p \in Players : mgr.bind[p][m] = 0
      BY <1>2 DEF Nobody
    <2> QED  BY <2>1, <2>2, NoSaveIs
  <1>4. \A p \in Players : mgr.in[p] = Outside  BY <1>2
  <1>5. RowsAwaitReset  BY <1>2 DEF RowsAwaitReset
  <1>6. InsideAMap /\ InstancePrivate  BY <1>4 DEF InsideAMap, InstancePrivate
  <1>7. InsideOnline  BY <1>4 DEF Init, InsideOnline
  <1>8. AnswersFinite  BY FS_EmptySet DEF Init, AnswersFinite
  <1>9. TypeOK
    <2>1. OthersTyped
      <3>1. 0 \in 0 .. MaxTime /\ 0 \in 0 .. MaxChanges  OBVIOUS
      <3> QED  BY <3>1 DEF Init, OthersTyped, Phases
    <2>2. unqueued \subseteq Ids  BY DEF Init
    <2> QED  BY <1>1, <2>1, <2>2 DEF TypeOK, OthersTyped, Phases
  <1>10. EntryIsGranted  BY DEF Init, EntryIsGranted
  <1> QED  BY <1>3, <1>5, <1>6, <1>7, <1>8, <1>9, <1>10 DEF SavesInv

LEMMA TeleportToKeeps ==
  ASSUME SavesInv, Dequeued, NEW p \in Players, TeleportTo(p)
  PROVE  SavesInv'
  <1>1. /\ mgr' = RemovePlayerFromMap(mgr, p, FALSE) /\ mgr.in[p] # Outside
        /\ phase' = [phase EXCEPT ![p] = "transit"]
        /\ UNCHANGED <<used, now, valid, saved, answer, leader, members, failed, changes>>
    BY DEF TeleportTo, group
  <1>2. Good(mgr', InWorld \ {p}) /\ \A q \in Players : mgr'.in[q] = mgr.in[q]
    BY <1>1, Spread, RemovePlayerFromMapDoes
  <1>3. /\ phase' \in [Players -> Phases] /\ phase'[p] = "transit"
        /\ \A q \in Players \ {p} : phase'[q] = phase[q]
    BY <1>1, Spread DEF OthersTyped, Phases
  <1>4. InWorld' = InWorld \ {p}  BY <1>3 DEF InWorld
  <1>5. OthersTyped'  BY <1>1, <1>3, Spread DEF OthersTyped
  <1>6. InstancePrivate'
    <2>1. \A q \in Players : Visible(q)' => Visible(q) /\ mgr'.in[q] = mgr.in[q]
      BY <1>1, <1>2, <1>3 DEF Visible
    <2> QED  BY <1>1, <2>1, Spread, PrivateNext
  <1>7. InsideOnline'
    <2>1. InsideOnline  BY Spread
    <2> QED  BY <1>1, <1>2, <1>3, <2>1 DEF InsideOnline
  <1>8. AnswersFinite'  BY <1>1, Spread DEF AnswersFinite
  <1> QED  BY <1>1, <1>2, <1>4, <1>5, <1>6, <1>7, <1>8, Spread, Gather

LEMMA WorldportOutKeeps ==
  ASSUME SavesInv, Dequeued, NEW p \in Players, WorldportOut(p)
  PROVE  SavesInv'
  <1>1. /\ mgr' = Link(mgr, p, Outside) /\ phase[p] = "transit"
        /\ phase' = [phase EXCEPT ![p] = "world"] /\ valid' = [valid EXCEPT ![p] = TRUE]
        /\ UNCHANGED <<used, now, saved, answer, leader, members, failed, changes>>
    BY DEF WorldportOut, group
  <1>2. /\ mgr' \in Managed /\ mgr'.timer = mgr.timer /\ SameTables(mgr, mgr')
        /\ \A q \in Players : mgr'.in[q] = IF q = p THEN Outside ELSE mgr.in[q]
    BY <1>1, Spread, LinkDoes
  <1>3. /\ phase' \in [Players -> Phases] /\ phase'[p] = "world"
        /\ \A q \in Players \ {p} : phase'[q] = phase[q]
    BY <1>1, Spread DEF OthersTyped, Phases
  <1>4. /\ valid' \in [Players -> BOOLEAN] /\ valid'[p]
        /\ \A q \in Players \ {p} : valid'[q] = valid[q]
    BY <1>1, Spread DEF OthersTyped
  <1>5. Good(mgr', InWorld')
    <2>1. Agree(mgr') /\ RowsQueued(mgr')
      BY <1>2, Spread, AgreeKept, TablesWait, RowsWaitOn
    <2>2. Housed(mgr', InWorld')
      BY <1>2, <1>3, Spread DEF Housed, InWorld
    <2> QED  BY <1>2, <2>1, <2>2 DEF Good
  <1>6. OthersTyped'  BY <1>1, <1>3, <1>4, Spread DEF OthersTyped
  <1>7. InstancePrivate'
    <2>1. \A q \in Players : Visible(q)' => Visible(q) /\ mgr'.in[q] = mgr.in[q]
      BY <1>1, <1>2, <1>3, <1>4 DEF Visible
    <2> QED  BY <1>1, <2>1, Spread, PrivateNext
  <1>8. InsideOnline'
    <2>1. InsideOnline  BY Spread
    <2> QED  BY <1>2, <1>3, <1>4, <2>1 DEF InsideOnline
  <1>9. AnswersFinite'  BY <1>1, Spread DEF AnswersFinite
  <1> QED  BY <1>1, <1>5, <1>6, <1>7, <1>8, <1>9, Spread, Gather

\* Actions that move nobody, and change only the tables and the timers.
LEMMA StaysSafe ==
  ASSUME SavesInv, Dequeued, Follows(mgr, mgr') \/ Resets(mgr, mgr') \/ Good(mgr', InWorld),
         mgr'.in = mgr.in,
         OthersTyped', UNCHANGED <<phase, valid, answer, members, failed>>
  PROVE  SavesInv'
  <1>1. InWorld' = InWorld  BY DEF InWorld
  <1>2. Good(mgr', InWorld)
    <2>1. Good(mgr, InWorld)  BY Spread DEF Good
    <2>2. CASE Follows(mgr, mgr')  BY <2>1, <2>2, FollowsOn
    <2>3. CASE Resets(mgr, mgr')  BY <2>1, <2>3, RowsKept DEF Resets, Good
    <2> QED  BY <2>2, <2>3
  <1>3. InstancePrivate'
    <2>1. \A q \in Players : Visible(q)' => Visible(q) /\ mgr'.in[q] = mgr.in[q]
      BY DEF Visible
    <2> QED  BY <2>1, Spread, PrivateNext
  <1>4. InsideOnline'
    <2>1. InsideOnline  BY Spread
    <2> QED  BY <2>1 DEF InsideOnline
  <1>5. AnswersFinite'  BY Spread DEF AnswersFinite
  <1>6. Good(mgr', InWorld')  BY <1>1, <1>2
  <1> QED  BY <1>3, <1>4, <1>5, <1>6, Spread, Gather

LEMMA WorldportIntoKeeps ==
  ASSUME SavesInv, Dequeued, NEW p \in Players, NEW m \in Maps, WorldportInto(p, m)
  PROVE  SavesInv'
  <1>1. PICK k : k = <<m, Target(mgr, p, m, 0)>>  OBVIOUS
  <1>2. PICK made : made = CreateInstance(mgr, p, k, 0)  OBVIOUS
  <1>3. /\ k \in Keys
        /\ used' = IF Fresh(mgr, p, m, 0) THEN used \cup {k[2]} ELSE used
        /\ failed' = (failed \/ ~ Admitted(made, p, k) \/ ~ BindAgrees(made, p, k))
        /\ mgr' = AddPlayerToMap(Link(made, p, k), p, k)
        /\ phase' = [phase EXCEPT ![p] = "world"]
        /\ valid' = [valid EXCEPT ![p] = @ /\ InstanceValid(mgr', p, members, valid)]
        /\ UNCHANGED <<now, saved, answer, leader, members, changes>>
    BY <1>1, <1>2 DEF WorldportInto, group
  <1>4. Follows(mgr, made) /\ Loaded(made, k)
    BY <1>2, <1>3, Spread, CreateInstanceDoes
  <1>5. failed' = FALSE
    <2>1. BindAgrees(made, p, k) /\ Admitted(made, p, k)
      BY <1>1, <1>2, <1>3, Spread, EntryFits
    <2> QED  BY <1>3, <2>1, Spread
  <1>6. /\ made \in Managed /\ Agree(made) /\ RowsQueued(made) /\ Housed(made, InWorld)
        /\ made.in = mgr.in
    BY <1>4, Spread, RowsWaitOn DEF Follows
  <1>7. PICK l : l = Link(made, p, k)  OBVIOUS
  <1>8. /\ l \in Managed /\ l.timer = made.timer /\ SameTables(made, l)
        /\ \A q \in Players : l.in[q] = IF q = p THEN k ELSE made.in[q]
    BY <1>3, <1>6, <1>7, LinkDoes
  <1>9. Agree(l) /\ RowsQueued(l)  BY <1>6, <1>8, AgreeKept, TablesWait, RowsWaitOn
  <1>10. Housed(l, InWorld \ {p})  BY <1>4, <1>6, <1>8 DEF Housed, Loaded
  <1>11. Good(mgr', InWorld \cup {p}) /\ mgr'.in = l.in
    <2>1. now \in Nat /\ l.in[p] = k  BY <1>8, Spread
    <2> QED  BY <1>3, <1>7, <1>8, <1>9, <1>10, <2>1, AddPlayerToMapDoes
  <1>12. \A q \in Players : mgr'.in[q] = IF q = p THEN k ELSE mgr.in[q]
    BY <1>6, <1>8, <1>11
  <1>13. /\ phase' \in [Players -> Phases] /\ phase'[p] = "world"
         /\ \A q \in Players \ {p} : phase'[q] = phase[q]
    BY <1>3, Spread DEF OthersTyped, Phases
  <1>14. InWorld' = InWorld \cup {p}  BY <1>13 DEF InWorld
  <1>15. PICK v \in BOOLEAN : v <=> (valid[p] /\ InstanceValid(mgr', p, members, valid))
    OBVIOUS
  <1>16. /\ valid' \in [Players -> BOOLEAN]
         /\ valid'[p] => InstanceValid(mgr', p, members, valid)
         /\ \A q \in Players \ {p} : valid'[q] = valid[q]
    <2>1. valid \in [Players -> BOOLEAN]  BY Spread DEF OthersTyped
    <2> QED  BY <1>3, <2>1
  <1>17. OthersTyped'
    <2>1. used' \subseteq Ids
      <3>1. k[2] \in Ids  BY <1>3 DEF Keys
      <3> QED  BY <1>3, <3>1, Spread DEF OthersTyped
    <2> QED  BY <1>3, <1>5, <1>13, <1>16, <2>1, Spread DEF OthersTyped
  <1>18. InstancePrivate'
    <2>1. valid'[p] => NoStranger(mgr', p, members', valid')
      <3>1. valid'[p] => NoStranger(mgr', p, members, valid)  BY <1>16, ValidIsPrivate
      <3> QED  BY <1>3, <1>16, <3>1 DEF NoStranger
    <2>2. \A q \in Players \ {p} : Visible(q)' => Visible(q) /\ mgr'.in[q] = mgr.in[q]
      BY <1>12, <1>13, <1>16 DEF Visible
    <2>3. ASSUME NEW q \in Players, Visible(q)'
          PROVE  \/ Visible(q) /\ mgr'.in[q] = mgr.in[q]
                 \/ NoStranger(mgr', q, members', valid')
      BY <2>1, <2>2, <2>3 DEF Visible
    <2> QED  BY <1>3, <2>3, Spread, PrivateNext
  <1>19. InsideOnline'
    <2>1. InsideOnline  BY Spread
    <2>2. k # Outside  BY <1>1 DEF Outside
    <2> QED  BY <1>12, <1>13, <1>16, <2>1, <2>2 DEF InsideOnline
  <1>20. AnswersFinite'  BY <1>3, Spread DEF AnswersFinite
  <1> QED  BY <1>5, <1>11, <1>14, <1>17, <1>18, <1>19, <1>20, Spread, Gather

LEMMA AcceptInviteKeeps ==
  ASSUME SavesInv, Dequeued, NEW p \in Players, NEW q \in Players, AcceptInvite(p, q)
  PROVE  SavesInv'
  <1>1. PICK made : made = ConvertLeaderInstancesToGroup(mgr, p, FALSE)  OBVIOUS
  <1>2. PICK v1 : v1 = [valid EXCEPT ![p] = InstanceValid(made, p, {p}, valid)]  OBVIOUS
  <1>3. /\ members = {} /\ p # q /\ changes < MaxChanges /\ changes' = changes + 1
        /\ phase[p] \in {"world", "transit"} /\ phase[q] = "world"
        /\ valid' = [v1 EXCEPT ![q] = InstanceValid(made, q, {p, q}, v1)]
        /\ mgr' = ResetPlayer(made, q, "join")
        /\ leader' = p /\ members' = {p, q}
        /\ UNCHANGED <<used, now, phase, saved, answer, failed>>
    BY <1>1, <1>2 DEF AcceptInvite, Changed, Connected
  <1>4. Follows(mgr, made)  BY <1>1, Spread, ConvertDoes
  <1>5. Follows(made, mgr')  BY <1>3, <1>4, ResetPlayerDoes DEF Follows
  <1>6. Good(mgr', InWorld) /\ made.in = mgr.in /\ mgr'.in = mgr.in
    BY <1>4, <1>5, Spread, FollowsOn DEF Good, Follows
  <1>7. InWorld' = InWorld  BY <1>3 DEF InWorld
  <1>8. /\ v1 \in [Players -> BOOLEAN]
        /\ v1[p] => InstanceValid(made, p, {p}, valid)
        /\ InstanceValid(made, p, {p}, valid) => v1[p]
        /\ \A r \in Players \ {p} : v1[r] = valid[r]
    <2>1. valid \in [Players -> BOOLEAN]  BY Spread DEF OthersTyped
    <2>2. InstanceValid(made, p, {p}, valid) \in BOOLEAN  BY DEF InstanceValid
    <2> QED  BY <1>2, <2>1, <2>2
  <1>9. /\ valid' \in [Players -> BOOLEAN]
        /\ valid'[q] => InstanceValid(made, q, {p, q}, v1)
        /\ InstanceValid(made, q, {p, q}, v1) => valid'[q]
        /\ \A r \in Players \ {q} : valid'[r] = v1[r]
    <2>1. InstanceValid(made, q, {p, q}, v1) \in BOOLEAN  BY DEF InstanceValid
    <2> QED  BY <1>3, <1>8, <2>1
  <1>10. OthersTyped'
    <2>1. changes' \in 0 .. MaxChanges  BY <1>3, Spread DEF OthersTyped
    <2> QED  BY <1>3, <1>9, <2>1, Spread DEF OthersTyped
  <1>11. InstancePrivate'
    <2>1. valid'[p] => NoStranger(mgr', p, members', valid')
      <3>1. valid'[p] => NoStranger(made, p, {p}, valid)
        BY <1>3, <1>8, <1>9, ValidIsPrivate
      <3> QED  BY <1>3, <1>6, <1>8, <1>9, <3>1 DEF NoStranger
    <2>2. valid'[q] => NoStranger(mgr', q, members', valid')
      <3>1. valid'[q] => NoStranger(made, q, {p, q}, v1)  BY <1>9, ValidIsPrivate
      <3> QED  BY <1>3, <1>6, <1>9, <3>1 DEF NoStranger
    <2>3. ASSUME NEW r \in Players, Visible(r)'
          PROVE  \/ Visible(r) /\ mgr'.in[r] = mgr.in[r]
                 \/ NoStranger(mgr', r, members', valid')
      <3>1. CASE r = p  BY <2>1, <2>3, <3>1 DEF Visible
      <3>2. CASE r = q  BY <2>2, <2>3, <3>2 DEF Visible
      <3>3. CASE r \notin {p, q}
        BY <1>3, <1>6, <1>8, <1>9, <2>3, <3>3 DEF Visible
      <3> QED  BY <3>1, <3>2, <3>3
    <2>4. members \subseteq members'  BY <1>3
    <2> QED  BY <2>3, <2>4, Spread, PrivateNext
  <1>12. InsideOnline'
    <2>1. InsideOnline  BY Spread
    <2>2. ~ valid'[p] => mgr'.in[p] # Outside
      BY <1>3, <1>6, <1>8, <1>9 DEF InstanceValid
    <2>3. ~ valid'[q] => mgr'.in[q] # Outside
      BY <1>6, <1>9 DEF InstanceValid
    <2>4. \A r \in Players \ {p, q} : valid'[r] = valid[r]  BY <1>8, <1>9
    <2> QED  BY <1>3, <1>6, <2>1, <2>2, <2>3, <2>4 DEF InsideOnline
  <1>13. AnswersFinite'  BY <1>3, Spread DEF AnswersFinite
  <1> QED  BY <1>3, <1>6, <1>7, <1>10, <1>11, <1>12, <1>13, Spread, Gather

LEMMA HomeboundIs ==
  ASSUME OthersTyped
  PROVE  /\ Homebound \in [Players -> BOOLEAN]
         /\ \A p \in Players :
              Homebound[p] <=> valid[p] /\ ~(p \in members /\ Connected(p) /\ mgr.in[p] # Outside)
  BY DEF OthersTyped, Homebound

LEMMA DisbandKeeps ==
  ASSUME SavesInv, Dequeued, Disband
  PROVE  SavesInv'
  <1>1. /\ mgr' = ResetGroup(mgr, "disband") /\ valid' = Homebound
        /\ leader' = NoOne /\ members' = {}
        /\ UNCHANGED <<used, now, phase, saved, answer, failed, changes>>
    BY DEF Disband, Disbanded
  <1>2. Follows(mgr, mgr')  BY <1>1, Spread, ResetGroupDoes
  <1>3. Good(mgr', InWorld) /\ mgr'.in = mgr.in
    BY <1>2, Spread, FollowsOn DEF Good, Follows
  <1>4. InWorld' = InWorld  BY <1>1 DEF InWorld
  <1>5. /\ valid' \in [Players -> BOOLEAN]
        /\ \A p \in Players :
              valid'[p] <=> valid[p] /\ ~(p \in members /\ Connected(p) /\ mgr.in[p] # Outside)
    BY <1>1, Spread, HomeboundIs
  <1>6. OthersTyped'  BY <1>1, <1>5, Spread DEF OthersTyped
  <1>7. InstancePrivate'
    <2>1. \A p \in Players :
            Visible(p)' => Visible(p) /\ mgr'.in[p] = mgr.in[p] /\ p \notin members
      BY <1>1, <1>3, <1>5 DEF Visible, Connected
    <2> QED  BY <2>1, Spread, PrivateParted
  <1>8. InsideOnline'
    <2>1. InsideOnline  BY Spread
    <2> QED  BY <1>1, <1>3, <1>5, <2>1 DEF InsideOnline, Connected
  <1>9. AnswersFinite'  BY <1>1, Spread DEF AnswersFinite
  <1> QED  BY <1>1, <1>3, <1>4, <1>6, <1>7, <1>8, <1>9, Spread, Gather

LEMMA ChangeLeaderKeeps ==
  ASSUME SavesInv, Dequeued, NEW p \in Players, ChangeLeader(p)
  PROVE  SavesInv'
  <1>1. /\ p \in members /\ leader' = p
        /\ mgr' = ConvertLeaderInstancesToGroup(mgr, p, TRUE)
        /\ UNCHANGED <<used, now, phase, valid, saved, answer, members, failed, changes>>
    BY DEF ChangeLeader, player
  <1>2. Follows(mgr, mgr')  BY <1>1, Spread, ConvertDoes
  <1>3. mgr'.in = mgr.in  BY <1>2 DEF Follows
  <1>4. OthersTyped'  BY <1>1, Spread DEF OthersTyped
  <1> QED  BY <1>1, <1>2, <1>3, <1>4, StaysSafe

LEMMA ResetInstancesKeeps ==
  ASSUME SavesInv, Dequeued, NEW p \in Players, ResetInstances(p)
  PROVE  SavesInv'
  <1>1. /\ mgr' = ResetPlayer(mgr, p, "all") \/ mgr' = ResetGroup(mgr, "all")
        /\ UNCHANGED <<used, now, phase, valid, saved, answer, leader, members, failed, changes>>
    BY DEF ResetInstances, player, group
  <1>2. Follows(mgr, mgr')  BY <1>1, Spread, ResetPlayerDoes, ResetGroupDoes
  <1>3. mgr'.in = mgr.in  BY <1>2 DEF Follows
  <1>4. OthersTyped'  BY <1>1, Spread DEF OthersTyped
  <1> QED  BY <1>1, <1>2, <1>3, <1>4, StaysSafe

LEMMA HousedLess ==
  ASSUME NEW s, NEW w, NEW v, Housed(s, w), v \subseteq w
  PROVE  Housed(s, v)
  BY DEF Housed

LEMMA KeysIn ==
  /\ Outside \notin Keys
  /\ Keys \subseteq Maps \X (0 .. MaxId)
  /\ \A k \in Keys : k[1] \in Maps /\ k[2] \in Ids
  <1>1. MaxId \in Nat  OBVIOUS
  <1>2. Ids \subseteq 0 .. MaxId  BY <1>1 DEF Ids
  <1>3. ASSUME NEW k \in Keys
        PROVE  k # Outside /\ k \in Maps \X (0 .. MaxId) /\ k[1] \in Maps /\ k[2] \in Ids
    <2>1. PICK m \in Maps, i \in Ids : k = <<m, i>>  BY DEF Keys
    <2>2. i \in 0 .. MaxId  BY <1>2
    <2>3. k # Outside  BY <2>1 DEF Outside
    <2> QED  BY <2>1, <2>2, <2>3
  <1> QED  BY <1>3

LEMMA LogoutKeeps ==
  ASSUME SavesInv, Dequeued, NEW p \in Players, NEW quits \in BOOLEAN, Logout(p, quits)
  PROVE  SavesInv'
  <1>1. PICK home : home = IF valid[p] THEN mgr
                           ELSE Link(RemovePlayerFromMap(mgr, p, FALSE), p, Outside)
    OBVIOUS
  <1>2. PICK mid : mid = IF quits THEN ResetGroup(home, "disband") ELSE home  OBVIOUS
  <1>3. PICK alone : alone = Forget(mid, p)  OBVIOUS
  <1>4. /\ phase[p] = "world"
        /\ mgr' = IF home.in[p] = Outside THEN alone ELSE RemovePlayerFromMap(alone, p, TRUE)
        /\ saved' = [saved EXCEPT ![p] = home.in[p]]
        /\ phase' = [phase EXCEPT ![p] = "offline"]
        /\ valid' = [(IF quits THEN Homebound ELSE valid) EXCEPT ![p] = TRUE]
        /\ IF quits THEN leader' = NoOne /\ members' = {} ELSE UNCHANGED <<leader, members>>
        /\ UNCHANGED <<used, now, answer, failed, changes>>
    BY <1>1, <1>2, <1>3 DEF Logout, Disbanded, group
  <1>5. PICK w : w = InWorld \ {p}  OBVIOUS
  <1>6. /\ Good(home, w)
        /\ \A q \in Players \ {p} : home.in[q] = mgr.in[q]
    <2>1. CASE valid[p]
      <3>1. Housed(mgr, w)  BY <1>5, Spread, HousedLess
      <3> QED  BY <1>1, <2>1, <3>1, Spread DEF Good
    <2>2. CASE ~ valid[p]
      <3>1. mgr.in[p] # Outside  BY <2>2, Spread DEF InsideOnline
      <3>2. PICK x : x = RemovePlayerFromMap(mgr, p, FALSE)  OBVIOUS
      <3>3. Good(x, w) /\ \A q \in Players : x.in[q] = mgr.in[q]
        BY <1>5, <3>1, <3>2, Spread, RemovePlayerFromMapDoes
      <3>4. home = Link(x, p, Outside)  BY <1>1, <2>2, <3>2
      <3>5. /\ home \in Managed /\ home.timer = x.timer /\ SameTables(x, home)
            /\ \A q \in Players : home.in[q] = IF q = p THEN Outside ELSE x.in[q]
        BY <3>3, <3>4, LinkDoes DEF Good
      <3>6. Agree(home) /\ RowsQueued(home)
        BY <3>3, <3>5, AgreeKept, TablesWait, RowsWaitOn DEF Good
      <3>7. Housed(home, w)  BY <3>3, <3>5 DEF Good, Housed
      <3> QED  BY <3>3, <3>5, <3>6, <3>7 DEF Good
    <2> QED  BY <2>1, <2>2
  <1>7. Follows(home, mid)
    <2>1. home \in Managed /\ Agree(home)  BY <1>6 DEF Good
    <2> QED  BY <1>2, <2>1, ResetGroupDoes, FollowsOn
  <1>8. Follows(mid, alone)  BY <1>3, <1>7, ForgetDoes DEF Follows
  <1>9. Good(alone, w) /\ alone.in = home.in
    BY <1>6, <1>7, <1>8, FollowsOn DEF Follows
  <1>10. /\ Good(mgr', w)
         /\ mgr'.in[p] = Outside /\ \A q \in Players \ {p} : mgr'.in[q] = mgr.in[q]
    <2>1. CASE home.in[p] = Outside  BY <1>4, <1>6, <1>9, <2>1
    <2>2. CASE home.in[p] # Outside
      <3>1. PICK t : t = RemovePlayerFromMap(alone, p, TRUE)  OBVIOUS
      <3>2. /\ Good(t, w \ {p})
            /\ \A q \in Players :
                 t.in[q] = IF TRUE /\ q = p THEN Outside ELSE alone.in[q]
        <4>1. /\ alone \in Managed /\ Agree(alone) /\ RowsQueued(alone) /\ Housed(alone, w)
              /\ alone.in[p] # Outside
          BY <1>9, <2>2 DEF Good
        <4> QED  BY <3>1, <4>1, RemovePlayerFromMapDoes
      <3>3. w \ {p} = w /\ mgr' = t  BY <1>4, <1>5, <2>2, <3>1
      <3> QED  BY <1>6, <1>9, <3>2, <3>3
    <2> QED  BY <2>1, <2>2
  <1>11. /\ phase' \in [Players -> Phases] /\ phase'[p] = "offline"
         /\ \A q \in Players \ {p} : phase'[q] = phase[q]
    BY <1>4, Spread DEF OthersTyped, Phases
  <1>12. InWorld' = w  BY <1>5, <1>11 DEF InWorld
  <1>13. /\ valid' \in [Players -> BOOLEAN] /\ valid'[p]
         /\ \A q \in Players \ {p} :
              valid'[q] <=> valid[q] /\ ~(quits /\ q \in members /\ Connected(q)
                                          /\ mgr.in[q] # Outside)
    <2>1. CASE quits
      <3>1. PICK h : h = Homebound  OBVIOUS
      <3>2. /\ h \in [Players -> BOOLEAN]
            /\ \A q \in Players :
                 h[q] <=> valid[q] /\ ~(q \in members /\ Connected(q) /\ mgr.in[q] # Outside)
        BY <3>1, Spread, HomeboundIs
      <3>3. valid' = [h EXCEPT ![p] = TRUE]  BY <1>4, <2>1, <3>1
      <3>4. /\ valid' \in [Players -> BOOLEAN] /\ valid'[p]
            /\ \A q \in Players \ {p} : valid'[q] = h[q]
        BY <3>2, <3>3
      <3> QED  BY <2>1, <3>2, <3>4
    <2>2. CASE ~ quits
      <3>1. valid' = [valid EXCEPT ![p] = TRUE] /\ valid \in [Players -> BOOLEAN]
        BY <1>4, <2>2, Spread DEF OthersTyped
      <3>2. /\ valid' \in [Players -> BOOLEAN] /\ valid'[p]
            /\ \A q \in Players \ {p} : valid'[q] = valid[q]
        BY <3>1
      <3> QED  BY <2>2, <3>2
    <2> QED  BY <2>1, <2>2
  <1>14. OthersTyped'
    <2>1. saved' \in [Players -> (Maps \X (0 .. MaxId)) \cup {Outside}]
      <3>1. home.in[p] \in Keys \cup {Outside}  BY <1>6, Fields DEF Good
      <3>2. saved \in [Players -> (Maps \X (0 .. MaxId)) \cup {Outside}]
        BY Spread DEF OthersTyped
      <3>3. PICK a \in (Maps \X (0 .. MaxId)) \cup {Outside} : a = home.in[p]
        BY <3>1, KeysIn
      <3> QED  BY <1>4, <3>2, <3>3
    <2>2. members' \subseteq Players /\ IF members' = {} THEN leader' = NoOne ELSE leader' \in members'
      BY <1>4, Spread DEF OthersTyped
    <2> QED  BY <1>4, <1>11, <1>13, <2>1, <2>2, Spread DEF OthersTyped
  <1>15. InstancePrivate'
    <2>1. \A q \in Players :
            Visible(q)' => /\ Visible(q) /\ mgr'.in[q] = mgr.in[q]
                           /\ quits => q \notin members
      BY <1>10, <1>11, <1>13 DEF Visible, Connected
    <2>2. CASE quits  BY <2>1, <2>2, Spread, PrivateParted
    <2>3. CASE ~ quits  BY <1>4, <2>1, <2>3, Spread, PrivateNext
    <2> QED  BY <2>2, <2>3
  <1>16. InsideOnline'
    <2>1. InsideOnline  BY Spread
    <2> QED  BY <1>10, <1>11, <1>13, <2>1 DEF InsideOnline, Connected
  <1>17. AnswersFinite'  BY <1>4, Spread DEF AnswersFinite
  <1> QED  BY <1>4, <1>10, <1>12, <1>14, <1>15, <1>16, <1>17, Spread, Gather

LEMMA ImageFinite ==
  ASSUME NEW S, IsFiniteSet(S), NEW f
  PROVE  IsFiniteSet({f[i] : i \in S})
  <1> DEFINE c == [x \in SUBSET S |-> CHOOSE i \in x : TRUE]
             Q == {x \in SUBSET S : IsFiniteSet({f[i] : i \in x})}
  <1>1. Picks(c, S)  BY DEF Picks
  <1>2. {} \in Q
    <2>1. {f[i] : i \in {}} = {}  OBVIOUS
    <2> QED  BY <2>1, FS_EmptySet
  <1>3. ASSUME NEW x \in (SUBSET S) \ {{}}, Less(x, c) \in Q PROVE x \in Q
    <2>1. c[x] \in x  BY <1>1 DEF Picks
    <2>2. IsFiniteSet({f[i] : i \in Less(x, c)})  BY <1>3
    <2>3. {f[i] : i \in x} = {f[i] : i \in Less(x, c)} \cup {f[c[x]]}
      <3> HIDE DEF c
      <3> QED  BY <2>1 DEF Less
    <2>4. PICK T : T = {f[i] : i \in Less(x, c)}  OBVIOUS
    <2>5. PICK a : a = f[c[x]]  OBVIOUS
    <2>6. IsFiniteSet(T \cup {a})  BY <2>2, <2>4, FS_AddElement
    <2>7. IsFiniteSet({f[i] : i \in x})  BY <2>3, <2>4, <2>5, <2>6
    <2> QED  BY <2>7
  <1> HIDE DEF Q, c
  <1>4. S \in Q  BY <1>1, <1>2, <1>3, SubsetInduction
  <1> QED  BY <1>4 DEF Q

LEMMA LoginQueryKeeps ==
  ASSUME SavesInv, Dequeued, NEW p \in Players, LoginQuery(p)
  PROVE  SavesInv'
  <1> DEFINE f == [i \in Ids |->
                     IF mgr.stored[i] = NoRow THEN Null
                     ELSE [id |-> i, map |-> mgr.stored[i].map, reset |-> mgr.stored[i].reset]]
  <1>1. PICK rows : rows = {f[i] : i \in mgr.row[p]}  OBVIOUS
  <1>2. mgr.row[p] \in SUBSET Ids  BY Spread, Fields
  <1>3. /\ phase[p] = "offline" /\ phase' = [phase EXCEPT ![p] = "loading"]
        /\ changes < MaxChanges /\ changes' = changes + 1
        /\ answer' = [answer EXCEPT ![p] = rows]
        /\ UNCHANGED <<mgr, used, now, valid, saved, leader, members, failed>>
    <2>1. rows = {IF mgr.stored[i] = NoRow THEN Null
                  ELSE [id |-> i, map |-> mgr.stored[i].map, reset |-> mgr.stored[i].reset]
                    : i \in mgr.row[p]}
      BY <1>1, <1>2
    <2> QED  BY <2>1 DEF LoginQuery, Changed, group
  <1>4. rows \subseteq Answers
    <2>1. ASSUME NEW i \in Ids PROVE f[i] \in Answers
      <3>1. PICK r \in Rows : r = mgr.stored[i]  BY Spread, Fields
      <3>2. CASE r = NoRow  BY <3>1, <3>2 DEF Answers
      <3>3. CASE r # NoRow
        <4>1. r.map \in Maps /\ r.reset \in Nat  BY <3>3, RowIs
        <4> QED  BY <3>1, <3>3, <4>1 DEF Answers
      <3> QED  BY <3>2, <3>3
    <2> HIDE DEF f
    <2> QED  BY <1>1, <1>2, <2>1
  <1>5. IsFiniteSet(rows)
    <2>1. MaxId \in Int /\ 1 \in Int  OBVIOUS
    <2>2. IsFiniteSet(Ids)  BY <2>1, FS_Interval DEF Ids
    <2>3. IsFiniteSet(mgr.row[p])  BY <1>2, <2>2, FS_Subset
    <2> HIDE DEF f
    <2> QED  BY <1>1, <2>3, ImageFinite
  <1> HIDE DEF f
  <1>6. /\ answer' \in [Players -> SUBSET Answers] /\ answer'[p] = rows
        /\ \A q \in Players \ {p} : answer'[q] = answer[q]
    BY <1>3, <1>4, Spread DEF OthersTyped
  <1>7. /\ phase' \in [Players -> Phases] /\ phase'[p] = "loading"
        /\ \A q \in Players \ {p} : phase'[q] = phase[q]
    BY <1>3, Spread DEF OthersTyped, Phases
  <1>8. InWorld' = InWorld  BY <1>3, <1>7 DEF InWorld
  <1>9. OthersTyped'
    <2>1. changes' \in 0 .. MaxChanges  BY <1>3, Spread DEF OthersTyped
    <2> QED  BY <1>3, <1>6, <1>7, <2>1, Spread DEF OthersTyped
  <1>10. InstancePrivate'
    <2>1. \A q \in Players : Visible(q)' => Visible(q) /\ mgr'.in[q] = mgr.in[q]
      BY <1>3, <1>7 DEF Visible
    <2> QED  BY <1>3, <2>1, Spread, PrivateNext
  <1>11. InsideOnline'
    <2>1. InsideOnline  BY Spread
    <2> QED  BY <1>3, <1>7, <2>1 DEF InsideOnline
  <1>12. AnswersFinite'  BY <1>5, <1>6, Spread DEF AnswersFinite
  <1>13. Good(mgr', InWorld')  BY <1>3, <1>8, Spread DEF Good
  <1> QED  BY <1>3, <1>9, <1>10, <1>11, <1>12, <1>13, Spread, Gather

LEMMA LoginFits ==
  ASSUME NEW s, NEW p \in Players, NEW k \in Keys, k = LoginKey(s, p),
         saved[p] \in (Maps \X (0 .. MaxId)) \cup {Outside}
  PROVE  LET m == saved[p][1]
             login == LoginInstanceId(s, p)
         IN  /\ m \in Maps /\ k = <<m, Target(s, p, m, login)>>
             /\ login = 0 \/ p \in members \/ s.bind[p][m] \in {0, login}
  <1>1. saved[p] # Outside  BY KeysIn DEF LoginKey
  <1>2. PICK m \in Maps, n \in 0 .. MaxId : saved[p] = <<m, n>>  BY <1>1
  <1>3. saved[p][1] = m /\ saved[p][2] = n  BY <1>2
  <1>4. PICK login : login = LoginInstanceId(s, p)  OBVIOUS
  <1>5. k = <<m, Target(s, p, m, login)>>  BY <1>1, <1>3, <1>4, KeysIn DEF LoginKey
  <1>6. login = 0 \/ (login = n /\ SaveFor(s, p, m) \in {0, n})
    BY <1>3, <1>4 DEF LoginInstanceId
  <1>7. p \notin members => SaveFor(s, p, m) = s.bind[p][m]
    BY DEF SaveFor, GroupTarget
  <1> QED  BY <1>3, <1>4, <1>5, <1>6, <1>7

LEMMA LoginLoadKeeps ==
  ASSUME SavesInv, Dequeued, NEW p \in Players, LoginLoad(p)
  PROVE  SavesInv'
  <1>1. PICK s : s = LoadBoundInstances(mgr, p)  OBVIOUS
  <1>2. PICK k : k = LoginKey(s, p)  OBVIOUS
  <1>3. PICK login : login = LoginInstanceId(s, p)  OBVIOUS
  <1>4. PICK made : made = CreateInstance(s, p, k, login)  OBVIOUS
  <1>5. PICK linked : linked = Link(made, p, k)  OBVIOUS
  <1> DEFINE Homeless == /\ k = Outside /\ mgr' = s
                         /\ phase' = [phase EXCEPT ![p] = "world"]
                         /\ UNCHANGED <<used, valid, failed>>
             Returns ==
               /\ k \in Keys
               /\ used' = IF Fresh(s, p, k[1], login) THEN used \cup {k[2]} ELSE used
               /\ failed' = (failed \/ ~ BindAgrees(made, p, k))
               /\ valid' = [valid EXCEPT ![p] = InstanceValid(linked, p, members, valid)]
               /\ IF Admitted(made, p, k)
                  THEN /\ mgr' = AddPlayerToMap(linked, p, k)
                       /\ phase' = [phase EXCEPT ![p] = "world"]
                  ELSE /\ mgr' = Saved(linked, k)
                       /\ phase' = [phase EXCEPT ![p] = "transit"]
  <1>6. /\ phase[p] = "loading" /\ (Homeless \/ Returns)
        /\ answer' = [answer EXCEPT ![p] = {}]
        /\ UNCHANGED <<now, saved, leader, members, changes>>
    BY <1>1, <1>2, <1>3, <1>4, <1>5 DEF LoginLoad, group
  <1>7. mgr.in[p] = Outside /\ valid[p] /\ p \notin InWorld
    BY <1>6, Spread DEF InsideOnline, InWorld
  <1>8. /\ s \in Managed /\ Agree(s) /\ RowsQueued(s) /\ Housed(s, InWorld)
        /\ s.in = mgr.in /\ s.timer = mgr.timer
    <2>1. IsFiniteSet(answer[p]) /\ answer[p] \subseteq Answers
      BY Spread DEF AnswersFinite, OthersTyped
    <2>2. Reads(mgr, s)  BY <1>1, <2>1, Spread, LoadBoundInstancesDoes
    <2> QED  BY <2>2, Spread, PlacesKept, RowsWaitOn DEF Reads, SamePlaces
  <1>9. /\ answer' \in [Players -> SUBSET Answers] /\ answer'[p] = {}
        /\ \A q \in Players \ {p} : answer'[q] = answer[q]
    BY <1>6, Spread DEF OthersTyped
  <1>10. AnswersFinite'  BY <1>9, Spread, FS_EmptySet DEF AnswersFinite
  <1>11. CASE Homeless
    <2>1. /\ phase' \in [Players -> Phases] /\ phase'[p] = "world"
          /\ \A q \in Players \ {p} : phase'[q] = phase[q]
      BY <1>11, Spread DEF OthersTyped, Phases
    <2>2. InWorld' = InWorld \cup {p}  BY <2>1 DEF InWorld
    <2>3. Housed(mgr', InWorld')  BY <1>7, <1>8, <1>11, <2>2 DEF Housed
    <2>4. Good(mgr', InWorld')  BY <1>8, <1>11, <2>3 DEF Good
    <2>5. OthersTyped'  BY <1>6, <1>9, <1>11, <2>1, Spread DEF OthersTyped
    <2>6. InstancePrivate'
      <3>1. \A q \in Players : Visible(q)' => Visible(q) /\ mgr'.in[q] = mgr.in[q]
        BY <1>7, <1>8, <1>11, <2>1 DEF Visible
      <3> QED  BY <1>6, <3>1, Spread, PrivateNext
    <2>7. InsideOnline'
      <3>1. InsideOnline  BY Spread
      <3> QED  BY <1>8, <1>11, <2>1, <3>1 DEF InsideOnline
    <2> QED  BY <1>10, <1>11, <2>4, <2>5, <2>6, <2>7, Spread, Gather
  <1>12. CASE Returns
    <2>1. k \in Keys  BY <1>12
    <2>2. saved[p] \in (Maps \X (0 .. MaxId)) \cup {Outside}  BY Spread DEF OthersTyped
    <2>3. PICK m : m = saved[p][1]  OBVIOUS
    <2>4. /\ m \in Maps /\ k = <<m, Target(s, p, m, login)>>
          /\ login = 0 \/ p \in members \/ s.bind[p][m] \in {0, login}
      BY <1>2, <1>3, <2>1, <2>2, <2>3, LoginFits
    <2>5. failed' = FALSE
      <3>1. BindAgrees(made, p, k)  BY <1>4, <1>8, <2>1, <2>4, EntryFits
      <3> QED  BY <1>12, <3>1, Spread
    <2>6. Follows(s, made) /\ Loaded(made, k)
      BY <1>4, <1>8, <2>1, CreateInstanceDoes
    <2>7. /\ made \in Managed /\ Agree(made) /\ RowsQueued(made) /\ Housed(made, InWorld)
          /\ made.in = mgr.in
      BY <1>8, <2>6, RowsWaitOn DEF Follows
    <2>8. /\ linked \in Managed /\ linked.timer = made.timer /\ SameTables(made, linked)
          /\ \A q \in Players : linked.in[q] = IF q = p THEN k ELSE made.in[q]
      BY <1>5, <2>1, <2>7, LinkDoes
    <2>9. Agree(linked) /\ RowsQueued(linked)
      BY <2>7, <2>8, AgreeKept, TablesWait, RowsWaitOn
    <2>10. Housed(linked, InWorld)  BY <1>7, <2>6, <2>7, <2>8 DEF Housed, Loaded
    <2>11. /\ phase' \in [Players -> Phases] /\ phase'[p] \in {"world", "transit"}
           /\ \A q \in Players \ {p} : phase'[q] = phase[q]
           /\ Good(mgr', InWorld') /\ mgr'.in = linked.in
      <3>1. CASE Admitted(made, p, k)
        <4>1. /\ phase' \in [Players -> Phases] /\ phase'[p] = "world"
              /\ \A q \in Players \ {p} : phase'[q] = phase[q]
          BY <1>12, <3>1, Spread DEF OthersTyped, Phases
        <4>2. InWorld' = InWorld \cup {p}  BY <4>1 DEF InWorld
        <4>3. Housed(linked, InWorld \ {p})  BY <2>10, HousedLess
        <4>4. now \in Nat /\ linked.in[p] = k  BY <2>8, Spread
        <4>5. mgr' = AddPlayerToMap(linked, p, k)  BY <1>12, <3>1
        <4>6. Good(mgr', InWorld \cup {p}) /\ mgr'.in = linked.in
          BY <2>1, <2>8, <2>9, <4>3, <4>4, <4>5, AddPlayerToMapDoes
        <4> QED  BY <4>1, <4>2, <4>6
      <3>2. CASE ~ Admitted(made, p, k)
        <4>1. /\ phase' \in [Players -> Phases] /\ phase'[p] = "transit"
              /\ \A q \in Players \ {p} : phase'[q] = phase[q]
          BY <1>12, <3>2, Spread DEF OthersTyped, Phases
        <4>2. InWorld' = InWorld  BY <1>7, <4>1 DEF InWorld
        <4>3. mgr' = Saved(linked, k)  BY <1>12, <3>2
        <4>4. /\ mgr' \in Managed /\ Agree(mgr') /\ SamePlaces(linked, mgr')
              /\ RowsWait(linked, mgr')
          BY <2>1, <2>8, <2>9, <4>3, Spread, SavedDoes
        <4>5. Good(mgr', InWorld)
          BY <2>9, <2>10, <4>4, PlacesKept, RowsWaitOn DEF Good
        <4> QED  BY <4>1, <4>2, <4>4, <4>5 DEF SamePlaces
      <3> QED  BY <3>1, <3>2
    <2>12. /\ valid' \in [Players -> BOOLEAN]
           /\ valid'[p] => InstanceValid(linked, p, members, valid)
           /\ \A q \in Players \ {p} : valid'[q] = valid[q]
      <3>1. valid \in [Players -> BOOLEAN]  BY Spread DEF OthersTyped
      <3>2. InstanceValid(linked, p, members, valid) \in BOOLEAN  BY DEF InstanceValid
      <3> QED  BY <1>12, <3>1, <3>2
    <2>13. OthersTyped'
      <3>1. used' \subseteq Ids
        <4>1. k[2] \in Ids  BY <2>1, KeysIn
        <4> QED  BY <1>12, <4>1, Spread DEF OthersTyped
      <3> QED  BY <1>6, <1>9, <2>5, <2>11, <2>12, <3>1, Spread DEF OthersTyped
    <2>14. \A q \in Players : mgr'.in[q] = IF q = p THEN k ELSE mgr.in[q]
      BY <2>7, <2>8, <2>11
    <2>15. InstancePrivate'
      <3>1. valid'[p] => NoStranger(mgr', p, members', valid')
        <4>1. valid'[p] => NoStranger(linked, p, members, valid)  BY <2>12, ValidIsPrivate
        <4> QED  BY <1>6, <2>11, <2>12, <4>1 DEF NoStranger
      <3>2. \A q \in Players \ {p} : Visible(q)' => Visible(q) /\ mgr'.in[q] = mgr.in[q]
        BY <2>11, <2>12, <2>14 DEF Visible
      <3>3. ASSUME NEW q \in Players, Visible(q)'
            PROVE  \/ Visible(q) /\ mgr'.in[q] = mgr.in[q]
                   \/ NoStranger(mgr', q, members', valid')
        BY <3>1, <3>2, <3>3 DEF Visible
      <3> QED  BY <1>6, <3>3, Spread, PrivateNext
    <2>16. InsideOnline'
      <3>1. InsideOnline  BY Spread
      <3>2. k # Outside  BY <2>1, KeysIn
      <3> QED  BY <2>11, <2>12, <2>14, <3>1, <3>2 DEF InsideOnline
    <2> QED  BY <1>10, <2>5, <2>11, <2>13, <2>15, <2>16, Spread, Gather
  <1> QED  BY <1>6, <1>11, <1>12

LEMMA DestroyInstanceKeeps ==
  ASSUME SavesInv, Dequeued, NEW k \in Keys, DestroyInstance(k)
  PROVE  SavesInv'
  <1>1. /\ ~ HavePlayers(mgr, k) /\ mgr' = [mgr EXCEPT !.timer[k] = "none"]
        /\ UNCHANGED <<used, now, phase, valid, saved, answer, leader, members, failed, changes>>
    BY DEF DestroyInstance, player, group
  <1>2. "none" \in Timers  BY DEF Timers
  <1>3. /\ mgr' \in Managed /\ mgr'.in = mgr.in /\ SameTables(mgr, mgr')
        /\ \A l \in Keys : mgr'.timer[l] = IF l = k THEN "none" ELSE mgr.timer[l]
    BY <1>1, <1>2, Spread, TimerChanges
  <1>4. Agree(mgr') /\ RowsQueued(mgr')
    BY <1>3, Spread, AgreeKept, TablesWait, RowsWaitOn
  <1>5. Housed(mgr', InWorld)
    <2>1. \A q \in Players : mgr.in[q] # Outside => mgr.in[q] \in Keys /\ mgr.in[q] # k
      BY <1>1, Spread, PlaceType DEF HavePlayers, Inside
    <2>2. \A q \in Players : mgr.in[q] # Outside => mgr'.timer[mgr'.in[q]] = mgr.timer[mgr.in[q]]
      BY <1>3, <2>1
    <2> QED  BY <1>3, <2>2, Spread DEF Housed
  <1>6. Good(mgr', InWorld)  BY <1>3, <1>4, <1>5 DEF Good
  <1>7. OthersTyped'  BY <1>1, Spread DEF OthersTyped
  <1> QED  BY <1>1, <1>3, <1>6, <1>7, StaysSafe

LEMMA CreatureDiesKeeps ==
  ASSUME SavesInv, Dequeued, NEW k \in Keys, NEW respawn \in 0 .. MaxTime,
         CreatureDies(k, respawn)
  PROVE  SavesInv'
  <1>1. PICK i \in Ids : i = k[2]  BY KeysIn
  <1>2. PICK at \in Nat : at = respawn + Lifetime  OBVIOUS
  <1>3. /\ mgr.save[i] # NoSave /\ mgr' = [mgr EXCEPT !.save[i].reset = at]
        /\ UNCHANGED <<used, now, phase, valid, saved, answer, leader, members, failed, changes>>
    BY <1>1, <1>2 DEF CreatureDies, Known, player, group
  <1>4. PICK v \in Saves : v = mgr.save[i] /\ v # NoSave  BY <1>3, Spread, Fields
  <1>5. PICK x : x = [v EXCEPT !.reset = at]  OBVIOUS
  <1>6. x \in Saves /\ x.map = v.map /\ x.players = v.players /\ x.group = v.group
    <2>1. v \in [map : Maps, reset : Nat, players : SUBSET Players, group : BOOLEAN,
                 canReset : BOOLEAN]
      BY <1>4 DEF Saves
    <2> QED  BY <1>5, <2>1 DEF Saves
  <1>7. PICK u : u = [mgr.save EXCEPT ![i] = x]  OBVIOUS
  <1>8. u \in [Ids -> Saves] /\ u[i] = x /\ \A j \in Ids \ {i} : u[j] = mgr.save[j]
    BY <1>6, <1>7, Spread, Fields
  <1>9. PICK t \in Managed :
           /\ t = PutSave(mgr, u) /\ t.save = u /\ SamePlaces(mgr, t) /\ SameBinds(mgr, t)
           /\ t.events = mgr.events /\ t.stored = mgr.stored
    BY <1>8, Spread, SavePut DEF SamePlaces, SameBinds
  <1>10. mgr' = t  BY <1>3, <1>4, <1>5, <1>7, <1>9 DEF PutSave
  <1>11. SameLists(mgr, t)
    <2> SUFFICES ASSUME NEW m \in Maps, NEW j \in Ids
                 PROVE  /\ \A q \in Players : Lists(t, m, j, q) <=> Lists(mgr, m, j, q)
                        /\ ListsGroup(t, m, j) <=> ListsGroup(mgr, m, j)
      BY DEF SameLists
    <2>1. CASE j = i  BY <1>4, <1>6, <1>8, <1>9, <2>1 DEF Lists, ListsGroup
    <2>2. CASE j # i  BY <1>8, <1>9, <2>2 DEF Lists, ListsGroup
    <2> QED  BY <2>1, <2>2
  <1>12. Agree(t)  BY <1>9, <1>11, Spread, AgreeKept
  <1>13. NoNewRows(mgr, t)  BY <1>9 DEF NoNewRows
  <1>14. Follows(mgr, t)  BY <1>9, <1>12, <1>13, FollowsOn
  <1>15. Follows(mgr, mgr') /\ mgr'.in = mgr.in  BY <1>10, <1>14 DEF Follows
  <1>16. OthersTyped'  BY <1>3, Spread DEF OthersTyped
  <1> QED  BY <1>3, <1>15, <1>16, StaysSafe

LEMMA UpdateKeeps ==
  ASSUME SavesInv, Dequeued, Update
  PROVE  SavesInv'
  <1>1. /\ mgr' = [FoldLeft(ResetInstance, mgr, Due) EXCEPT
                     !.events = SubSeq(@, From(@, now), Len(@))]
        /\ used' \subseteq used
        /\ UNCHANGED <<now, phase, valid, saved, answer, leader, members, failed, changes>>
    BY DEF Update, player, group
  <1>2. Good(mgr', InWorld) /\ mgr'.in = mgr.in  BY <1>1, Spread, UpdateDoes
  <1>3. OthersTyped'  BY <1>1, Spread DEF OthersTyped
  <1> QED  BY <1>1, <1>2, <1>3, StaysSafe

LEMMA TickKeeps ==
  ASSUME SavesInv, Dequeued, Tick
  PROVE  SavesInv'
  <1>1. /\ now < MaxTime /\ now' = now + 1
        /\ UNCHANGED <<mgr, used, phase, valid, saved, answer, leader, members, failed, changes>>
    BY DEF Tick, player, group
  <1>2. Good(mgr', InWorld)  BY <1>1, Spread DEF Good
  <1>3. OthersTyped'
    <2>1. now' \in 0 .. MaxTime  BY <1>1, Spread DEF OthersTyped
    <2> QED  BY <1>1, <2>1, Spread DEF OthersTyped
  <1> QED  BY <1>1, <1>2, <1>3, StaysSafe

LEMMA RestartKeeps ==
  ASSUME SavesInv, Restart
  PROVE  SavesInv'
  <1> DEFINE At(p) == IF Connected(p) THEN mgr.in[p] ELSE saved[p]
             Then(p) == IF At(p) # Outside /\ At(p)[2] \notin Kept THEN <<At(p)[1], 0>>
                        ELSE At(p)
  <1>0. PICK at \in now .. MaxTime, dead \in SUBSET Kept :
          \E respawn \in [dead -> 0 .. MaxTime] :
             LET rows == [i \in Ids |-> KeptRow(respawn, i)] IN
             /\ now' = at /\ mgr' = Restarted(rows, at)
             /\ unqueued' = Kept \ StillToCome(rows, at)
    BY DEF Restart
  <1>9. PICK rows : /\ Survive(rows) /\ now' = at /\ mgr' = Restarted(rows, at)
                    /\ unqueued' = Kept \ StillToCome(rows, at)
    <2>1. PICK respawn \in [dead -> 0 .. MaxTime] :
             LET rows == [i \in Ids |-> KeptRow(respawn, i)] IN
             /\ now' = at /\ mgr' = Restarted(rows, at)
             /\ unqueued' = Kept \ StillToCome(rows, at)
      BY <1>0
    <2> QED  BY <2>1, Spread, KeptRows
  <1>1. /\ changes < MaxChanges /\ changes' = changes + 1 /\ used' = Kept
        /\ phase' = [p \in Players |-> "offline"] /\ valid' = [p \in Players |-> TRUE]
        /\ saved' = [p \in Players |-> Then(p)] /\ answer' = [p \in Players |-> {}]
        /\ UNCHANGED <<leader, members, failed>>
    BY DEF Restart, Changed, group
  <1>2. /\ mgr' \in Managed /\ Agree(mgr') /\ Housed(mgr', InWorld')
        /\ \A i \in Ids : mgr'.stored[i] # NoRow => IsQueued(mgr', i) \/ i \in unqueued'
        /\ \A p \in Players : mgr'.in[p] = Outside
    BY <1>9, Spread, RestartedDoes
  <1>3. saved' \in [Players -> (Maps \X (0 .. MaxId)) \cup {Outside}]
    <2>1. ASSUME NEW p \in Players
          PROVE  Then(p) \in (Maps \X (0 .. MaxId)) \cup {Outside}
      <3>1. mgr.in[p] \in Keys \cup {Outside}  BY Spread, Fields
      <3>2. saved[p] \in (Maps \X (0 .. MaxId)) \cup {Outside}  BY Spread DEF OthersTyped
      <3>3. PICK a : a = At(p)  OBVIOUS
      <3>4. a \in (Maps \X (0 .. MaxId)) \cup {Outside}  BY <3>1, <3>2, <3>3, KeysIn
      <3>5. Then(p) = IF a # Outside /\ a[2] \notin Kept THEN <<a[1], 0>> ELSE a  BY <3>3
      <3>6. 0 \in 0 .. MaxId  OBVIOUS
      <3> HIDE DEF Then
      <3> QED  BY <3>4, <3>5, <3>6
    <2> HIDE DEF Then
    <2> QED  BY <1>1, <2>1
  <1> HIDE DEF Then
  <1>4. OthersTyped'
    <2>1. used' \subseteq Ids  BY <1>1 DEF Kept
    <2>4. now' \in 0 .. MaxTime
      <3>1. now \in 0 .. MaxTime  BY Spread DEF OthersTyped
      <3> QED  BY <1>0, <1>9, <3>1
    <2>2. changes' \in 0 .. MaxChanges  BY <1>1, Spread DEF OthersTyped
    <2>3. /\ phase' \in [Players -> Phases] /\ valid' \in [Players -> BOOLEAN]
          /\ answer' \in [Players -> SUBSET Answers]
      BY <1>1 DEF Phases
    <2> QED  BY <1>1, <1>3, <2>1, <2>2, <2>3, <2>4, Spread DEF OthersTyped
  <1>5. InstancePrivate'  BY <1>2 DEF InstancePrivate
  <1>6. InsideOnline'  BY <1>1, <1>2 DEF InsideOnline
  <1>7. AnswersFinite'  BY <1>1, FS_EmptySet DEF AnswersFinite
  <1>8. RowsAwaitReset'  BY <1>2 DEF RowsAwaitReset, IsQueued
  <1>10. unqueued' \subseteq Ids  BY <1>9 DEF Kept
  <1> QED  BY <1>1, <1>2, <1>4, <1>5, <1>6, <1>7, <1>8, <1>10, Spread, GatherParts

LEMMA StutterKeeps ==
  ASSUME SavesInv, UNCHANGED vars
  PROVE  SavesInv'
  <1>1. UNCHANGED <<mgr, used, now, phase, valid, saved, answer, leader, members, failed,
                    unqueued, changes>>
    BY DEF vars
  <1>2. OthersTyped'  BY <1>1, Spread DEF OthersTyped
  <1>3. RowsAwaitReset'  BY <1>1 DEF SavesInv, RowsAwaitReset
  <1>4. InWorld' = InWorld  BY <1>1 DEF InWorld
  <1>5. InstancePrivate'  BY <1>1, Spread DEF InstancePrivate
  <1>6. InsideOnline'
    <2>1. InsideOnline  BY Spread
    <2> QED  BY <1>1, <2>1 DEF InsideOnline
  <1>7. AnswersFinite'  BY <1>1, Spread DEF AnswersFinite
  <1> QED  BY <1>1, <1>2, <1>3, <1>4, <1>5, <1>6, <1>7, Spread, GatherParts

-----------------------------------------------------------------------------
(***************************************************************************)
(* The theorems.                                                           *)
(***************************************************************************)
LEMMA HandlerKeeps ==
  ASSUME SavesInv, Dequeued, Handler
  PROVE  SavesInv'
  <1>1. ASSUME NEW p \in Players, TeleportTo(p) PROVE SavesInv'
    BY <1>1, TeleportToKeeps
  <1>2. ASSUME NEW p \in Players, WorldportOut(p) PROVE SavesInv'
    BY <1>2, WorldportOutKeeps
  <1>3. ASSUME NEW p \in Players, NEW m \in Maps, WorldportInto(p, m) PROVE SavesInv'
    BY <1>3, WorldportIntoKeeps
  <1>4. ASSUME NEW p \in Players, NEW q \in Players, AcceptInvite(p, q) PROVE SavesInv'
    BY <1>4, AcceptInviteKeeps
  <1>5. ASSUME NEW p \in Players, ChangeLeader(p) PROVE SavesInv'
    BY <1>5, ChangeLeaderKeeps
  <1>6. ASSUME NEW p \in Players, ResetInstances(p) PROVE SavesInv'
    BY <1>6, ResetInstancesKeeps
  <1>7. ASSUME NEW p \in Players, NEW quits \in BOOLEAN, Logout(p, quits) PROVE SavesInv'
    BY <1>7, LogoutKeeps
  <1>8. ASSUME NEW p \in Players, LoginQuery(p) PROVE SavesInv'
    BY <1>8, LoginQueryKeeps
  <1>9. ASSUME NEW p \in Players, LoginLoad(p) PROVE SavesInv'
    BY <1>9, LoginLoadKeeps
  <1>10. ASSUME NEW k \in Keys, DestroyInstance(k) PROVE SavesInv'
    BY <1>10, DestroyInstanceKeeps
  <1>11. CASE Disband  BY <1>11, DisbandKeeps
  <1>14. ASSUME NEW k \in Keys, NEW respawn \in 0 .. MaxTime, CreatureDies(k, respawn)
         PROVE  SavesInv'
    BY <1>14, CreatureDiesKeeps
  <1>12. CASE Update  BY <1>12, UpdateKeeps
  <1>13. CASE Tick  BY <1>13, TickKeeps
  <1>16. ASSUME NEW p \in Players,
                \/ TeleportTo(p) \/ WorldportOut(p)
                \/ \E m \in Maps : WorldportInto(p, m)
                \/ \E q \in Players : AcceptInvite(p, q)
                \/ ChangeLeader(p) \/ ResetInstances(p)
                \/ \E quits \in BOOLEAN : Logout(p, quits)
                \/ LoginQuery(p) \/ LoginLoad(p)
         PROVE  SavesInv'
    BY <1>1, <1>2, <1>3, <1>4, <1>5, <1>6, <1>7, <1>8, <1>9, <1>16, Zenon
  <1> QED
    BY <1>10, <1>11, <1>12, <1>13, <1>14, <1>16, Zenon DEF Handler

LEMMA NextKeeps == SavesInv /\ [Next]_vars => SavesInv'
  <1> SUFFICES ASSUME SavesInv, [Next]_vars PROVE SavesInv'  OBVIOUS
  <1>1. CASE Handler /\ Dequeued  BY <1>1, HandlerKeeps
  <1>2. CASE Restart  BY <1>2, RestartKeeps
  <1>3. CASE UNCHANGED vars  BY <1>3, StutterKeeps
  <1> QED  BY <1>1, <1>2, <1>3, Zenon DEF Next, Dequeued

\* What every login, teleport, reset, tick and restart keeps.
THEOREM SavesInvariant == Spec => []SavesInv
  BY InitHolds, NextKeeps, PTL DEF Spec

\* The tables, saves, binds, events and timers hold what their types say.
THEOREM TypeCorrect == Spec => []TypeOK
  <1>1. SavesInv => TypeOK  BY DEF SavesInv
  <1> QED  BY <1>1, SavesInvariant, PTL

\* A player or a group is bound to an instance exactly when the save lists
\* them, whatever the order of resets, conversions, logouts and logins: no
\* pointer of either side is left to a save that does not point back.
THEOREM TwoEndsAgree == Spec => []BindsAndSavesAgree
  <1>1. SavesInv => BindsAndSavesAgree  BY DEF SavesInv
  <1> QED  BY <1>1, SavesInvariant, PTL

\* The map that CreateInstanceForPlayer picks for a player lets him in, and a
\* solo player is bound to the instance he enters, as AddPlayerToMap asserts.
THEOREM EntryGranted == Spec => []EntryIsGranted
  <1>1. SavesInv => EntryIsGranted  BY DEF SavesInv
  <1> QED  BY <1>1, SavesInvariant, PTL

\* The instance a player counts as inside is loaded, and it does not unload
\* while he is in its world.
THEOREM NobodyOutOfMaps == Spec => []InsideAMap
  <1>1. SavesInv => InsideAMap  BY DEF SavesInv
  <1> QED  BY <1>1, SavesInvariant, PTL

\* A row of the instance table has a reset in the queue that will delete it,
\* after restarts as well, because no entry ever takes the reset off; except
\* the rows that the last start has kept without queueing their reset, and
\* those only until their reset is queued.
THEOREM StoredWillReset == Spec => []StoredAwaitsReset
  <1>1. ASSUME SavesInv PROVE StoredAwaitsReset
    <2> SUFFICES ASSUME NEW i \in Ids \ unqueued, mgr.stored[i] # NoRow
                 PROVE  Queued(mgr, i)
      BY DEF StoredAwaitsReset
    <2>1. IsQueued(mgr, i)  BY <1>1 DEF SavesInv, RowsAwaitReset, IsQueued
    <2> QED  BY <2>1, QueuedIs
  <1> QED  BY <1>1, SavesInvariant, PTL

\* Two players who may both stay share an instance only as members of the
\* party: a freed id given out again, a reset or a disbanded party never
\* brings a stranger into somebody's instance.
THEOREM NoStrangers == Spec => []InstancePrivate
  <1>1. SavesInv => InstancePrivate  BY DEF SavesInv
  <1> QED  BY <1>1, SavesInvariant, PTL
=============================================================================
