--------------------------- MODULE UpdateBarrier ---------------------------
(***************************************************************************)
(* What the world thread relies on when it calls MapManager::Update: a     *)
(* fork-join.  The tick forks over a set of maps, each of which is handled *)
(* once and may bring in further maps (an instanced map its instances)     *)
(* while it is outstanding, and joins only when none is outstanding.  No   *)
(* queue, no counter, no threads.                                          *)
(***************************************************************************)
CONSTANT Maps

VARIABLES
    phase,        \* "serial", "parallel" or "stopped"
    outstanding,  \* maps of this tick whose update has not returned
    handled       \* maps this tick is done with

vars == <<phase, outstanding, handled>>

Init == phase = "serial" /\ outstanding = {} /\ handled = {}

Fork(S) ==
    /\ phase = "serial"
    /\ phase' = "parallel"
    /\ outstanding' = S
    /\ handled' = {}

\* An outstanding map adds a map that this tick has not seen.
Add(m) ==
    /\ phase = "parallel"
    /\ outstanding # {}
    /\ m \notin outstanding \cup handled
    /\ outstanding' = outstanding \cup {m}
    /\ UNCHANGED <<phase, handled>>

\* An outstanding map deals with such a map itself.
Absorb(m) ==
    /\ phase = "parallel"
    /\ outstanding # {}
    /\ m \notin outstanding \cup handled
    /\ handled' = handled \cup {m}
    /\ UNCHANGED <<phase, outstanding>>

Finish(m) ==
    /\ phase = "parallel"
    /\ m \in outstanding
    /\ outstanding' = outstanding \ {m}
    /\ handled' = handled \cup {m}
    /\ UNCHANGED phase

Join ==
    /\ phase = "parallel"
    /\ outstanding = {}
    /\ phase' = "serial"
    /\ UNCHANGED <<outstanding, handled>>

Stop ==
    /\ phase = "serial"
    /\ phase' = "stopped"
    /\ UNCHANGED <<outstanding, handled>>

Next ==
    \/ \E S \in SUBSET Maps : Fork(S)
    \/ \E m \in Maps : Add(m) \/ Absorb(m) \/ Finish(m)
    \/ Join \/ Stop

Spec == Init /\ [][Next]_vars
=============================================================================
