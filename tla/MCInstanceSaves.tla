-------------------------- MODULE MCInstanceSaves ---------------------------
(***************************************************************************)
(* InstanceSaves on two players and two dungeons.  As long as one dungeon  *)
(* alone is known the run goes on to MaxChanges; with two it stops before, *)
(* at MaxChangesOfTwo.                                                     *)
(***************************************************************************)
EXTENDS InstanceSaves, TLC

CONSTANTS a, b, A, B, MaxChangesOfTwo

KnownMaps ==
    {k[1] : k \in {k \in Keys : Loaded(mgr, k)}}
        \cup {mgr.stored[i].map : i \in {i \in Ids : mgr.stored[i] # NoRow}}
        \cup {mgr.save[i].map : i \in {i \in Ids : Known(mgr, i)}}
        \cup {saved[p][1] : p \in {p \in Players : saved[p] # Outside}}

MCSpec ==
    Init /\ [][Next /\ (Cardinality(KnownMaps') > 1 => changes' <= MaxChangesOfTwo)]_vars

Symmetry == Permutations({a, b}) \cup Permutations({A, B})
=============================================================================
