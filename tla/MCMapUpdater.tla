---------------------------- MODULE MCMapUpdater ----------------------------
(***************************************************************************)
(* Two base maps, one of them instanced with two instances: the smallest   *)
(* setting in which a worker schedules for another while the world thread  *)
(* still schedules or already waits.  Between none and two worker threads  *)
(* have been started.                                                      *)
(***************************************************************************)
EXTENDS MapUpdater, TLC

CONSTANTS w1, w2, i1, i2, continent, instanced

ParentDef == [i \in Instances |-> instanced]
=============================================================================
