----------------------------- MODULE InstanceIds -----------------------------
(***************************************************************************)
(* The allocator of instance ids in MapManager (_nextInstanceId and the    *)
(* std::vector<bool> _instanceIds).  Ids are generated on the world thread *)
(* (a dungeon entered for the first time, a new battleground) and freed by *)
(* it (InstanceSaveManager::_ResetInstance) or, when a battleground map is *)
(* destroyed, by the map thread that updates its parent map.  The world    *)
(* thread never runs beside the map threads (MapUpdater!Barrier), but two  *)
(* map threads may free ids at the same time and nothing locks the vector: *)
(* a free is split into its reads and writes, a word of bits at a time.    *)
(*                                                                         *)
(* The library's vector<bool> keeps whole words of storage and reads and   *)
(* writes whole words; the code grows it in steps of half a word.  A write *)
(* past its storage changes nothing the vector will read again, since the  *)
(* next growth copies only its `size` bits to new storage.                 *)
(***************************************************************************)
EXTENDS Naturals, FiniteSetsExt

CONSTANTS
    Granule,     \* the code's step of growth: 32
    Word,        \* bits in a word of vector<bool>: 64
    MaxSaved,    \* bound: largest instance id saved in the database
    MaxId,       \* bound: no id above this one is generated
    MapThreads   \* threads that may destroy battleground maps

ASSUME SizesAssumption ==
    /\ Granule \in Nat \ {0}
    /\ Word = 2 * Granule
    /\ MaxSaved \in Nat /\ MaxId \in Nat

VARIABLES
    size, capacity,  \* of _instanceIds
    marked,          \* indices of its true bits
    next,            \* _nextInstanceId
    used,            \* ids in the hands of an instance, a save or a battleground
    free             \* per map thread: the FreeInstanceId call it is in

vector == <<size, capacity, marked>>
vars == <<size, capacity, marked, next, used, free>>

Ids == 1 .. MaxId
NotFreeing == [at |-> "none", id |-> 0, seen |-> {}]
FreeSteps == {"none", "compare", "lower", "load", "store"}

\* Types, and that every id in use has its bit in the vector: LoadInstances,
\* GenerateInstanceId and FreeInstanceId keep the set and the bits together.
TypeOK ==
    /\ size \in Nat /\ capacity \in Nat
    /\ size <= capacity
    /\ marked \subseteq 0 .. size - 1
    /\ next \in Nat \ {0}
    /\ used \subseteq marked
    /\ \A t \in MapThreads : free[t].at \in FreeSteps

(***************************************************************************)
(* Mutants: plausible bugs, none of them part of the specification.        *)
(***************************************************************************)

\* LoadResetTimes that forgets RegisterInstanceId.
Init_unregistered ==
    \E saved \in SUBSET (1 .. MaxSaved) :
        /\ used = saved
        /\ marked = {}
        /\ size = Granule
        /\ capacity = Word
        /\ next = Min(1 .. MaxSaved + 1 \ saved)
        /\ free = [t \in MapThreads |-> NotFreeing]

\* GenerateInstanceId that takes the id after _nextInstanceId unchecked.
NextAfter_unchecked(id) == id + 1

\* FreeInstanceId that clears the bit but does not lower _nextInstanceId.
Lowered_never(id, n) == n

-----------------------------------------------------------------------------
WordsFor(bits) == Word * ((bits + Word - 1) \div Word)

\* vector<bool>::resize to at least the present size.
Resize(n) ==
    /\ size' = n
    /\ capacity' = IF n <= capacity THEN capacity
                   ELSE WordsFor(size + Max({size, n - size}))

\* LoadInstances: InitInstanceIds sizes the vector by the largest saved id (the
\* MAX of no row is read as 0),
\* LoadResetTimes registers every saved id in ascending order and steps
\* _nextInstanceId over those it meets.
Init ==
    \E saved \in SUBSET (1 .. MaxSaved) :
        /\ used = saved
        /\ marked = saved
        /\ size = (Max(saved \cup {0}) \div Granule) * Granule + Granule
        /\ capacity = WordsFor(size)
        /\ next = Min(1 .. MaxSaved + 1 \ saved)
        /\ free = [t \in MapThreads |-> NotFreeing]

\* The map threads are waited for before the world thread goes on.
WorldAlone == \A t \in MapThreads : free[t] = NotFreeing

\* An id the search of GenerateInstanceId takes for available.
SeemsFree(i) == i >= size \/ i \notin marked

\* The search loop of GenerateInstanceId; beyond `size` every id is free.
NextAfter(id) == Min({i \in id + 1 .. Max({id + 1, size}) : SeemsFree(i)})

GenerateInstanceId ==
    /\ WorldAlone
    /\ next <= MaxId
    /\ used' = used \cup {next}
    /\ next' = NextAfter(next)
    /\ IF next < size THEN UNCHANGED <<size, capacity>>
       ELSE IF size < capacity THEN Resize(capacity)
       ELSE Resize((next \div Granule) * Granule
                     + (IF next % Granule > 0 THEN Granule ELSE 0))
    /\ marked' = IF next < size' THEN marked \cup {next} ELSE marked
    /\ UNCHANGED free

Lowered(id, n) == IF id < n THEN id ELSE n

\* FreeInstanceId on the world thread: an instance is reset.
FreeByWorld(id) ==
    /\ WorldAlone
    /\ id \in used
    /\ used' = used \ {id}
    /\ next' = Lowered(id, next)
    /\ marked' = marked \ {id}
    /\ UNCHANGED <<size, capacity, free>>

\* FreeInstanceId on a map thread, from DestroyInstance: the comparison with
\* _nextInstanceId, its assignment, and the load and store of the bit's word.
CallFree(t, id) ==
    /\ free[t] = NotFreeing
    /\ id \in used
    /\ used' = used \ {id}
    /\ free' = [free EXCEPT ![t] = [at |-> "compare", id |-> id, seen |-> {}]]
    /\ UNCHANGED <<vector, next>>

CompareNext(t) ==
    /\ free[t].at = "compare"
    /\ free' = [free EXCEPT ![t].at =
                    IF Lowered(free[t].id, next) # next THEN "lower" ELSE "load"]
    /\ UNCHANGED <<vector, next, used>>

LowerNext(t) ==
    /\ free[t].at = "lower"
    /\ next' = free[t].id
    /\ free' = [free EXCEPT ![t].at = "load"]
    /\ UNCHANGED <<vector, used>>

WordOf(id) == {i \in 0 .. size - 1 : i \div Word = id \div Word}

LoadWord(t) ==
    /\ free[t].at = "load"
    /\ free' = [free EXCEPT ![t].at = "store",
                            ![t].seen = marked \cap WordOf(free[t].id)]
    /\ UNCHANGED <<vector, next, used>>

StoreWord(t) ==
    /\ free[t].at = "store"
    /\ marked' = (marked \ WordOf(free[t].id)) \cup (free[t].seen \ {free[t].id})
    /\ free' = [free EXCEPT ![t] = NotFreeing]
    /\ UNCHANGED <<size, capacity, next, used>>

Next ==
    \/ GenerateInstanceId
    \/ \E id \in Ids : FreeByWorld(id)
    \/ \E t \in MapThreads :
          \/ \E id \in Ids : CallFree(t, id)
          \/ CompareNext(t) \/ LowerNext(t) \/ LoadWord(t) \/ StoreWord(t)

Spec == Init /\ [][Next]_vars

-----------------------------------------------------------------------------
(***************************************************************************)
(* The id the allocator will hand out next is not in anybody's hands: two  *)
(* instances never share an id (and with it their respawn times, corpses   *)
(* and binds in the database).                                             *)
(***************************************************************************)
NextUnused == next \notin used

(***************************************************************************)
(* _nextInstanceId "should be the lowest" available id: while no thread is *)
(* in FreeInstanceId, every id below it is in use, so freed ids come back  *)
(* and ids do not creep upwards.                                           *)
(***************************************************************************)
NextIsLowest == WorldAlone => 1 .. next - 1 \subseteq used

-----------------------------------------------------------------------------
(***************************************************************************)
(* The inductive invariant behind TypeOK and NextUnused, with any number   *)
(* of map threads, as long as no id past the first word is generated: what *)
(* a map thread has read of a word may be old, but holds every id in use.  *)
(***************************************************************************)
Freeing(t) == free[t] # NotFreeing

FreeCalls ==
    /\ free \in [MapThreads -> [at : FreeSteps, id : Nat, seen : SUBSET Nat]]
    /\ \A t \in MapThreads :
        /\ Freeing(t) <=> free[t].at # "none"
        /\ Freeing(t) => free[t].id \in (1 .. size - 1) \ used
        /\ free[t].at = "store" => /\ free[t].seen \subseteq 0 .. size - 1
                                   /\ used \cap WordOf(free[t].id) \subseteq free[t].seen

AllocatorInv ==
    /\ TypeOK /\ NextUnused /\ FreeCalls
    /\ 0 \notin used
    /\ capacity >= Word

(***************************************************************************)
(* With one map thread a bit is set while its id is in use or is being     *)
(* freed, and no id below _nextInstanceId is neither.                      *)
(***************************************************************************)
LowestInv ==
    /\ WorldAlone => marked = used
    /\ NextIsLowest
    /\ \A t \in MapThreads : Freeing(t) =>
        /\ marked = used \cup {free[t].id}
        /\ 1 .. next - 1 \subseteq used \cup {free[t].id}
        /\ free[t].at = "lower" => free[t].id < next
        /\ free[t].at \in {"load", "store"} => free[t].id >= next
        /\ free[t].at = "store" => free[t].seen = marked \cap WordOf(free[t].id)
=============================================================================
