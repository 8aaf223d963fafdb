-------------------------- MODULE InstanceIdsProofs --------------------------
(***************************************************************************)
(* Theorems about the allocator of instance ids.  As long as no id beyond  *)
(* the first word of bits is generated, the next id is never in use,       *)
(* however many map threads free ids at the same time; with one map thread *)
(* it is also the lowest that is not in use.                               *)
(***************************************************************************)
EXTENDS InstanceIds, FiniteSetTheorems, WellFoundedInduction, TLAPS

-----------------------------------------------------------------------------
(***************************************************************************)
(* Quotients, least and largest elements.                                  *)
(***************************************************************************)
LEMMA Quotient ==
  ASSUME NEW a \in Nat, NEW d \in Nat \ {0}
  PROVE  /\ a \div d \in Nat
         /\ d * (a \div d) <= a
         /\ a < d * (a \div d) + d
  OBVIOUS

LEMMA Below ==
  ASSUME NEW n \in Nat
  PROVE  /\ \A i : i \in 0 .. n - 1 <=> i \in Nat /\ i < n
         /\ \A i : i \in 1 .. n - 1 <=> i \in Nat \ {0} /\ i < n
  OBVIOUS

LEMMA IntervalGrows ==
  ASSUME NEW m \in Nat, NEW n \in Nat, m <= n
  PROVE  0 .. m - 1 \subseteq 0 .. n - 1
  OBVIOUS

LEMMA LeastNatural ==
  ASSUME NEW S, S \subseteq Nat, S # {}
  PROVE  Min(S) \in S /\ \A n \in S : Min(S) <= n
  <1>1. PICK m \in S : \A n \in S : <<n, m>> \notin OpToRel(<, Nat)
    BY WFMin, NatLessThanWellFounded, Zenon
  <1>2. \A n \in S : m \in Nat /\ n \in Nat /\ ~(n < m)
    BY <1>1, Zenon DEF OpToRel
  <1>3. \E x \in S : \A n \in S : x <= n  BY <1>2
  <1> QED  BY <1>3 DEF Min

\* A bounded set of naturals has a largest element: its least upper bound.
LEMMA LargestNatural ==
  ASSUME NEW S, NEW b \in Nat, S \subseteq 0 .. b, S # {}
  PROVE  Max(S) \in S /\ \A n \in S : n <= Max(S)
  <1> DEFINE Bounds == {u \in Nat : \A n \in S : n <= u}
             m == Min(Bounds)
  <1>1. b \in Bounds  OBVIOUS
  <1>2. m \in Bounds /\ \A u \in Bounds : m <= u  BY <1>1, LeastNatural
  <1> HIDE DEF m
  <1>3. m \in S
    <2> SUFFICES ASSUME m \notin S PROVE FALSE  OBVIOUS
    <2>1. \A n \in S : n \in Nat /\ n < m  BY <1>2
    <2>2. PICK n \in S : n < m  BY <2>1
    <2>3. m - 1 \in Bounds  BY <1>2, <2>1, <2>2
    <2> QED  BY <1>2, <2>3
  <1>4. \E x \in S : \A n \in S : n <= x  BY <1>2, <1>3
  <1> QED  BY <1>4 DEF Max

LEMMA LargerOfTwo ==
  ASSUME NEW a \in Nat, NEW b \in Nat
  PROVE  /\ Max({a, b}) \in Nat
         /\ Max({a, b}) >= a /\ Max({a, b}) >= b
         /\ Max({a, b}) \in {a, b}
  <1>1. \E x \in {a, b} : \A n \in {a, b} : n <= x
    <2>1. CASE a <= b  BY <2>1
    <2>2. CASE b <= a  BY <2>2
    <2> QED  BY <2>1, <2>2
  <1>2. Max({a, b}) \in {a, b} /\ \A n \in {a, b} : n <= Max({a, b})
    BY <1>1 DEF Max
  <1> QED  BY <1>2

\* Storage for some bits is made of as many words as they need.
LEMMA WordsHold ==
  ASSUME NEW b \in Nat
  PROVE  /\ WordsFor(b) \in Nat
         /\ b <= WordsFor(b)
         /\ WordsFor(b) # 0 => WordsFor(b) >= Word
  <1>1. Word \in Nat \ {0}  BY SizesAssumption
  <1>2. b + Word - 1 \in Nat  BY <1>1
  <1> DEFINE q == (b + Word - 1) \div Word
  <1>3. /\ q \in Nat /\ Word * q <= b + Word - 1 /\ b + Word - 1 < Word * q + Word
    BY <1>1, <1>2, Quotient
  <1> HIDE DEF q
  <1>4. Word * q \in Nat  BY <1>1, <1>3
  <1>5. q # 0 => Word * q >= Word  BY <1>1, <1>3
  <1>6. q = 0 => Word * q = 0  BY <1>1
  <1>7. WordsFor(b) = Word * q  BY DEF WordsFor, q
  <1> QED  BY <1>1, <1>3, <1>4, <1>5, <1>6, <1>7

\* The search of GenerateInstanceId ends beyond the id it starts from, at the
\* first id whose bit is not set.
LEMMA SearchResult ==
  ASSUME NEW id \in Nat, size \in Nat
  PROVE  /\ NextAfter(id) \in Nat /\ NextAfter(id) > id
         /\ SeemsFree(NextAfter(id))
         /\ \A i \in id + 1 .. NextAfter(id) - 1 : ~SeemsFree(i)
  <1> DEFINE top == Max({id + 1, size})
             S == {i \in id + 1 .. top : SeemsFree(i)}
  <1>1. top \in Nat /\ top >= id + 1 /\ top >= size  BY LargerOfTwo
  <1> HIDE DEF top
  <1>2. S \subseteq Nat  BY <1>1
  <1>3. SeemsFree(top)  BY <1>1 DEF SeemsFree
  <1>4. S # {}  BY <1>1, <1>3
  <1>5. Min(S) \in S /\ \A n \in S : Min(S) <= n  BY <1>2, <1>4, LeastNatural
  <1>6. NextAfter(id) = Min(S)  BY DEF NextAfter, top
  <1> DEFINE m == Min(S)
  <1>7. m \in id + 1 .. top /\ SeemsFree(m)  BY <1>5
  <1>8. ASSUME NEW i \in id + 1 .. m - 1 PROVE ~SeemsFree(i)
    <2>1. i \in id + 1 .. top /\ i < m  BY <1>1, <1>7
    <2>2. i \notin S  BY <1>5, <1>7, <2>1
    <2> QED  BY <2>1, <2>2
  <1> HIDE DEF m
  <1> QED  BY <1>1, <1>6, <1>7, <1>8 DEF m

-----------------------------------------------------------------------------
(***************************************************************************)
(* The allocator as LoadInstances leaves it.                               *)
(***************************************************************************)
LEMMA AllocatorInit == Init => AllocatorInv /\ LowestInv
  <1> SUFFICES ASSUME Init PROVE AllocatorInv /\ LowestInv  OBVIOUS
  <1> USE SizesAssumption
  <1>1. PICK saved \in SUBSET (1 .. MaxSaved) :
          /\ used = saved
          /\ marked = saved
          /\ size = (Max(saved \cup {0}) \div Granule) * Granule + Granule
          /\ capacity = WordsFor(size)
          /\ next = Min(1 .. MaxSaved + 1 \ saved)
          /\ free = [t \in MapThreads |-> NotFreeing]
    BY DEF Init
  <1>2. saved \subseteq Nat \ {0} /\ saved \subseteq 0 .. MaxSaved  BY <1>1
  <1>3. size \in Nat \ {0} /\ saved \subseteq 0 .. size - 1
    <2> DEFINE m == Max(saved \cup {0})
    <2>1. saved \cup {0} \subseteq 0 .. MaxSaved /\ 0 \in saved \cup {0}  BY <1>2
    <2>2. m \in saved \cup {0} /\ \A n \in saved \cup {0} : n <= m
      BY <2>1, LargestNatural
    <2> HIDE DEF m
    <2>3. m \in Nat
      <3>1. 0 .. MaxSaved \subseteq Nat  OBVIOUS
      <3> QED  BY <2>1, <2>2, <3>1
    <2> DEFINE q == m \div Granule
    <2>4. q \in Nat /\ m < Granule * q + Granule  BY <2>3, Quotient
    <2> HIDE DEF q
    <2>5. size = q * Granule + Granule  BY <1>1 DEF m, q
    <2>6. q * Granule \in Nat /\ q * Granule = Granule * q  BY <2>4
    <2>7. size \in Nat /\ m < size  BY <2>4, <2>5, <2>6
    <2>8. \A n \in saved : n \in 0 .. size - 1  BY <1>2, <2>2, <2>3, <2>7
    <2> QED  BY <2>3, <2>7, <2>8
  <1>4. capacity \in Nat /\ size <= capacity /\ capacity >= Word
    BY <1>1, <1>3, WordsHold
  <1>5. next \in 1 .. MaxSaved + 1 \ saved /\ \A n \in 1 .. MaxSaved + 1 \ saved : next <= n
    <2>1. MaxSaved + 1 \in 1 .. MaxSaved + 1 \ saved  BY <1>1
    <2>2. 1 .. MaxSaved + 1 \ saved \subseteq Nat  OBVIOUS
    <2>3. next = Min(1 .. MaxSaved + 1 \ saved)  BY <1>1
    <2> QED  BY <2>1, <2>2, <2>3, LeastNatural
  <1>6. TypeOK
    <2>1. next \in Nat \ {0}  BY <1>5
    <2>2. \A t \in MapThreads : free[t].at \in FreeSteps  BY <1>1 DEF FreeSteps, NotFreeing
    <2>3. marked \subseteq 0 .. size - 1 /\ used \subseteq marked  BY <1>1, <1>3
    <2>4. size \in Nat /\ capacity \in Nat /\ size <= capacity  BY <1>3, <1>4
    <2> QED  BY <2>1, <2>2, <2>3, <2>4 DEF TypeOK
  <1>7. NextUnused  BY <1>1, <1>5 DEF NextUnused
  <1>8. FreeCalls
    BY <1>1 DEF FreeCalls, Freeing, FreeSteps, NotFreeing
  <1>9. AllocatorInv  BY <1>1, <1>2, <1>4, <1>6, <1>7, <1>8 DEF AllocatorInv
  <1>10. 1 .. next - 1 \subseteq used
    <2>1. ASSUME NEW i \in 1 .. next - 1, i \notin saved PROVE FALSE
      <3>1. i \in 1 .. MaxSaved + 1 \ saved /\ i < next  BY <1>5, <2>1
      <3> QED  BY <1>5, <3>1
    <2> QED  BY <1>1, <2>1
  <1>11. LowestInv  BY <1>1, <1>10 DEF LowestInv, NextIsLowest, Freeing
  <1> QED  BY <1>9, <1>11

-----------------------------------------------------------------------------
(***************************************************************************)
(* GenerateInstanceId: no map thread is in FreeInstanceId, the vector      *)
(* grows to hold the id, and the search ends beyond it at an id nobody     *)
(* uses.                                                                   *)
(***************************************************************************)
FirstWord == MaxId < Word

LEMMA VectorHoldsId ==
  ASSUME AllocatorInv, FirstWord, GenerateInstanceId
  PROVE  /\ size' \in Nat /\ capacity' \in Nat
         /\ size <= size' /\ size' <= capacity'
         /\ next < size'
         /\ capacity' >= Word
  <1> USE SizesAssumption
  <1>1. /\ size \in Nat /\ capacity \in Nat /\ size <= capacity
        /\ next \in Nat \ {0} /\ next < Word
        /\ capacity >= Word
    BY DEF AllocatorInv, TypeOK, FirstWord, GenerateInstanceId
  <1>2. CASE next < size
    BY <1>1, <1>2 DEF GenerateInstanceId
  <1>3. CASE next >= size /\ size < capacity
    BY <1>1, <1>3 DEF GenerateInstanceId, Resize
  <1> QED  BY <1>1, <1>2, <1>3

LEMMA GenerateStep ==
  ASSUME AllocatorInv, FirstWord, GenerateInstanceId
  PROVE  AllocatorInv'
  <1> USE SizesAssumption
  <1>1. /\ size \in Nat /\ next \in Nat \ {0}
        /\ marked \subseteq 0 .. size - 1 /\ used \subseteq marked
        /\ 0 \notin used
    BY DEF AllocatorInv, TypeOK
  <1>2. /\ size' \in Nat /\ capacity' \in Nat
        /\ size <= size' /\ size' <= capacity' /\ next < size' /\ capacity' >= Word
    BY VectorHoldsId
  <1>3. /\ WorldAlone /\ used' = used \cup {next} /\ free' = free
        /\ marked' = marked \cup {next} /\ next' = NextAfter(next)
    BY <1>2 DEF GenerateInstanceId
  <1>4. next' \in Nat /\ next' > next /\ SeemsFree(next')
    BY <1>1, <1>3, SearchResult
  <1>5. next' \notin used'
    <2>1. next' \notin marked
      <3>1. CASE next' >= size  BY <1>1, <1>4, <3>1
      <3>2. CASE next' \notin marked  BY <3>2
      <3> QED  BY <1>4, <3>1, <3>2 DEF SeemsFree
    <2> QED  BY <1>1, <1>3, <1>4, <2>1
  <1>6. marked' \subseteq 0 .. size' - 1 /\ used' \subseteq marked'
    <2>1. 0 .. size - 1 \subseteq 0 .. size' - 1  BY <1>1, <1>2, IntervalGrows
    <2>2. next \in 0 .. size' - 1  BY <1>1, <1>2, Below
    <2> QED  BY <1>1, <1>3, <2>1, <2>2
  <1>7. TypeOK'
    <2>1. next' \in Nat \ {0}  BY <1>1, <1>4
    <2>2. \A t \in MapThreads : free'[t].at \in FreeSteps
      BY <1>3 DEF AllocatorInv, TypeOK
    <2> QED  BY <1>2, <1>6, <2>1, <2>2 DEF TypeOK
  <1>8. FreeCalls'
    <2>1. \A t \in MapThreads : ~Freeing(t)'
      BY <1>3 DEF WorldAlone, Freeing
    <2>2. \A t \in MapThreads : free'[t] = NotFreeing
      BY <1>3 DEF WorldAlone
    <2>3. \A t \in MapThreads : free'[t].at = "none"
      BY <2>2 DEF NotFreeing
    <2> QED  BY <1>3, <2>1, <2>3 DEF AllocatorInv, FreeCalls
  <1>9. 0 \notin used'  BY <1>1, <1>3
  <1>10. size' # 0  BY <1>1, <1>2
  <1> QED  BY <1>2, <1>5, <1>7, <1>8, <1>9, <1>10 DEF AllocatorInv, NextUnused

LEMMA GenerateKeepsLowest ==
  ASSUME AllocatorInv, FirstWord, LowestInv, GenerateInstanceId
  PROVE  LowestInv'
  <1>1. /\ size \in Nat /\ next \in Nat \ {0}
    BY DEF AllocatorInv, TypeOK
  <1>2. next < size'  BY VectorHoldsId
  <1>3. /\ WorldAlone /\ used' = used \cup {next} /\ free' = free
        /\ marked' = marked \cup {next} /\ next' = NextAfter(next)
    BY <1>2 DEF GenerateInstanceId
  <1>4. marked = used /\ 1 .. next - 1 \subseteq used
    BY <1>3 DEF LowestInv, NextIsLowest
  <1>5. /\ next' \in Nat /\ next' > next
        /\ \A i \in next + 1 .. next' - 1 : ~SeemsFree(i)
    BY <1>1, <1>3, SearchResult
  <1>6. 1 .. next' - 1 \subseteq used'
    <2> SUFFICES ASSUME NEW i \in 1 .. next' - 1 PROVE i \in used'  OBVIOUS
    <2>1. CASE i < next
      BY <1>1, <1>3, <1>4, <2>1
    <2>2. CASE i = next
      BY <1>3, <2>2
    <2>3. CASE i > next
      <3>1. i \in next + 1 .. next' - 1
        <4> DEFINE S(n) == next + 1 .. n - 1
        <4>0. i \in Nat /\ i < next'  BY <1>5, Below
        <4>1. i \in Nat /\ i < next' /\ i >= next + 1  BY <1>1, <2>3, <4>0
        <4>2. \A n \in Nat : i < n => i \in S(n)  BY <1>1, <4>1
        <4> HIDE DEF S
        <4>3. i \in S(next')  BY <1>5, <4>1, <4>2
        <4> QED  BY <4>3 DEF S
      <3>2. i \in marked  BY <1>5, <3>1 DEF SeemsFree
      <3> QED  BY <1>3, <1>4, <3>2
    <2> QED  BY <1>1, <2>1, <2>2, <2>3
  <1>7. \A t \in MapThreads : ~Freeing(t)'
    BY <1>3 DEF WorldAlone, Freeing
  <1>8. marked' = used'  BY <1>3, <1>4
  <1> QED  BY <1>6, <1>7, <1>8 DEF LowestInv, NextIsLowest

-----------------------------------------------------------------------------
(***************************************************************************)
(* FreeInstanceId on the world thread.                                     *)
(***************************************************************************)
LEMMA FreeByWorldStep ==
  ASSUME AllocatorInv, NEW id \in Ids, FreeByWorld(id)
  PROVE  AllocatorInv'
  <1> USE SizesAssumption
  <1>1. /\ size \in Nat /\ next \in Nat \ {0} /\ id \in Nat \ {0}
        /\ marked \subseteq 0 .. size - 1 /\ used \subseteq marked
        /\ 0 \notin used /\ next \notin used
        /\ id \in marked
    BY DEF AllocatorInv, TypeOK, NextUnused, Ids, FreeByWorld
  <1>2. /\ WorldAlone /\ used' = used \ {id} /\ free' = free
        /\ marked' = marked \ {id} /\ next' = Lowered(id, next)
        /\ size' = size /\ capacity' = capacity
    BY DEF FreeByWorld
  <1>3. next' \in {id, next}  BY <1>2 DEF Lowered
  <1>4. next' \notin used' /\ next' \in Nat \ {0}  BY <1>1, <1>2, <1>3
  <1>5. TypeOK'  BY <1>1, <1>2, <1>4 DEF AllocatorInv, TypeOK
  <1>6. FreeCalls'
    <2>1. \A t \in MapThreads : ~Freeing(t)'
      BY <1>2 DEF WorldAlone, Freeing
    <2>2. \A t \in MapThreads : free'[t] = NotFreeing
      BY <1>2 DEF WorldAlone
    <2>3. \A t \in MapThreads : free'[t].at = "none"
      BY <2>2 DEF NotFreeing
    <2> QED  BY <1>2, <2>1, <2>3 DEF AllocatorInv, FreeCalls
  <1> QED  BY <1>1, <1>2, <1>4, <1>5, <1>6 DEF AllocatorInv, NextUnused

LEMMA FreeByWorldKeepsLowest ==
  ASSUME AllocatorInv, LowestInv, NEW id \in Ids, FreeByWorld(id)
  PROVE  LowestInv'
  <1> USE SizesAssumption
  <1>1. next \in Nat \ {0} /\ id \in Nat \ {0}
    BY DEF AllocatorInv, TypeOK, Ids
  <1>2. /\ WorldAlone /\ used' = used \ {id} /\ free' = free
        /\ marked' = marked \ {id} /\ next' = Lowered(id, next)
    BY DEF FreeByWorld
  <1>3. marked = used /\ 1 .. next - 1 \subseteq used
    BY <1>2 DEF LowestInv, NextIsLowest
  <1>4. next' <= next /\ next' <= id /\ next' \in Nat
    BY <1>1, <1>2 DEF Lowered
  <1>5. 1 .. next' - 1 \subseteq used'  BY <1>1, <1>2, <1>3, <1>4
  <1>6. \A t \in MapThreads : ~Freeing(t)'
    BY <1>2 DEF WorldAlone, Freeing
  <1> QED  BY <1>2, <1>3, <1>5, <1>6 DEF LowestInv, NextIsLowest

-----------------------------------------------------------------------------
(***************************************************************************)
(* FreeInstanceId on a map thread, one read or write at a time, with other *)
(* map threads between its own.                                            *)
(***************************************************************************)
Calls == [at : FreeSteps, id : Nat, seen : SUBSET Nat]

CallSound(t) ==
    /\ Freeing(t) <=> free[t].at # "none"
    /\ Freeing(t) => free[t].id \in (1 .. size - 1) \ used
    /\ free[t].at = "store" => /\ free[t].seen \subseteq 0 .. size - 1
                               /\ used \cap WordOf(free[t].id) \subseteq free[t].seen

LEMMA CallsAreSound ==
  FreeCalls <=> free \in [MapThreads -> Calls] /\ \A t \in MapThreads : CallSound(t)
  BY DEF FreeCalls, CallSound, Calls

\* What one thread does is no concern of the calls of the others: it only
\* takes an id from those in use.
LEMMA OtherCallsSound ==
  ASSUME FreeCalls, NEW t \in MapThreads, NEW c \in Calls,
         free' = [free EXCEPT ![t] = c], size' = size, used' \subseteq used,
         CallSound(t)'
  PROVE  FreeCalls'
  <1>1. free \in [MapThreads -> Calls]  BY CallsAreSound
  <1>2. free' \in [MapThreads -> Calls]  BY <1>1
  <1>3. ASSUME NEW u \in MapThreads, u # t PROVE CallSound(u)'
    <2>1. free'[u] = free[u]  BY <1>1, <1>3
    <2>2. CallSound(u)  BY CallsAreSound
    <2>3. WordOf(free[u].id)' = WordOf(free[u].id)  BY <2>1 DEF WordOf
    <2>4. Freeing(u)' <=> Freeing(u)  BY <2>1 DEF Freeing
    <2> QED  BY <2>1, <2>2, <2>3, <2>4 DEF CallSound
  <1>4. \A u \in MapThreads : CallSound(u)'  BY <1>3
  <1> QED  BY <1>2, <1>4 DEF FreeCalls, CallSound, Calls

\* The allocator without the calls: what is left to show of a step of a call.
LEMMA RestOfAllocator ==
  ASSUME AllocatorInv, FreeCalls', size' = size, capacity' = capacity,
         next' \in Nat \ {0}, next' \notin used', used' \subseteq used,
         used' \subseteq marked', marked' \subseteq 0 .. size - 1
  PROVE  AllocatorInv'
  <1>1. \A t \in MapThreads : free'[t].at \in FreeSteps
    BY DEF FreeCalls
  <1>2. TypeOK'  BY <1>1 DEF AllocatorInv, TypeOK
  <1> QED  BY <1>2 DEF AllocatorInv, NextUnused

LEMMA CallFreeStep ==
  ASSUME AllocatorInv, NEW t \in MapThreads, NEW id \in Ids, CallFree(t, id)
  PROVE  AllocatorInv'
  <1> USE SizesAssumption
  <1>1. /\ size \in Nat /\ next \in Nat \ {0} /\ marked \subseteq 0 .. size - 1
        /\ used \subseteq marked /\ 0 \notin used /\ next \notin used
        /\ FreeCalls /\ free \in [MapThreads -> Calls]
    BY CallsAreSound DEF AllocatorInv, TypeOK, NextUnused
  <1> DEFINE c == [at |-> "compare", id |-> id, seen |-> {}]
  <1>2. /\ id \in used /\ used' = used \ {id}
        /\ free' = [free EXCEPT ![t] = c]
        /\ size' = size /\ capacity' = capacity /\ marked' = marked /\ next' = next
    BY DEF CallFree, vector
  <1>3. id \in Nat /\ c \in Calls  BY DEF Ids, Calls, FreeSteps
  <1>4. free'[t] = c  BY <1>1, <1>2
  <1>5. id \in (1 .. size - 1) \ used'
    BY <1>1, <1>2, <1>3
  <1>6. CallSound(t)'
    <2>1. Freeing(t)'  BY <1>4 DEF Freeing, NotFreeing
    <2>2. free'[t].at = "compare" /\ free'[t].id = id  BY <1>4
    <2> QED  BY <1>2, <1>5, <2>1, <2>2 DEF CallSound
  <1>7. FreeCalls'  BY <1>1, <1>2, <1>3, <1>6, OtherCallsSound
  <1> QED  BY <1>1, <1>2, <1>7, RestOfAllocator

LEMMA CompareNextStep ==
  ASSUME AllocatorInv, NEW t \in MapThreads, CompareNext(t)
  PROVE  AllocatorInv'
  <1>1. /\ next \in Nat \ {0} /\ marked \subseteq 0 .. size - 1
        /\ used \subseteq marked /\ next \notin used
        /\ FreeCalls /\ free \in [MapThreads -> Calls] /\ CallSound(t)
    BY CallsAreSound DEF AllocatorInv, TypeOK, NextUnused
  <1>2. PICK s \in {"lower", "load"} : free' = [free EXCEPT ![t].at = s]
    BY DEF CompareNext
  <1> DEFINE c == [free[t] EXCEPT !.at = s]
  <1>3. /\ free' = [free EXCEPT ![t] = c]
        /\ size' = size /\ capacity' = capacity /\ marked' = marked /\ next' = next
        /\ used' = used /\ free[t].at = "compare"
    BY <1>2 DEF CompareNext, vector
  <1>4. free[t] \in Calls  BY <1>1
  <1>5. /\ c \in Calls /\ c.at = s /\ c.id = free[t].id
    BY <1>4 DEF Calls, FreeSteps
  <1>6. free'[t] = c  BY <1>1, <1>3
  <1>7. CallSound(t)'
    <2>1. Freeing(t)'  BY <1>5, <1>6 DEF Freeing, NotFreeing
    <2>2. free[t].id \in (1 .. size - 1) \ used  BY <1>1, <1>3 DEF CallSound
    <2> QED  BY <1>3, <1>5, <1>6, <2>1, <2>2 DEF CallSound
  <1>8. FreeCalls'  BY <1>1, <1>3, <1>5, <1>7, OtherCallsSound
  <1> QED  BY <1>1, <1>3, <1>8, RestOfAllocator

LEMMA LowerNextStep ==
  ASSUME AllocatorInv, NEW t \in MapThreads, LowerNext(t)
  PROVE  AllocatorInv'
  <1>1. /\ marked \subseteq 0 .. size - 1 /\ used \subseteq marked /\ size \in Nat
        /\ FreeCalls /\ free \in [MapThreads -> Calls] /\ CallSound(t)
    BY CallsAreSound DEF AllocatorInv, TypeOK, NextUnused
  <1> DEFINE c == [free[t] EXCEPT !.at = "load"]
  <1>2. /\ free' = [free EXCEPT ![t] = c] /\ next' = free[t].id
        /\ size' = size /\ capacity' = capacity /\ marked' = marked
        /\ used' = used /\ free[t].at = "lower"
    BY DEF LowerNext, vector
  <1>3. free[t] \in Calls  BY <1>1
  <1>4. /\ c \in Calls /\ c.at = "load" /\ c.id = free[t].id
    BY <1>3 DEF Calls, FreeSteps
  <1>5. free'[t] = c  BY <1>1, <1>2
  <1>6. free[t].id \in (1 .. size - 1) \ used  BY <1>1, <1>2 DEF CallSound
  <1>7. CallSound(t)'
    <2>1. Freeing(t)'  BY <1>4, <1>5 DEF Freeing, NotFreeing
    <2> QED  BY <1>2, <1>4, <1>5, <1>6, <2>1 DEF CallSound
  <1>8. FreeCalls'  BY <1>1, <1>2, <1>4, <1>7, OtherCallsSound
  <1>9. next' \in Nat \ {0} /\ next' \notin used'
    BY <1>1, <1>2, <1>6
  <1> QED  BY <1>1, <1>2, <1>8, <1>9, RestOfAllocator

LEMMA LoadWordStep ==
  ASSUME AllocatorInv, NEW t \in MapThreads, LoadWord(t)
  PROVE  AllocatorInv'
  <1>1. /\ next \in Nat \ {0} /\ marked \subseteq 0 .. size - 1 /\ size \in Nat
        /\ used \subseteq marked /\ next \notin used
        /\ FreeCalls /\ free \in [MapThreads -> Calls] /\ CallSound(t)
    BY CallsAreSound DEF AllocatorInv, TypeOK, NextUnused
  <1> DEFINE w == marked \cap WordOf(free[t].id)
             c == [free[t] EXCEPT !.at = "store", !.seen = w]
  <1>2. /\ free' = [free EXCEPT ![t] = c]
        /\ size' = size /\ capacity' = capacity /\ marked' = marked /\ next' = next
        /\ used' = used /\ free[t].at = "load"
    BY <1>1 DEF LoadWord, vector
  <1>3. free[t] \in Calls  BY <1>1
  <1>4. w \in SUBSET Nat
    <2>1. \A i \in 0 .. size - 1 : i \in Nat  OBVIOUS
    <2> QED  BY <1>1, <2>1
  <1>5. w \subseteq 0 .. size - 1 /\ used \cap WordOf(free[t].id) \subseteq w
    BY <1>1
  <1> HIDE DEF w
  <1>6. /\ c \in Calls /\ c.at = "store" /\ c.id = free[t].id /\ c.seen = w
    BY <1>3, <1>4 DEF Calls, FreeSteps
  <1>7. free'[t] = c  BY <1>1, <1>2
  <1>8. free[t].id \in (1 .. size - 1) \ used  BY <1>1, <1>2 DEF CallSound
  <1>9. WordOf(free[t].id)' = WordOf(free[t].id)  BY <1>2, <1>6, <1>7 DEF WordOf
  <1>10. CallSound(t)'
    <2>2. free'[t].seen = w /\ free'[t].at = "store" /\ free'[t].id = free[t].id
      BY <1>6, <1>7
    <2>1. Freeing(t)'  BY <2>2 DEF Freeing, NotFreeing
    <2> QED  BY <1>2, <1>5, <1>8, <1>9, <2>1, <2>2 DEF CallSound
  <1>11. FreeCalls'  BY <1>1, <1>2, <1>6, <1>10, OtherCallsSound
  <1> QED  BY <1>1, <1>2, <1>11, RestOfAllocator

\* The word written back holds every id in use: none is lost, though others
\* that were freed since the word was read may come back as set bits.
LEMMA StoreWordStep ==
  ASSUME AllocatorInv, NEW t \in MapThreads, StoreWord(t)
  PROVE  AllocatorInv'
  <1>1. /\ next \in Nat \ {0} /\ marked \subseteq 0 .. size - 1 /\ size \in Nat
        /\ used \subseteq marked /\ next \notin used
        /\ FreeCalls /\ free \in [MapThreads -> Calls] /\ CallSound(t)
    BY CallsAreSound DEF AllocatorInv, TypeOK, NextUnused
  <1>2. /\ free' = [free EXCEPT ![t] = NotFreeing]
        /\ size' = size /\ capacity' = capacity /\ next' = next
        /\ used' = used /\ free[t].at = "store"
        /\ marked' = (marked \ WordOf(free[t].id)) \cup (free[t].seen \ {free[t].id})
    BY DEF StoreWord
  <1>3. NotFreeing \in Calls  BY DEF NotFreeing, Calls, FreeSteps
  <1>4. free'[t] = NotFreeing  BY <1>1, <1>2
  <1>5. CallSound(t)'
    BY <1>4 DEF CallSound, Freeing, NotFreeing
  <1>6. FreeCalls'  BY <1>1, <1>2, <1>3, <1>5, OtherCallsSound
  <1>7. /\ free[t].id \notin used /\ free[t].seen \subseteq 0 .. size - 1
        /\ used \cap WordOf(free[t].id) \subseteq free[t].seen
    BY <1>1, <1>2 DEF CallSound
  <1>8. used' \subseteq marked' /\ marked' \subseteq 0 .. size - 1
    BY <1>1, <1>2, <1>7
  <1> QED  BY <1>1, <1>2, <1>6, <1>8, RestOfAllocator

LEMMA AllocatorStep ==
  ASSUME AllocatorInv, FirstWord, [Next]_vars
  PROVE  AllocatorInv'
  <1>1. CASE GenerateInstanceId  BY <1>1, GenerateStep
  <1>2. ASSUME NEW id \in Ids, FreeByWorld(id) PROVE AllocatorInv'
    BY <1>2, FreeByWorldStep
  <1>3. ASSUME NEW t \in MapThreads, NEW id \in Ids, CallFree(t, id) PROVE AllocatorInv'
    BY <1>3, CallFreeStep
  <1>4. ASSUME NEW t \in MapThreads, CompareNext(t) PROVE AllocatorInv'
    BY <1>4, CompareNextStep
  <1>5. ASSUME NEW t \in MapThreads, LowerNext(t) PROVE AllocatorInv'
    BY <1>5, LowerNextStep
  <1>6. ASSUME NEW t \in MapThreads, LoadWord(t) PROVE AllocatorInv'
    BY <1>6, LoadWordStep
  <1>7. ASSUME NEW t \in MapThreads, StoreWord(t) PROVE AllocatorInv'
    BY <1>7, StoreWordStep
  <1>8. CASE UNCHANGED vars
    BY <1>8 DEF vars, vector, AllocatorInv, TypeOK, NextUnused, FreeCalls, Freeing,
      WordOf
  <1> QED  BY <1>1, <1>2, <1>3, <1>4, <1>5, <1>6, <1>7, <1>8 DEF Next

(***************************************************************************)
(* However many map threads free ids at the same time, what they write     *)
(* over each other in the vector (FreeInstanceId, no lock) never makes it  *)
(* forget an id that is in use, as long as no id beyond the first word of  *)
(* bits is generated.                                                      *)
(***************************************************************************)
THEOREM AllocatorInvariant ==
  ASSUME FirstWord
  PROVE  Spec => []AllocatorInv
  <1>1. Init => AllocatorInv  BY AllocatorInit
  <1>2. AllocatorInv /\ [Next]_vars => AllocatorInv'  BY AllocatorStep
  <1> QED  BY <1>1, <1>2, PTL DEF Spec

(***************************************************************************)
(* Every id in use has its bit in the vector, and the vector its storage.  *)
(***************************************************************************)
THEOREM UsedIdsAreMarked ==
  ASSUME FirstWord
  PROVE  Spec => []TypeOK
  <1>1. AllocatorInv => TypeOK  BY DEF AllocatorInv
  <1> QED  BY <1>1, AllocatorInvariant, PTL

(***************************************************************************)
(* The id GenerateInstanceId will hand out next is in nobody's hands.      *)
(***************************************************************************)
THEOREM NoIdTwice ==
  ASSUME FirstWord
  PROVE  Spec => []NextUnused
  <1>1. AllocatorInv => NextUnused  BY DEF AllocatorInv
  <1> QED  BY <1>1, AllocatorInvariant, PTL

-----------------------------------------------------------------------------
(***************************************************************************)
(* With one map thread no id below the next one is forgotten either.       *)
(***************************************************************************)
OneMapThread == \A t, u \in MapThreads : t = u

\* What LowestInv says of the thread that is in FreeInstanceId.
CallLowest(t) ==
    /\ marked = used \cup {free[t].id}
    /\ 1 .. next - 1 \subseteq used \cup {free[t].id}
    /\ free[t].at = "lower" => free[t].id < next
    /\ free[t].at \in {"load", "store"} => free[t].id >= next
    /\ free[t].at = "store" => free[t].seen = marked \cap WordOf(free[t].id)

\* While the one thread is in its call, only its call matters.
LEMMA DuringTheCall ==
  ASSUME OneMapThread, NEW t \in MapThreads, Freeing(t)', CallLowest(t)'
  PROVE  LowestInv'
  <1>1. ~WorldAlone'  BY DEF WorldAlone, Freeing
  <1>2. \A u \in MapThreads : u = t  BY DEF OneMapThread
  <1>3. \A u \in MapThreads : CallLowest(u)'  BY <1>2
  <1> QED  BY <1>1, <1>3 DEF LowestInv, NextIsLowest, CallLowest

LEMMA InTheCall ==
  ASSUME AllocatorInv, LowestInv, NEW t \in MapThreads, free[t].at # "none"
  PROVE  CallLowest(t) /\ Freeing(t)
  BY DEF AllocatorInv, FreeCalls, LowestInv, CallLowest

LEMMA CallFreeLowest ==
  ASSUME AllocatorInv, LowestInv, OneMapThread,
         NEW t \in MapThreads, NEW id \in Ids, CallFree(t, id)
  PROVE  LowestInv'
  <1>1. free \in [MapThreads -> Calls]  BY CallsAreSound DEF AllocatorInv
  <1>2. \A u \in MapThreads : u = t  BY DEF OneMapThread
  <1>3. WorldAlone  BY <1>2 DEF WorldAlone, CallFree
  <1>4. marked = used /\ 1 .. next - 1 \subseteq used
    BY <1>3 DEF LowestInv, NextIsLowest
  <1>5. /\ id \in used /\ used' = used \ {id} /\ marked' = marked /\ next' = next
        /\ free'[t] = [at |-> "compare", id |-> id, seen |-> {}]
    BY <1>1 DEF CallFree, vector
  <1>6. free'[t].at = "compare" /\ free'[t].id = id  BY <1>5
  <1>7. Freeing(t)'  BY <1>6 DEF Freeing, NotFreeing
  <1>8. CallLowest(t)'  BY <1>4, <1>5, <1>6 DEF CallLowest
  <1> QED  BY <1>7, <1>8, DuringTheCall

LEMMA CompareNextLowest ==
  ASSUME AllocatorInv, LowestInv, OneMapThread, NEW t \in MapThreads, CompareNext(t)
  PROVE  LowestInv'
  <1> DEFINE id == free[t].id
             s == IF Lowered(id, next) # next THEN "lower" ELSE "load"
  <1>1. free \in [MapThreads -> Calls] /\ next \in Nat /\ free[t] \in Calls /\ id \in Nat
    BY CallsAreSound DEF AllocatorInv, TypeOK, Calls
  <1>2. free[t].at = "compare"  BY DEF CompareNext
  <1>3. CallLowest(t)  BY <1>2, InTheCall
  <1>4. /\ used' = used /\ marked' = marked /\ next' = next
        /\ free'[t] = [free[t] EXCEPT !.at = s]
    BY <1>1 DEF CompareNext, vector
  <1>5. (s = "lower" /\ id < next) \/ (s = "load" /\ id >= next)
    BY <1>1 DEF Lowered
  <1> HIDE DEF s
  <1>6. free'[t].at = s /\ free'[t].id = id  BY <1>1, <1>4 DEF Calls
  <1>7. Freeing(t)'  BY <1>5, <1>6 DEF Freeing, NotFreeing
  <1>8. CallLowest(t)'  BY <1>3, <1>4, <1>5, <1>6 DEF CallLowest
  <1> QED  BY <1>7, <1>8, DuringTheCall

LEMMA LowerNextLowest ==
  ASSUME AllocatorInv, LowestInv, OneMapThread, NEW t \in MapThreads, LowerNext(t)
  PROVE  LowestInv'
  <1> DEFINE id == free[t].id
  <1>1. free \in [MapThreads -> Calls] /\ next \in Nat /\ free[t] \in Calls /\ id \in Nat
    BY CallsAreSound DEF AllocatorInv, TypeOK, Calls
  <1>2. free[t].at = "lower"  BY DEF LowerNext
  <1>3. CallLowest(t)  BY <1>2, InTheCall
  <1>4. /\ used' = used /\ marked' = marked /\ next' = id
        /\ free'[t] = [free[t] EXCEPT !.at = "load"]
    BY <1>1 DEF LowerNext, vector
  <1>5. free'[t].at = "load" /\ free'[t].id = id  BY <1>1, <1>4 DEF Calls
  <1>6. Freeing(t)'  BY <1>5 DEF Freeing, NotFreeing
  <1>7. id < next  BY <1>2, <1>3 DEF CallLowest
  <1>8. 1 .. id - 1 \subseteq 1 .. next - 1  BY <1>1, <1>7
  <1>9. 1 .. next' - 1 \subseteq used' \cup {id}
    <2>1. 1 .. next' - 1 = 1 .. id - 1  BY <1>4
    <2>2. 1 .. next - 1 \subseteq used \cup {id}  BY <1>3 DEF CallLowest
    <2> QED  BY <1>4, <1>8, <2>1, <2>2
  <1>10. id >= next'  BY <1>1, <1>4
  <1>11. marked' = used' \cup {id}  BY <1>3, <1>4 DEF CallLowest
  <1>12. CallLowest(t)'  BY <1>5, <1>9, <1>10, <1>11 DEF CallLowest
  <1> QED  BY <1>6, <1>12, DuringTheCall

LEMMA LoadWordLowest ==
  ASSUME AllocatorInv, LowestInv, OneMapThread, NEW t \in MapThreads, LoadWord(t)
  PROVE  LowestInv'
  <1> DEFINE id == free[t].id
             w == marked \cap WordOf(id)
  <1>1. free \in [MapThreads -> Calls] /\ free[t] \in Calls
    BY CallsAreSound DEF AllocatorInv
  <1>2. free[t].at = "load"  BY DEF LoadWord
  <1>3. CallLowest(t)  BY <1>2, InTheCall
  <1>4. /\ used' = used /\ marked' = marked /\ next' = next /\ size' = size
        /\ free'[t] = [free[t] EXCEPT !.at = "store", !.seen = w]
    BY <1>1 DEF LoadWord, vector
  <1>5. free'[t].at = "store" /\ free'[t].id = id /\ free'[t].seen = w
    BY <1>1, <1>4 DEF Calls
  <1>6. Freeing(t)'  BY <1>5 DEF Freeing, NotFreeing
  <1>7. WordOf(free[t].id)' = WordOf(id)  BY <1>4, <1>5 DEF WordOf
  <1>8. free'[t].seen = marked' \cap WordOf(free[t].id)'  BY <1>4, <1>5, <1>7
  <1>9. /\ marked' = used' \cup {id} /\ 1 .. next' - 1 \subseteq used' \cup {id}
        /\ id >= next'
    BY <1>2, <1>3, <1>4 DEF CallLowest
  <1>10. CallLowest(t)'  BY <1>5, <1>8, <1>9 DEF CallLowest
  <1> QED  BY <1>6, <1>10, DuringTheCall

\* Nothing has changed the word since it was read: only the bit goes.
LEMMA StoreWordLowest ==
  ASSUME AllocatorInv, LowestInv, OneMapThread, NEW t \in MapThreads, StoreWord(t)
  PROVE  LowestInv'
  <1> USE SizesAssumption
  <1> DEFINE id == free[t].id
             w == WordOf(id)
  <1>1. /\ free \in [MapThreads -> Calls] /\ CallSound(t) /\ size \in Nat
        /\ next \in Nat
    BY CallsAreSound DEF AllocatorInv, TypeOK
  <1>2. free[t].at = "store"  BY DEF StoreWord
  <1>3. CallLowest(t) /\ Freeing(t)  BY <1>2, InTheCall
  <1>4. /\ used' = used /\ next' = next /\ free'[t] = NotFreeing
        /\ marked' = (marked \ w) \cup (free[t].seen \ {id})
    BY <1>1 DEF StoreWord
  <1>5. id \in (1 .. size - 1) \ used  BY <1>1, <1>3 DEF CallSound
  <1>6. id \in w  BY <1>1, <1>5 DEF WordOf
  <1> HIDE DEF w
  <1>7. free[t].seen = marked \cap w /\ marked = used \cup {id}
    BY <1>2, <1>3 DEF CallLowest, w
  <1>8. marked' = used'  BY <1>4, <1>5, <1>6, <1>7
  <1>9. 1 .. next - 1 \subseteq used
    <2>1. id \in Nat /\ id >= next  BY <1>2, <1>3, <1>5 DEF CallLowest
    <2>2. id \notin 1 .. next - 1  BY <1>1, <2>1
    <2>3. 1 .. next - 1 \subseteq used \cup {id}  BY <1>3 DEF CallLowest
    <2> QED  BY <2>2, <2>3
  <1>10. \A u \in MapThreads : u = t  BY DEF OneMapThread
  <1>11. \A u \in MapThreads : ~Freeing(u)'  BY <1>4, <1>10 DEF Freeing
  <1>12. 1 .. next' - 1 \subseteq used'  BY <1>4, <1>9
  <1> QED  BY <1>8, <1>11, <1>12 DEF LowestInv, NextIsLowest

LEMMA LowestStep ==
  ASSUME AllocatorInv, LowestInv, FirstWord, OneMapThread, [Next]_vars
  PROVE  LowestInv'
  <1>1. CASE GenerateInstanceId  BY <1>1, GenerateKeepsLowest
  <1>2. ASSUME NEW id \in Ids, FreeByWorld(id) PROVE LowestInv'
    BY <1>2, FreeByWorldKeepsLowest
  <1>3. ASSUME NEW t \in MapThreads, NEW id \in Ids, CallFree(t, id) PROVE LowestInv'
    BY <1>3, CallFreeLowest
  <1>4. ASSUME NEW t \in MapThreads, CompareNext(t) PROVE LowestInv'
    BY <1>4, CompareNextLowest
  <1>5. ASSUME NEW t \in MapThreads, LowerNext(t) PROVE LowestInv'
    BY <1>5, LowerNextLowest
  <1>6. ASSUME NEW t \in MapThreads, LoadWord(t) PROVE LowestInv'
    BY <1>6, LoadWordLowest
  <1>7. ASSUME NEW t \in MapThreads, StoreWord(t) PROVE LowestInv'
    BY <1>7, StoreWordLowest
  <1>8. CASE UNCHANGED vars
    BY <1>8 DEF vars, vector, LowestInv, NextIsLowest, WorldAlone, Freeing, WordOf
  <1> QED  BY <1>1, <1>2, <1>3, <1>4, <1>5, <1>6, <1>7, <1>8 DEF Next

(***************************************************************************)
(* With one map thread (MapUpdate.Threads = 1, the default) _nextInstanceId *)
(* is the lowest id not in use whenever no thread is in FreeInstanceId.    *)
(***************************************************************************)
THEOREM LowestIdIsNext ==
  ASSUME FirstWord, OneMapThread
  PROVE  Spec => []NextIsLowest
  <1>1. Init => AllocatorInv /\ LowestInv  BY AllocatorInit
  <1>2. AllocatorInv /\ LowestInv /\ [Next]_vars => AllocatorInv' /\ LowestInv'
    BY AllocatorStep, LowestStep
  <1>3. LowestInv => NextIsLowest  BY DEF LowestInv
  <1> QED  BY <1>1, <1>2, <1>3, PTL DEF Spec
=============================================================================
