--------------------------- MODULE WorldQueueProofs ---------------------------
(***************************************************************************)
(* Proofs about the queue of players of WorldSessions, for every set of    *)
(* accounts and sessions and every PlayerLimit: m_QueuedPlayer holds the   *)
(* sessions it should, nobody waits beside a free place, the limit is      *)
(* kept, and the queue is served in order.  The sizes the code counts with *)
(* are sizes of sets here: m_QueuedPlayer has no session twice, so its     *)
(* length is the number of sessions in it.                                 *)
(***************************************************************************)
EXTENDS WorldSessionProofs, FiniteSetTheorems

USE WorldSessionsAssumption
USE DEF network, admission, login, thread, Sockets, SocketStates

Distinct(q) == \A i, j \in DOMAIN q : q[i] = q[j] => i = j

\* x is before y in q.
InOrder(q, x, y) == \E k, l \in DOMAIN q : k < l /\ q[k] = x /\ q[l] = y

\* r is what remains of q without x.
Without(q, x, r) ==
    /\ Distinct(r) /\ Elements(r) = Elements(q) \ {x}
    /\ \A i, j \in DOMAIN q :
          i < j /\ q[i] # x /\ q[j] # x => InOrder(r, q[i], q[j])

LEMMA ElementIs ==
  ASSUME NEW S, NEW q \in Seq(S)
  PROVE  /\ \A x : x \in Elements(q) <=> \E i \in DOMAIN q : q[i] = x
         /\ Elements(q) \subseteq S /\ IsFiniteSet(Elements(q))
         /\ q = <<>> <=> Elements(q) = {}
         /\ Distinct(q) => Cardinality(Elements(q)) = Len(q)
  <1>1. \A x : x \in Elements(q) <=> \E i \in DOMAIN q : q[i] = x
    BY DEF Elements, ToSet
  <1>2. Elements(q) \subseteq S  BY <1>1
  <1>3. q = <<>> <=> Elements(q) = {}
    <2>1. q # <<>> => 1 \in DOMAIN q  OBVIOUS
    <2>2. q = <<>> => DOMAIN q = {}  OBVIOUS
    <2>3. CASE q = <<>>  BY <1>1, <2>2, <2>3
    <2>4. CASE q # <<>>  BY <1>1, <2>1, <2>4
    <2> QED  BY <2>3, <2>4
  <1>4. q \in Surjection(1 .. Len(q), Elements(q))
    BY <1>1 DEF Surjection, Range
  <1>5. IsFiniteSet(1 .. Len(q)) /\ Cardinality(1 .. Len(q)) = Len(q)
    <2>1. Len(q) \in Nat  OBVIOUS
    <2> HIDE <2>1
    <2> DEFINE n == Len(q)
    <2>2. n \in Int /\ 1 \in Int /\ n \in Nat  BY <2>1
    <2> HIDE DEF n
    <2>3. IsFiniteSet(1 .. n) /\ Cardinality(1 .. n) = IF 1 > n THEN 0 ELSE n - 1 + 1
      BY <2>2, FS_Interval
    <2>4. Cardinality(1 .. n) = n  BY <2>2, <2>3
    <2> QED  BY <2>3, <2>4 DEF n
  <1>6. IsFiniteSet(Elements(q))  BY <1>4, <1>5, FS_Surjection
  <1>7. ASSUME Distinct(q) PROVE Cardinality(Elements(q)) = Len(q)
    <2>1. q \in Injection(1 .. Len(q), Elements(q))
      BY <1>4, <1>7 DEF Injection, IsInjective, Surjection, Distinct
    <2> QED  BY <1>4, <1>5, <2>1, FS_Surjection
  <1> QED  BY <1>1, <1>2, <1>3, <1>6, <1>7

\* std::list::erase of the first place that holds x.
LEMMA FirstRemoved ==
  ASSUME NEW S, NEW q \in Seq(S), Distinct(q), NEW x \in Elements(q)
  PROVE  RemoveFirst(q, x) \in Seq(S) /\ Without(q, x, RemoveFirst(q, x))
  <1>1. PICK p \in 1 .. Len(q) :
           /\ q[p] = x
           /\ RemoveFirst(q, x) \in Seq(S)
           /\ Len(RemoveFirst(q, x)) = Len(q) - 1
           /\ \A i \in 1 .. Len(q) - 1 :
                RemoveFirst(q, x)[i] = IF i < p THEN q[i] ELSE q[i + 1]
    BY RemovesOne
  <1> DEFINE r == RemoveFirst(q, x)
             from(i) == IF i < p THEN i ELSE i + 1
             to(i) == IF i < p THEN i ELSE i - 1
  <1>2. DOMAIN q = 1 .. Len(q) /\ DOMAIN r = 1 .. Len(q) - 1  BY <1>1
  <1> HIDE DEF r
  <1>3. \A i \in DOMAIN r : from(i) \in DOMAIN q /\ from(i) # p /\ r[i] = q[from(i)]
    BY <1>1, <1>2 DEF r
  <1>4. \A i \in DOMAIN q : i # p => to(i) \in DOMAIN r /\ r[to(i)] = q[i]
    BY <1>1, <1>2 DEF r
  <1>5. \A i, j \in DOMAIN r : from(i) = from(j) => i = j
    BY <1>2
  <1>6. \A i, j \in DOMAIN q : i < j /\ i # p /\ j # p => to(i) < to(j)
    BY <1>2
  <1>7. \A i \in DOMAIN q : i # p <=> q[i] # x
    BY <1>1, <1>2 DEF Distinct
  <1> HIDE DEF from, to
  <1>8. Distinct(r)
    <2> SUFFICES ASSUME NEW i \in DOMAIN r, NEW j \in DOMAIN r, r[i] = r[j]
                 PROVE  i = j
      BY DEF Distinct
    <2>1. from(i) = from(j)  BY <1>3 DEF Distinct
    <2> QED  BY <1>5, <2>1
  <1>9. \A y : y \in Elements(r) <=> y \in Elements(q) \ {x}
    <2>1. \A y : y \in Elements(r) <=> \E i \in DOMAIN r : r[i] = y
      BY <1>1, ElementIs DEF r
    <2>2. \A y : y \in Elements(q) <=> \E i \in DOMAIN q : q[i] = y
      BY ElementIs
    <2> QED  BY <1>3, <1>4, <1>7, <2>1, <2>2
  <1>10. \A i, j \in DOMAIN q :
            i < j /\ q[i] # x /\ q[j] # x => InOrder(r, q[i], q[j])
    BY <1>4, <1>6, <1>7 DEF InOrder
  <1> QED  BY <1>1, <1>8, <1>9, <1>10 DEF Without, r

\* pop_front.
LEMMA HeadRemoved ==
  ASSUME NEW S, NEW q \in Seq(S), Distinct(q), q # <<>>
  PROVE  /\ Tail(q) \in Seq(S) /\ Head(q) \in Elements(q)
         /\ Without(q, Head(q), Tail(q))
  <1> DEFINE r == Tail(q)
  <1>1. /\ r \in Seq(S) /\ Head(q) = q[1] /\ DOMAIN q = 1 .. Len(q)
        /\ DOMAIN r = 1 .. Len(q) - 1 /\ 1 \in DOMAIN q
        /\ \A i \in DOMAIN r : r[i] = q[i + 1]
    OBVIOUS
  <1> HIDE DEF r
  <1>2. \A i \in DOMAIN r : i + 1 \in DOMAIN q /\ i + 1 # 1 /\ r[i] = q[i + 1]
    BY <1>1
  <1>3. \A i \in DOMAIN q : i # 1 => i - 1 \in DOMAIN r /\ r[i - 1] = q[i]
    BY <1>1
  <1>4. \A i \in DOMAIN q : i # 1 <=> q[i] # Head(q)
    BY <1>1 DEF Distinct
  <1>5. Distinct(r)
    BY <1>1, <1>2 DEF Distinct
  <1>6. \A y : y \in Elements(r) <=> y \in Elements(q) \ {Head(q)}
    <2>1. \A y : y \in Elements(r) <=> \E i \in DOMAIN r : r[i] = y
      BY <1>1, ElementIs
    <2>2. \A y : y \in Elements(q) <=> \E i \in DOMAIN q : q[i] = y
      BY ElementIs
    <2> QED  BY <1>2, <1>3, <1>4, <2>1, <2>2
  <1>7. \A i, j \in DOMAIN q :
           i < j /\ q[i] # Head(q) /\ q[j] # Head(q) => InOrder(r, q[i], q[j])
    <2> SUFFICES ASSUME NEW i \in DOMAIN q, NEW j \in DOMAIN q, i < j, i # 1, j # 1
                 PROVE  InOrder(r, q[i], q[j])
      BY <1>4
    <2>1. i - 1 < j - 1  BY <1>1
    <2> QED  BY <1>3, <2>1 DEF InOrder
  <1>8. Head(q) \in Elements(q)  BY <1>1, ElementIs
  <1> QED  BY <1>1, <1>5, <1>6, <1>7, <1>8 DEF Without, r

LEMMA InOrderKept ==
  ASSUME NEW S, NEW q \in Seq(S), NEW x, NEW r, Without(q, x, r),
         NEW a, NEW b, InOrder(q, a, b), a # x, b # x
  PROVE  InOrder(r, a, b)
  BY DEF InOrder, Without

(***************************************************************************)
(* RemoveQueuedPlayer for x, with W the sessions of m_sessions, the queue  *)
(* q of sessions E, and u what it returns.                                 *)
(***************************************************************************)
Place(W, E, x) ==
    LET a == Cardinality(W \ E)
    IN  Limit = 0 \/ (IF x \notin E /\ a > 0 THEN a - 1 ELSE a) < Limit

\* adm is let in, of those behind x: one of them if there is a place.
LetIn(W, E, x, adm) ==
    \/ adm = {} /\ (E \ {x} = {} \/ ~Place(W, E, x))
    \/ Place(W, E, x) /\ \E h : adm = {h}

Unqueued(q, x, u) ==
    /\ u.found \in BOOLEAN /\ (u.found <=> x \in Elements(q))
    /\ Distinct(u.queue)
    /\ u.admitted \subseteq Elements(q) \ {x}
    /\ Elements(u.queue) = (Elements(q) \ {x}) \ u.admitted
    /\ \A i, j \in DOMAIN q :
          i < j /\ q[i] \in Elements(u.queue) /\ q[j] # x =>
             InOrder(u.queue, q[i], q[j])

LEMMA UnqueueEffect ==
  ASSUME NEW W \in SUBSET Sessions, IsFiniteSet(W), NEW q \in Seq(W), Distinct(q), NEW x
  PROVE  /\ Unqueue(q, Cardinality(W), x).queue \in Seq(W)
         /\ Unqueued(q, x, Unqueue(q, Cardinality(W), x))
         /\ LetIn(W, Elements(q), x, Unqueue(q, Cardinality(W), x).admitted)
  <1> DEFINE n == Cardinality(W)
             E == Elements(q)
             active == Cardinality(W \ E)
             u == Unqueue(q, n, x)
             rest == IF x \in E THEN RemoveFirst(q, x) ELSE q
             room == Place(W, E, x)
  <1>1. n - Len(q) = active
    <2>1. E \subseteq W /\ IsFiniteSet(E) /\ Cardinality(E) = Len(q)
      BY ElementIs
    <2> DEFINE A == W \ E
    <2>2. IsFiniteSet(A) /\ active \in Nat /\ n \in Nat /\ Len(q) \in Nat
      BY FS_Subset, FS_CardinalityType
    <2>3. A \cup E = W /\ A \cap E = {}  BY <2>1
    <2>4. active = Cardinality(A)  OBVIOUS
    <2> HIDE DEF A, E, active
    <2>5. Cardinality(A \cup E) = Cardinality(A) + Cardinality(E) - Cardinality(A \cap E)
      BY <2>1, <2>2, FS_Union
    <2>6. Cardinality(A \cap E) = 0  BY <2>3, FS_EmptySet
    <2>7. n = active + Len(q) - 0  BY <2>1, <2>3, <2>4, <2>5, <2>6
    <2> QED  BY <2>2, <2>7
  <1>2. room <=> Limit = 0 \/ (IF x \notin E /\ active > 0 THEN active - 1 ELSE active)
                              < Limit
    BY DEF Place
  <1>3. /\ u.found \in BOOLEAN /\ (u.found <=> x \in E)
        /\ u.queue = (IF room /\ rest # <<>> THEN Tail(rest) ELSE rest)
        /\ u.admitted = (IF room /\ rest # <<>> THEN {Head(rest)} ELSE {})
    <2>1. rest = IF x \in E THEN RemoveFirst(q, x) ELSE q  OBVIOUS
    <2>2. u = Unqueue(q, n, x) /\ E = Elements(q)  OBVIOUS
    <2> HIDE DEF active, rest, n, room, u, E
    <2>3. CASE x \in E
      BY <1>1, <1>2, <2>1, <2>2, <2>3 DEF Unqueue, HasRoom
    <2>4. CASE x \notin E
      <3>1. rest = q  BY <2>1, <2>4
      <3>2. room <=> HasRoom(FALSE, active)  BY <1>2, <2>4 DEF HasRoom
      <3>3. (x \in Elements(q)) = FALSE  BY <2>2, <2>4
      <3>4. u = [found    |-> FALSE,
                 queue    |-> IF HasRoom(FALSE, active) /\ rest # <<>>
                              THEN Tail(rest) ELSE rest,
                 admitted |-> IF HasRoom(FALSE, active) /\ rest # <<>>
                              THEN {Head(rest)} ELSE {}]
        BY <1>1, <2>2, <3>1, <3>3 DEF Unqueue
      <3> QED  BY <2>4, <3>2, <3>4
    <2> QED  BY <2>3, <2>4
  <1>4. rest \in Seq(W) /\ Without(q, x, rest)
    <2>1. CASE x \in E  BY <2>1, FirstRemoved
    <2>2. CASE x \notin E
      <3>1. Elements(q) = Elements(q) \ {x}  BY <2>2
      <3>2. \A i, j \in DOMAIN q : i < j => InOrder(q, q[i], q[j])  BY DEF InOrder
      <3> QED  BY <2>2, <3>1, <3>2 DEF Without
    <2> QED  BY <2>1, <2>2
  <1>6. E = Elements(q) /\ (room <=> Place(W, E, x))  OBVIOUS
  <1> HIDE DEF u, E, rest, room
  <1>7. CASE ~(room /\ rest # <<>>)
    <2>1. u.queue = rest /\ u.admitted = {}  BY <1>3, <1>7
    <2>2. room => Elements(rest) = {}
      BY <1>4, <1>7, ElementIs
    <2>3. \A i, j \in DOMAIN q :
             i < j /\ q[i] \in Elements(rest) /\ q[j] # x => InOrder(rest, q[i], q[j])
      BY <1>4 DEF Without
    <2>4. Elements(rest) = E \ {x} /\ Distinct(rest)  BY <1>4, <1>6 DEF Without
    <2>5. Unqueued(q, x, u)  BY <1>3, <1>6, <2>1, <2>3, <2>4 DEF Unqueued
    <2>6. LetIn(W, E, x, u.admitted)  BY <1>6, <2>1, <2>2, <2>4 DEF LetIn
    <2> QED  BY <1>4, <1>6, <2>1, <2>5, <2>6 DEF u
  <1>8. CASE room /\ rest # <<>>
    <2> DEFINE h == Head(rest)
               t == Tail(rest)
    <2>1. u.queue = t /\ u.admitted = {h}  BY <1>3, <1>8
    <2>2. t \in Seq(W) /\ h \in Elements(rest) /\ Without(rest, h, t)
      BY <1>4, <1>8, HeadRemoved DEF Without
    <2>3. rest[1] = h /\ 1 \in DOMAIN rest /\ DOMAIN rest = 1 .. Len(rest)
      BY <1>4, <1>8
    <2> HIDE DEF h, t
    <2>4. Elements(t) = (Elements(q) \ {x}) \ {h} /\ h \in Elements(q) \ {x} /\ Distinct(t)
      BY <1>4, <2>2 DEF Without
    <2>5. ASSUME NEW i \in DOMAIN q, NEW j \in DOMAIN q, i < j,
                 q[i] \in Elements(t), q[j] # x
          PROVE  InOrder(t, q[i], q[j])
      <3>1. q[i] # x /\ q[i] # h  BY <2>4, <2>5
      <3>2. InOrder(rest, q[i], q[j])  BY <1>4, <2>5, <3>1 DEF Without
      <3>3. CASE q[j] # h  BY <1>4, <2>2, <3>1, <3>2, <3>3, InOrderKept
      <3>4. CASE q[j] = h
        <4>1. PICK k \in DOMAIN rest, l \in DOMAIN rest : k < l /\ rest[l] = h
          BY <3>2, <3>4 DEF InOrder
        <4>2. l = 1  BY <1>4, <2>3, <4>1 DEF Without, Distinct
        <4> QED  BY <2>3, <4>1, <4>2
      <3> QED  BY <3>3, <3>4
    <2>6. Unqueued(q, x, u)  BY <1>3, <1>6, <2>1, <2>4, <2>5 DEF Unqueued
    <2>7. LetIn(W, E, x, u.admitted)  BY <1>6, <1>8, <2>1 DEF LetIn
    <2> QED  BY <1>6, <2>1, <2>2, <2>6, <2>7 DEF u
  <1> QED  BY <1>7, <1>8

(***************************************************************************)
(* Who is active once x has left is at the limit if anybody still waits,   *)
(* and within it if somebody was let in.                                   *)
(***************************************************************************)
AtLimit(W, E) == E # {} => Cardinality(W \ E) >= Limit

Kept(W, E, x, adm, B) ==
    /\ IsFiniteSet(B) /\ Cardinality(B) \in Nat
    /\ (E \ {x}) \ adm # {} => Cardinality(B) >= Limit
    /\ Limit > 0 /\ adm # {} => Cardinality(B) <= Limit
    /\ Limit > 0 /\ x \in E => adm = {} /\ B = W \ E

LEMMA PlaceKept ==
  ASSUME NEW W \in SUBSET Sessions, IsFiniteSet(W), NEW E \in SUBSET W, NEW x \in W,
         NEW adm \in SUBSET (E \ {x}), AtLimit(W, E), LetIn(W, E, x, adm)
  PROVE  Kept(W, E, x, adm, ((W \ E) \ {x}) \cup adm)
  <1> DEFINE A == W \ E
             B == (A \ {x}) \cup adm
             a == Cardinality(A)
             room == Place(W, E, x)
  <1>1. IsFiniteSet(A) /\ a \in Nat /\ Limit \in Nat
    BY FS_Subset, FS_CardinalityType
  <1>2. IsFiniteSet(B) /\ Cardinality(B) \in Nat
    <2>1. B \in SUBSET W  OBVIOUS
    <2>2. IsFiniteSet(B)  BY <2>1, FS_Subset
    <2> QED  BY <2>2, FS_CardinalityType
  <1>3. room <=> Limit = 0 \/ (IF x \notin E /\ a > 0 THEN a - 1 ELSE a) < Limit
    BY DEF Place
  <1>4. \/ adm = {} /\ (E \ {x} = {} \/ ~room)
        \/ room /\ \E h : adm = {h}
    BY DEF LetIn
  <1>5. E # {} => a >= Limit  BY DEF AtLimit
  <1>6. x \in A <=> x \notin E  OBVIOUS
  <1>7. adm = {} => B = A \ {x}  OBVIOUS
  <1>8. \A h : h \in adm => h \notin A /\ h \in E  OBVIOUS
  <1>9. B = (A \ {x}) \cup adm  OBVIOUS
  <1>10. /\ (E \ {x}) \ adm # {} => Cardinality(B) >= Limit
         /\ Limit > 0 /\ adm # {} => Cardinality(B) <= Limit
         /\ Limit > 0 /\ x \in E => adm = {} /\ B = A
    <2> HIDE DEF A, room, B
    <2>1. CASE x \in E
      <3>1. room <=> Limit = 0 \/ a < Limit  BY <1>3, <2>1
      <3>2. E # {}  BY <2>1
      <3>3. Limit > 0 => ~room  BY <1>1, <1>5, <3>1, <3>2
      <3>4. Limit > 0 => adm = {}  BY <1>4, <3>3
      <3>5. adm = {} => B = A  BY <1>6, <1>7, <2>1
      <3>6. Limit > 0 => B = A /\ Cardinality(B) = a  BY <3>4, <3>5
      <3>7. Cardinality(B) >= Limit
        BY <1>1, <1>2, <1>5, <3>2, <3>6
      <3> QED  BY <3>4, <3>6, <3>7
    <2>2. CASE x \notin E
      <3>1. x \in A  BY <1>6, <2>2
      <3>2. IsFiniteSet(A \ {x}) /\ Cardinality(A \ {x}) = a - 1
        BY <1>1, <3>1, FS_RemoveElement
      <3>3. a > 0
        <4>1. Cardinality(A \ {x}) \in Nat  BY <3>2, FS_CardinalityType
        <4>2. a - 1 \in Nat  BY <3>2, <4>1
        <4> HIDE DEF a
        <4> QED  BY <1>1, <4>2
      <3>4. room <=> Limit = 0 \/ a - 1 < Limit  BY <1>3, <2>2, <3>3
      <3>5. CASE adm = {}
        <4>1. Cardinality(B) = a - 1  BY <1>7, <3>2, <3>5
        <4>2. E \ {x} # {} => ~room  BY <1>4, <3>5
        <4>3. (E \ {x}) \ adm # {} => Cardinality(B) >= Limit
          BY <1>1, <3>4, <4>1, <4>2
        <4> QED  BY <2>2, <3>5, <4>3
      <3>6. CASE adm # {}
        <4>1. PICK h : adm = {h}  BY <1>4, <3>6
        <4>2. h \notin A \ {x} /\ E # {}  BY <1>8, <4>1
        <4>3. Cardinality(B) = a
          <5> DEFINE C == A \ {x}
          <5>1. IsFiniteSet(C) /\ Cardinality(C) = a - 1 /\ h \notin C /\ B = C \cup {h}
            BY <1>9, <3>2, <4>1, <4>2
          <5> HIDE DEF C
          <5>2. Cardinality(C \cup {h}) = Cardinality(C) + 1  BY <5>1, FS_AddElement
          <5> HIDE DEF a
          <5> QED  BY <1>1, <5>1, <5>2
        <4>4. a >= Limit  BY <1>5, <4>2
        <4>5. room  BY <1>4, <3>6
        <4>6. Limit > 0 => a <= Limit  BY <1>1, <3>4, <4>5
        <4> QED  BY <2>2, <4>3, <4>4, <4>6
      <3> QED  BY <3>5, <3>6
    <2> QED  BY <2>1, <2>2
  <1> HIDE DEF B
  <1>11. Kept(W, E, x, adm, B)  BY <1>2, <1>10 DEF Kept
  <1> QED  BY <1>11 DEF B

\* Both together.
LEMMA LeaverUnqueued ==
  ASSUME NEW W \in SUBSET Sessions, IsFiniteSet(W), NEW q \in Seq(W), Distinct(q),
         NEW x \in W, AtLimit(W, Elements(q))
  PROVE  Kept(W, Elements(q), x, Unqueue(q, Cardinality(W), x).admitted,
              ((W \ Elements(q)) \ {x}) \cup Unqueue(q, Cardinality(W), x).admitted)
  <1> DEFINE adm == Unqueue(q, Cardinality(W), x).admitted
             E == Elements(q)
  <1>1. Unqueued(q, x, Unqueue(q, Cardinality(W), x)) /\ LetIn(W, E, x, adm)
    BY UnqueueEffect
  <1>2. adm \in SUBSET (E \ {x})  BY <1>1 DEF Unqueued
  <1>3. E \in SUBSET W  BY ElementIs
  <1> HIDE DEF adm, E
  <1>4. AtLimit(W, E)  BY DEF E
  <1>5. Kept(W, E, x, adm, ((W \ E) \ {x}) \cup adm)
    BY <1>1, <1>2, <1>3, <1>4, PlaceKept
  <1> QED  BY <1>5 DEF adm, E

(***************************************************************************)
(* QueueInv is inductive.                                                  *)
(***************************************************************************)
LEMMA WaitingParts ==
  ASSUME TypeOK, SessionsKnown, QueueSound
  PROVE  /\ waiting \in Seq(InWorld) /\ Distinct(waiting)
         /\ Elements(waiting) \subseteq (live \cap inQueue) \cap InWorld
         /\ InWorld \in SUBSET Sessions
  <1>1. waiting \in Seq(Sessions) /\ InWorld \subseteq Sessions
    BY InWorldType DEF TypeOK, AdmissionTypes
  <1>2. \A i \in DOMAIN waiting :
           waiting[i] \in (live \cap inQueue) \cap InWorld
    <2>1. \A i \in DOMAIN waiting : waiting[i] \in Sessions  BY <1>1
    <2> QED  BY <2>1, InWorldIs DEF QueueSound
  <1>3. waiting \in Seq(InWorld)  BY <1>1, <1>2
  <1> QED  BY <1>1, <1>2, <1>3, ElementIs DEF QueueSound, Distinct

LEMMA QueueQuiet ==
  ASSUME QueueInv, live \subseteq live', initializing' \subseteq initializing,
         UNCHANGED <<sessions, waiting, inQueue, disconnects, kicked>>
  PROVE  QueueInv'
  <1>1. InWorld' = InWorld /\ Active' = Active  BY DEF InWorld, Active
  <1>2. QueueSound'  BY DEF QueueInv, QueueSound
  <1>3. NoIdleSlot'  BY <1>1 DEF QueueInv, NoIdleSlot
  <1>4. AdmissionLimit'  BY <1>1 DEF QueueInv, AdmissionLimit, HasRecentlyDisconnected
  <1> QED  BY <1>1, <1>2, <1>3, <1>4 DEF QueueInv

LEMMA QueueInit == Init => QueueInv
  <1> SUFFICES ASSUME Init PROVE QueueInv  OBVIOUS
  <1>1. InWorld = {} /\ waiting = <<>> /\ initializing = {}  BY DEF Init, InWorld
  <1>2. Elements(<<>>) = {}  BY DEF Elements, ToSet
  <1>3. Cardinality({}) = 0 /\ IsFiniteSet({})  BY FS_EmptySet
  <1>4. {s \in Active : /\ AccountOf[s] \notin Privileged
                        /\ ~HasRecentlyDisconnected(AccountOf[s])} = {}
    BY <1>1 DEF Active
  <1>5. AdmissionLimit  BY <1>3, <1>4 DEF AdmissionLimit
  <1>6. QueueSound /\ NoIdleSlot  BY <1>1 DEF QueueSound, NoIdleSlot
  <1> QED  BY <1>1, <1>2, <1>3, <1>5, <1>6 DEF QueueInv

\* QueueSound of the next state, from the sessions that wait there.
LEMMA SoundNext ==
  ASSUME NEW q \in Seq(Sessions), waiting' = q, Distinct(q),
         Elements(q) \subseteq live' \cap inQueue',
         \A s \in Elements(q) : sessions'[AccountOf[s]] = s
  PROVE  QueueSound'
  <1>1. \A i \in DOMAIN q : q[i] \in Elements(q)  BY ElementIs
  <1> QED  BY <1>1 DEF QueueSound, Distinct

LEMMA QueueKickAll == TypeOK /\ QueueInv /\ KickAll => QueueInv'
  <1> SUFFICES ASSUME TypeOK, QueueInv, KickAll PROVE QueueInv'  OBVIOUS
  <1>1. waiting' = <<>> /\ kicked' /\ UNCHANGED <<sessions, initializing>>  BY DEF KickAll
  <1>2. InWorld' = InWorld  BY <1>1 DEF InWorld
  <1>3. QueueSound' /\ NoIdleSlot' /\ AdmissionLimit'
    BY <1>1 DEF QueueSound, NoIdleSlot, AdmissionLimit
  <1>4. Elements(<<>>) = {}  BY DEF Elements, ToSet
  <1> QED  BY <1>1, <1>2, <1>3, <1>4 DEF QueueInv

LEMMA QueueCallback ==
  TypeOK /\ SessionsKnown /\ QueueInv /\ InitializeSessionCallback => QueueInv'
  <1> SUFFICES ASSUME TypeOK, SessionsKnown, QueueInv, InitializeSessionCallback
               PROVE  QueueInv'
    OBVIOUS
  <1>1. /\ cur \in initializing /\ initializing' = initializing \ {cur}
        /\ inQueue' = inQueue \ {cur}
        /\ UNCHANGED <<live, sessions, waiting, disconnects, kicked>>
    BY DEF InitializeSessionCallback
  <1>2. \A i \in DOMAIN waiting : waiting[i] \in Elements(waiting)
    BY ElementIs DEF TypeOK, AdmissionTypes
  <1>3. \A i \in DOMAIN waiting : waiting[i] # cur  BY <1>1, <1>2 DEF QueueInv
  <1>4. QueueSound'  BY <1>1, <1>3 DEF QueueInv, QueueSound
  <1>5. InWorld' = InWorld /\ Active' = Active  BY <1>1 DEF InWorld, Active
  <1>6. NoIdleSlot' /\ AdmissionLimit'
    BY <1>1, <1>5 DEF QueueInv, NoIdleSlot, AdmissionLimit, HasRecentlyDisconnected
  <1> QED  BY <1>1, <1>4, <1>5, <1>6 DEF QueueInv

\* The sessions AdmissionLimit counts.
Counted(S) == {s \in S : /\ AccountOf[s] \notin Privileged
                         /\ ~HasRecentlyDisconnected(AccountOf[s])}

LEMMA CountedSubset ==
  ASSUME NEW S, IsFiniteSet(S), NEW T \in SUBSET S
  PROVE  /\ IsFiniteSet(T) /\ Cardinality(T) \in Nat /\ Cardinality(S) \in Nat
         /\ Cardinality(T) <= Cardinality(S)
  BY FS_Subset, FS_CardinalityType

LEMMA QueueAccepted ==
  ASSUME TypeOK, SessionsKnown, QueueInv,
         NEW s \in Sessions \ InWorld, s \in live, NEW old \in Sessions \cup {NoSession},
         old = sessions[AccountOf[s]], AddAccepted(s, old), UNCHANGED <<disconnects, kicked>>
  PROVE  /\ QueueInv'
         /\ \A i, j \in DOMAIN waiting :
              i < j /\ waiting[i] \in Elements(waiting') /\ waiting[j] \in live' =>
                 InOrder(waiting', waiting[i], waiting[j])
  <1> DEFINE W == InWorld
             E == Elements(waiting)
             A == W \ E
             n == Cardinality(W)
             u == LeaveQueue(old)
             count == (IF old = NoSession THEN n + 1 ELSE n) - (IF u.found THEN 0 ELSE 1)
             waits == /\ Limit > 0 /\ count >= Limit
                      /\ AccountOf[s] \notin Privileged
                      /\ ~HasRecentlyDisconnected(AccountOf[s])
             B == (A \ {old}) \cup u.admitted
  <1>1. /\ waiting \in Seq(W) /\ Distinct(waiting) /\ E \subseteq (live \cap inQueue) \cap W
        /\ W \in SUBSET Sessions /\ IsFiniteSet(W)
    BY WaitingParts DEF QueueInv
  <1>2. old # NoSession => old \in W /\ old \in Sessions /\ AccountOf[old] = AccountOf[s]
    BY DEF InWorld, SessionsKnown
  <1>3. /\ sessions' = [sessions EXCEPT ![AccountOf[s]] = s]
        /\ waiting' = (IF waits THEN Append(u.queue, s) ELSE u.queue)
        /\ inQueue' = (inQueue \ {old}) \cup (IF waits THEN {s} ELSE {})
        /\ initializing' = (initializing \ {old}) \cup u.admitted
                           \cup (IF waits THEN {} ELSE {s})
        /\ IF old = NoSession THEN UNCHANGED live ELSE Delete(old)
    BY DEF AddAccepted
  <1>4. W' = (W \ {old}) \cup {s}
    <2>1. AccountOf[s] \in Accounts /\ s \in Sessions \cup {NoSession}  OBVIOUS
    <2>2. InWorld' = (InWorld \ {sessions[AccountOf[s]]}) \cup ({s} \ {NoSession})
      BY <1>3, <2>1, InWorldReplaced
    <2> QED  BY <2>2
  <1>5. live' = live \ {old}
    <2>1. CASE old = NoSession  BY <1>3, <2>1 DEF TypeOK, AdmissionTypes
    <2>2. CASE old # NoSession  BY <1>2, <1>3, <2>2, DeleteEffect
    <2> QED  BY <2>1, <2>2
  <1>6. u.queue \in Seq(W) /\ Unqueued(waiting, old, u)
    <2>1. CASE old = NoSession
      <3>1. u.queue = waiting /\ u.admitted = {} /\ u.found = FALSE
        BY <2>1 DEF LeaveQueue, NotQueued
      <3>2. old \notin E  BY <1>1, <2>1
      <3>3. \A i, j \in DOMAIN waiting : i < j => InOrder(waiting, waiting[i], waiting[j])
        BY DEF InOrder
      <3>4. E \ {old} = E /\ E = Elements(waiting)  BY <3>2
      <3> HIDE DEF u, E, W
      <3> QED  BY <1>1, <3>1, <3>2, <3>3, <3>4 DEF Unqueued
    <2>2. CASE old # NoSession
      <3>1. u = Unqueue(waiting, Cardinality(W), old)  BY <2>2 DEF LeaveQueue
      <3> HIDE DEF u, E, W
      <3> QED  BY <1>1, <3>1, UnqueueEffect
    <2> QED  BY <2>1, <2>2
  <1>7. Kept(W, E, old, u.admitted, B)
    <2>1. AtLimit(W, E)
      BY <1>1, ElementIs DEF QueueInv, NoIdleSlot, Active, AtLimit
    <2>2. CASE old = NoSession
      <3>1. u.admitted = {} /\ u.queue = waiting /\ old \notin W
        BY <1>1, <2>2 DEF LeaveQueue, NotQueued
      <3>2. B = A /\ old \notin E  BY <3>1, <1>1
      <3>3. IsFiniteSet(A) /\ Cardinality(A) \in Nat  BY <1>1, FS_Subset, FS_CardinalityType
      <3>4. (E \ {old}) \ u.admitted = E  BY <3>1, <3>2
      <3> HIDE DEF E, B, u, W
      <3> QED  BY <2>1, <3>1, <3>2, <3>3, <3>4 DEF Kept, AtLimit
    <2>3. CASE old # NoSession
      <3>1. u = Unqueue(waiting, Cardinality(W), old)  BY <2>3 DEF LeaveQueue
      <3>2. B = ((W \ E) \ {old}) \cup u.admitted /\ E = Elements(waiting)  OBVIOUS
      <3> HIDE DEF u, W, E, B
      <3> QED  BY <1>1, <1>2, <2>1, <2>3, <3>1, <3>2, LeaverUnqueued
    <2> QED  BY <2>2, <2>3
  <1>6a. /\ u.admitted \subseteq E \ {old}
         /\ Elements(u.queue) = (E \ {old}) \ u.admitted
         /\ Distinct(u.queue) /\ u.found \in BOOLEAN /\ (u.found <=> old \in E)
         /\ \A i, j \in DOMAIN waiting :
               i < j /\ waiting[i] \in Elements(u.queue) /\ waiting[j] # old =>
                  InOrder(u.queue, waiting[i], waiting[j])
    BY <1>6 DEF Unqueued
  <1>7a. /\ IsFiniteSet(B) /\ Cardinality(B) \in Nat
         /\ Elements(u.queue) # {} => Cardinality(B) >= Limit
         /\ Limit > 0 /\ u.admitted # {} => Cardinality(B) <= Limit
         /\ Limit > 0 /\ old \in E => u.admitted = {} /\ B = A
    <2> HIDE DEF E, u, B
    <2> QED BY <1>7, <1>6a DEF Kept
  <1> HIDE DEF u
  <1>8. s \notin W /\ s \notin E /\ s # old /\ s \notin Elements(u.queue)
    BY <1>1, <1>2, <1>6, <1>6a
  <1>9. /\ waiting' \in Seq(Sessions) /\ Distinct(waiting')
        /\ Elements(waiting') = Elements(u.queue) \cup (IF waits THEN {s} ELSE {})
        /\ \A x, y : InOrder(u.queue, x, y) => InOrder(waiting', x, y)
    <2>1. u.queue \in Seq(Sessions)  BY <1>1, <1>6, <1>6a
    <2>2. CASE ~waits  BY <1>3, <1>6, <1>6a, <2>1, <2>2
    <2>3. CASE waits
      <3> DEFINE q == Append(u.queue, s)
                 m == Len(u.queue) + 1
      <3>1. /\ waiting' = q /\ q \in Seq(Sessions)
            /\ DOMAIN q = DOMAIN u.queue \cup {m} /\ m \notin DOMAIN u.queue
            /\ q[m] = s /\ \A i \in DOMAIN u.queue : q[i] = u.queue[i]
        BY <1>3, <2>1, <2>3
      <3> HIDE DEF q, m
      <3>2. \A i \in DOMAIN u.queue : u.queue[i] # s  BY <1>8, <2>1, ElementIs
      <3>3. Distinct(q)  BY <1>6, <1>6a, <3>1, <3>2 DEF Distinct
      <3>4. \A y : y \in Elements(q) <=> y \in Elements(u.queue) \cup {s}
        <4>1. /\ \A y : y \in Elements(q) <=> \E i \in DOMAIN q : q[i] = y
              /\ \A y : y \in Elements(u.queue) <=> \E i \in DOMAIN u.queue : u.queue[i] = y
          BY <2>1, <3>1, ElementIs
        <4> QED  BY <3>1, <4>1
      <3>5. \A x, y : InOrder(u.queue, x, y) => InOrder(q, x, y)
        BY <3>1 DEF InOrder
      <3> QED  BY <2>3, <3>1, <3>3, <3>4, <3>5
    <2> QED  BY <2>2, <2>3
  <1>10. QueueSound'
    <2>1. Elements(waiting') \subseteq live' \cap inQueue'
      <3>1. Elements(u.queue) \subseteq (live \cap inQueue) \ {old}  BY <1>1, <1>6, <1>6a
      <3> HIDE DEF waits, E, W
      <3> QED  BY <1>3, <1>5, <1>8, <1>9, <3>1
    <2>2. ASSUME NEW x \in Elements(waiting') PROVE sessions'[AccountOf[x]] = x
      <3>1. CASE x = s  BY <1>3, <3>1 DEF TypeOK, AdmissionTypes
      <3>2. CASE x # s
        <4>1. x \in W /\ x # old /\ x \in Sessions  BY <1>1, <1>6, <1>6a, <1>9, <3>2
        <4>2. sessions[AccountOf[x]] = x  BY <4>1, InWorldIs
        <4>3. AccountOf[x] # AccountOf[s]  BY <4>1, <4>2
        <4> QED  BY <1>3, <4>1, <4>2, <4>3 DEF TypeOK, AdmissionTypes
      <3> QED  BY <3>1, <3>2
    <2> QED  BY <1>9, <2>1, <2>2, SoundNext
  <1>11. Elements(waiting') \cap initializing' = {} /\ initializing' \subseteq W'
    <2>1. E \cap initializing = {} /\ initializing \subseteq W  BY DEF QueueInv
    <2> HIDE DEF E, W, waits
    <2>2. initializing' \subseteq W'  BY <1>1, <1>3, <1>4, <1>6, <1>6a, <2>1
    <2>3. Elements(waiting') \cap initializing' = {}
      BY <1>3, <1>6, <1>6a, <1>8, <1>9, <2>1
    <2> QED  BY <2>2, <2>3
  <1>12. IsFiniteSet(W')
    <2>1. IsFiniteSet(W \ {old})  BY <1>1, FS_Subset
    <2> QED  BY <1>4, <2>1, FS_AddElement
  <1>13. Active' = B \cup (IF waits THEN {} ELSE {s})
    <2>1. Active' = W' \ Elements(waiting')  BY DEF Active
    <2> HIDE DEF E, W, waits
    <2> QED  BY <1>1, <1>4, <1>6, <1>6a, <1>8, <1>9, <2>1
  <1>14. /\ Cardinality(W') \in Nat /\ n \in Nat /\ Limit \in Nat
         /\ Cardinality(W \ {old}) = (IF old = NoSession THEN n ELSE n - 1)
         /\ Cardinality(W') = Cardinality(W \ {old}) + 1
    <2>1. n \in Nat /\ Cardinality(W') \in Nat  BY <1>1, <1>12, FS_CardinalityType
    <2>2. /\ IsFiniteSet(W \ {old})
          /\ Cardinality(W \ {old}) = IF old \in W THEN n - 1 ELSE n
      BY <1>1, FS_RemoveElement
    <2>3. s \notin W \ {old}  BY <1>8
    <2>4. Cardinality(W') = Cardinality(W \ {old}) + 1
      BY <1>4, <2>2, <2>3, FS_AddElement
    <2>5. old = NoSession => old \notin W  BY <1>1
    <2> QED  BY <1>2, <2>1, <2>2, <2>4, <2>5
  <1> HIDE DEF n, B
  <1>15. NoIdleSlot'
    <2> SUFFICES ASSUME waiting' # <<>> PROVE Cardinality(Active') >= Limit
      BY DEF NoIdleSlot
    <2>1. IsFiniteSet(Active')
      <3>1. Active' \in SUBSET W'  BY DEF Active
      <3> QED  BY <1>12, <3>1, FS_Subset
    <2>2. Cardinality(Active') \in Nat /\ Cardinality(B) <= Cardinality(Active')
      BY <1>13, <2>1, CountedSubset
    <2>3. CASE Elements(u.queue) # {}
      BY <1>7a, <1>14, <2>2, <2>3
    <2>4. CASE Elements(u.queue) = {} /\ Limit > 0
      <3>1. waits
        BY <1>9, <2>4, ElementIs
      <3>2. Active' = W \ {old}
        BY <1>4, <1>8, <1>9, <2>4, <3>1 DEF Active
      <3>3. CASE old \in E
        <4>1. E # {}  BY <3>3
        <4>2. Cardinality(A) >= Limit
          BY <1>1, <4>1, ElementIs DEF QueueInv, NoIdleSlot, Active
        <4>3. B = A  BY <1>7a, <2>4, <3>3
        <4>4. Cardinality(B) >= Limit  BY <4>2, <4>3
        <4> HIDE DEF E, W
        <4> QED  BY <1>7a, <1>14, <2>2, <4>4
      <3>4. CASE old \notin E
        <4>0. ~u.found  BY <1>6, <1>6a, <3>4
        <4>1. count = IF old = NoSession THEN n ELSE n - 1
          BY <1>14, <4>0
        <4> QED  BY <1>14, <3>1, <3>2, <4>1
      <3> QED  BY <3>3, <3>4
    <2>5. CASE Limit = 0  BY <2>2, <2>5
    <2> QED  BY <1>14, <2>3, <2>4, <2>5
  <1>16. AdmissionLimit'
    <2> SUFFICES ASSUME Limit > 0, ~kicked PROVE Cardinality(Counted(Active')) <= Limit
      BY DEF AdmissionLimit, Counted, HasRecentlyDisconnected
    <2>1. CASE s \in Counted(Active')
      <3>1. ~waits /\ AccountOf[s] \notin Privileged
              /\ ~HasRecentlyDisconnected(AccountOf[s])
        BY <1>8, <1>9, <2>1 DEF Counted, Active
      <3>2. count < Limit
        BY <1>14, <3>1
      <3>3. Cardinality(W') <= Limit
        <4>1. count >= (IF old = NoSession THEN n ELSE n - 1)
          BY <1>14
        <4> QED  BY <1>14, <3>2, <4>1
      <3>4. Counted(Active') \in SUBSET W'  BY DEF Counted, Active
      <3> QED  BY <1>12, <1>14, <3>3, <3>4, CountedSubset
    <2>2. CASE s \notin Counted(Active')
      <3>1. Counted(Active') \in SUBSET B  BY <1>13, <2>2 DEF Counted
      <3>2. CASE u.admitted # {}  BY <1>7a, <3>1, <3>2, CountedSubset
      <3>3. CASE u.admitted = {}
        <4>1. Counted(Active') \in SUBSET Counted(A)
          BY <3>1, <3>3 DEF Counted, B
        <4>2. Cardinality(Counted(A)) <= Limit
          BY DEF QueueInv, AdmissionLimit, Counted, Active
        <4>3. IsFiniteSet(Counted(A))
          <5>1. Counted(A) \in SUBSET W  BY DEF Counted
          <5> QED  BY <1>1, <5>1, FS_Subset
        <4> QED  BY <1>14, <4>1, <4>2, <4>3, CountedSubset
      <3> QED  BY <3>2, <3>3
    <2> QED  BY <2>1, <2>2
  <1>17. \A i, j \in DOMAIN waiting :
            i < j /\ waiting[i] \in Elements(waiting') /\ waiting[j] \in live' =>
               InOrder(waiting', waiting[i], waiting[j])
    <2>1. \A i \in DOMAIN waiting : waiting[i] \in E  BY <1>1, ElementIs
    <2> HIDE DEF E, waits
    <2> QED  BY <1>5, <1>6, <1>6a, <1>8, <1>9, <2>1
  <1> QED  BY <1>10, <1>11, <1>12, <1>15, <1>16, <1>17 DEF QueueInv

LEMMA QueueRejected ==
  ASSUME TypeOK, SessionsKnown, QueueInv,
         NEW s \in Sessions \ InWorld, Delete(s),
         UNCHANGED <<sessions, waiting, inQueue, initializing, disconnects, kicked>>
  PROVE  QueueInv' /\ waiting' = waiting
  <1>1. live' = live \ {s}  BY DeleteEffect
  <1>2. InWorld' = InWorld /\ Active' = Active  BY DEF InWorld, Active
  <1>3. \A i \in DOMAIN waiting : waiting[i] \in InWorld  BY WaitingParts DEF QueueInv
  <1>4. QueueSound'  BY <1>1, <1>3 DEF QueueInv, QueueSound
  <1>5. NoIdleSlot' /\ AdmissionLimit'
    BY <1>2 DEF QueueInv, NoIdleSlot, AdmissionLimit, HasRecentlyDisconnected
  <1> QED  BY <1>2, <1>4, <1>5 DEF QueueInv

\* World::UpdateSessions: RemoveQueuedPlayer is called twice for a session that
\* leaves, before it is taken out of m_sessions.
LEMMA QueueRemoved ==
  ASSUME TypeOK, SessionsKnown, ThreadAt, QueueInv, RemoveSession
  PROVE  /\ QueueInv'
         /\ \A i, j \in DOMAIN waiting :
              i < j /\ waiting[i] \in Elements(waiting') /\ waiting[j] \in live' =>
                 InOrder(waiting', waiting[i], waiting[j])
  <1> DEFINE W == InWorld
             E == Elements(waiting)
             A == W \ E
             n == Cardinality(W)
             first == Unqueue(waiting, n, cur)
             q == first.queue
             second == Unqueue(q, n, cur)
             r == second.queue
             adm1 == first.admitted
             adm2 == second.admitted
             E1 == Elements(q)
             B1 == (A \ {cur}) \cup adm1
             B2 == ((W \ E1) \ {cur}) \cup adm2
  <1>1. /\ waiting \in Seq(W) /\ Distinct(waiting) /\ E \subseteq (live \cap inQueue) \cap W
        /\ W \in SUBSET Sessions /\ IsFiniteSet(W)
    BY WaitingParts DEF QueueInv
  <1>2. cur \in W /\ cur \in Sessions /\ sessions[AccountOf[cur]] = cur
    BY CurIsSession DEF RemoveSession, Updating
  <1>3. /\ waiting' = r
        /\ initializing' = (initializing \ {cur}) \cup adm1 \cup adm2
        /\ disconnects \subseteq disconnects'
        /\ sessions' = [sessions EXCEPT ![AccountOf[cur]] = NoSession]
        /\ inQueue' = inQueue \ {cur} /\ kicked' = kicked
        /\ live' = live \ {cur}
    BY <1>2, DeleteEffect DEF RemoveSession
  <1>4. W' = W \ {cur}
    <2>1. AccountOf[cur] \in Accounts  BY <1>2
    <2>2. InWorld' = (InWorld \ {sessions[AccountOf[cur]]}) \cup ({NoSession} \ {NoSession})
      BY <1>3, <2>1, InWorldReplaced
    <2> QED  BY <1>2, <2>2
  <1>5. q \in Seq(W) /\ Unqueued(waiting, cur, first)
    <2> HIDE DEF W
    <2> QED  BY <1>1, UnqueueEffect
  <1>6. /\ adm1 \subseteq E \ {cur} /\ E1 = (E \ {cur}) \ adm1 /\ Distinct(q)
        /\ \A i, j \in DOMAIN waiting :
              i < j /\ waiting[i] \in E1 /\ waiting[j] # cur =>
                 InOrder(q, waiting[i], waiting[j])
    <2> HIDE DEF first
    <2> QED  BY <1>5 DEF Unqueued
  <1>7. r \in Seq(W) /\ Unqueued(q, cur, second)
    <2> HIDE DEF W, first
    <2> QED  BY <1>1, <1>5, <1>6, UnqueueEffect
  <1>8. /\ adm2 \subseteq E1 \ {cur} /\ Elements(r) = (E1 \ {cur}) \ adm2 /\ Distinct(r)
        /\ \A i, j \in DOMAIN q :
              i < j /\ q[i] \in Elements(r) /\ q[j] # cur => InOrder(r, q[i], q[j])
    <2> HIDE DEF first, second
    <2> QED  BY <1>7 DEF Unqueued
  <1>9. Kept(W, E, cur, adm1, B1)
    <2>1. AtLimit(W, E)
      BY <1>1, ElementIs DEF QueueInv, NoIdleSlot, Active, AtLimit
    <2>2. B1 = ((W \ E) \ {cur}) \cup adm1  OBVIOUS
    <2> HIDE DEF W, B1
    <2> QED  BY <1>1, <1>2, <2>1, <2>2, LeaverUnqueued
  <1> HIDE DEF B1
  <1>10. Kept(W, E1, cur, adm2, B2)
    <2>1. ASSUME E1 # {} PROVE Cardinality(W \ E1) >= Limit
      <3>1. (E \ {cur}) \ adm1 # {}  BY <1>6, <2>1
      <3>2. Cardinality(B1) >= Limit
        <4> HIDE DEF first, E, W
        <4> QED  BY <1>9, <3>1 DEF Kept
      <3>3. B1 \in SUBSET (W \ E1)
        <4>1. B1 = (A \ {cur}) \cup adm1  BY DEF B1
        <4> HIDE DEF first, E, W, E1
        <4> QED  BY <1>1, <1>6, <4>1
      <3>4. IsFiniteSet(W \ E1)  BY <1>1, FS_Subset
      <3>5. /\ Cardinality(B1) \in Nat /\ Cardinality(W \ E1) \in Nat
            /\ Cardinality(B1) <= Cardinality(W \ E1)
        BY <3>3, <3>4, CountedSubset
      <3> HIDE DEF W, E1
      <3> QED  BY <3>2, <3>5
    <2>2. AtLimit(W, E1)  BY <2>1 DEF AtLimit
    <2>3. B2 = ((W \ E1) \ {cur}) \cup adm2  OBVIOUS
    <2> HIDE DEF W, B2, first
    <2> QED  BY <1>1, <1>2, <1>5, <1>6, <2>2, <2>3, LeaverUnqueued
  <1>11. IsFiniteSet(B2) /\ (Elements(r) # {} => Cardinality(B2) >= Limit)
    <2> HIDE DEF W, B2, first, second
    <2> QED  BY <1>8, <1>10 DEF Kept
  <1>12. Active' = B2
    <2>1. Active' = W' \ Elements(waiting')  BY DEF Active
    <2> HIDE DEF W, first, second, E1
    <2> QED  BY <1>1, <1>3, <1>4, <1>5, <1>6, <1>8, <2>1, ElementIs
  <1>13. adm2 = {} => B2 = B1
    <2>1. B1 = (A \ {cur}) \cup adm1  BY DEF B1
    <2> HIDE DEF W, E, E1, first, second
    <2> QED  BY <1>1, <1>6, <1>8, <2>1
  <1>14. E1 \subseteq E \ {cur} /\ Elements(r) \subseteq E1
    BY <1>6, <1>8
  <1>15. QueueSound'
    <2>1. r \in Seq(Sessions)  BY <1>1, <1>7
    <2>2. Elements(r) \subseteq live' \cap inQueue'
      <3> HIDE DEF E, W, E1, first, second
      <3> QED  BY <1>1, <1>3, <1>14
    <2>3. ASSUME NEW x \in Elements(r) PROVE sessions'[AccountOf[x]] = x
      <3>1. x \in W /\ x # cur /\ x \in Sessions
        <4> HIDE DEF E, W, E1, first, second
        <4> QED  BY <1>1, <1>14
      <3>2. sessions[AccountOf[x]] = x  BY <3>1, InWorldIs
      <3>3. AccountOf[x] # AccountOf[cur] /\ AccountOf[x] \in Accounts  BY <1>2, <3>1, <3>2
      <3> QED  BY <1>3, <3>2, <3>3 DEF TypeOK, AdmissionTypes
    <2> HIDE DEF r
    <2> QED  BY <1>3, <1>8, <2>1, <2>2, <2>3, SoundNext
  <1>16. Elements(waiting') \cap initializing' = {} /\ initializing' \subseteq W'
    <2>1. E \cap initializing = {} /\ initializing \subseteq W  BY DEF QueueInv
    <2> HIDE DEF E, W, first, second, E1
    <2>2. initializing' \subseteq W'  BY <1>1, <1>3, <1>4, <1>6, <1>8, <2>1
    <2>3. Elements(waiting') \cap initializing' = {}
      BY <1>3, <1>6, <1>8, <2>1
    <2> QED  BY <2>2, <2>3
  <1>17. IsFiniteSet(W')
    <2> HIDE DEF W
    <2> QED  BY <1>1, <1>4, FS_Subset
  <1>18. NoIdleSlot'
    <2> SUFFICES ASSUME waiting' # <<>> PROVE Cardinality(Active') >= Limit
      BY DEF NoIdleSlot
    <2>1. Elements(r) # {}  BY <1>3, <1>7, ElementIs
    <2> QED  BY <1>11, <1>12, <2>1
  <1>19. AdmissionLimit'
    <2> SUFFICES ASSUME Limit > 0, ~kicked
                 PROVE  Cardinality({s \in Active' : /\ AccountOf[s] \notin Privileged
                                     /\ ~(Tolerance /\ AccountOf[s] \in disconnects')})
                            <= Limit
      BY <1>3 DEF AdmissionLimit, HasRecentlyDisconnected
    <2> DEFINE C == {s \in Active' : /\ AccountOf[s] \notin Privileged
                                     /\ ~(Tolerance /\ AccountOf[s] \in disconnects')}
    <2>1. C \in SUBSET B2  BY <1>12
    <2> HIDE DEF C, B2
    <2>2. Limit \in Nat  OBVIOUS
    <2>3. /\ Cardinality(C) \in Nat /\ Cardinality(B2) \in Nat
          /\ Cardinality(C) <= Cardinality(B2)
      BY <1>11, <2>1, CountedSubset
    <2>4. CASE adm2 # {}
      <3>1. Cardinality(B2) <= Limit  BY <1>10, <2>4 DEF Kept
      <3> HIDE DEF W, first, second
      <3> QED  BY <2>2, <2>3, <3>1 DEF C
    <2>5. CASE adm2 = {} /\ adm1 # {}
      <3>1. Cardinality(B1) <= Limit  BY <1>9, <2>5 DEF Kept
      <3>2. B2 = B1  BY <1>13, <2>5
      <3> HIDE DEF W, first, second
      <3> QED  BY <2>2, <2>3, <3>1, <3>2 DEF C
    <2>6. CASE adm2 = {} /\ adm1 = {}
      <3>1. B2 \subseteq A  BY <1>13, <2>6 DEF B1
      <3>2. C \in SUBSET Counted(A)
        BY <1>3, <2>1, <3>1 DEF Counted, C, HasRecentlyDisconnected
      <3>3. Cardinality(Counted(A)) <= Limit
        BY DEF QueueInv, AdmissionLimit, Counted, Active
      <3>4. IsFiniteSet(Counted(A))
        <4>1. Counted(A) \in SUBSET W  BY DEF Counted
        <4> QED  BY <1>1, <4>1, FS_Subset
      <3>5. Cardinality(Counted(A)) \in Nat /\ Cardinality(C) <= Cardinality(Counted(A))
        BY <3>2, <3>4, CountedSubset
      <3> HIDE DEF A, W
      <3> QED  BY <2>2, <2>3, <3>3, <3>5 DEF C
    <2> QED  BY <2>4, <2>5, <2>6
  <1>20. \A i, j \in DOMAIN waiting :
            i < j /\ waiting[i] \in Elements(waiting') /\ waiting[j] \in live' =>
               InOrder(waiting', waiting[i], waiting[j])
    <2> SUFFICES ASSUME NEW i \in DOMAIN waiting, NEW j \in DOMAIN waiting, i < j,
                        waiting[i] \in Elements(r), waiting[j] # cur
                 PROVE  InOrder(r, waiting[i], waiting[j])
      BY <1>3
    <2>1. waiting[i] \in E1  BY <1>14
    <2>2. InOrder(q, waiting[i], waiting[j])  BY <1>6, <2>1
    <2> HIDE DEF q, r, E1
    <2>3. PICK k \in DOMAIN q, l \in DOMAIN q :
             k < l /\ q[k] = waiting[i] /\ q[l] = waiting[j]
      BY <2>2 DEF InOrder
    <2> QED  BY <1>8, <2>3
  <1> QED  BY <1>15, <1>16, <1>17, <1>18, <1>19, <1>20 DEF QueueInv

LEMMA QueueAdd ==
  ASSUME TypeOK, SessionsKnown, QueueInv, AddSession
  PROVE  /\ QueueInv'
         /\ \A i, j \in DOMAIN waiting :
              i < j /\ waiting[i] \in Elements(waiting') /\ waiting[j] \in live' =>
                 InOrder(waiting', waiting[i], waiting[j])
  <1> DEFINE s == Head(addQueue)
             old == sessions[AccountOf[s]]
  <1>1. s \in Sessions \ InWorld /\ s \in live
    BY AddQueueHead DEF AddSession, TypeOK, AdmissionTypes
  <1>2. old \in Sessions \cup {NoSession}
    BY <1>1 DEF TypeOK, AdmissionTypes
  <1>3. UNCHANGED <<disconnects, kicked>>  BY DEF AddSession
  <1>4. IF old \in loading THEN AddRejected(s, old) ELSE AddAccepted(s, old)
    BY DEF AddSession
  <1>5. CASE old \in loading
    <2>1. Delete(s) /\ UNCHANGED <<sessions, waiting, inQueue, initializing>>
      BY <1>4, <1>5 DEF AddRejected
    <2>2. QueueInv' /\ waiting' = waiting
      <3> HIDE DEF s
      <3> QED  BY <1>1, <1>3, <2>1, QueueRejected
    <2> QED  BY <2>2 DEF InOrder
  <1>6. CASE old \notin loading
    <2>1. AddAccepted(s, old)  BY <1>4, <1>6
    <2>2. old = sessions[AccountOf[s]]  OBVIOUS
    <2> HIDE DEF s, old
    <2> QED  BY <1>1, <1>2, <1>3, <2>1, <2>2, QueueAccepted
  <1> QED  BY <1>5, <1>6

\* Every other step leaves the queue alone.
LEMMA QueueAlone ==
  ASSUME \/ Network \/ LinkCheck \/ LinkSet \/ LinksDone \/ AddsDone \/ CloseIdle
         \/ \E a \in Accounts : Choose(a)
         \/ PlayerLogin \/ HandlePlayerLogin \/ LoadingDone \/ LogoutPlayer
         \/ Cleanup \/ TickDone \/ UNCHANGED vars
  PROVE  /\ live \subseteq live'
         /\ UNCHANGED <<sessions, waiting, inQueue, initializing, disconnects, kicked>>
  <1>1. CASE Network
    <2>1. ASSUME NEW s \in Sessions,
                 Authenticate(s) \/ EncryptionAck(s) \/ ConnectToFailed(s)
          PROVE  /\ live \subseteq live'
                 /\ UNCHANGED <<sessions, waiting, inQueue, initializing, disconnects,
                                kicked>>
      BY <2>1 DEF Authenticate, EncryptionAck, ConnectToFailed
    <2>2. ASSUME NEW l \in Links, NEW s, NEW k, Connect(l, s, k)
          PROVE  UNCHANGED <<admission, thread>>
      BY <2>2 DEF Connect
    <2>3. ASSUME NEW x \in Sockets, Lose(x) \/ Leave(x)
          PROVE  UNCHANGED <<admission, thread>>
      BY <2>3 DEF Lose, Leave
    <2> QED  BY <1>1, <2>1, <2>2, <2>3 DEF Network
  <1>2. CASE LinkCheck \/ LinkSet \/ LinksDone \/ AddsDone \/ CloseIdle
    BY <1>2 DEF LinkCheck, LinkSet, LinksDone, AddsDone, CloseIdle
  <1>3. CASE \E a \in Accounts : Choose(a)  BY <1>3 DEF Choose
  <1>4. CASE PlayerLogin \/ HandlePlayerLogin
    BY <1>4 DEF PlayerLogin, HandlePlayerLogin
  <1>5. CASE LoadingDone \/ LogoutPlayer \/ Cleanup \/ TickDone
    BY <1>5 DEF LoadingDone, LogoutPlayer, Cleanup, TickDone
  <1>6. CASE UNCHANGED vars  BY <1>6 DEF vars
  <1> QED  BY <1>1, <1>2, <1>3, <1>4, <1>5, <1>6

\* What FirstComeFirstServed says of one step.
Served ==
    \A i, j \in DOMAIN waiting :
        (i < j /\ waiting[i] \in Elements(waiting')) =>
            \/ InOrder(waiting', waiting[i], waiting[j])
            \/ waiting[j] \notin live'

LEMMA QueueStep ==
  ASSUME SessionInv, QueueInv, [Next]_vars
  PROVE  QueueInv' /\ Served
  <1>1. TypeOK /\ SessionsKnown /\ ThreadAt  BY DEF SessionInv
  <1>2. CASE KickAll
    <2>1. waiting' = <<>> /\ Elements(<<>>) = {}
      BY <1>2 DEF KickAll, Elements, ToSet
    <2> QED  BY <1>1, <1>2, <2>1, QueueKickAll DEF Served
  <1>3. CASE AddSession  BY <1>1, <1>3, QueueAdd DEF Served
  <1>4. CASE RemoveSession  BY <1>1, <1>4, QueueRemoved DEF Served
  <1>5. CASE InitializeSessionCallback
    <2>1. waiting' = waiting  BY <1>5 DEF InitializeSessionCallback
    <2> QED  BY <1>1, <1>5, <2>1, QueueCallback DEF Served, InOrder
  <1>6. CASE \/ Network \/ LinkCheck \/ LinkSet \/ LinksDone \/ AddsDone \/ CloseIdle
             \/ \E a \in Accounts : Choose(a)
             \/ PlayerLogin \/ HandlePlayerLogin \/ LoadingDone \/ LogoutPlayer
             \/ Cleanup \/ TickDone \/ UNCHANGED vars
    <2>1. /\ live \subseteq live'
          /\ UNCHANGED <<sessions, waiting, inQueue, initializing, disconnects, kicked>>
      BY <1>6, QueueAlone
    <2>2. QueueInv'  BY <2>1, QueueQuiet
    <2> QED  BY <2>1, <2>2 DEF Served, InOrder
  <1> QED  BY <1>2, <1>3, <1>4, <1>5, <1>6 DEF Next, World

(***************************************************************************)
(* The theorems.                                                           *)
(***************************************************************************)
\* m_QueuedPlayer and m_sessions stay as QueueInv says, whatever the players do.
THEOREM QueueInvariant == Spec => []QueueInv
  BY QueueInit, QueueStep, SessionInvariant, PTL DEF Spec

\* The pointers in m_QueuedPlayer are to sessions that exist, each the current
\* one of its account, there once and marked as queued.
THEOREM QueueHoldsSessions == Spec => []QueueSound
  <1>1. QueueInv => QueueSound  BY DEF QueueInv
  <1> QED  BY <1>1, QueueInvariant, PTL

\* Nobody waits while fewer than PlayerLimit players are active, although
\* RemoveQueuedPlayer lets in one player at most and is called twice.
THEOREM NobodyWaitsInVain == Spec => []NoIdleSlot
  <1>1. QueueInv => NoIdleSlot  BY DEF QueueInv
  <1> QED  BY <1>1, QueueInvariant, PTL

\* No more players than PlayerLimit are let in.
THEOREM LimitIsKept == Spec => []AdmissionLimit
  <1>1. QueueInv => AdmissionLimit  BY DEF QueueInv
  <1> QED  BY <1>1, QueueInvariant, PTL

\* No session is let in before one that came first, and nobody loses a place.
THEOREM QueueIsServedInOrder == Spec => FirstComeFirstServed
  <1>1. SessionInv /\ QueueInv /\ [Next]_vars => [Served]_vars
    BY QueueStep
  <1>2. Spec => [][Served]_vars
    BY <1>1, QueueInvariant, SessionInvariant, PTL DEF Spec
  <1> QED  BY <1>2, PTL DEF FirstComeFirstServed, Served, InOrder
=============================================================================
