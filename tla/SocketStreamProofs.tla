-------------------------- MODULE SocketStreamProofs --------------------------
(***************************************************************************)
(* Proofs about what goes through a socket, for any sizes of packets and   *)
(* of the send buffer, any room in the kernel and any number of senders:   *)
(* the client reads the packets sent to it, whole and in order.            *)
(***************************************************************************)
EXTENDS NetworkThreadProofs, SequenceTheorems

-----------------------------------------------------------------------------
(***************************************************************************)
(* Induction over the naturals, about a set.                               *)
(***************************************************************************)
LEMMA AllNaturals ==
  ASSUME NEW P, 0 \in P, \A n \in Nat : n \in P => n + 1 \in P
  PROVE  \A n \in Nat : n \in P
  <1> DEFINE B == Nat \ P
  <1> SUFFICES ASSUME B # {} PROVE FALSE  OBVIOUS
  <1>1. B \subseteq Nat  OBVIOUS
  <1>2. PICK m \in B : \A n \in B : <<n, m>> \notin OpToRel(<, Nat)
    BY <1>1, WFMin, NatLessThanWellFounded, Zenon
  <1>3. \A n \in B : m \in Nat /\ n \in Nat /\ ~(n < m)
    BY <1>2, Zenon DEF OpToRel
  <1>4. m \in Nat /\ m \notin P /\ m # 0  OBVIOUS
  <1>5. m - 1 \in Nat /\ m - 1 < m /\ (m - 1) + 1 = m  BY <1>4
  <1>6. m - 1 \notin B  BY <1>3, <1>5
  <1>7. m - 1 \in P  BY <1>5, <1>6
  <1> QED  BY <1>4, <1>5, <1>7

\* Concatenation as an operator the provers leave alone.
Cat(u, v) == u \o v

LEMMA CatLaws ==
  \A X : \A u, v, w \in Seq(X) :
      /\ Cat(u, v) \in Seq(X)
      /\ Cat(u, <<>>) = u /\ Cat(<<>>, u) = u
      /\ Cat(Cat(u, v), w) = Cat(u, Cat(v, w))
  <1> TAKE X
  <1> TAKE u, v, w \in Seq(X)
  <1>1. u \o v \in Seq(X)  BY ConcatProperties
  <1>2. u \o <<>> = u /\ <<>> \o u = u  BY ConcatEmptySeq
  <1>3. (u \o v) \o w = u \o (v \o w)  BY ConcatAssociative
  <1> QED  BY <1>1, <1>2, <1>3 DEF Cat

-----------------------------------------------------------------------------
(***************************************************************************)
(* FlattenSeq: its partial results are the elements of a sequence f.       *)
(***************************************************************************)
IsFlat(X, q, f) ==
    /\ f \in [0 .. Len(q) -> Seq(X)]
    /\ f[0] = <<>>
    /\ \A i \in 1 .. Len(q) : f[i] = f[i - 1] \o q[i]

Flattens(X, q, n) ==
    {f \in [1 .. n -> Seq(X)] :
        \A i \in 1 .. n : f[i] = IF i = 1 THEN q[i] ELSE f[i - 1] \o q[i]}

LEMMA FlattensExists ==
  ASSUME NEW X, NEW q \in Seq(Seq(X))
  PROVE  \A n \in Nat : n <= Len(q) => Flattens(X, q, n) # {}
  <1> DEFINE P == {n \in Nat : n <= Len(q) => Flattens(X, q, n) # {}}
  <1>1. 0 \in P
    <2> DEFINE f == [i \in 1 .. 0 |-> <<>>]
    <2>1. f \in [1 .. 0 -> Seq(X)]  OBVIOUS
    <2>2. f \in Flattens(X, q, 0)  BY <2>1 DEF Flattens
    <2> QED  BY <2>2
  <1>2. ASSUME NEW n \in Nat, n \in P PROVE n + 1 \in P
    <2> SUFFICES ASSUME n + 1 <= Len(q) PROVE Flattens(X, q, n + 1) # {}
      OBVIOUS
    <2>1. PICK f : f \in Flattens(X, q, n)  BY <1>2
    <2> DEFINE new == IF n = 0 THEN q[n + 1] ELSE f[n] \o q[n + 1]
               g == [i \in 1 .. n + 1 |-> IF i = n + 1 THEN new ELSE f[i]]
    <2>2. /\ f \in [1 .. n -> Seq(X)]
          /\ \A i \in 1 .. n : f[i] = IF i = 1 THEN q[i] ELSE f[i - 1] \o q[i]
      BY <2>1 DEF Flattens
    <2>3. q[n + 1] \in Seq(X)  OBVIOUS
    <2>4. new \in Seq(X)
      <3>1. CASE n = 0  BY <2>3, <3>1
      <3>2. CASE n # 0
        <4>1. f[n] \in Seq(X)  BY <2>2, <3>2
        <4> QED  BY <2>3, <3>2, <4>1, ConcatProperties
      <3> QED  BY <3>1, <3>2
    <2> HIDE DEF new
    <2>5. g \in [1 .. n + 1 -> Seq(X)]  BY <2>2, <2>4
    <2>6. ASSUME NEW i \in 1 .. n + 1
          PROVE  g[i] = IF i = 1 THEN q[i] ELSE g[i - 1] \o q[i]
      <3>1. CASE i = n + 1
        <4>1. CASE n = 0  BY <3>1, <4>1 DEF new
        <4>2. CASE n # 0
          <5>1. g[i - 1] = f[n] /\ g[i] = new /\ i # 1  BY <3>1, <4>2
          <5> QED  BY <3>1, <4>2, <5>1 DEF new
        <4> QED  BY <4>1, <4>2
      <3>2. CASE i # n + 1
        <4>1. i \in 1 .. n /\ g[i] = f[i]  BY <3>2
        <4>2. i # 1 => g[i - 1] = f[i - 1]  BY <4>1
        <4> QED  BY <2>2, <4>1, <4>2
      <3> QED  BY <3>1, <3>2
    <2>7. g \in Flattens(X, q, n + 1)  BY <2>5, <2>6 DEF Flattens
    <2> QED  BY <2>7
  <1> HIDE DEF P
  <1>3. \A n \in Nat : n \in P  BY <1>1, <1>2, AllNaturals
  <1> QED  BY <1>3 DEF P

LEMMA FlatIs ==
  ASSUME NEW X, NEW q \in Seq(Seq(X))
  PROVE  \E f : IsFlat(X, q, f) /\ FlattenSeq(q) = f[Len(q)]
  <1>1. CASE q = <<>>
    <2> DEFINE f == [i \in 0 .. 0 |-> <<>>]
    <2>1. IsFlat(X, q, f) /\ f[Len(q)] = <<>>  BY <1>1 DEF IsFlat
    <2>2. FlattenSeq(q) = <<>>  BY <1>1 DEF FlattenSeq
    <2> QED  BY <2>1, <2>2
  <1>2. CASE q # <<>>
    <2> DEFINE n == Len(q)
               body(g) == [i \in 1 .. Len(q) |-> IF i = 1 THEN q[i] ELSE g[i - 1] \o q[i]]
               it == CHOOSE g : g = body(g)
    <2>1. n \in Nat \ {0}  BY <1>2
    <2>2. FlattenSeq(q) = it[n]  BY <2>1 DEF FlattenSeq
    <2>3. PICK g : g \in Flattens(X, q, n)  BY <2>1, FlattensExists
    <2>4. g = body(g)  BY <2>3 DEF Flattens
    <2>5. it = body(it)  BY <2>4
    <2> HIDE DEF it
    <2>6. \A i \in 1 .. n : it[i] = IF i = 1 THEN q[i] ELSE it[i - 1] \o q[i]
      BY <2>5
    <2>7. /\ g \in [1 .. n -> Seq(X)]
          /\ \A i \in 1 .. n : g[i] = IF i = 1 THEN q[i] ELSE g[i - 1] \o q[i]
      BY <2>3 DEF Flattens
    <2> DEFINE P == {k \in Nat : k \in 1 .. n => it[k] = g[k]}
    <2>8. 0 \in P  OBVIOUS
    <2>9. ASSUME NEW k \in Nat, k \in P PROVE k + 1 \in P
      <3> SUFFICES ASSUME k + 1 \in 1 .. n PROVE it[k + 1] = g[k + 1]  OBVIOUS
      <3>1. it[k + 1] = IF k + 1 = 1 THEN q[k + 1] ELSE it[(k + 1) - 1] \o q[k + 1]
        BY <2>6
      <3>2. g[k + 1] = IF k + 1 = 1 THEN q[k + 1] ELSE g[(k + 1) - 1] \o q[k + 1]
        BY <2>7
      <3>3. k + 1 # 1 => it[k] = g[k] /\ (k + 1) - 1 = k  BY <2>9
      <3> QED  BY <3>1, <3>2, <3>3
    <2> HIDE DEF P
    <2>10. \A k \in Nat : k \in P  BY <2>8, <2>9, AllNaturals
    <2>11. it[n] = g[n]
      <3>1. n \in 1 .. n  BY <2>1
      <3>2. n \in P  BY <2>1, <2>10
      <3> HIDE DEF n, it
      <3> QED  BY <3>1, <3>2 DEF P
    <2> DEFINE f == [i \in 0 .. n |-> IF i = 0 THEN <<>> ELSE g[i]]
    <2>12. f \in [0 .. n -> Seq(X)] /\ f[0] = <<>> /\ f[n] = g[n]  BY <2>1, <2>7
    <2>13. ASSUME NEW i \in 1 .. n PROVE f[i] = f[i - 1] \o q[i]
      <3>1. f[i] = g[i] /\ q[i] \in Seq(X)  BY <2>1
      <3>2. CASE i = 1
        <4>1. f[i - 1] = <<>>  BY <3>2
        <4> QED  BY <2>7, <3>1, <3>2, <4>1, ConcatEmptySeq
      <3>3. CASE i # 1
        <4>1. f[i - 1] = g[i - 1]  BY <3>3
        <4> QED  BY <2>7, <3>1, <3>3, <4>1
      <3> QED  BY <3>2, <3>3
    <2>14. IsFlat(X, q, f)  BY <2>12, <2>13 DEF IsFlat
    <2>15. FlattenSeq(q) = f[Len(q)]  BY <2>2, <2>11, <2>12
    <2> QED  BY <2>14, <2>15
  <1> QED  BY <1>1, <1>2

\* What is flattened depends on what there is up to that point alone.
LEMMA FlatUnique ==
  ASSUME NEW X, NEW q \in Seq(Seq(X)), NEW r \in Seq(Seq(X)),
         NEW f, NEW g, IsFlat(X, q, f), IsFlat(X, r, g),
         NEW n \in Nat, n <= Len(q), n <= Len(r),
         \A i \in 1 .. n : q[i] = r[i]
  PROVE  f[n] = g[n]
  <1> DEFINE P == {k \in Nat : k <= n => f[k] = g[k]}
  <1>1. 0 \in P  BY DEF IsFlat
  <1>2. ASSUME NEW k \in Nat, k \in P PROVE k + 1 \in P
    <2> SUFFICES ASSUME k + 1 <= n PROVE f[k + 1] = g[k + 1]  OBVIOUS
    <2>1. f[k] = g[k] /\ q[k + 1] = r[k + 1]  BY <1>2
    <2>2. (k + 1) - 1 = k /\ k + 1 \in 1 .. Len(q) /\ k + 1 \in 1 .. Len(r)  OBVIOUS
    <2>3. f[k + 1] = f[(k + 1) - 1] \o q[k + 1]  BY <2>2 DEF IsFlat
    <2>4. g[k + 1] = g[(k + 1) - 1] \o r[k + 1]  BY <2>2 DEF IsFlat
    <2> QED  BY <2>1, <2>2, <2>3, <2>4
  <1> HIDE DEF P
  <1>3. \A k \in Nat : k \in P  BY <1>1, <1>2, AllNaturals
  <1> QED  BY <1>3 DEF P

LEMMA FlattenType ==
  ASSUME NEW X, NEW q \in Seq(Seq(X))
  PROVE  FlattenSeq(q) \in Seq(X)
  <1>1. PICK f : IsFlat(X, q, f) /\ FlattenSeq(q) = f[Len(q)]  BY FlatIs
  <1>2. Len(q) \in 0 .. Len(q)  OBVIOUS
  <1> QED  BY <1>1, <1>2 DEF IsFlat

LEMMA FlattenAppend ==
  ASSUME NEW X, NEW q \in Seq(Seq(X)), NEW b \in Seq(X)
  PROVE  FlattenSeq(Append(q, b)) = FlattenSeq(q) \o b
  <1> DEFINE r == Append(q, b)
             n == Len(q)
  <1>1. /\ r \in Seq(Seq(X)) /\ Len(r) = n + 1 /\ r[n + 1] = b
        /\ \A i \in 1 .. n : q[i] = r[i]
        /\ n \in Nat
    BY AppendProperties
  <1> HIDE DEF r
  <1>2. PICK f : IsFlat(X, q, f) /\ FlattenSeq(q) = f[n]  BY FlatIs
  <1>3. PICK g : IsFlat(X, r, g) /\ FlattenSeq(r) = g[n + 1]  BY <1>1, FlatIs
  <1>4. f[n] = g[n]
    <2>1. IsFlat(X, q, f) /\ IsFlat(X, r, g) /\ n <= Len(q) /\ n <= Len(r)
      BY <1>1, <1>2, <1>3
    <2> HIDE DEF n
    <2> QED  BY <1>1, <2>1, FlatUnique
  <1>5. g[n + 1] = g[n] \o r[n + 1]
    <2>1. n + 1 \in 1 .. Len(r) /\ (n + 1) - 1 = n  BY <1>1
    <2>2. g[n + 1] = g[(n + 1) - 1] \o r[n + 1]  BY <1>3, <2>1 DEF IsFlat
    <2> QED  BY <2>1, <2>2
  <1> QED  BY <1>1, <1>2, <1>3, <1>4, <1>5 DEF r

LEMMA FlattenSmall ==
  ASSUME NEW X, NEW b \in Seq(X)
  PROVE  FlattenSeq(<<>>) = <<>> /\ FlattenSeq(<<b>>) = b
  <1>1. FlattenSeq(<<>>) = <<>>  BY DEF FlattenSeq
  <1>2. <<>> \in Seq(Seq(X)) /\ Append(<<>>, b) = <<b>>  OBVIOUS
  <1>3. FlattenSeq(<<b>>) = <<>> \o b  BY <1>1, <1>2, FlattenAppend
  <1> QED  BY <1>1, <1>3, ConcatEmptySeq

LEMMA FlattenConcat ==
  ASSUME NEW X, NEW q \in Seq(Seq(X)), NEW r \in Seq(Seq(X))
  PROVE  FlattenSeq(q \o r) = FlattenSeq(q) \o FlattenSeq(r)
  <1> DEFINE Good(t) == FlattenSeq(q \o t) = FlattenSeq(q) \o FlattenSeq(t)
             P == {n \in Nat : \A t \in Seq(Seq(X)) : Len(t) = n => Good(t)}
  <1>1. 0 \in P
    <2>1. ASSUME NEW t \in Seq(Seq(X)), Len(t) = 0 PROVE Good(t)
      <3>1. t = <<>> /\ q \o t = q  BY <2>1, ConcatEmptySeq, EmptySeq
      <3>2. FlattenSeq(q) \o <<>> = FlattenSeq(q)  BY FlattenType, ConcatEmptySeq
      <3>3. FlattenSeq(t) = <<>>  BY <3>1, FlattenSmall
      <3> QED  BY <3>1, <3>2, <3>3
    <2> QED  BY <2>1
  <1>2. ASSUME NEW n \in Nat, n \in P PROVE n + 1 \in P
    <2>1. ASSUME NEW t \in Seq(Seq(X)), Len(t) = n + 1 PROVE Good(t)
      <3>1. t # <<>>  BY <2>1
      <3>2. PICK s \in Seq(Seq(X)), b \in Seq(X) : t = Append(s, b)
        BY <3>1, SequenceEmptyOrAppend
      <3>3. Len(s) = n  BY <2>1, <3>2, AppendProperties
      <3>4. Good(s)  BY <1>2, <3>3
      <3>5. q \o t = Append(q \o s, b)  BY <3>2
      <3>6. q \o s \in Seq(Seq(X))  BY ConcatProperties
      <3>7. FlattenSeq(q \o t) = FlattenSeq(q \o s) \o b
        BY <3>5, <3>6, FlattenAppend
      <3>8. FlattenSeq(t) = FlattenSeq(s) \o b  BY <3>2, FlattenAppend
      <3>9. (FlattenSeq(q) \o FlattenSeq(s)) \o b = FlattenSeq(q) \o (FlattenSeq(s) \o b)
        <4>1. FlattenSeq(q) \in Seq(X) /\ FlattenSeq(s) \in Seq(X) /\ b \in Seq(X)
          BY <3>2, FlattenType
        <4>2. PICK u \in Seq(X), v \in Seq(X) : u = FlattenSeq(q) /\ v = FlattenSeq(s)
          BY <4>1
        <4>3. Cat(Cat(u, v), b) = Cat(u, Cat(v, b))  BY <4>1, CatLaws
        <4> QED  BY <4>2, <4>3 DEF Cat
      <3> QED  BY <3>4, <3>7, <3>8, <3>9
    <2> HIDE DEF Good
    <2> QED  BY <2>1
  <1> HIDE DEF P
  <1>3. \A n \in Nat : n \in P  BY <1>1, <1>2, AllNaturals
  <1>4. Len(r) \in P /\ Len(r) \in Nat  BY <1>3
  <1> HIDE DEF Good
  <1>5. Good(r)  BY <1>4 DEF P
  <1> QED  BY <1>5 DEF Good

-----------------------------------------------------------------------------
(***************************************************************************)
(* Packing: the buffers hold the units of the packets, in their order.     *)
(***************************************************************************)
Buffers == {b \in Seq(Seq(AnyPacket)) : b # <<>>}

UnitsOf(packets) == [k \in 1 .. Len(packets) |-> Units(packets[k])]

LEMMA UnitsAre ==
  ASSUME NEW p \in AnyPacket
  PROVE  Units(p) \in Seq(AnyPacket) /\ Len(Units(p)) = Size[p] /\ Units(p) # <<>>
  <1>1. Size[p] \in Nat \ {0}  BY SocketAssumption DEF AnyPacket
  <1>2. Units(p) \in [1 .. Size[p] -> AnyPacket]  BY DEF Units
  <1> HIDE DEF AnyPacket
  <1> QED  BY <1>1, <1>2

LEMMA FrontLast ==
  ASSUME NEW S, NEW q \in Seq(S), q # <<>>
  PROVE  /\ Front(q) \in Seq(S) /\ Last(q) \in S /\ q[Len(q)] = Last(q)
         /\ q = Append(Front(q), Last(q))
  <1>1. PICK r \in Seq(S), e \in S : q = Append(r, e)  BY SequenceEmptyOrAppend
  <1>2. Len(q) = Len(r) + 1 /\ q[Len(q)] = e  BY <1>1, AppendProperties
  <1>3. SubSeq(q, 1, Len(q) - 1) = r
    <2> DEFINE s == SubSeq(q, 1, Len(q) - 1)
    <2>1. Len(q) - 1 = Len(r) /\ Len(r) \in Nat  BY <1>2
    <2>2. /\ s \in Seq(S) /\ Len(s) = Len(r)
          /\ \A i \in 1 .. Len(r) : s[i] = q[i]
      BY <2>1
    <2>3. \A i \in 1 .. Len(r) : s[i] = r[i]  BY <1>1, <2>2, AppendProperties
    <2> HIDE DEF s
    <2>4. s = r  BY <2>2, <2>3, SeqEqual
    <2> QED  BY <2>4 DEF s
  <1> QED  BY <1>1, <1>2, <1>3 DEF Front, Last

LEMMA FlattenFrontLast ==
  ASSUME NEW X, NEW q \in Seq(Seq(X)), q # <<>>
  PROVE  FlattenSeq(q) = FlattenSeq(Front(q)) \o Last(q)
  <1>1. /\ Front(q) \in Seq(Seq(X)) /\ Last(q) \in Seq(X)
        /\ q = Append(Front(q), Last(q))
    BY FrontLast
  <1>2. PICK f \in Seq(Seq(X)), e \in Seq(X) :
           f = Front(q) /\ e = Last(q) /\ q = Append(f, e)
    BY <1>1
  <1>3. FlattenSeq(Append(f, e)) = FlattenSeq(f) \o e  BY <1>2, FlattenAppend
  <1> QED  BY <1>2, <1>3

\* What Pack does: the last buffer grows by u, or there is another with u,
\* or one with u alone and an empty one.
Grown(f, e, u) == f \o <<e \o u>>
Another(b, u) == b \o <<u>>
Alone(b, u) == b \o <<u, <<>>>>
IsMore(X, r, b, u) ==
    r \in Seq(Seq(X)) /\ r # <<>> /\ FlattenSeq(r) = Cat(FlattenSeq(b), u)

LEMMA AnotherBuffer ==
  ASSUME NEW X, NEW b \in Seq(Seq(X)), NEW u \in Seq(X)
  PROVE  IsMore(X, Another(b, u), b, u)
  <1>1. b \o <<u>> = Append(b, u)  BY AppendIsConcat
  <1>2. Append(b, u) \in Seq(Seq(X)) /\ Append(b, u) # <<>>  BY AppendProperties
  <1>3. FlattenSeq(Append(b, u)) = FlattenSeq(b) \o u  BY FlattenAppend
  <1> QED  BY <1>1, <1>2, <1>3 DEF IsMore, Another, Cat

LEMMA GrowLast ==
  ASSUME NEW X, NEW f \in Seq(Seq(X)), NEW e \in Seq(X), NEW u \in Seq(X)
  PROVE  IsMore(X, Grown(f, e, u), Append(f, e), u)
  <1>1. PICK w : w = Cat(e, u)  OBVIOUS
  <1>2. w \in Seq(X) /\ w = e \o u  BY <1>1, CatLaws DEF Cat
  <1>3. IsMore(X, Another(f, w), f, w)  BY <1>2, AnotherBuffer
  <1>4. Grown(f, e, u) = Another(f, w)  BY <1>2 DEF Grown, Another
  <1>5. FlattenSeq(Append(f, e)) = FlattenSeq(f) \o e  BY FlattenAppend
  <1>6. PICK v \in Seq(X) : v = FlattenSeq(f)  BY FlattenType
  <1>7. Cat(Cat(v, e), u) = Cat(v, Cat(e, u))  BY <1>6, CatLaws
  <1>8. FlattenSeq(Append(f, e)) = Cat(v, e)  BY <1>5, <1>6 DEF Cat
  <1> QED  BY <1>1, <1>3, <1>4, <1>6, <1>7, <1>8 DEF IsMore

LEMMA TwoMore ==
  ASSUME NEW X, NEW b \in Seq(X), NEW u \in X, NEW v \in X
  PROVE  b \o <<u, v>> = (b \o <<u>>) \o <<v>>
  <1>1. b \o <<u, v>> = Append(Append(b, u), v)  OBVIOUS
  <1>2. b \o <<u>> = Append(b, u)  BY AppendIsConcat
  <1>3. PICK d \in Seq(X) : d = Append(b, u)  BY AppendProperties
  <1>4. d \o <<v>> = Append(d, v)  BY AppendIsConcat
  <1> QED  BY <1>1, <1>2, <1>3, <1>4

LEMMA OneAlone ==
  ASSUME NEW X, NEW b \in Seq(Seq(X)), NEW u \in Seq(X)
  PROVE  IsMore(X, Alone(b, u), b, u)
  <1>1. PICK d : d = Another(b, u)  OBVIOUS
  <1>2. IsMore(X, d, b, u)  BY <1>1, AnotherBuffer
  <1>3. d \in Seq(Seq(X)) /\ FlattenSeq(d) = Cat(FlattenSeq(b), u)
    BY <1>2 DEF IsMore
  <1>4. <<>> \in Seq(X)  OBVIOUS
  <1>5. IsMore(X, Another(d, <<>>), d, <<>>)  BY <1>3, <1>4, AnotherBuffer
  <1>6. FlattenSeq(d) \in Seq(X)  BY <1>3, FlattenType
  <1>7. Cat(FlattenSeq(d), <<>>) = FlattenSeq(d)  BY <1>6, CatLaws
  <1>8. \A v \in Seq(X) : b \o <<u, v>> = (b \o <<u>>) \o <<v>>  BY TwoMore
  <1>9. Alone(b, u) = Another(d, <<>>)  BY <1>1, <1>4, <1>8 DEF Alone, Another
  <1> QED  BY <1>3, <1>5, <1>7, <1>9 DEF IsMore

LEMMA PackKeeps ==
  ASSUME NEW b \in Buffers, NEW p \in AnyPacket
  PROVE  IsMore(AnyPacket, Pack(b, p), b, Units(p))
  <1>1. b \in Seq(Seq(AnyPacket)) /\ b # <<>>  BY DEF Buffers
  <1>2. PICK f \in Seq(Seq(AnyPacket)), e \in Seq(AnyPacket) :
           f = Front(b) /\ e = Last(b) /\ b = Append(f, e)
    BY <1>1, FrontLast
  <1>3. PICK u \in Seq(AnyPacket) : u = Units(p)  BY UnitsAre
  <1>4. \/ Pack(b, p) = Grown(f, e, u) \/ Pack(b, p) = Another(b, u)
        \/ Pack(b, p) = Alone(b, u)
    BY <1>2, <1>3 DEF Pack, Grown, Another, Alone
  <1>5. CASE Pack(b, p) = Grown(f, e, u)  BY <1>2, <1>3, <1>5, GrowLast
  <1>6. CASE Pack(b, p) = Another(b, u)  BY <1>1, <1>3, <1>6, AnotherBuffer
  <1>7. CASE Pack(b, p) = Alone(b, u)  BY <1>1, <1>3, <1>7, OneAlone
  <1> QED  BY <1>4, <1>5, <1>6, <1>7

-----------------------------------------------------------------------------
(***************************************************************************)
(* FoldLeft goes through the sets of indices from their largest elements   *)
(* down; its function exists, and at 1 .. k it has packed the first k.     *)
(***************************************************************************)
FoldStep(p, g, s) ==
    IF s = {} THEN <<<<>>>> ELSE Pack(g[s \ {Max(s)}], p[Max(s)])

Folds(p, n) ==
    {g \in [SUBSET (1 .. n) -> Buffers] :
        \A s \in SUBSET (1 .. n) : g[s] = FoldStep(p, g, s)}

LEMMA LargestIs ==
  ASSUME NEW n \in Nat, NEW s \in SUBSET (1 .. n), n \in s
  PROVE  Max(s) = n
  <1>1. \A y \in s : n >= y  OBVIOUS
  <1>2. \A x \in s : (\A y \in s : x >= y) => x = n  OBVIOUS
  <1>3. Max(s) \in s /\ \A y \in s : Max(s) >= y
    <2>1. \E x \in s : \A y \in s : x >= y  BY <1>1
    <2> QED  BY <2>1 DEF Max
  <1> QED  BY <1>2, <1>3

LEMMA FoldsExist ==
  ASSUME NEW p \in Seq(AnyPacket)
  PROVE  \A n \in Nat : n <= Len(p) => Folds(p, n) # {}
  <1> DEFINE P == {n \in Nat : n <= Len(p) => Folds(p, n) # {}}
  <1>1. <<<<>>>> \in Buffers  BY DEF Buffers
  <1>2. 0 \in P
    <2> DEFINE g == [s \in SUBSET (1 .. 0) |-> <<<<>>>>]
    <2>1. \A s \in SUBSET (1 .. 0) : s = {}  OBVIOUS
    <2>2. g \in [SUBSET (1 .. 0) -> Buffers]  BY <1>1
    <2>3. \A s \in SUBSET (1 .. 0) : g[s] = FoldStep(p, g, s)
      BY <2>1 DEF FoldStep
    <2>4. g \in Folds(p, 0)  BY <2>2, <2>3 DEF Folds
    <2> QED  BY <2>4
  <1>3. ASSUME NEW n \in Nat, n \in P PROVE n + 1 \in P
    <2> SUFFICES ASSUME n + 1 <= Len(p) PROVE Folds(p, n + 1) # {}  OBVIOUS
    <2>1. PICK g : g \in Folds(p, n)  BY <1>3
    <2>2. /\ g \in [SUBSET (1 .. n) -> Buffers]
          /\ \A s \in SUBSET (1 .. n) : g[s] = FoldStep(p, g, s)
      BY <2>1 DEF Folds
    <2> DEFINE m == n + 1
               h == [s \in SUBSET (1 .. m) |->
                        IF m \in s THEN Pack(g[s \ {m}], p[m]) ELSE g[s]]
    <2>3. /\ m \in Nat /\ p[m] \in AnyPacket
          /\ \A s \in SUBSET (1 .. m) : s \ {m} \in SUBSET (1 .. n)
          /\ \A s \in SUBSET (1 .. m) : m \notin s => s \in SUBSET (1 .. n)
          /\ \A s \in SUBSET (1 .. n) : m \notin s /\ s \in SUBSET (1 .. m)
      OBVIOUS
    <2> HIDE DEF m
    <2>4. \A b \in Buffers : Pack(b, p[m]) \in Buffers
      BY <2>3, PackKeeps DEF IsMore, Buffers
    <2>5. ASSUME NEW s \in SUBSET (1 .. m) PROVE h[s] \in Buffers
      BY <2>2, <2>3, <2>4
    <2>6. h \in [SUBSET (1 .. m) -> Buffers]  BY <2>5
    <2>7. ASSUME NEW s \in SUBSET (1 .. m) PROVE h[s] = FoldStep(p, h, s)
      <3>1. CASE m \in s
        <4>1. Max(s) = m /\ s # {}  BY <2>3, <3>1, LargestIs
        <4>2. h[s] = Pack(g[s \ {m}], p[m])  BY <3>1
        <4>3. h[s \ {m}] = g[s \ {m}]  BY <2>3
        <4> QED  BY <4>1, <4>2, <4>3 DEF FoldStep
      <3>2. CASE m \notin s
        <4>1. h[s] = g[s] /\ s \in SUBSET (1 .. n)  BY <2>3, <3>2
        <4>2. g[s] = FoldStep(p, g, s)  BY <2>2, <4>1
        <4>3. h[s \ {Max(s)}] = g[s \ {Max(s)}]
          <5>1. PICK r : r = s \ {Max(s)}  OBVIOUS
          <5>2. r \in SUBSET (1 .. m) /\ m \notin r  BY <3>2, <5>1
          <5>3. h[r] = g[r]  BY <5>2
          <5> QED  BY <5>1, <5>3
        <4> HIDE DEF h
        <4> QED  BY <4>1, <4>2, <4>3 DEF FoldStep
      <3> QED  BY <3>1, <3>2
    <2>8. h \in Folds(p, m)  BY <2>6, <2>7 DEF Folds
    <2> QED  BY <2>8 DEF m
  <1> HIDE DEF P
  <1>4. \A n \in Nat : n \in P  BY <1>2, <1>3, AllNaturals
  <1> QED  BY <1>4 DEF P

LEMMA FoldIs ==
  ASSUME NEW p \in Seq(AnyPacket)
  PROVE  \E it : /\ FoldLeft(Pack, <<<<>>>>, p) = it[1 .. Len(p)]
                 /\ \A s \in SUBSET (1 .. Len(p)) : it[s] = FoldStep(p, it, s)
  <1> DEFINE body(g) == [s \in SUBSET DOMAIN p |->
                            IF s = {} THEN <<<<>>>>
                            ELSE Pack(g[s \ {Max(s)}], p[Max(s)])]
             it == CHOOSE g : g = body(g)
  <1>1. DOMAIN p = 1 .. Len(p) /\ Len(p) \in Nat  OBVIOUS
  <1>2. FoldLeft(Pack, <<<<>>>>, p) = it[DOMAIN p]  BY DEF FoldLeft, MapThenFoldSet
  <1>3. PICK g : g \in Folds(p, Len(p))  BY <1>1, FoldsExist
  <1>4. g = body(g)  BY <1>1, <1>3 DEF Folds, FoldStep
  <1>5. it = body(it)  BY <1>4
  <1> HIDE DEF it
  <1>6. \A s \in SUBSET (1 .. Len(p)) : it[s] = FoldStep(p, it, s)
    BY <1>1, <1>5 DEF FoldStep
  <1> QED  BY <1>1, <1>2, <1>6

LEMMA PackAll ==
  ASSUME NEW p \in Seq(AnyPacket)
  PROVE  /\ FoldLeft(Pack, <<<<>>>>, p) \in Buffers
         /\ FlattenSeq(FoldLeft(Pack, <<<<>>>>, p)) = FlattenSeq(UnitsOf(p))
         /\ UnitsOf(p) \in Seq(Seq(AnyPacket))
  <1> DEFINE n == Len(p)
             q == UnitsOf(p)
  <1>1. \A k \in 1 .. n : p[k] \in AnyPacket /\ Units(p[k]) \in Seq(AnyPacket)
    BY UnitsAre
  <1>2. q \in Seq(Seq(AnyPacket)) /\ Len(q) = n /\ \A k \in 1 .. n : q[k] = Units(p[k])
    BY <1>1 DEF UnitsOf
  <1> HIDE DEF q
  <1>3. PICK it : /\ FoldLeft(Pack, <<<<>>>>, p) = it[1 .. n]
                  /\ \A s \in SUBSET (1 .. n) : it[s] = FoldStep(p, it, s)
    BY FoldIs
  <1>4. PICK f : IsFlat(AnyPacket, q, f) /\ FlattenSeq(q) = f[n]  BY <1>2, FlatIs
  <1> DEFINE P == {k \in Nat : k <= n => /\ it[1 .. k] \in Buffers
                                         /\ FlattenSeq(it[1 .. k]) = f[k]}
  <1>5. 0 \in P
    <2>1. {} \in SUBSET (1 .. n) /\ 1 .. 0 = {}  OBVIOUS
    <2>2. it[{}] = <<<<>>>>  BY <1>3, <2>1 DEF FoldStep
    <2>3. <<>> \in Seq(AnyPacket) /\ <<<<>>>> \in Buffers  BY DEF Buffers
    <2>4. \A e \in Seq(AnyPacket) : FlattenSeq(<<e>>) = e  BY FlattenSmall
    <2>5. FlattenSeq(<<<<>>>>) = <<>> /\ f[0] = <<>>  BY <1>4, <2>3, <2>4 DEF IsFlat
    <2> QED  BY <2>1, <2>2, <2>3, <2>5
  <1>6. ASSUME NEW k \in Nat, k \in P PROVE k + 1 \in P
    <2> SUFFICES ASSUME k + 1 <= n
                 PROVE  it[1 .. k + 1] \in Buffers /\ FlattenSeq(it[1 .. k + 1]) = f[k + 1]
      OBVIOUS
    <2>1. PICK m \in Nat : m = k + 1  OBVIOUS
    <2>2. m \in 1 .. n /\ m - 1 = k /\ (1 .. m) \ {m} = 1 .. k  BY <2>1
    <2>3. Max(1 .. m) = m /\ 1 .. m # {} /\ 1 .. m \in SUBSET (1 .. n)
      <3>1. PICK s \in SUBSET (1 .. m) : s = 1 .. m  OBVIOUS
      <3>2. m \in s  BY <2>2, <3>1
      <3>3. Max(s) = m  BY <3>2, LargestIs
      <3> QED  BY <2>2, <3>1, <3>3
    <2>4. it[1 .. m] = Pack(it[1 .. k], p[m])  BY <1>3, <2>2, <2>3 DEF FoldStep
    <2>5. PICK b \in Buffers : b = it[1 .. k] /\ FlattenSeq(b) = f[k]  BY <1>6
    <2>6. IsMore(AnyPacket, Pack(b, p[m]), b, Units(p[m]))  BY <1>1, <2>2, PackKeeps
    <2>7. Pack(b, p[m]) \in Buffers /\ FlattenSeq(Pack(b, p[m])) = f[k] \o q[m]
      BY <1>2, <2>2, <2>5, <2>6 DEF IsMore, Buffers, Cat
    <2>8. f[m] = f[k] \o q[m]  BY <1>2, <1>4, <2>2 DEF IsFlat
    <2> QED  BY <2>1, <2>4, <2>5, <2>7, <2>8
  <1> HIDE DEF P
  <1>7. \A k \in Nat : k \in P  BY <1>5, <1>6, AllNaturals
  <1>8. n \in P /\ n \in Nat  BY <1>7
  <1> QED  BY <1>2, <1>3, <1>4, <1>8 DEF P, q

-----------------------------------------------------------------------------
(***************************************************************************)
(* The stream of a connection: what was read, what is on the wire, and the *)
(* units in the buffers and in the queue of the senders.                   *)
(***************************************************************************)
Stream(r, w, f, b) == Cat(Cat(r, w), Cat(f, b))

\* A sender or the thread adds u.
LEMMA StreamGrows ==
  ASSUME NEW X, NEW r \in Seq(X), NEW w \in Seq(X), NEW f \in Seq(X), NEW b \in Seq(X),
         NEW u \in Seq(X)
  PROVE  /\ Stream(r, w, f, Cat(b, u)) = Cat(Stream(r, w, f, b), u)
         /\ Stream(r, w, Cat(f, u), <<>>) = Cat(Stream(r, w, f, <<>>), u)
  <1>1. PICK rw \in Seq(X) : rw = Cat(r, w)  BY CatLaws
  <1>2. PICK fb \in Seq(X) : fb = Cat(f, b)  BY CatLaws
  <1>3. PICK fu \in Seq(X) : fu = Cat(f, u)  BY CatLaws
  <1>4. Cat(f, Cat(b, u)) = Cat(fb, u)  BY <1>2, CatLaws
  <1>5. Cat(rw, Cat(fb, u)) = Cat(Cat(rw, fb), u)  BY CatLaws
  <1>6. Cat(fu, <<>>) = fu /\ Cat(f, <<>>) = f  BY CatLaws
  <1>7. Cat(rw, Cat(f, u)) = Cat(Cat(rw, f), u)  BY CatLaws
  <1> QED  BY <1>1, <1>2, <1>3, <1>4, <1>5, <1>6, <1>7 DEF Stream

\* Units move from the queue to the buffers, and from there onto the wire.
LEMMA StreamMoves ==
  ASSUME NEW X, NEW r \in Seq(X), NEW w \in Seq(X), NEW f \in Seq(X), NEW b \in Seq(X),
         NEW u \in Seq(X)
  PROVE  /\ Stream(r, w, Cat(f, u), b) = Stream(r, w, f, Cat(u, b))
         /\ Stream(r, Cat(w, u), f, b) = Stream(r, w, Cat(u, f), b)
         /\ Stream(Cat(r, w), <<>>, f, b) = Stream(r, w, f, b)
  <1>1. PICK rw \in Seq(X) : rw = Cat(r, w)  BY CatLaws
  <1>2. PICK fb \in Seq(X) : fb = Cat(f, b)  BY CatLaws
  <1>3. Cat(Cat(f, u), b) = Cat(f, Cat(u, b))  BY CatLaws
  <1>4. Cat(r, Cat(w, u)) = Cat(rw, u)  BY <1>1, CatLaws
  <1>5. Cat(Cat(u, f), b) = Cat(u, fb)  BY <1>2, CatLaws
  <1>6. Cat(Cat(rw, u), fb) = Cat(rw, Cat(u, fb))  BY CatLaws
  <1>7. Cat(rw, <<>>) = rw  BY CatLaws
  <1> QED  BY <1>1, <1>2, <1>3, <1>4, <1>5, <1>6, <1>7 DEF Stream

\* What a write of the socket does to the stream.
LEMMA StreamOnWire ==
  \A r, w, f, b, u \in Seq(AnyPacket) :
      Stream(r, Cat(w, u), f, b) = Stream(r, w, Cat(u, f), b)
  BY StreamMoves

-----------------------------------------------------------------------------
(***************************************************************************)
(* Buffers and nodes.                                                      *)
(***************************************************************************)
LEMMA FlattenCat ==
  \A X : \A q, r \in Seq(Seq(X)) :
      /\ q \o r \in Seq(Seq(X))
      /\ FlattenSeq(q \o r) = Cat(FlattenSeq(q), FlattenSeq(r))
  <1> TAKE X
  <1> TAKE q, r \in Seq(Seq(X))
  <1>1. q \o r \in Seq(Seq(X))  BY ConcatProperties
  <1>2. FlattenSeq(q \o r) = FlattenSeq(q) \o FlattenSeq(r)  BY FlattenConcat
  <1> QED  BY <1>1, <1>2 DEF Cat

\* The first buffer, and what is left after it.
LEMMA FlattenHead ==
  ASSUME NEW X, NEW q \in Seq(Seq(X)), q # <<>>
  PROVE  /\ Head(q) \in Seq(X) /\ Tail(q) \in Seq(Seq(X))
         /\ FlattenSeq(Tail(q)) \in Seq(X)
         /\ FlattenSeq(q) = Cat(Head(q), FlattenSeq(Tail(q)))
  <1>1. PICK h \in Seq(X), t \in Seq(Seq(X)) : h = Head(q) /\ t = Tail(q)
    BY HeadTailProperties
  <1>2. q = <<h>> \o t /\ <<h>> \in Seq(Seq(X))  BY <1>1
  <1>3. PICK s \in Seq(Seq(X)) : s = <<h>>  BY <1>2
  <1>4. FlattenSeq(s) = h  BY <1>3, FlattenSmall
  <1>5. FlattenSeq(s \o t) = Cat(FlattenSeq(s), FlattenSeq(t))  BY FlattenCat
  <1>6. FlattenSeq(t) \in Seq(X)  BY FlattenType
  <1> QED  BY <1>1, <1>2, <1>3, <1>4, <1>5, <1>6

\* The first buffer cut short.
LEMMA FlattenCut ==
  ASSUME NEW X, NEW q \in Seq(Seq(X)), q # <<>>, NEW e \in Seq(X)
  PROVE  /\ [q EXCEPT ![1] = e] \in Seq(Seq(X)) /\ [q EXCEPT ![1] = e] # <<>>
         /\ FlattenSeq([q EXCEPT ![1] = e]) = Cat(e, FlattenSeq(Tail(q)))
  <1>1. PICK r : r = [q EXCEPT ![1] = e]  OBVIOUS
  <1>2. Len(q) \in Nat \ {0} /\ 1 \in 1 .. Len(q)  OBVIOUS
  <1>3. /\ r \in Seq(Seq(X)) /\ Len(r) = Len(q)
        /\ \A j \in 1 .. Len(q) : r[j] = IF j = 1 THEN e ELSE q[j]
    BY <1>1, <1>2, ExceptSeq
  <1>4. r # <<>> /\ Head(r) = e  BY <1>2, <1>3
  <1>5. PICK t \in Seq(Seq(X)), s \in Seq(Seq(X)) : t = Tail(q) /\ s = Tail(r)
    BY <1>3, <1>4, HeadTailProperties
  <1>6. /\ Len(t) = Len(q) - 1 /\ \A i \in 1 .. Len(t) : t[i] = q[i + 1]
        /\ Len(s) = Len(r) - 1 /\ \A i \in 1 .. Len(s) : s[i] = r[i + 1]
    BY <1>3, <1>4, <1>5, HeadTailProperties
  <1>7. Len(s) = Len(t)  BY <1>3, <1>6
  <1>8. ASSUME NEW i \in 1 .. Len(s) PROVE s[i] = t[i]
    <2>1. i + 1 \in 1 .. Len(q) /\ i + 1 # 1  BY <1>2, <1>6, <1>7
    <2>2. r[i + 1] = q[i + 1]  BY <1>3, <2>1
    <2> QED  BY <1>6, <1>7, <2>2
  <1>9. s = t  BY <1>7, <1>8, SeqEqual
  <1>10. FlattenSeq(r) = Cat(Head(r), FlattenSeq(Tail(r)))  BY <1>3, <1>4, FlattenHead
  <1> QED  BY <1>1, <1>3, <1>4, <1>5, <1>9, <1>10

LEMMA CutInTwo ==
  ASSUME NEW X, NEW b \in Seq(X), NEW n \in Nat, n <= Len(b)
  PROVE  /\ Sent(b, n) \in Seq(X) /\ Rest(b, n) \in Seq(X) /\ Len(Sent(b, n)) = n
         /\ Cat(Sent(b, n), Rest(b, n)) = b
  <1>1. 1 \in 1 .. Len(b) + 1 /\ n \in 1 - 1 .. Len(b) /\ Len(b) \in n .. Len(b)
    OBVIOUS
  <1>2. SubSeq(b, 1, n) \o SubSeq(b, n + 1, Len(b)) = SubSeq(b, 1, Len(b))
    BY <1>1, ConcatAdjacentSubSeq
  <1>3. SubSeq(b, 1, Len(b)) = b  BY SubSeqFull
  <1>4. SubSeq(b, 1, n) \in Seq(X) /\ SubSeq(b, n + 1, Len(b)) \in Seq(X)  OBVIOUS
  <1>5. Len(SubSeq(b, 1, n)) = n  OBVIOUS
  <1> QED  BY <1>2, <1>3, <1>4, <1>5 DEF Sent, Rest, Cat

Node == [packet : AnyPacket, linked : BOOLEAN]
PacketsOf(q, n) == [k \in 1 .. n |-> q[k].packet]
QueueUnits(q) == [k \in DOMAIN q |-> Units(q[k].packet)]
InQueue(q) == FlattenSeq(QueueUnits(q))

LEMMA QueueType ==
  ASSUME NEW q \in Seq(Node)
  PROVE  /\ QueueUnits(q) \in Seq(Seq(AnyPacket)) /\ Len(QueueUnits(q)) = Len(q)
         /\ \A k \in 1 .. Len(q) :
                /\ q[k].packet \in AnyPacket /\ Units(q[k].packet) \in Seq(AnyPacket)
                /\ QueueUnits(q)[k] = Units(q[k].packet)
         /\ InQueue(q) \in Seq(AnyPacket)
  <1>1. DOMAIN q = 1 .. Len(q) /\ Len(q) \in Nat  OBVIOUS
  <1>2. ASSUME NEW k \in 1 .. Len(q)
        PROVE  q[k].packet \in AnyPacket /\ Units(q[k].packet) \in Seq(AnyPacket)
    <2>1. q[k] \in Node  OBVIOUS
    <2>2. q[k].packet \in AnyPacket  BY <2>1 DEF Node
    <2> QED  BY <2>2, UnitsAre
  <1>3. \A k \in 1 .. Len(q) : QueueUnits(q)[k] = Units(q[k].packet)
    BY <1>1 DEF QueueUnits
  <1>4. QueueUnits(q) \in Seq(Seq(AnyPacket)) /\ Len(QueueUnits(q)) = Len(q)
    BY <1>1, <1>2 DEF QueueUnits
  <1>5. InQueue(q) \in Seq(AnyPacket)  BY <1>4, FlattenType DEF InQueue
  <1> QED  BY <1>2, <1>3, <1>4, <1>5

LEMMA QueueAppend ==
  ASSUME NEW q \in Seq(Node), NEW node \in Node
  PROVE  /\ Append(q, node) \in Seq(Node)
         /\ InQueue(Append(q, node)) = Cat(InQueue(q), Units(node.packet))
  <1>1. node.packet \in AnyPacket  BY DEF Node
  <1>2. PICK u \in Seq(AnyPacket) : u = Units(node.packet)  BY <1>1, UnitsAre
  <1>3. PICK r \in Seq(Node) : r = Append(q, node)  BY AppendProperties
  <1>4. /\ Len(r) = Len(q) + 1 /\ r[Len(q) + 1] = node
        /\ \A i \in 1 .. Len(q) : r[i] = q[i]
    BY <1>3, AppendProperties
  <1>5. PICK a \in Seq(Seq(AnyPacket)), b \in Seq(Seq(AnyPacket)) :
           a = QueueUnits(q) /\ b = QueueUnits(r)
    BY QueueType
  <1>6. PICK d \in Seq(Seq(AnyPacket)) : d = Append(a, u)  BY AppendProperties
  <1>7. /\ Len(d) = Len(q) + 1 /\ d[Len(q) + 1] = u
        /\ \A i \in 1 .. Len(q) : d[i] = Units(q[i].packet)
    BY <1>5, <1>6, QueueType, AppendProperties
  <1>8. /\ Len(b) = Len(q) + 1 /\ Len(q) \in Nat
        /\ \A i \in 1 .. Len(q) + 1 : b[i] = Units(r[i].packet)
    BY <1>4, <1>5, QueueType
  <1>9. ASSUME NEW i \in 1 .. Len(q) + 1 PROVE b[i] = d[i]
    <2>1. CASE i = Len(q) + 1  BY <1>2, <1>4, <1>7, <1>8, <2>1
    <2>2. CASE i \in 1 .. Len(q)  BY <1>4, <1>7, <1>8, <2>2
    <2> QED  BY <1>8, <2>1, <2>2
  <1>10. b = d  BY <1>7, <1>8, <1>9, SeqEqual
  <1>11. FlattenSeq(Append(a, u)) = FlattenSeq(a) \o u  BY FlattenAppend
  <1> QED  BY <1>2, <1>3, <1>5, <1>6, <1>10, <1>11 DEF InQueue, Cat

\* The node at k is linked to its predecessor.
LEMMA QueueLink ==
  ASSUME NEW q \in Seq(Node), NEW r, NEW p,
         r = [k \in DOMAIN q |-> IF q[k].packet = p
                                 THEN [q[k] EXCEPT !.linked = TRUE] ELSE q[k]]
  PROVE  r \in Seq(Node) /\ InQueue(r) = InQueue(q) /\ (q = <<>> => r = <<>>)
  <1>1. DOMAIN q = 1 .. Len(q) /\ Len(q) \in Nat  OBVIOUS
  <1>2. ASSUME NEW k \in 1 .. Len(q) PROVE r[k] \in Node /\ r[k].packet = q[k].packet
    <2>1. q[k] \in Node  OBVIOUS
    <2>2. r[k] = q[k] \/ r[k] = [q[k] EXCEPT !.linked = TRUE]  BY <1>1
    <2> QED  BY <2>1, <2>2 DEF Node
  <1>3. r \in Seq(Node) /\ Len(r) = Len(q)
    <2>1. DOMAIN r = 1 .. Len(q)  BY <1>1
    <2>2. r = [k \in 1 .. Len(q) |-> r[k]]  BY <1>1, <2>1
    <2>3. [k \in 1 .. Len(q) |-> r[k]] \in Seq(Node)  BY <1>1, <1>2
    <2> QED  BY <1>1, <2>1, <2>2, <2>3
  <1>4. \A k \in 1 .. Len(q) : QueueUnits(r)[k] = QueueUnits(q)[k]
    <2>1. \A k \in 1 .. Len(r) : QueueUnits(r)[k] = Units(r[k].packet)
      BY <1>3, QueueType
    <2>2. \A k \in 1 .. Len(q) : QueueUnits(q)[k] = Units(q[k].packet)
      BY QueueType
    <2> QED  BY <1>2, <1>3, <2>1, <2>2
  <1>5. PICK a \in Seq(Seq(AnyPacket)), b \in Seq(Seq(AnyPacket)) :
           a = QueueUnits(q) /\ b = QueueUnits(r) /\ Len(a) = Len(q) /\ Len(b) = Len(q)
    BY <1>3, QueueType
  <1>6. a = b  BY <1>4, <1>5, SeqEqual
  <1> QED  BY <1>3, <1>5, <1>6 DEF InQueue

LEMMA ReadyIs ==
  ASSUME NEW q \in Seq(Node)
  PROVE  Ready(q) \in 0 .. Len(q)
  <1> DEFINE S == {n \in 0 .. Len(q) : n < Len(q) => ~q[n + 1].linked}
  <1>1. Len(q) \in Nat /\ Len(q) \in S  OBVIOUS
  <1>2. S \subseteq Nat /\ S # {}  BY <1>1
  <1>3. PICK m \in S : \A n \in S : m <= n  BY <1>2, LeastOfNaturals
  <1>4. ASSUME NEW k \in 1 .. m PROVE q[k].linked
    <2>1. m \in 0 .. Len(q)  BY <1>3
    <2>2. k - 1 \in 0 .. Len(q) /\ k - 1 < Len(q) /\ (k - 1) + 1 = k /\ ~(m <= k - 1)
      BY <1>1, <2>1
    <2>3. k - 1 \notin S  BY <1>3, <2>2
    <2> QED  BY <2>2, <2>3
  <1>5. \E n \in 0 .. Len(q) : /\ \A k \in 1 .. n : q[k].linked
                               /\ n < Len(q) => ~q[n + 1].linked
    BY <1>3, <1>4
  <1> QED  BY <1>5 DEF Ready

\* The first n nodes leave the queue.
LEMMA QueueSplit ==
  ASSUME NEW q \in Seq(Node), NEW n \in 0 .. Len(q)
  PROVE  /\ PacketsOf(q, n) \in Seq(AnyPacket)
         /\ SubSeq(q, n + 1, Len(q)) \in Seq(Node)
         /\ InQueue(q) = Cat(FlattenSeq(UnitsOf(PacketsOf(q, n))),
                             InQueue(SubSeq(q, n + 1, Len(q))))
  <1>1. Len(q) \in Nat /\ n \in Nat  OBVIOUS
  <1>2. PICK p : p = PacketsOf(q, n)  OBVIOUS
  <1>3. p \in Seq(AnyPacket) /\ Len(p) = n /\ \A k \in 1 .. n : p[k] = q[k].packet
    <2>1. \A k \in 1 .. n : q[k].packet \in AnyPacket  BY QueueType
    <2> QED  BY <1>1, <1>2, <2>1 DEF PacketsOf
  <1>4. PICK r : r = SubSeq(q, n + 1, Len(q))  OBVIOUS
  <1>5. r \in Seq(Node) /\ Len(r) = Len(q) - n /\ \A k \in 1 .. Len(q) - n : r[k] = q[n + k]
    <2>1. \A i \in n + 1 .. Len(q) : q[i] \in Node  OBVIOUS
    <2> QED  BY <1>1, <1>4, <2>1, SubSeqProperties
  <1>6. PICK a \in Seq(Seq(AnyPacket)), b \in Seq(Seq(AnyPacket)), d \in Seq(Seq(AnyPacket)) :
           a = UnitsOf(p) /\ b = QueueUnits(r) /\ d = QueueUnits(q)
    BY <1>3, <1>5, PackAll, QueueType
  <1>7. /\ Len(a) = n /\ \A k \in 1 .. n : a[k] = Units(q[k].packet)
        /\ Len(b) = Len(q) - n /\ \A k \in 1 .. Len(q) - n : b[k] = Units(q[n + k].packet)
        /\ Len(d) = Len(q) /\ \A k \in 1 .. Len(q) : d[k] = Units(q[k].packet)
    <2>1. Len(a) = n /\ \A k \in 1 .. n : a[k] = Units(q[k].packet)
      BY <1>1, <1>3, <1>6 DEF UnitsOf
    <2>2. Len(b) = Len(r) /\ \A k \in 1 .. Len(r) : b[k] = Units(r[k].packet)
      BY <1>5, <1>6, QueueType
    <2>3. Len(b) = Len(q) - n /\ \A k \in 1 .. Len(q) - n : b[k] = Units(q[n + k].packet)
      BY <1>5, <2>2
    <2>4. Len(d) = Len(q) /\ \A k \in 1 .. Len(q) : d[k] = Units(q[k].packet)
      BY <1>6, QueueType
    <2> QED  BY <2>1, <2>3, <2>4
  <1>8. PICK e \in Seq(Seq(AnyPacket)) : e = a \o b  BY ConcatProperties
  <1>9. Len(e) = Len(q) /\ \A k \in 1 .. Len(q) : e[k] = IF k <= n THEN a[k] ELSE b[k - n]
    <2>1. /\ Len(e) = Len(a) + Len(b)
          /\ \A k \in 1 .. Len(a) + Len(b) :
                e[k] = IF k <= Len(a) THEN a[k] ELSE b[k - Len(a)]
      BY <1>8, ConcatProperties
    <2>2. Len(a) = n /\ Len(b) = Len(q) - n  BY <1>7
    <2>3. Len(a) + Len(b) = Len(q)  BY <1>1, <2>2
    <2> QED  BY <2>1, <2>2, <2>3
  <1>10. ASSUME NEW k \in 1 .. Len(q) PROVE e[k] = d[k]
    <2>1. CASE k <= n  BY <1>1, <1>7, <1>9, <2>1
    <2>2. CASE ~(k <= n)
      <3>1. k - n \in 1 .. Len(q) - n /\ n + (k - n) = k  BY <1>1, <2>2
      <3> QED  BY <1>7, <1>9, <2>2, <3>1
    <2> QED  BY <2>1, <2>2
  <1>11. e = d  BY <1>7, <1>9, <1>10, SeqEqual
  <1>12. FlattenSeq(a \o b) = Cat(FlattenSeq(a), FlattenSeq(b))  BY FlattenCat
  <1> QED  BY <1>2, <1>3, <1>4, <1>5, <1>6, <1>8, <1>11, <1>12 DEF InQueue

-----------------------------------------------------------------------------
(***************************************************************************)
(* What is stored for the connections: of the right kind, no more on the   *)
(* wire than there is room for, and each stream that lasts intact.         *)
(***************************************************************************)
StoredTypes ==
    /\ bufferQueue \in [Conns -> Seq(Node)]
    /\ writeQueue \in [Conns -> Seq(Seq(AnyPacket))]
    /\ wire \in [Conns -> Seq(AnyPacket)]
    /\ received \in [Conns -> Seq(AnyPacket)]
    /\ sent \in [Conns -> Seq(AnyPacket)]

Lasts(c) == c \notin closed /\ client[c] # "gone"

Intact(c) ==
    Stream(received[c], wire[c], FlattenSeq(writeQueue[c]), InQueue(bufferQueue[c])) = sent[c]

Stored ==
    /\ StoredTypes
    /\ \A c \in Conns : Len(wire[c]) <= Room
    /\ \A c \in Conns : Lasts(c) => Intact(c)

\* A connection that has closed or is gone stays so.
EndsStay == \A c \in Conns : Lasts(c)' => Lasts(c)

LEMMA StoredAt ==
  ASSUME NEW c \in Conns, StoredTypes
  PROVE  /\ bufferQueue[c] \in Seq(Node) /\ writeQueue[c] \in Seq(Seq(AnyPacket))
         /\ wire[c] \in Seq(AnyPacket) /\ received[c] \in Seq(AnyPacket)
         /\ sent[c] \in Seq(AnyPacket)
         /\ FlattenSeq(writeQueue[c]) \in Seq(AnyPacket)
         /\ InQueue(bufferQueue[c]) \in Seq(AnyPacket)
  <1>1. /\ bufferQueue[c] \in Seq(Node) /\ writeQueue[c] \in Seq(Seq(AnyPacket))
        /\ wire[c] \in Seq(AnyPacket) /\ received[c] \in Seq(AnyPacket)
        /\ sent[c] \in Seq(AnyPacket)
    BY DEF StoredTypes
  <1>2. FlattenSeq(writeQueue[c]) \in Seq(AnyPacket)  BY <1>1, FlattenType
  <1>3. InQueue(bufferQueue[c]) \in Seq(AnyPacket)  BY <1>1, QueueType
  <1> QED  BY <1>1, <1>2, <1>3

\* A step that stores something else at d alone.
LEMMA StoredChanges ==
  ASSUME Stored, NEW d \in Conns, EndsStay,
         NEW q \in Seq(Node), NEW f \in Seq(Seq(AnyPacket)), NEW w \in Seq(AnyPacket),
         NEW r \in Seq(AnyPacket), NEW s \in Seq(AnyPacket), Len(w) <= Room,
         bufferQueue' = [bufferQueue EXCEPT ![d] = q],
         writeQueue' = [writeQueue EXCEPT ![d] = f],
         wire' = [wire EXCEPT ![d] = w],
         received' = [received EXCEPT ![d] = r],
         sent' = [sent EXCEPT ![d] = s],
         Lasts(d) => Stream(r, w, FlattenSeq(f), InQueue(q)) = s
  PROVE  Stored'
  <1>1. StoredTypes /\ \A c \in Conns : Len(wire[c]) <= Room  BY DEF Stored
  <1>2. StoredTypes'  BY <1>1 DEF StoredTypes
  <1>3. \A c \in Conns \ {d} : /\ bufferQueue'[c] = bufferQueue[c]
                               /\ writeQueue'[c] = writeQueue[c]
                               /\ wire'[c] = wire[c] /\ received'[c] = received[c]
                               /\ sent'[c] = sent[c]
    BY <1>1 DEF StoredTypes
  <1>4. /\ bufferQueue'[d] = q /\ writeQueue'[d] = f /\ wire'[d] = w
        /\ received'[d] = r /\ sent'[d] = s
    BY <1>1 DEF StoredTypes
  <1>5. \A c \in Conns : Len(wire'[c]) <= Room  BY <1>1, <1>3, <1>4
  <1>6. ASSUME NEW c \in Conns, Lasts(c)' PROVE Intact(c)'
    <2>1. Lasts(c)  BY <1>6 DEF EndsStay
    <2>2. CASE c = d  BY <1>4, <2>1, <2>2 DEF Intact
    <2>3. CASE c # d
      <3>1. Intact(c)  BY <2>1 DEF Stored
      <3> QED  BY <1>3, <2>3, <3>1 DEF Intact
    <2> QED  BY <2>2, <2>3
  <1> QED  BY <1>2, <1>5, <1>6 DEF Stored

LEMMA SameAt ==
  ASSUME NEW D, NEW S, NEW f \in [D -> S], NEW d \in D
  PROVE  [f EXCEPT ![d] = f[d]] = f
  OBVIOUS

\* Most steps leave what is stored alone.
LEMMA StoredStays ==
  ASSUME Stored, EndsStay, UNCHANGED <<outgoing, wire, received>>
  PROVE  Stored'
  <1>1. StoredTypes' /\ \A c \in Conns : Len(wire'[c]) <= Room
    BY DEF Stored, StoredTypes, outgoing
  <1>2. ASSUME NEW c \in Conns, Lasts(c)' PROVE Intact(c)'
    <2>1. Lasts(c) /\ Intact(c)  BY <1>2 DEF EndsStay, Stored
    <2> QED  BY <2>1 DEF Intact, outgoing
  <1> QED  BY <1>1, <1>2 DEF Stored

-----------------------------------------------------------------------------
(***************************************************************************)
(* The operations of a socket keep its stream.                             *)
(***************************************************************************)
Enqueues(c, node) ==
    /\ bufferQueue' = [bufferQueue EXCEPT ![c] = Append(@, node)]
    /\ sent' = [sent EXCEPT ![c] = @ \o Units(node.packet)]

LEMMA EnqueueKeeps ==
  ASSUME Stored, EndsStay, NEW c \in Conns, NEW node \in Node, Enqueues(c, node),
         UNCHANGED <<writeQueue, wire, received>>
  PROVE  Stored'
  <1>0. StoredTypes  BY DEF Stored
  <1>1. PICK q \in Seq(Node), f \in Seq(Seq(AnyPacket)), w \in Seq(AnyPacket),
             r \in Seq(AnyPacket), s \in Seq(AnyPacket) :
           q = bufferQueue[c] /\ f = writeQueue[c] /\ w = wire[c]
           /\ r = received[c] /\ s = sent[c]
    BY <1>0, StoredAt
  <1>2. node.packet \in AnyPacket  BY DEF Node
  <1>3. PICK u \in Seq(AnyPacket) : u = Units(node.packet)  BY <1>2, UnitsAre
  <1>4. PICK a \in Seq(Node) : a = Append(q, node)  BY QueueAppend
  <1>5. InQueue(a) = Cat(InQueue(q), u)  BY <1>3, <1>4, QueueAppend
  <1>6. PICK t \in Seq(AnyPacket) : t = Cat(s, u)  BY CatLaws
  <1>7. FlattenSeq(f) \in Seq(AnyPacket) /\ InQueue(q) \in Seq(AnyPacket)
    BY <1>0, <1>1, StoredAt
  <1>8. Stream(r, w, FlattenSeq(f), InQueue(a)) = Cat(Stream(r, w, FlattenSeq(f), InQueue(q)), u)
    BY <1>5, <1>7, StreamGrows
  <1>9. Lasts(c) => Stream(r, w, FlattenSeq(f), InQueue(q)) = s
    BY <1>1 DEF Stored, Intact
  <1>10. Lasts(c) => Stream(r, w, FlattenSeq(f), InQueue(a)) = t  BY <1>6, <1>8, <1>9
  <1>11. /\ bufferQueue' = [bufferQueue EXCEPT ![c] = a]
         /\ sent' = [sent EXCEPT ![c] = t]
    BY <1>1, <1>3, <1>4, <1>6 DEF Cat, Enqueues
  <1>12. /\ writeQueue' = [writeQueue EXCEPT ![c] = f]
         /\ wire' = [wire EXCEPT ![c] = w] /\ received' = [received EXCEPT ![c] = r]
    BY <1>0, <1>1, SameAt DEF StoredTypes
  <1>13. Len(w) <= Room  BY <1>1 DEF Stored
  <1> QED  BY <1>10, <1>11, <1>12, <1>13, StoredChanges

LEMMA LinkKeeps ==
  ASSUME Stored, EndsStay, NEW c \in Conns, NEW p, Link(c, p),
         UNCHANGED <<writeQueue, wire, received, sent>>
  PROVE  Stored'
  <1>0. StoredTypes  BY DEF Stored
  <1>1. PICK q \in Seq(Node), f \in Seq(Seq(AnyPacket)), w \in Seq(AnyPacket),
             r \in Seq(AnyPacket), s \in Seq(AnyPacket) :
           q = bufferQueue[c] /\ f = writeQueue[c] /\ w = wire[c]
           /\ r = received[c] /\ s = sent[c]
    BY <1>0, StoredAt
  <1>2. PICK a : a = [k \in DOMAIN q |-> IF q[k].packet = p
                                         THEN [q[k] EXCEPT !.linked = TRUE] ELSE q[k]]
    OBVIOUS
  <1>3. a \in Seq(Node) /\ InQueue(a) = InQueue(q)  BY <1>2, QueueLink
  <1>4. bufferQueue' = [bufferQueue EXCEPT ![c] = a]  BY <1>1, <1>2 DEF Link
  <1>5. /\ writeQueue' = [writeQueue EXCEPT ![c] = f]
        /\ wire' = [wire EXCEPT ![c] = w] /\ received' = [received EXCEPT ![c] = r]
        /\ sent' = [sent EXCEPT ![c] = s]
    BY <1>0, <1>1, SameAt DEF StoredTypes
  <1>6. Lasts(c) => Stream(r, w, FlattenSeq(f), InQueue(a)) = s
    BY <1>1, <1>3 DEF Stored, Intact
  <1>7. Len(w) <= Room  BY <1>1 DEF Stored
  <1> QED  BY <1>3, <1>4, <1>5, <1>6, <1>7, StoredChanges

\* QueuePacket puts its packet before what waits in the queue: nothing may.
LEMMA QueuePacketKeeps ==
  ASSUME Stored, EndsStay, NEW c \in Conns, NEW p \in AnyPacket, QueuePacket(c, p),
         bufferQueue[c] = <<>>, UNCHANGED <<bufferQueue, wire, received>>
  PROVE  Stored'
  <1>0. StoredTypes  BY DEF Stored
  <1>1. PICK q \in Seq(Node), f \in Seq(Seq(AnyPacket)), w \in Seq(AnyPacket),
             r \in Seq(AnyPacket), s \in Seq(AnyPacket) :
           q = bufferQueue[c] /\ f = writeQueue[c] /\ w = wire[c]
           /\ r = received[c] /\ s = sent[c]
    BY <1>0, StoredAt
  <1>2. InQueue(q) = <<>>
    <2>1. QueueUnits(q) = <<>>  BY <1>1 DEF QueueUnits
    <2> QED  BY <2>1, FlattenSmall DEF InQueue
  <1>3. PICK u \in Seq(AnyPacket) : u = Units(p)  BY UnitsAre
  <1>4. PICK a \in Seq(Seq(AnyPacket)) : a = Append(f, u)  BY AppendProperties
  <1>5. FlattenSeq(a) = Cat(FlattenSeq(f), u)  BY <1>4, FlattenAppend DEF Cat
  <1>6. PICK t \in Seq(AnyPacket) : t = Cat(s, u)  BY CatLaws
  <1>7. FlattenSeq(f) \in Seq(AnyPacket) /\ <<>> \in Seq(AnyPacket)
    BY <1>0, <1>1, StoredAt
  <1>8. Stream(r, w, FlattenSeq(a), <<>>) = Cat(Stream(r, w, FlattenSeq(f), <<>>), u)
    BY <1>5, <1>7, StreamGrows
  <1>9. Lasts(c) => Stream(r, w, FlattenSeq(f), InQueue(q)) = s
    BY <1>1 DEF Stored, Intact
  <1>10. Lasts(c) => Stream(r, w, FlattenSeq(a), InQueue(q)) = t
    BY <1>2, <1>6, <1>8, <1>9
  <1>11. /\ writeQueue' = [writeQueue EXCEPT ![c] = a]
         /\ sent' = [sent EXCEPT ![c] = t]
    BY <1>1, <1>3, <1>4, <1>6 DEF QueuePacket, Cat
  <1>12. /\ bufferQueue' = [bufferQueue EXCEPT ![c] = q]
         /\ wire' = [wire EXCEPT ![c] = w] /\ received' = [received EXCEPT ![c] = r]
    BY <1>0, <1>1, SameAt DEF StoredTypes
  <1>13. Len(w) <= Room  BY <1>1 DEF Stored
  <1> QED  BY <1>10, <1>11, <1>12, <1>13, StoredChanges

LEMMA ReadKeeps ==
  ASSUME Stored, EndsStay, NEW c \in Conns, ClientReads(c)
  PROVE  Stored'
  <1>0. StoredTypes  BY DEF Stored
  <1>1. PICK q \in Seq(Node), f \in Seq(Seq(AnyPacket)), w \in Seq(AnyPacket),
             r \in Seq(AnyPacket), s \in Seq(AnyPacket) :
           q = bufferQueue[c] /\ f = writeQueue[c] /\ w = wire[c]
           /\ r = received[c] /\ s = sent[c]
    BY <1>0, StoredAt
  <1>2. PICK a \in Seq(AnyPacket) : a = Cat(r, w)  BY CatLaws
  <1>3. PICK e \in Seq(AnyPacket) : e = <<>>  BY EmptySeq
  <1>4. FlattenSeq(f) \in Seq(AnyPacket) /\ InQueue(q) \in Seq(AnyPacket)
    BY <1>0, <1>1, StoredAt
  <1>5. Stream(a, e, FlattenSeq(f), InQueue(q)) = Stream(r, w, FlattenSeq(f), InQueue(q))
    BY <1>2, <1>3, <1>4, StreamMoves
  <1>6. Lasts(c) => Stream(a, e, FlattenSeq(f), InQueue(q)) = s
    BY <1>1, <1>5 DEF Stored, Intact
  <1>7. received' = [received EXCEPT ![c] = a] /\ wire' = [wire EXCEPT ![c] = e]
    BY <1>1, <1>2, <1>3 DEF ClientReads, Cat
  <1>8. UNCHANGED <<bufferQueue, writeQueue, sent>>  BY DEF ClientReads, outgoing
  <1>9. /\ bufferQueue' = [bufferQueue EXCEPT ![c] = q]
        /\ writeQueue' = [writeQueue EXCEPT ![c] = f] /\ sent' = [sent EXCEPT ![c] = s]
    BY <1>0, <1>1, <1>8, SameAt DEF StoredTypes
  <1>10. Len(e) <= Room  BY <1>3, SocketAssumption
  <1> QED  BY <1>6, <1>7, <1>9, <1>10, StoredChanges

\* The buffers the loop of WorldSocket::Update pushes hold the units of the
\* packets it took from the queue; a last buffer that is empty is not missed.
LEMMA FullBuffers ==
  ASSUME NEW b \in Buffers
  PROVE  LET full == IF Last(b) = <<>> THEN Front(b) ELSE b
         IN  full \in Seq(Seq(AnyPacket)) /\ FlattenSeq(full) = FlattenSeq(b)
  <1>1. b \in Seq(Seq(AnyPacket)) /\ b # <<>>  BY DEF Buffers
  <1>2. CASE Last(b) = <<>>
    <2>1. PICK f \in Seq(Seq(AnyPacket)) : f = Front(b)  BY <1>1, FrontLast
    <2>2. FlattenSeq(b) = FlattenSeq(f) \o <<>>
      BY <1>1, <1>2, <2>1, FlattenFrontLast
    <2>3. FlattenSeq(f) \in Seq(AnyPacket)  BY FlattenType
    <2>4. FlattenSeq(f) \o <<>> = FlattenSeq(f)  BY <2>3, ConcatEmptySeq
    <2> QED  BY <1>2, <2>1, <2>2, <2>4
  <1> QED  BY <1>1, <1>2

LEMMA FlushKeeps ==
  ASSUME Stored, EndsStay, NEW c \in Conns, FlushBufferQueue(c),
         UNCHANGED <<wire, received, sent>>
  PROVE  Stored' /\ (bufferQueue[c] = <<>> => bufferQueue' = bufferQueue)
  <1>0. StoredTypes  BY DEF Stored
  <1>1. PICK q \in Seq(Node), f \in Seq(Seq(AnyPacket)), w \in Seq(AnyPacket),
             r \in Seq(AnyPacket), s \in Seq(AnyPacket) :
           q = bufferQueue[c] /\ f = writeQueue[c] /\ w = wire[c]
           /\ r = received[c] /\ s = sent[c]
    BY <1>0, StoredAt
  <1>2. PICK n \in 0 .. Len(q) : n = Ready(q)  BY ReadyIs
  <1>3. PICK p \in Seq(AnyPacket), a \in Seq(Node) :
           /\ p = PacketsOf(q, n) /\ a = SubSeq(q, n + 1, Len(q))
           /\ InQueue(q) = Cat(FlattenSeq(UnitsOf(p)), InQueue(a))
    BY QueueSplit
  <1>4. PICK b \in Buffers : b = FoldLeft(Pack, <<<<>>>>, p)  BY PackAll
  <1>5. FlattenSeq(b) = FlattenSeq(UnitsOf(p))  BY <1>4, PackAll
  <1>6. PICK g \in Seq(Seq(AnyPacket)) :
           g = (IF Last(b) = <<>> THEN Front(b) ELSE b) /\ FlattenSeq(g) = FlattenSeq(b)
    BY FullBuffers
  <1>7. PICK h \in Seq(Seq(AnyPacket)) :
           h = f \o g /\ FlattenSeq(h) = Cat(FlattenSeq(f), FlattenSeq(g))
    BY FlattenCat
  <1>8. PICK u \in Seq(AnyPacket) : u = FlattenSeq(g)  BY FlattenType
  <1>9. FlattenSeq(f) \in Seq(AnyPacket) /\ InQueue(a) \in Seq(AnyPacket)
    BY FlattenType, QueueType
  <1>10. Stream(r, w, FlattenSeq(h), InQueue(a)) = Stream(r, w, FlattenSeq(f), InQueue(q))
    BY <1>3, <1>5, <1>6, <1>7, <1>8, <1>9, StreamMoves
  <1>11. Lasts(c) => Stream(r, w, FlattenSeq(h), InQueue(a)) = s
    BY <1>1, <1>10 DEF Stored, Intact
  <1>12. /\ bufferQueue' = [bufferQueue EXCEPT ![c] = a]
         /\ writeQueue' = [writeQueue EXCEPT ![c] = h]
    BY <1>1, <1>2, <1>3, <1>4, <1>6, <1>7 DEF FlushBufferQueue, PacketsOf
  <1>13. /\ wire' = [wire EXCEPT ![c] = w] /\ received' = [received EXCEPT ![c] = r]
         /\ sent' = [sent EXCEPT ![c] = s]
    BY <1>0, <1>1, SameAt DEF StoredTypes
  <1>14. Len(w) <= Room  BY <1>1 DEF Stored
  <1>15. Stored'  BY <1>11, <1>12, <1>13, <1>14, StoredChanges
  <1>16. bufferQueue[c] = <<>> => a = bufferQueue[c]  BY <1>1, <1>2, <1>3
  <1>17. bufferQueue[c] = <<>> => bufferQueue' = bufferQueue
    BY <1>0, <1>12, <1>16, SameAt DEF StoredTypes
  <1> QED  BY <1>15, <1>17

\* The steps of HandleQueue: what leaves the first buffer is on the wire.
LEMMA WriteKeeps ==
  ASSUME Stored, EndsStay, NEW c \in Conns,
         NEW h \in Seq(AnyPacket), NEW t \in Seq(Seq(AnyPacket)),
         NEW u \in Seq(AnyPacket), NEW rest \in Seq(AnyPacket),
         NEW g \in Seq(Seq(AnyPacket)),
         FlattenSeq(writeQueue[c]) = Cat(h, FlattenSeq(t)), h = Cat(u, rest),
         FlattenSeq(g) = Cat(rest, FlattenSeq(t)),
         Len(wire[c]) + Len(u) <= Room,
         wire' = [wire EXCEPT ![c] = Cat(wire[c], u)],
         writeQueue' = [writeQueue EXCEPT ![c] = g],
         UNCHANGED <<bufferQueue, received, sent>>
  PROVE  Stored'
  <1>0. StoredTypes  BY DEF Stored
  <1>1. PICK q \in Seq(Node), f \in Seq(Seq(AnyPacket)), w \in Seq(AnyPacket),
             r \in Seq(AnyPacket), s \in Seq(AnyPacket) :
           q = bufferQueue[c] /\ f = writeQueue[c] /\ w = wire[c]
           /\ r = received[c] /\ s = sent[c]
    BY <1>0, StoredAt
  <1>2. PICK x \in Seq(AnyPacket) : x = Cat(w, u)  BY CatLaws
  <1>3. PICK ft \in Seq(AnyPacket) : ft = FlattenSeq(t)  BY FlattenType
  <1>4. PICK fg \in Seq(AnyPacket) : fg = FlattenSeq(g)  BY FlattenType
  <1>5. PICK iq \in Seq(AnyPacket) : iq = InQueue(q)  BY QueueType
  <1>6. Cat(Cat(u, rest), ft) = Cat(u, Cat(rest, ft))  BY CatLaws
  <1>7. FlattenSeq(f) = Cat(u, fg)  BY <1>1, <1>3, <1>4, <1>6
  <1>8. Stream(r, x, fg, iq) = Stream(r, w, FlattenSeq(f), iq)
    <2>1. Stream(r, Cat(w, u), fg, iq) = Stream(r, w, Cat(u, fg), iq)
      BY StreamOnWire
    <2> QED  BY <1>2, <1>7, <2>1
  <1>9. Lasts(c) => Stream(r, x, FlattenSeq(g), InQueue(q)) = s
    BY <1>1, <1>4, <1>5, <1>8 DEF Stored, Intact
  <1>10. Len(x) <= Room
    <2>1. Len(w \o u) = Len(w) + Len(u)  BY ConcatProperties
    <2> QED  BY <1>1, <1>2, <2>1 DEF Cat
  <1>11. wire' = [wire EXCEPT ![c] = x]  BY <1>1, <1>2
  <1>12. /\ bufferQueue' = [bufferQueue EXCEPT ![c] = q]
         /\ received' = [received EXCEPT ![c] = r] /\ sent' = [sent EXCEPT ![c] = s]
    BY <1>0, <1>1, SameAt DEF StoredTypes
  <1> QED  BY <1>9, <1>10, <1>11, <1>12, StoredChanges

\* What a connection that does not last any more had queued is given up.
LEMMA PopKeeps ==
  ASSUME Stored, EndsStay, NEW c \in Conns, NEW g \in Seq(Seq(AnyPacket)),
         writeQueue' = [writeQueue EXCEPT ![c] = g],
         ~Lasts(c), UNCHANGED <<bufferQueue, wire, received, sent>>
  PROVE  Stored'
  <1>0. StoredTypes  BY DEF Stored
  <1>1. PICK q \in Seq(Node), w \in Seq(AnyPacket),
             r \in Seq(AnyPacket), s \in Seq(AnyPacket) :
           q = bufferQueue[c] /\ w = wire[c] /\ r = received[c] /\ s = sent[c]
    BY <1>0, StoredAt
  <1>2. /\ bufferQueue' = [bufferQueue EXCEPT ![c] = q]
        /\ wire' = [wire EXCEPT ![c] = w]
        /\ received' = [received EXCEPT ![c] = r] /\ sent' = [sent EXCEPT ![c] = s]
    BY <1>0, <1>1, SameAt DEF StoredTypes
  <1>3. Len(w) <= Room  BY <1>1 DEF Stored
  <1> QED  BY <1>2, <1>3, StoredChanges

LEMMA HandleKeeps ==
  ASSUME Stored, EndsStay, NEW c \in Conns, HandleQueue(c),
         UNCHANGED <<client, bufferQueue, received, sent>>
  PROVE  Stored'
  <1>0. StoredTypes  BY DEF Stored
  <1>1. PICK f \in Seq(Seq(AnyPacket)), w \in Seq(AnyPacket) :
           f = writeQueue[c] /\ w = wire[c] /\ f # <<>>
    BY <1>0, StoredAt DEF HandleQueue
  <1>2. PICK h \in Seq(AnyPacket), t \in Seq(Seq(AnyPacket)) :
           h = Head(f) /\ t = Tail(f) /\ FlattenSeq(f) = Cat(h, FlattenSeq(t))
    <2>1. /\ Head(f) \in Seq(AnyPacket) /\ Tail(f) \in Seq(Seq(AnyPacket))
          /\ FlattenSeq(f) = Cat(Head(f), FlattenSeq(Tail(f)))
      BY <1>1, FlattenHead
    <2> QED  BY <2>1
  <1>3. PICK e \in Seq(AnyPacket) : e = <<>>  BY EmptySeq
  <1>4. FlattenSeq(t) \in Seq(AnyPacket)  BY FlattenType
  <1>5. /\ FlattenSeq(t) = Cat(e, FlattenSeq(t)) /\ Cat(h, e) = h /\ Cat(w, e) = w
    BY <1>3, <1>4, CatLaws
  <1>6. wire = [wire EXCEPT ![c] = w] /\ Len(w) <= Room
    BY <1>0, <1>1, SameAt DEF Stored, StoredTypes
  <1>7. Len(w) \in Nat /\ Len(h) \in Nat /\ Len(e) = 0 /\ Room \in Nat
    BY <1>3, SocketAssumption
  <1>8. CASE WriteNothing(c)
    <2>1. UNCHANGED wire /\ writeQueue' = [writeQueue EXCEPT ![c] = t]
      BY <1>1, <1>2, <1>8 DEF WriteNothing, PopBuffer
    <2>2. CASE Broken(c)
      <3>1. ~Lasts(c)  BY <2>2 DEF Broken, Lasts
      <3> QED  BY <2>1, <3>1, PopKeeps
    <2>3. CASE h = e
      <3>1. h = Cat(e, e)  BY <1>5, <2>3
      <3>2. wire' = [wire EXCEPT ![c] = Cat(wire[c], e)]  BY <1>1, <1>5, <1>6, <2>1
      <3>3. Len(wire[c]) + Len(e) <= Room  BY <1>1, <1>6, <1>7
      <3>4. FlattenSeq(writeQueue[c]) = Cat(h, FlattenSeq(t))  BY <1>1, <1>2
      <3> QED  BY <1>5, <2>1, <3>1, <3>2, <3>3, <3>4, WriteKeeps
    <2> QED  BY <1>1, <1>2, <1>3, <1>8, <2>2, <2>3 DEF WriteNothing
  <1>9. CASE WriteAll(c)
    <2>1. /\ writeQueue' = [writeQueue EXCEPT ![c] = t]
          /\ wire' = [wire EXCEPT ![c] = Cat(wire[c], h)]
          /\ Len(h) <= Room - Len(w)
      BY <1>1, <1>2, <1>9 DEF WriteAll, PopBuffer, Free, Cat
    <2>2. Len(wire[c]) + Len(h) <= Room  BY <1>1, <1>7, <2>1
    <2>3. FlattenSeq(writeQueue[c]) = Cat(h, FlattenSeq(t))  BY <1>1, <1>2
    <2> QED  BY <1>5, <2>1, <2>2, <2>3, WriteKeeps
  <1>10. CASE WriteSome(c)
    <2>1. PICK n : n = Free(c)  OBVIOUS
    <2>2. n \in Nat /\ n <= Len(h) /\ Len(w) + n = Room
      BY <1>1, <1>2, <1>6, <1>7, <1>10, <2>1 DEF WriteSome, Free
    <2>3. PICK u \in Seq(AnyPacket), rest \in Seq(AnyPacket) :
             u = Sent(h, n) /\ rest = Rest(h, n) /\ Len(u) = n /\ h = Cat(u, rest)
      BY <2>2, CutInTwo
    <2>4. PICK g \in Seq(Seq(AnyPacket)) :
             g = [f EXCEPT ![1] = rest] /\ FlattenSeq(g) = Cat(rest, FlattenSeq(t))
      BY <1>1, <1>2, FlattenCut
    <2>5. Head(f) = f[1]  BY <1>1
    <2>6. wire' = [wire EXCEPT ![c] = Cat(wire[c], u)]
      BY <1>1, <1>2, <1>10, <2>1, <2>3 DEF WriteSome, Cat
    <2>7. writeQueue' = [writeQueue EXCEPT ![c] = g]
      BY <1>1, <1>2, <1>10, <2>1, <2>3, <2>4, <2>5 DEF WriteSome
    <2>8. Len(wire[c]) + Len(u) <= Room  BY <1>1, <1>7, <2>2, <2>3
    <2>9. FlattenSeq(writeQueue[c]) = Cat(h, FlattenSeq(t))  BY <1>1, <1>2
    <2> QED  BY <2>3, <2>4, <2>6, <2>7, <2>8, <2>9, WriteKeeps
  <1> QED  BY <1>8, <1>9, <1>10 DEF HandleQueue

-----------------------------------------------------------------------------
(***************************************************************************)
(* The steps of the network threads.  StreamInv in the parts that are left *)
(* when HandOver is known.                                                 *)
(***************************************************************************)
FlagTypes ==
    /\ closed \subseteq Conns /\ closing \subseteq Conns
    /\ reading \subseteq Conns /\ writing \subseteq Conns
    /\ authed \subseteq Conns
    /\ optionErrors \in 0 .. MaxOptionErrors
    /\ query \in [Conns -> {"none", "ip", "auth"}]
    /\ sender \in [Senders -> [at : {"idle", "checked", "exchanged"},
                               conn : Conns \cup {NoConn}, packet : AnyPacket]]

Greeted == \A c \in Conns : NotGreeted(c) => Untouched(c)

SendersAuthed ==
    \A s \in Senders : sender[s].at # "idle" => sender[s].conn \in authed

StreamParts == Stored /\ FlagTypes /\ Greeted /\ SendersAuthed

LEMMA PartsOfStreamInv == HandOver => (StreamInv <=> StreamParts)
  <1> SUFFICES ASSUME HandOver PROVE StreamInv <=> StreamParts  OBVIOUS
  <1>1. TypeOK <=> StoredTypes /\ FlagTypes
    BY DEF HandOver, HandOverTypes, TypeOK, SocketTypeOK, StoredTypes, FlagTypes, Node
  <1>2. StreamIntact <=> \A c \in Conns : Lasts(c) => Intact(c)
    BY DEF StreamIntact, Lasts, Intact, Stream, Cat, Unsent, InQueue, QueueUnits
  <1> QED
    BY <1>1, <1>2 DEF StreamInv, StreamParts, Stored, Greeted, SendersAuthed

LEMMA SocketStays ==
  ASSUME Stored, UNCHANGED socketVars
  PROVE  Stored'
  <1>1. EndsStay  BY DEF EndsStay, Lasts, socketVars, flags
  <1>2. UNCHANGED <<outgoing, wire, received>>  BY DEF socketVars, outgoing
  <1> QED  BY <1>1, <1>2, StoredStays

\* A thread past the start of its update is at a connection it has registered.
LEMMA AtConnection ==
  ASSUME HandOver, NEW t \in NetThreads, net[t].at \notin {"run", "sockets"}
  PROVE  /\ net[t].conn \in Conns /\ client[net[t].conn] # "away"
         /\ \A u \in NetThreads : acceptSocket[u] # net[t].conn
  <1>1. net[t].conn \in sockets[t] /\ sockets[t] \in SUBSET Conns
    BY DEF HandOver, AtOwnSocket, HandOverTypes
  <1>2. net[t].conn \in Registered(t) /\ net[t].conn \in Conns
    BY <1>1 DEF Registered
  <1>3. client[net[t].conn] # "away"  BY <1>2 DEF HandOver, OnItsWay
  <1>4. \A u \in NetThreads : acceptSocket[u] # NoConn => acceptSocket[u] \notin Registered(t)
    BY DEF HandOver, OnItsWay
  <1> QED  BY <1>2, <1>3, <1>4, NetworkAssumption

LEMMA AtCallback ==
  ASSUME HandOver, NEW t \in NetThreads, NEW q, Answered(t, q)
  PROVE  /\ net[t].conn \in Conns /\ client[net[t].conn] # "away"
         /\ \A u \in NetThreads : acceptSocket[u] # net[t].conn
  BY AtConnection DEF Answered

LEMMA HandleEnds ==
  ASSUME NEW c \in Conns, HandleQueue(c), UNCHANGED client
  PROVE  EndsStay /\ closed' \subseteq closed \cup {c}
  BY DEF HandleQueue, WriteNothing, WriteAll, WriteSome, PopBuffer, CloseSocket,
         EndsStay, Lasts

LEMMA StoredThread ==
  ASSUME HandOver, StreamParts, NEW t \in NetThreads, ThreadStep(t)
  PROVE  Stored'
  <1>0. Stored /\ Greeted  BY DEF StreamParts
  <1>1. CASE BeginUpdate(t) \/ EndUpdate(t) \/ RemoveClosed(t) \/ CheckQueue(t) \/ NoCallback(t)
    <2>1. UNCHANGED socketVars
      BY <1>1 DEF BeginUpdate, EndUpdate, RemoveClosed, CheckQueue, NoCallback
    <2> QED  BY <1>0, <2>1, SocketStays
  <1>2. ASSUME NEW c \in Conns, UpdateSocket(t, c) PROVE Stored'
    <2>1. FlushBufferQueue(c) /\ UNCHANGED <<client, closed, wire, received, sent>>
      BY <1>2 DEF UpdateSocket, flags
    <2>2. EndsStay  BY <2>1 DEF EndsStay, Lasts
    <2> QED  BY <1>0, <2>1, <2>2, FlushKeeps
  <1>3. CASE WriteQueue(t)
    <2>1. net[t].conn \in Conns  BY <1>3, AtConnection DEF WriteQueue
    <2>2. UNCHANGED <<client, bufferQueue, received, sent>>  BY <1>3 DEF WriteQueue
    <2>3. CASE UNCHANGED <<closed, writing, writeQueue, wire>>
      <3>1. EndsStay /\ UNCHANGED <<outgoing, wire, received>>
        BY <2>2, <2>3 DEF EndsStay, Lasts, outgoing
      <3> QED  BY <1>0, <3>1, StoredStays
    <2>4. CASE HandleQueue(net[t].conn)
      BY <1>0, <2>1, <2>2, <2>4, HandleEnds, HandleKeeps
    <2> QED  BY <1>3, <2>3, <2>4 DEF WriteQueue
  <1>4. CASE Answered(t, "ip") \/ Answered(t, "auth")
    <2>1. UNCHANGED <<client, closed, wire, received>>  BY <1>4 DEF Answered
    <2>2. EndsStay  BY <2>1 DEF EndsStay, Lasts
    <2>3. CASE UNCHANGED outgoing  BY <1>0, <2>1, <2>2, <2>3, StoredStays
    <2>4. PICK c \in Conns : c = net[t].conn  BY <1>4, AtCallback
    <2>5. CASE Greet(t)
      <3>1. query[c] = "ip" /\ QueuePacket(c, Greeting) /\ UNCHANGED bufferQueue
        BY <2>4, <2>5 DEF Greet, Answered
      <3>2. bufferQueue[c] = <<>>  BY <1>0, <3>1 DEF Greeted, NotGreeted, Untouched
      <3>3. Greeting \in AnyPacket  BY DEF AnyPacket
      <3> QED  BY <1>0, <2>1, <2>2, <3>1, <3>2, <3>3, QueuePacketKeeps
    <2>6. CASE Refuse(t) /\ ~UNCHANGED outgoing
      <3>1. PICK node : node = [packet |-> Denial, linked |-> TRUE]  OBVIOUS
      <3>2. node \in Node /\ node.packet = Denial  BY <3>1 DEF Node, AnyPacket
      <3>3. UNCHANGED writeQueue /\ Enqueues(c, node)
        BY <2>4, <2>6, <3>1, <3>2 DEF Refuse, Enqueues, outgoing
      <3> QED  BY <1>0, <2>1, <2>2, <3>2, <3>3, EnqueueKeeps
    <2>7. Banned(t) \/ Accept(t) => UNCHANGED outgoing  BY DEF Banned, Accept
    <2>8. Banned(t) \/ Greet(t) \/ Refuse(t) \/ Accept(t) \/ NoCallback(t) \/ BeginUpdate(t)
          \/ EndUpdate(t) \/ RemoveClosed(t) \/ CheckQueue(t) \/ WriteQueue(t)
          \/ \E d \in Conns : UpdateSocket(t, d)
      BY DEF ThreadStep
    <2> QED  BY <1>1, <1>2, <1>3, <2>3, <2>5, <2>6, <2>7, <2>8
  <1>5. Banned(t) \/ Greet(t) \/ Refuse(t) \/ Accept(t)
        => Answered(t, "ip") \/ Answered(t, "auth")
    BY DEF Banned, Greet, Refuse, Accept
  <1> QED  BY <1>1, <1>2, <1>3, <1>4, <1>5 DEF ThreadStep

LEMMA StoredHandler ==
  ASSUME Stored, NEW c \in Conns, Handler(c)
  PROVE  Stored'
  <1>1. CASE WriteReady(c)
    <2>1. HandleQueue(c) /\ UNCHANGED <<client, bufferQueue, received, sent>>
      BY <1>1 DEF WriteReady
    <2> QED  BY <2>1, HandleEnds, HandleKeeps
  <1>2. CASE ReadError(c) \/ ReadPackets(c) \/ ReadMalformed(c) \/ ReadAuth(c)
    <2>1. UNCHANGED <<client, outgoing, wire, received>> /\ closed \subseteq closed'
      BY <1>2 DEF ReadError, ReadPackets, ReadMalformed, ReadAuth, CloseSocket, flags
    <2>2. EndsStay  BY <2>1 DEF EndsStay, Lasts
    <2> QED  BY <2>1, <2>2, StoredStays
  <1> QED  BY <1>1, <1>2 DEF Handler

LEMMA StoredSender ==
  ASSUME StreamParts, NEW s \in Senders, SenderStep(s)
  PROVE  Stored'
  <1>0. Stored /\ FlagTypes /\ SendersAuthed  BY DEF StreamParts
  <1>1. ASSUME NEW c \in Conns, \/ \E p \in Packets : CallSendPacket(s, c, p)
                                \/ SenderCloses(s, c) \/ SenderDelaysClose(s, c)
        PROVE  Stored'
    <2>1. UNCHANGED <<client, outgoing, wire, received>> /\ closed \subseteq closed'
      BY <1>1 DEF CallSendPacket, SenderCloses, SenderDelaysClose, CloseSocket,
                  socketVars, outgoing
    <2>2. EndsStay  BY <2>1 DEF EndsStay, Lasts
    <2> QED  BY <1>0, <2>1, <2>2, StoredStays
  <1>2. CASE EnqueueExchange(s) \/ EnqueueLink(s)
    <2>1. UNCHANGED <<client, closed, writeQueue, wire, received>>
      BY <1>2 DEF EnqueueExchange, EnqueueLink, flags
    <2>2. EndsStay  BY <2>1 DEF EndsStay, Lasts
    <2>3. sender[s].at # "idle"  BY <1>2 DEF EnqueueExchange, EnqueueLink
    <2>4. PICK c \in Conns : c = sender[s].conn
      BY <1>0, <2>3 DEF SendersAuthed, FlagTypes
    <2>5. PICK p \in AnyPacket : p = sender[s].packet  BY <1>0 DEF FlagTypes
    <2>6. CASE EnqueueExchange(s)
      <3>1. PICK node : node = [packet |-> p, linked |-> FALSE]  OBVIOUS
      <3>2. node \in Node /\ node.packet = p  BY <3>1 DEF Node
      <3>3. Enqueues(c, node)
        BY <2>4, <2>5, <2>6, <3>1, <3>2 DEF EnqueueExchange, Exchange, Enqueues
      <3> QED  BY <1>0, <2>1, <2>2, <3>2, <3>3, EnqueueKeeps
    <2>7. CASE EnqueueLink(s)
      <3>1. Link(c, p) /\ UNCHANGED sent  BY <2>4, <2>5, <2>7 DEF EnqueueLink
      <3> QED  BY <1>0, <2>1, <2>2, <3>1, LinkKeeps
    <2> QED  BY <1>2, <2>6, <2>7
  <1> QED  BY <1>1, <1>2 DEF SenderStep

LEMMA StoredAcceptor ==
  ASSUME HandOver, Stored, NEW a \in Acceptors,
         (\E c \in Conns : AcceptConnection(a, c)) \/ AcceptorStep(a)
  PROVE  Stored'
  <1>1. ASSUME NEW c \in Conns, AcceptConnection(a, c) PROVE Stored'
    <2>1. /\ UNCHANGED <<closed, outgoing, wire, received>>
          /\ client[c] = "away"
          /\ client' = [client EXCEPT ![c] = "open"] \/ client' = [client EXCEPT ![c] = "gone"]
      BY <1>1 DEF AcceptConnection, flags
    <2>2. client \in [Conns -> {"away", "open", "gone"}]  BY DEF HandOver, HandOverTypes
    <2>3. EndsStay  BY <2>1, <2>2 DEF EndsStay, Lasts
    <2> QED  BY <2>1, <2>3, StoredStays
  <1>2. CASE AcceptorStep(a)
    <2>1. UNCHANGED socketVars
      BY <1>2 DEF AcceptorStep, OnSocketOpen, OptionError, AddSocket, AsyncAccept
    <2> QED  BY <2>1, SocketStays
  <1> QED  BY <1>1, <1>2

LEMMA StoredClient ==
  ASSUME HandOver, Stored, NEW c \in Conns, ClientStep(c)
  PROVE  Stored'
  <1>1. CASE ClientReads(c)
    <2>1. EndsStay  BY <1>1 DEF ClientReads, EndsStay, Lasts, flags
    <2> QED  BY <1>1, <2>1, ReadKeeps
  <1>2. CASE ClientLeaves(c)
    <2>1. UNCHANGED <<closed, outgoing, wire, received>>
          /\ client' = [client EXCEPT ![c] = "gone"]
      BY <1>2 DEF ClientLeaves, flags
    <2>2. client \in [Conns -> {"away", "open", "gone"}]  BY DEF HandOver, HandOverTypes
    <2>3. EndsStay  BY <2>1, <2>2 DEF EndsStay, Lasts
    <2> QED  BY <2>1, <2>3, StoredStays
  <1> QED  BY <1>1, <1>2 DEF ClientStep

-----------------------------------------------------------------------------
(***************************************************************************)
(* The flags keep their types, nothing is queued before the greeting, and  *)
(* senders use sockets that are authenticated.                             *)
(***************************************************************************)
LEMMA FlagsStay ==
  ASSUME FlagTypes, UNCHANGED <<optionErrors, query, sender>>,
         closed' \cup closing' \cup reading' \cup writing' \cup authed' \subseteq Conns
  PROVE  FlagTypes'
  BY DEF FlagTypes

\* Whoever is not greeted yet was not, and gets nothing.
LEMMA GreetingComesFirst ==
  ASSUME Greeted, SendersAuthed, authed \subseteq authed',
         \A c \in Conns : NotGreeted(c)' =>
             NotGreeted(c) /\ (Untouched(c) => Untouched(c)'),
         UNCHANGED sender
  PROVE  Greeted' /\ SendersAuthed'
  BY DEF Greeted, SendersAuthed

LEMMA NoNewcomers ==
  ASSUME UNCHANGED <<client, query, acceptSocket>>, NEW c
  PROVE  NotGreeted(c)' = NotGreeted(c)
  BY DEF NotGreeted

LEMMA FlagsAcceptor ==
  ASSUME HandOver, StreamParts, NEW a \in Acceptors,
         (\E c \in Conns : AcceptConnection(a, c)) \/ AcceptorStep(a)
  PROVE  FlagTypes' /\ Greeted' /\ SendersAuthed'
  <1>0. FlagTypes /\ Greeted /\ SendersAuthed /\ NetworkAssumption
    BY NetworkAssumption DEF StreamParts
  <1>1. /\ client \in [Conns -> {"away", "open", "gone"}]
        /\ acceptSocket \in [NetThreads -> Conns \cup {NoConn}]
        /\ acceptor[a].thread \in NetThreads
    BY DEF HandOver, HandOverTypes
  <1>2. ASSUME UNCHANGED <<closed, closing, reading, writing, authed, bufferQueue, sender>>,
               \A c \in Conns : NotGreeted(c)' => NotGreeted(c)
        PROVE  Greeted' /\ SendersAuthed'
    <2>1. \A c \in Conns : Untouched(c)' = Untouched(c)  BY <1>2 DEF Untouched
    <2> QED  BY <1>0, <1>2, <2>1, GreetingComesFirst
  <1>3. ASSUME NEW c \in Conns, AcceptConnection(a, c)
        PROVE  FlagTypes' /\ Greeted' /\ SendersAuthed'
    <2>1. /\ UNCHANGED <<closed, closing, reading, writing, authed, bufferQueue, sender,
                         query, optionErrors>>
          /\ client[c] = "away"
          /\ \E x \in {"open", "gone"} : client' = [client EXCEPT ![c] = x]
          /\ \/ UNCHANGED acceptSocket
             \/ acceptSocket' = [acceptSocket EXCEPT ![acceptor[a].thread] = c]
      BY <1>3 DEF AcceptConnection, flags, outgoing
    <2>2. FlagTypes'  BY <1>0, <2>1 DEF FlagTypes
    <2>3. ASSUME NEW d \in Conns, NotGreeted(d)' PROVE NotGreeted(d)
      <3>1. CASE d = c  BY <2>1, <3>1 DEF NotGreeted
      <3>2. CASE d # c
        <4>1. client'[d] = client[d] /\ query'[d] = query[d]  BY <1>1, <2>1, <3>2
        <4>2. \A t \in NetThreads : acceptSocket'[t] = d => acceptSocket[t] = d
          BY <1>1, <2>1, <3>2
        <4> QED  BY <2>3, <4>1, <4>2 DEF NotGreeted
      <3> QED  BY <3>1, <3>2
    <2> QED  BY <1>2, <2>1, <2>2, <2>3
  <1>4. CASE OnSocketOpen(a)
    <2>t. PICK t \in NetThreads : t = acceptor[a].thread  BY <1>1
    <2>c. PICK c : c = acceptSocket[t]  OBVIOUS
    <2>1. t = acceptor[a].thread /\ c = acceptSocket[t]  BY <2>t, <2>c
    <2>2. /\ UNCHANGED <<client, closed, closing, reading, writing, authed, bufferQueue,
                         sender, optionErrors>>
          /\ acceptSocket' = [acceptSocket EXCEPT ![t] = NoConn]
          /\ UNCHANGED query \/ query' = [query EXCEPT ![c] = "ip"]
      BY <1>4, <2>1 DEF OnSocketOpen, socketVars, flags, outgoing
    <2>3. Assigned(a)  BY <1>4 DEF OnSocketOpen, Assigned
    <2>4. c \in Conns  BY <1>1, <2>1, <2>3 DEF HandOver, OnItsWay
    <2>5. FlagTypes'  BY <1>0, <2>2, <2>4 DEF FlagTypes
    <2>6. ASSUME NEW d \in Conns, NotGreeted(d)' PROVE NotGreeted(d)
      <3>1. CASE d = c  BY <2>1, <3>1 DEF NotGreeted
      <3>2. CASE d # c
        <4>1. client'[d] = client[d] /\ query'[d] = query[d]
          BY <1>0, <2>2, <3>2 DEF FlagTypes
        <4>2. \A u \in NetThreads : acceptSocket'[u] = d => acceptSocket[u] = d
          BY <1>0, <1>1, <2>2, <3>2 DEF NetworkAssumption
        <4> QED  BY <2>6, <4>1, <4>2 DEF NotGreeted
      <3> QED  BY <3>1, <3>2
    <2> QED  BY <1>2, <2>2, <2>5, <2>6
  <1>5. CASE OptionError(a) \/ AddSocket(a) \/ AsyncAccept(a)
    <2>1. UNCHANGED <<client, closed, closing, reading, writing, authed, bufferQueue,
                      sender, query, acceptSocket>>
      BY <1>5 DEF OptionError, AddSocket, AsyncAccept, socketVars, flags, outgoing
    <2>2. optionErrors' \in 0 .. MaxOptionErrors
      <3>1. CASE OptionError(a)
        <4>1. optionErrors < MaxOptionErrors /\ optionErrors' = optionErrors + 1
          BY <3>1 DEF OptionError
        <4> QED  BY <1>0, <4>1 DEF FlagTypes, NetworkAssumption
      <3>2. CASE AddSocket(a) \/ AsyncAccept(a)
        BY <1>0, <3>2 DEF AddSocket, AsyncAccept, FlagTypes
      <3> QED  BY <1>5, <3>1, <3>2
    <2>3. FlagTypes'  BY <1>0, <2>1, <2>2 DEF FlagTypes
    <2>4. \A c \in Conns : NotGreeted(c)' = NotGreeted(c)  BY <2>1, NoNewcomers
    <2> QED  BY <1>2, <2>1, <2>3, <2>4
  <1> QED  BY <1>3, <1>4, <1>5 DEF AcceptorStep

LEMMA FlagsClient ==
  ASSUME HandOver, StreamParts, NEW c \in Conns, ClientStep(c)
  PROVE  FlagTypes' /\ Greeted' /\ SendersAuthed'
  <1>0. FlagTypes /\ Greeted /\ SendersAuthed  BY DEF StreamParts
  <1>1. /\ UNCHANGED <<closed, closing, reading, writing, authed, bufferQueue, sender,
                       query, acceptSocket, optionErrors>>
        /\ client[c] = "open"
        /\ UNCHANGED client \/ client' = [client EXCEPT ![c] = "gone"]
    BY DEF ClientStep, ClientReads, ClientLeaves, acceptVars, flags, outgoing
  <1>2. FlagTypes'  BY <1>0, <1>1 DEF FlagTypes
  <1>3. client \in [Conns -> {"away", "open", "gone"}]  BY DEF HandOver, HandOverTypes
  <1>4. \A d \in Conns : NotGreeted(d)' => NotGreeted(d)  BY <1>1, <1>3 DEF NotGreeted
  <1>5. \A d \in Conns : Untouched(d)' = Untouched(d)  BY <1>1 DEF Untouched
  <1> QED  BY <1>0, <1>1, <1>2, <1>4, <1>5, GreetingComesFirst

LEMMA FlagsHandler ==
  ASSUME StreamParts, NEW c \in Conns, Handler(c)
  PROVE  FlagTypes' /\ Greeted' /\ SendersAuthed'
  <1>0. FlagTypes /\ Greeted /\ SendersAuthed  BY DEF StreamParts
  <1>1. /\ UNCHANGED <<client, closing, authed, bufferQueue, sender, acceptSocket, optionErrors>>
        /\ reading' \subseteq reading
        /\ UNCHANGED query \/ (c \in reading /\ query' = [query EXCEPT ![c] = "auth"])
    BY DEF Handler, ReadError, ReadPackets, ReadMalformed, ReadAuth, WriteReady,
           acceptVars, flags, outgoing
  <1>2. closed' \subseteq closed \cup {c}
    <2>1. HandleQueue(c) /\ UNCHANGED client => closed' \subseteq closed \cup {c}
      BY HandleEnds
    <2>2. WriteReady(c) => HandleQueue(c) /\ UNCHANGED client  BY DEF WriteReady
    <2>3. ~WriteReady(c) => closed' \subseteq closed \cup {c}
      BY DEF Handler, ReadError, ReadPackets, ReadMalformed, ReadAuth, CloseSocket, flags
    <2> QED  BY <2>1, <2>2, <2>3
  <1>3. writing' \subseteq writing
    BY DEF Handler, ReadError, ReadPackets, ReadMalformed, ReadAuth, WriteReady
  <1>4. FlagTypes'  BY <1>0, <1>1, <1>2, <1>3 DEF FlagTypes
  <1>5. ASSUME NEW d \in Conns, NotGreeted(d)'
        PROVE  NotGreeted(d) /\ (Untouched(d) => Untouched(d)')
    <2>1. Untouched(d) => Untouched(d)'  BY <1>1 DEF Untouched
    <2>2. query[d] \in {"none", "ip", "auth"} /\ query \in [Conns -> {"none", "ip", "auth"}]
      BY <1>0 DEF FlagTypes
    <2>3. query'[d] = "ip" => query[d] = "ip"  BY <1>1, <2>2
    <2> QED  BY <1>1, <1>5, <2>1, <2>3 DEF NotGreeted
  <1> QED  BY <1>0, <1>1, <1>4, <1>5, GreetingComesFirst

LEMMA FlagsThread ==
  ASSUME HandOver, StreamParts, NEW t \in NetThreads, ThreadStep(t)
  PROVE  FlagTypes' /\ Greeted' /\ SendersAuthed'
  <1>0. Stored /\ FlagTypes /\ Greeted /\ SendersAuthed  BY DEF StreamParts
  <1>1. UNCHANGED <<client, acceptSocket, optionErrors, sender>>
    BY DEF ThreadStep, BeginUpdate, EndUpdate, UpdateSocket, RemoveClosed, CheckQueue,
           WriteQueue, NoCallback, Banned, Greet, Refuse, Accept, Answered,
           acceptVars, socketVars
  <1>2. CASE BeginUpdate(t) \/ EndUpdate(t) \/ RemoveClosed(t) \/ CheckQueue(t) \/ NoCallback(t)
    <2>1. UNCHANGED <<closed, closing, reading, writing, authed, query, bufferQueue>>
      BY <1>2 DEF BeginUpdate, EndUpdate, RemoveClosed, CheckQueue, NoCallback,
                  socketVars, flags, outgoing
    <2>2. FlagTypes'  BY <1>0, <1>1, <2>1 DEF FlagTypes
    <2>3. \A c \in Conns : NotGreeted(c)' = NotGreeted(c) /\ Untouched(c)' = Untouched(c)
      BY <1>1, <2>1 DEF NotGreeted, Untouched
    <2> QED  BY <1>0, <1>1, <2>1, <2>2, <2>3, GreetingComesFirst
  <1>3. ASSUME NEW c \in Conns, UpdateSocket(t, c)
        PROVE  FlagTypes' /\ Greeted' /\ SendersAuthed'
    <2>1. /\ UNCHANGED <<closed, closing, reading, writing, authed, query>>
          /\ FlushBufferQueue(c) /\ UNCHANGED <<wire, received, sent>>
      BY <1>3 DEF UpdateSocket, flags
    <2>2. FlagTypes'  BY <1>0, <1>1, <2>1 DEF FlagTypes
    <2>3. EndsStay  BY <1>1, <2>1 DEF EndsStay, Lasts
    <2>4. bufferQueue[c] = <<>> => bufferQueue' = bufferQueue
      BY <1>0, <2>1, <2>3, FlushKeeps
    <2>5. \A d \in Conns \ {c} : bufferQueue'[d] = bufferQueue[d]
      BY <1>0, <2>1 DEF FlushBufferQueue, Stored, StoredTypes
    <2>6. \A d \in Conns : Untouched(d) => Untouched(d)'
      BY <2>1, <2>4, <2>5 DEF Untouched
    <2>7. \A d \in Conns : NotGreeted(d)' = NotGreeted(d)
      BY <1>1, <2>1, NoNewcomers
    <2> QED  BY <1>0, <1>1, <2>1, <2>2, <2>6, <2>7, GreetingComesFirst
  <1>4. CASE WriteQueue(t)
    <2>1. net[t].conn \in Conns  BY <1>4, AtConnection DEF WriteQueue
    <2>2. PICK c \in Conns : c = net[t].conn  BY <2>1
    <2>3. /\ UNCHANGED <<closing, reading, authed, query, bufferQueue>>
          /\ writing' \subseteq writing \cup {c}
          /\ UNCHANGED closed \/ HandleQueue(c)
      BY <1>4, <2>2 DEF WriteQueue
    <2>4. closed' \subseteq closed \cup {c}  BY <1>1, <2>3, HandleEnds
    <2>5. FlagTypes'  BY <1>0, <1>1, <2>3, <2>4 DEF FlagTypes
    <2>6. \A d \in Conns : NotGreeted(d)' = NotGreeted(d) /\ Untouched(d)' = Untouched(d)
      BY <1>1, <2>3 DEF NotGreeted, Untouched
    <2> QED  BY <1>0, <1>1, <2>3, <2>5, <2>6, GreetingComesFirst
  <1>5. CASE Banned(t) \/ Greet(t) \/ Refuse(t) \/ Accept(t)
    <2>1. Answered(t, "ip") \/ Answered(t, "auth")
      BY <1>5 DEF Banned, Greet, Refuse, Accept
    <2>2. PICK c \in Conns : /\ c = net[t].conn /\ client[c] # "away"
                             /\ \A u \in NetThreads : acceptSocket[u] # c
      BY <2>1, AtCallback
    <2>3. /\ UNCHANGED <<closed, writing>>
          /\ query' = [query EXCEPT ![c] = "none"]
      BY <2>1, <2>2 DEF Answered
    <2>4. /\ closing' \subseteq closing \cup {c} /\ reading' \subseteq reading \cup {c}
          /\ authed \subseteq authed' /\ authed' \subseteq authed \cup {c}
      BY <1>5, <2>2 DEF Banned, Greet, Refuse, Accept, StartReading
    <2>5. \A d \in Conns \ {c} : bufferQueue'[d] = bufferQueue[d]
      BY <1>0, <1>5, <2>2 DEF Banned, Greet, Refuse, Accept, outgoing, Stored, StoredTypes
    <2>6. FlagTypes'  BY <1>0, <1>1, <2>3, <2>4 DEF FlagTypes
    <2>7. ~NotGreeted(c)'  BY <1>0, <1>1, <2>2, <2>3 DEF FlagTypes, NotGreeted
    <2>8. ASSUME NEW d \in Conns, NotGreeted(d)'
          PROVE  NotGreeted(d) /\ (Untouched(d) => Untouched(d)')
      <3>1. d # c  BY <2>7, <2>8
      <3>2. query'[d] = query[d]  BY <1>0, <2>3, <3>1 DEF FlagTypes
      <3>3. NotGreeted(d)  BY <1>1, <2>8, <3>2 DEF NotGreeted
      <3>4. Untouched(d) => Untouched(d)'  BY <2>4, <2>5, <3>1 DEF Untouched
      <3> QED  BY <3>3, <3>4
    <2> QED  BY <1>0, <1>1, <2>4, <2>6, <2>8, GreetingComesFirst
  <1> QED  BY <1>2, <1>3, <1>4, <1>5 DEF ThreadStep

LEMMA FlagsSender ==
  ASSUME StreamParts, NEW s \in Senders, SenderStep(s)
  PROVE  FlagTypes' /\ Greeted' /\ SendersAuthed'
  <1>0. Stored /\ FlagTypes /\ Greeted /\ SendersAuthed  BY DEF StreamParts
  <1>1. /\ UNCHANGED <<client, reading, writing, authed, query, acceptSocket, optionErrors>>
        /\ closed' \cup closing' \subseteq Conns
    BY <1>0 DEF SenderStep, CallSendPacket, EnqueueExchange, EnqueueLink, SenderCloses,
                SenderDelaysClose, CloseSocket, acceptVars, socketVars, flags, FlagTypes
  <1>2. \A c \in Conns : NotGreeted(c)' = NotGreeted(c)  BY <1>1, NoNewcomers
  <1>3. ASSUME NEW c \in Conns, SenderCloses(s, c) \/ SenderDelaysClose(s, c)
        PROVE  FlagTypes' /\ Greeted' /\ SendersAuthed'
    <2>1. UNCHANGED <<bufferQueue, sender>>
      BY <1>3 DEF SenderCloses, SenderDelaysClose, outgoing
    <2>2. FlagTypes'  BY <1>0, <1>1, <2>1 DEF FlagTypes
    <2>3. \A d \in Conns : Untouched(d)' = Untouched(d)  BY <1>1, <2>1 DEF Untouched
    <2> QED  BY <1>0, <1>1, <1>2, <2>1, <2>2, <2>3, GreetingComesFirst
  <1>4. ASSUME NEW c \in Conns, NEW p \in Packets, CallSendPacket(s, c, p)
        PROVE  FlagTypes' /\ Greeted' /\ SendersAuthed'
    <2>1. /\ UNCHANGED bufferQueue /\ c \in authed
          /\ sender' = [sender EXCEPT ![s] =
                           [at |-> "checked", conn |-> c, packet |-> p]]
      BY <1>4 DEF CallSendPacket, socketVars, outgoing
    <2>2. [at |-> "checked", conn |-> c, packet |-> p]
             \in [at : {"idle", "checked", "exchanged"}, conn : Conns \cup {NoConn},
                  packet : AnyPacket]
      BY DEF AnyPacket
    <2>3. FlagTypes'  BY <1>0, <1>1, <2>1, <2>2 DEF FlagTypes
    <2>4. Greeted'  BY <1>0, <1>1, <1>2, <2>1 DEF Greeted, Untouched
    <2>5. SendersAuthed'  BY <1>0, <1>1, <2>1 DEF SendersAuthed, FlagTypes
    <2> QED  BY <2>3, <2>4, <2>5
  <1>5. CASE EnqueueExchange(s) \/ EnqueueLink(s)
    <2>1. PICK c \in Conns : c = sender[s].conn /\ c \in authed
      BY <1>0, <1>5 DEF EnqueueExchange, EnqueueLink, SendersAuthed, FlagTypes
    <2>2. sender' = [sender EXCEPT ![s].at = "exchanged"] \/ sender' = [sender EXCEPT ![s] = Idle]
      BY <1>5 DEF EnqueueExchange, EnqueueLink
    <2>3. sender[s].at # "idle"  BY <1>5 DEF EnqueueExchange, EnqueueLink
    <2>4. Idle \in [at : {"idle", "checked", "exchanged"}, conn : Conns \cup {NoConn},
                    packet : AnyPacket]
      BY DEF Idle, AnyPacket
    <2>5. FlagTypes'  BY <1>0, <1>1, <2>2, <2>4 DEF FlagTypes
    <2>6. SendersAuthed'
      BY <1>0, <1>1, <2>2, <2>3 DEF SendersAuthed, FlagTypes, Idle
    <2>7. \A d \in Conns \ {c} : bufferQueue'[d] = bufferQueue[d]
      BY <1>0, <1>5, <2>1 DEF EnqueueExchange, EnqueueLink, Exchange, Link, Stored, StoredTypes
    <2>8. ASSUME NEW d \in Conns, NotGreeted(d)' PROVE Untouched(d)'
      <3>1. Untouched(d)  BY <1>0, <1>2, <2>8 DEF Greeted
      <3>2. d # c  BY <2>1, <3>1 DEF Untouched
      <3> QED  BY <1>1, <2>7, <3>1, <3>2 DEF Untouched
    <2> QED  BY <2>5, <2>6, <2>8 DEF Greeted
  <1> QED  BY <1>3, <1>4, <1>5 DEF SenderStep

-----------------------------------------------------------------------------
LEMMA StreamInit == Init => StreamParts
  <1> SUFFICES ASSUME Init PROVE StreamParts  OBVIOUS
  <1>1. <<>> \in Seq(Node) /\ <<>> \in Seq(Seq(AnyPacket)) /\ <<>> \in Seq(AnyPacket)
    BY EmptySeq
  <1>2. StoredTypes  BY <1>1 DEF Init, SocketInit, StoredTypes
  <1>3. ASSUME NEW c \in Conns PROVE Len(wire[c]) <= Room /\ Intact(c)
    <2>1. /\ bufferQueue[c] = <<>> /\ writeQueue[c] = <<>> /\ wire[c] = <<>>
          /\ received[c] = <<>> /\ sent[c] = <<>>
      BY DEF Init, SocketInit
    <2>2. Len(wire[c]) <= Room  BY <2>1, SocketAssumption
    <2>3. QueueUnits(<<>>) = <<>>  BY DEF QueueUnits
    <2>4. FlattenSeq(<<>>) = <<>>  BY <1>1, FlattenSmall
    <2>5. Cat(<<>>, <<>>) = <<>>  BY DEF Cat
    <2>6. Intact(c)  BY <2>1, <2>3, <2>4, <2>5 DEF Intact, InQueue, Stream
    <2> QED  BY <2>2, <2>6
  <1>4. FlagTypes
    BY NetworkAssumption DEF Init, SocketInit, FlagTypes, Idle, AnyPacket
  <1>5. Greeted  BY DEF Init, SocketInit, Greeted, Untouched
  <1>6. SendersAuthed  BY DEF Init, SendersAuthed, Idle
  <1> QED  BY <1>2, <1>3, <1>4, <1>5, <1>6 DEF StreamParts, Stored

LEMMA StreamStep == HandOver /\ StreamParts /\ [Next]_vars => StreamParts'
  <1> SUFFICES ASSUME HandOver, StreamParts, [Next]_vars PROVE StreamParts'  OBVIOUS
  <1>0. Stored  BY DEF StreamParts
  <1>1. CASE \E a \in Acceptors : \/ \E c \in Conns : AcceptConnection(a, c)
                                  \/ AcceptorStep(a)
    BY <1>0, <1>1, StoredAcceptor, FlagsAcceptor DEF StreamParts
  <1>2. CASE \E t \in NetThreads : ThreadStep(t)
    BY <1>2, StoredThread, FlagsThread DEF StreamParts
  <1>3. CASE \E c \in Conns : Handler(c)
    BY <1>0, <1>3, StoredHandler, FlagsHandler DEF StreamParts
  <1>4. CASE \E c \in Conns : ClientStep(c)
    BY <1>0, <1>4, StoredClient, FlagsClient DEF StreamParts
  <1>5. CASE \E s \in Senders : SenderStep(s)
    BY <1>5, StoredSender, FlagsSender DEF StreamParts
  <1>6. CASE UNCHANGED vars
    <2>1. Stored'  BY <1>0, <1>6, SocketStays DEF vars
    <2>2. FlagTypes'
      BY <1>6 DEF vars, socketVars, flags, acceptVars, StreamParts, FlagTypes
    <2>3. Greeted' /\ SendersAuthed'
      BY <1>6 DEF vars, socketVars, flags, outgoing, acceptVars, StreamParts, Greeted,
                  SendersAuthed, NotGreeted, Untouched
    <2> QED  BY <2>1, <2>2, <2>3 DEF StreamParts
  <1> QED  BY <1>1, <1>2, <1>3, <1>4, <1>5, <1>6 DEF Next

\* Together with HandOver, StreamInv is inductive.
THEOREM StreamInvariant == Spec => [](HandOver /\ StreamInv)
  <1>1. Init => HandOver /\ StreamParts  BY HandOverInit, StreamInit
  <1>2. HandOver /\ StreamParts /\ [Next]_vars => (HandOver /\ StreamParts)'
    BY HandOverStep, StreamStep
  <1>3. HandOver /\ StreamParts => HandOver /\ StreamInv  BY PartsOfStreamInv
  <1> QED  BY <1>1, <1>2, <1>3, PTL DEF Spec

(***************************************************************************)
(* The state of sockets, threads, acceptors and senders stays well typed.  *)
(***************************************************************************)
THEOREM NetworkTypes == Spec => []TypeOK
  <1>1. HandOver /\ StreamInv => TypeOK  BY DEF StreamInv
  <1> QED  BY <1>1, StreamInvariant, PTL

(***************************************************************************)
(* Whatever is sent through a socket, by any number of threads and in      *)
(* packets of any size, comes to the client whole and in the order of the  *)
(* queue as long as the connection lasts: neither WorldSocket::Update's    *)
(* packing, nor HandleQueue's partial writes, nor a sender that has taken  *)
(* its place in the queue and is not linked yet loses or reorders a unit.  *)
(***************************************************************************)
THEOREM StreamIsIntact == Spec => []StreamIntact
  <1>1. HandOver /\ StreamInv => StreamIntact  BY DEF StreamInv
  <1> QED  BY <1>1, StreamInvariant, PTL
=============================================================================
