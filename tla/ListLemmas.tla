---------------------------- MODULE ListLemmas -----------------------------
(***************************************************************************)
(* What the models take from the library and from each other's idioms, as  *)
(* facts to cite: the least and the greatest of some numbers, a set put in *)
(* order, the members of a list, a page of a feed, a post put on top of a  *)
(* feed and one taken out of it.  Nothing here is about a component.       *)
(***************************************************************************)
EXTENDS Integers, Sequences, FiniteSets, FiniteSetsExt, SequencesExt,
        FiniteSetTheorems, FunctionTheorems, NaturalsInduction, TLAPS

-----------------------------------------------------------------------------
(* Numbers.                                                                *)


\* A set of numbers has a least member.
LEMMA LeastIn ==
    ASSUME NEW R, NEW T, T \subseteq Nat, T # {}, IsWellFoundedOn(R, Nat),
           \A x, y \in Nat : y < x => <<y, x>> \in R
    PROVE  \E x \in T : \A y \in T : x <= y
<1>1. PICK x \in T : \A y \in T : ~ (<<y, x>> \in R)
  BY WFMin
<1>2. ASSUME NEW y \in T PROVE x <= y
  <2>1. x \in Nat /\ y \in Nat
    OBVIOUS
  <2>2. ~ (y < x)
    BY <1>1, <2>1, Zenon
  <2> QED
    BY <2>1, <2>2
<1> QED
  BY <1>2

\* The same, with the order of the numbers for the relation.
LEMMA Least == ASSUME NEW T, T \subseteq Nat, T # {} PROVE \E x \in T : \A y \in T : x <= y
<1>1. IsWellFoundedOn(OpToRel(<, Nat), Nat)
  BY NatLessThanWellFounded
<1>2. \A x, y \in Nat : y < x => <<y, x>> \in OpToRel(<, Nat)
  BY Zenon DEF OpToRel
<1>3. \E R : IsWellFoundedOn(R, Nat) /\ \A x, y \in Nat : y < x => <<y, x>> \in R
  BY <1>1, <1>2, Zenon
<1> QED
  BY <1>3, LeastIn, Zenon

\* Min picks the least of some numbers.
LEMMA MinIsLeast ==
    ASSUME NEW T, T \subseteq Nat, T # {}
    PROVE  Min(T) \in T /\ \A y \in T : Min(T) <= y
<1>1. \E x \in T : \A y \in T : x <= y
  BY Least
<1> QED
  BY <1>1, Zenon DEF Min

\* Some numbers below a bound have a greatest, and Max picks it.
LEMMA MaxIsGreatest ==
    ASSUME NEW n \in Nat, NEW T, T \subseteq 0 .. n, T # {}
    PROVE  Max(T) \in T /\ \A y \in T : Max(T) >= y
<1> DEFINE Above == {k \in Nat : \A y \in T : y <= k}
<1>1. Above \subseteq Nat /\ n \in Above
  OBVIOUS
<1>2. PICK m \in Above : \A k \in Above : m <= k
  <2> HIDE DEF Above
  <2> QED
    BY <1>1, Least
<1>3. m \in T
  <2>1. SUFFICES ASSUME m \notin T PROVE FALSE
    OBVIOUS
  <2>2. PICK x \in T : TRUE
    OBVIOUS
  <2>3. m \in Nat /\ x \in Nat /\ x <= m /\ x # m
    BY <2>1, <2>2
  <2>4. m - 1 \in Nat /\ m - 1 < m
    BY <2>3
  <2>5. ASSUME NEW y \in T PROVE y <= m - 1
    BY <2>1, <2>3
  <2>6. m - 1 \in Above
    BY <2>4, <2>5
  <2> QED
    BY <1>2, <2>4, <2>6
<1>4. \E x \in T : \A y \in T : x >= y
  BY <1>3
<1> QED
  BY <1>4, Zenon DEF Max

-----------------------------------------------------------------------------
(* Sets put in order.                                                      *)

\* A list of numbers in order.
Increasing(s) == \A i, j \in DOMAIN s : i < j => s[i] < s[j]

\* A finite set of numbers can be put in order: its least member first, and
\* the others, which are fewer, after it.
LEMMA Orderable ==
    ASSUME NEW S, S \subseteq Nat, IsFiniteSet(S)
    PROVE  \E f \in [1 .. Cardinality(S) -> S] : Increasing(f)
<1> DEFINE Stuck == {n \in Nat : \E X \in SUBSET Nat : 
                          /\ IsFiniteSet(X) /\ Cardinality(X) = n
                          /\ ~ \E f \in [1 .. n -> X] : Increasing(f)}
<1>1. ASSUME Stuck # {} PROVE FALSE
  <2>1. PICK n \in Stuck : \A k \in Stuck : n <= k
    <3>1. Stuck \subseteq Nat
      OBVIOUS
    <3> HIDE DEF Stuck
    <3> QED
      BY <1>1, <3>1, Least
  <2>2. PICK X \in SUBSET Nat : /\ IsFiniteSet(X) /\ Cardinality(X) = n
                                /\ ~ \E f \in [1 .. n -> X] : Increasing(f)
    OBVIOUS
  <2>3. n \in Nat
    OBVIOUS
  <2>4. X # {}
    <3>1. SUFFICES ASSUME X = {} PROVE FALSE
      OBVIOUS
    <3>2. n = 0
      BY <2>2, <3>1, FS_EmptySet
    <3> DEFINE g == [i \in 1 .. n |-> i]
    <3>3. g \in [1 .. n -> X] /\ Increasing(g)
      BY <3>2 DEF Increasing
    <3> QED
      BY <2>2, <3>3
  <2>5. PICK m \in X : \A y \in X : m <= y
    BY <2>4, Least
  <2> DEFINE Y == X \ {m}
  <2>6. IsFiniteSet(Y) /\ Cardinality(Y) = n - 1 /\ n - 1 \in Nat
    <3>1. IsFiniteSet(Y) /\ Cardinality(Y) = n - 1
      BY <2>2, FS_RemoveElement
    <3>2. Cardinality(Y) \in Nat
      BY <3>1, FS_CardinalityType
    <3> QED
      BY <3>1, <3>2
  <2>7. PICK g \in [1 .. (n - 1) -> Y] : Increasing(g)
    <3>1. n - 1 \notin Stuck
      BY <2>1, <2>3
    <3> QED
      BY <2>6, <3>1
  <2> DEFINE f == [i \in 1 .. n |-> IF i = 1 THEN m ELSE g[i - 1]]
  <2>8. f \in [1 .. n -> X]
    BY <2>3
  <2>9. ASSUME NEW i \in 1 .. n, NEW j \in 1 .. n, i < j PROVE f[i] < f[j]
    <3>1. j - 1 \in 1 .. (n - 1) /\ g[j - 1] \in Y
      BY <2>3, <2>9
    <3>2. m < g[j - 1]
      <4>1. m \in Nat /\ g[j - 1] \in Nat /\ g[j - 1] # m
        BY <3>1
      <4>2. m <= g[j - 1]
        BY <2>5, <3>1
      <4> QED
        BY <4>1, <4>2
    <3>3. CASE i = 1
      BY <2>9, <3>2, <3>3
    <3>4. CASE i # 1
      <4>1. i - 1 \in 1 .. (n - 1) /\ i - 1 < j - 1
        BY <2>3, <2>9, <3>4
      <4> QED
        BY <2>7, <2>9, <3>1, <3>4, <4>1 DEF Increasing
    <3> QED
      BY <3>3, <3>4
  <2>10. Increasing(f)
    BY <2>9 DEF Increasing
  <2> QED
    BY <2>2, <2>8, <2>10
<1>2. Cardinality(S) \in Nat
  BY FS_CardinalityType
<1> QED
  BY <1>1, <1>2

\* A set of numbers as a list in order, the way the models write it.
InIncreasingOrder(S) == CHOOSE q \in SetToSeqs(S) : Increasing(q)

\* An order of a finite set lists every member.
LEMMA OrdersList ==
    ASSUME NEW S, IsFiniteSet(S), NEW q \in SetToSeqs(S)
    PROVE  q \in Seq(S) /\ \A x \in S : x \in ToSet(q)
<1> DEFINE n == Cardinality(S)
<1>1. n \in Nat
  BY FS_CardinalityType
<1>2. q \in [1 .. n -> S] /\ \A i, j \in 1 .. n : i # j => q[i] # q[j]
  BY DEF SetToSeqs
<1>3. q \in Injection(1 .. n, S)
  BY <1>2 DEF Injection, IsInjective
<1>4. Cardinality(1 .. n) = Cardinality(S)
  BY <1>1, FS_Interval
<1>5. q \in Surjection(1 .. n, S)
  BY <1>3, <1>4, FS_Injection
<1>6. \A x \in S : \E i \in 1 .. n : q[i] = x
  BY <1>5 DEF Surjection
<1> QED
  BY <1>1, <1>2, <1>6 DEF ToSet

\* What it picks lists every member once.
LEMMA AscendingLists ==
    ASSUME NEW S, S \subseteq Nat, IsFiniteSet(S)
    PROVE  /\ InIncreasingOrder(S) \in Seq(S) /\ Len(InIncreasingOrder(S)) = Cardinality(S)
           /\ \A x \in S : x \in ToSet(InIncreasingOrder(S))
<1> DEFINE n == Cardinality(S)
           q == InIncreasingOrder(S)
<1>1. n \in Nat
  BY FS_CardinalityType
<1>2. PICK f \in [1 .. n -> S] : Increasing(f)
  BY Orderable
<1>3. \A i, j \in 1 .. n : i # j => f[i] # f[j]
  <2>1. ASSUME NEW i \in 1 .. n PROVE i \in Nat /\ f[i] \in Nat
    <3>1. f[i] \in S
      BY <1>2
    <3>2. f[i] \in Nat
      BY <3>1
    <3> QED
      BY <1>1, <3>2
  <2> QED
    BY <1>1, <1>2, <2>1 DEF Increasing
<1>4. f \in SetToSeqs(S)
  BY <1>2, <1>3 DEF SetToSeqs
<1>5. q \in SetToSeqs(S)
  BY <1>2, <1>4 DEF InIncreasingOrder
<1> HIDE DEF q
<1>6. q \in [1 .. n -> S] /\ \A i, j \in 1 .. n : i # j => q[i] # q[j]
  BY <1>5 DEF SetToSeqs
<1>7. q \in Injection(1 .. n, S)
  BY <1>6 DEF Injection, IsInjective
<1>8. Cardinality(1 .. n) = Cardinality(S)
  BY <1>1, FS_Interval
<1>9. q \in Surjection(1 .. n, S)
  BY <1>7, <1>8, FS_Injection
<1>10. \A x \in S : \E i \in 1 .. n : q[i] = x
  BY <1>9 DEF Surjection
<1>11. q \in Seq(S) /\ Len(q) = n /\ DOMAIN q = 1 .. n
  BY <1>1, <1>6
<1> QED
  BY <1>10, <1>11 DEF ToSet, q

\* The list of a finite set is of its members.
LEMMA SetsAreListed ==
    ASSUME NEW S, IsFiniteSet(S) PROVE SetToSeq(S) \in Seq(S)
<1>1. Cardinality(S) \in Nat /\ ExistsBijection(1 .. Cardinality(S), S)
  BY FS_CardinalityType
<1>2. PICK f \in [1 .. Cardinality(S) -> S] : IsInjective(f)
  BY <1>1 DEF ExistsBijection, Bijection, Injection
<1>3. SetToSeq(S) \in [1 .. Cardinality(S) -> S]
  BY <1>2 DEF SetToSeq
<1> QED
  BY <1>1, <1>3

-----------------------------------------------------------------------------
(* Members of a list.                                                      *)

\* What is first in a list, and what is left when it is taken off.
LEMMA TakingTheFirst ==
    ASSUME NEW S, NEW q \in Seq(S), q # <<>>
    PROVE  /\ Head(q) \in S /\ Tail(q) \in Seq(S) /\ Len(q) \in Nat /\ Len(Tail(q)) \in Nat
           /\ Len(q) = Len(Tail(q)) + 1
           /\ \A x \in ToSet(q) : x = Head(q) \/ x \in ToSet(Tail(q))
<1>1. /\ Head(q) \in S /\ Tail(q) \in Seq(S) /\ Len(q) \in Nat /\ Len(Tail(q)) \in Nat
      /\ Len(q) = Len(Tail(q)) + 1
  OBVIOUS
<1>2. ASSUME NEW i \in DOMAIN q PROVE q[i] = Head(q) \/ \E k \in DOMAIN Tail(q) : Tail(q)[k] = q[i]
  <2>1. CASE i = 1
    BY <2>1
  <2>2. CASE i # 1
    <3>1. i - 1 \in DOMAIN Tail(q) /\ Tail(q)[i - 1] = q[i]
      BY <2>2
    <3> QED
      BY <3>1
  <2> QED
    BY <2>1, <2>2
<1> QED
  BY <1>1, <1>2 DEF ToSet

\* A list of members of a set is a list of members of a larger one.
LEMMA SeqOfMore ==
    ASSUME NEW S, NEW H, S \subseteq H, NEW q \in Seq(S) PROVE q \in Seq(H)
<1>1. Len(q) \in Nat /\ \A i \in 1 .. Len(q) : q[i] \in H
  OBVIOUS
<1>2. q = [i \in 1 .. Len(q) |-> q[i]]
  OBVIOUS
<1> QED
  BY <1>1, <1>2

-----------------------------------------------------------------------------
(* Pages of a list.                                                        *)

\* What a page holds: the members of a list after the first b, up to e.
Piece(q, b, e) == SubSeq(q, b + 1, IF e < Len(q) THEN e ELSE Len(q))

\* A page holds the members in its range and no other; past the end it is empty.
LEMMA PageHolds ==
    ASSUME NEW S, NEW q \in Seq(S), NEW b \in Nat, NEW e \in Nat, b < e
    PROVE  /\ \A i \in DOMAIN q : b < i /\ i <= e => q[i] \in ToSet(Piece(q, b, e))
           /\ \A t \in ToSet(Piece(q, b, e)) : \E j \in DOMAIN q : b < j /\ j <= e /\ q[j] = t
           /\ Piece(q, b, e) = <<>> => Len(q) <= b
<1> DEFINE batch == Piece(q, b, e)
<1> DEFINE c == IF e < Len(q) THEN e ELSE Len(q)
<1>1. c \in Nat /\ c <= e /\ c <= Len(q) /\ Len(q) \in Nat /\ DOMAIN q = 1 .. Len(q)
  OBVIOUS
<1>2. \A i \in DOMAIN q : i <= e => i <= c
  OBVIOUS
<1> HIDE DEF c, batch
<1>3. batch = SubSeq(q, b + 1, c)
  BY DEF c, batch, Piece
<1>4. \A k \in 1 .. (c - b) : k \in DOMAIN batch /\ batch[k] = q[k + b]
  BY <1>1, <1>3
<1>5. DOMAIN batch = 1 .. (IF b + 1 <= c THEN c - b ELSE 0)
  BY <1>1, <1>3
<1>6. ASSUME NEW i \in DOMAIN q, b < i, i <= e PROVE q[i] \in ToSet(batch)
  <2>1. i - b \in 1 .. (c - b) /\ (i - b) + b = i
    BY <1>1, <1>2, <1>6
  <2>2. i - b \in DOMAIN batch /\ batch[i - b] = q[i]
    BY <1>4, <2>1
  <2> QED
    BY <2>2 DEF ToSet
<1>7. ASSUME NEW t \in ToSet(batch) PROVE \E j \in DOMAIN q : b < j /\ j <= e /\ q[j] = t
  <2>1. PICK k \in DOMAIN batch : batch[k] = t
    BY DEF ToSet
  <2>2. k \in 1 .. (c - b)
    BY <1>1, <1>5, <2>1
  <2>3. k + b \in DOMAIN q /\ b < k + b /\ k + b <= e /\ q[k + b] = t
    BY <1>1, <1>4, <2>1, <2>2
  <2> QED
    BY <2>3
<1>8. ASSUME batch = <<>> PROVE Len(q) <= b
  <2>1. ToSet(batch) = {}
    BY <1>8 DEF ToSet
  <2>2. ASSUME b < Len(q) PROVE FALSE
    <3>1. b + 1 \in DOMAIN q /\ b < b + 1 /\ b + 1 <= e
      BY <1>1, <2>2
    <3> QED
      BY <1>6, <2>1, <3>1
  <2> QED
    BY <1>1, <2>2
<1> QED
  BY <1>6, <1>7, <1>8 DEF batch

\* A page is full until the sequence ends.
LEMMA PageLength ==
    ASSUME NEW S, NEW q \in Seq(S), NEW b \in Nat, NEW e \in Nat, b < e
    PROVE  /\ e <= Len(q) => Len(Piece(q, b, e)) = e - b /\ Piece(q, b, e)[e - b] = q[e]
           /\ Len(q) < e => Len(Piece(q, b, e)) < e - b
<1> DEFINE batch == Piece(q, b, e)
<1> DEFINE c == IF e < Len(q) THEN e ELSE Len(q)
<1>1. c \in Nat /\ c <= e /\ c <= Len(q) /\ Len(q) \in Nat /\ DOMAIN q = 1 .. Len(q)
  OBVIOUS
<1> DEFINE l == Len(q)
<1>12. l \in Nat /\ c = (IF e < l THEN e ELSE l)
  OBVIOUS
<1> HIDE DEF c, batch, l
<1>13. (e <= l => c = e) /\ (l < e => c = l)
  BY <1>12
<1>3. batch = SubSeq(q, b + 1, c)
  BY DEF c, batch, Piece
<1>4. \A k \in 1 .. (c - b) : k \in DOMAIN batch /\ batch[k] = q[k + b]
  BY <1>1, <1>3
<1>9. Len(batch) = IF b + 1 <= c THEN c - b ELSE 0
  BY <1>1, <1>3
<1>10. ASSUME e <= Len(q) PROVE Len(batch) = e - b /\ batch[e - b] = q[e]
  <2>1. c = e
    BY <1>10, <1>13 DEF l
  <2>2. e - b \in 1 .. (c - b) /\ (e - b) + b = e
    BY <2>1
  <2>3. batch[e - b] = q[e]
    BY <1>4, <2>2
  <2>4. Len(batch) = e - b
    BY <1>9, <2>1
  <2> QED
    BY <2>3, <2>4
<1>11. ASSUME Len(q) < e PROVE Len(batch) < e - b
  <2>1. c = l /\ l < e /\ c \in Nat
    BY <1>1, <1>11, <1>13 DEF l
  <2> DEFINE k == Len(batch)
  <2>2. k = IF b + 1 <= c THEN c - b ELSE 0
    BY <1>9
  <2> HIDE DEF k
  <2>3. k < e - b
    BY <1>12, <2>1, <2>2
  <2> QED
    BY <2>3 DEF k
<1> QED
  BY <1>10, <1>11 DEF batch

-----------------------------------------------------------------------------
(* A member put on top of a list, and one taken out of it.                 *)

\* The others move down by one.
LEMMA OnTop ==
    ASSUME NEW S, NEW q \in Seq(S), NEW x \in S, NEW p, p = <<x>> \o q
    PROVE  /\ p \in Seq(S) /\ Len(p) = Len(q) + 1 /\ p[1] = x
           /\ DOMAIN p \subseteq Nat \ {0} /\ DOMAIN q \subseteq Nat
           /\ \A i \in DOMAIN q : i + 1 \in DOMAIN p /\ p[i + 1] = q[i]
           /\ \A i \in DOMAIN p : i # 1 => i - 1 \in DOMAIN q /\ p[i] = q[i - 1]
<1>1. /\ p \in Seq(S) /\ Len(p) = Len(q) + 1 /\ p[1] = x
      /\ \A i \in DOMAIN q : i + 1 \in DOMAIN p /\ p[i + 1] = q[i]
      /\ \A i \in DOMAIN p : i # 1 => i - 1 \in DOMAIN q /\ p[i] = q[i - 1]
  OBVIOUS
<1>2. DOMAIN p \subseteq Nat \ {0} /\ DOMAIN q \subseteq Nat
  BY <1>1
<1> QED
  BY <1>1, <1>2

\* Where the others were before: their order does not change.
PlaceBefore(k, i) == IF i < k THEN i ELSE i + 1

LEMMA TakenOut ==
    ASSUME NEW S, NEW q \in Seq(S), NEW k \in DOMAIN q, NEW r, r = RemoveAt(q, k)
    PROVE  /\ r \in Seq(S) /\ Len(r) = Len(q) - 1 /\ Len(q) \in Nat
           /\ DOMAIN r \subseteq Nat \ {0}
           /\ \A i \in DOMAIN r : PlaceBefore(k, i) \in DOMAIN q /\ r[i] = q[PlaceBefore(k, i)]
           /\ \A i, j \in DOMAIN r : i < j => PlaceBefore(k, i) < PlaceBefore(k, j)
<1>1. r \in Seq(S) /\ Len(r) = Len(q) - 1 /\ Len(q) \in Nat
  BY DEF RemoveAt
<1>2. ASSUME NEW i \in DOMAIN r PROVE PlaceBefore(k, i) \in DOMAIN q /\ r[i] = q[PlaceBefore(k, i)]
  <2> DEFINE u == SubSeq(q, 1, k - 1)
             v == SubSeq(q, k + 1, Len(q))
  <2>1. u \in Seq(S) /\ Len(u) = k - 1 /\ \A j \in 1 .. (k - 1) : u[j] = q[j]
    OBVIOUS
  <2>2. /\ v \in Seq(S) /\ Len(v) = Len(q) - k
        /\ \A j \in 1 .. (Len(q) - k) : v[j] = q[k + j]
    OBVIOUS
  <2>3. r = u \o v
    BY DEF RemoveAt
  <2>4. i \in 1 .. (Len(q) - 1) /\ k \in 1 .. Len(q) /\ Len(q) \in Nat
    BY <1>1, <1>2
  <2> HIDE DEF u, v
  <2>5. CASE i < k
    BY <2>1, <2>2, <2>3, <2>4, <2>5 DEF PlaceBefore
  <2>6. CASE ~(i < k)
    <3>1. r[i] = v[i - (k - 1)]
      BY <2>1, <2>2, <2>3, <2>4, <2>6
    <3>2. i - (k - 1) \in 1 .. (Len(q) - k) /\ k + (i - (k - 1)) = i + 1
      BY <2>4, <2>6
    <3> QED
      BY SMTT(30), <2>2, <2>4, <2>6, <3>1, <3>2 DEF PlaceBefore
  <2> QED
    BY <2>5, <2>6
<1>3. DOMAIN r \subseteq Nat \ {0} /\ k \in Nat
  BY <1>1
<1>4. \A i, j \in DOMAIN r : i < j => PlaceBefore(k, i) < PlaceBefore(k, j)
  BY <1>3 DEF PlaceBefore
<1> QED
  BY <1>1, <1>2, <1>3, <1>4
============================================================================
