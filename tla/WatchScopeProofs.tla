------------------------- MODULE WatchScopeProofs -------------------------
(***************************************************************************)
(* The radius search for every topology, radius, exclusion and limit, and  *)
(* the scopes that watches store while imports replace the topology.       *)
(***************************************************************************)
EXTENDS WatchScope, SdeImportProofs, FiniteSetTheorems

-----------------------------------------------------------------------------
(* Induction over the natural numbers, with the claim as a set.            *)

LEMMA NatSetInduction ==
    ASSUME NEW S, 0 \in S, \A n \in Nat : n \in S => n + 1 \in S
    PROVE  \A n \in Nat : n \in S
<1> SUFFICES ASSUME NEW m \in Nat, m \notin S
             PROVE  FALSE
  OBVIOUS
<1> DEFINE T == Nat \ S
<1>1. PICK x \in T : \A y \in T : ~(<<y, x>> \in OpToRel(<, Nat))
  <2>1. T \subseteq Nat /\ T # {}
    OBVIOUS
  <2> HIDE DEF T
  <2> QED
    BY <2>1, WFMin, NatLessThanWellFounded, Zenon
<1>2. \A y \in T : ~(y < x)
  BY <1>1 DEF OpToRel
<1>3. x # 0 /\ x \in Nat
  OBVIOUS
<1>4. x - 1 \in Nat /\ x - 1 < x /\ (x - 1) + 1 = x
  BY <1>3
<1>5. x - 1 \in S
  BY <1>2, <1>4
<1> QED
  BY <1>4, <1>5

(***************************************************************************)
(* Iterating a function from a start is well defined.                      *)
(***************************************************************************)
Prefix(f, n, start, F) == f[0] = start /\ \A i \in 0..(n - 1) : f[i + 1] = F[f[i]]

LEMMA Iteration ==
    ASSUME NEW S, NEW start \in S, NEW F \in [S -> S]
    PROVE  \E f \in [Nat -> S] : /\ f[0] = start
                                 /\ \A n \in Nat : f[n + 1] = F[f[n]]
<1> DEFINE Runs(n) == {f \in [Nat -> S] : Prefix(f, n, start, F)}
           Defined == {n \in Nat : Runs(n) # {}}
           Unique == {i \in Nat : \A m, n \in Nat : i <= m /\ i <= n =>
                         \A f \in Runs(m), g \in Runs(n) : f[i] = g[i]}
<1>1. \A n \in Nat : n \in Defined
  <2>1. 0 \in Defined
    <3>1. [n \in Nat |-> start] \in Runs(0)
      BY DEF Prefix
    <3> QED
      BY <3>1
  <2>2. ASSUME NEW n \in Nat, n \in Defined
        PROVE  n + 1 \in Defined
    <3>1. PICK f \in [Nat -> S] : Prefix(f, n, start, F)
      BY <2>2
    <3> DEFINE g == [f EXCEPT ![n + 1] = F[f[n]]]
    <3>2. g \in [Nat -> S] /\ g[n + 1] = F[f[n]]
          /\ \A i \in 0..n : g[i] = f[i]
      OBVIOUS
    <3> HIDE DEF g
    <3>3. \A i \in 0..n : g[i + 1] = F[g[i]]
      <4> SUFFICES ASSUME NEW i \in 0..n
                   PROVE  g[i + 1] = F[g[i]]
        OBVIOUS
      <4>1. CASE i = n
        BY <3>2, <4>1
      <4>2. CASE i # n
        <5>1. i \in 0..(n - 1) /\ i + 1 \in 0..n
          BY <4>2
        <5> QED
          BY <3>1, <3>2, <5>1 DEF Prefix
      <4> QED
        BY <4>1, <4>2
    <3>4. Prefix(g, n + 1, start, F)
      <4>1. (n + 1) - 1 = n /\ 0 \in 0..n
        OBVIOUS
      <4> QED
        BY <3>1, <3>2, <3>3, <4>1 DEF Prefix
    <3> QED
      BY <3>2, <3>4
  <2> HIDE DEF Defined
  <2> QED
    BY <2>1, <2>2, NatSetInduction
<1>2. \A i \in Nat : i \in Unique
  <2>1. 0 \in Unique
    BY DEF Prefix
  <2>2. ASSUME NEW i \in Nat, i \in Unique
        PROVE  i + 1 \in Unique
    <3> SUFFICES ASSUME NEW m \in Nat, NEW n \in Nat, i + 1 <= m, i + 1 <= n,
                        NEW f \in Runs(m), NEW g \in Runs(n)
                 PROVE  f[i + 1] = g[i + 1]
      OBVIOUS
    <3>1. i <= m /\ i <= n /\ i \in 0..(m - 1) /\ i \in 0..(n - 1)
      OBVIOUS
    <3>2. f[i] = g[i]
      BY <2>2, <3>1
    <3> QED
      BY <3>1, <3>2 DEF Prefix
  <2> HIDE DEF Unique
  <2> QED
    BY <2>1, <2>2, NatSetInduction
<1> DEFINE h == [n \in Nat |-> (CHOOSE f \in Runs(n) : TRUE)[n]]
<1>3. \A n \in Nat : (CHOOSE f \in Runs(n) : TRUE) \in Runs(n)
  BY <1>1
<1>4. h \in [Nat -> S]
  BY <1>3
<1>5. h[0] = start
  BY <1>3 DEF Prefix
<1>6. ASSUME NEW n \in Nat
      PROVE  h[n + 1] = F[h[n]]
  <2> DEFINE f == CHOOSE f \in Runs(n) : TRUE
             g == CHOOSE g \in Runs(n + 1) : TRUE
  <2>1. f \in Runs(n) /\ g \in Runs(n + 1) /\ h[n] = f[n] /\ h[n + 1] = g[n + 1]
    BY <1>3
  <2> HIDE DEF f, g, h
  <2>2. f[n] = g[n]
    BY <1>2, <2>1
  <2>3. g[n + 1] = F[g[n]]
    BY <2>1 DEF Prefix
  <2> QED
    BY <2>1, <2>2, <2>3
<1> QED
  BY <1>4, <1>5, <1>6

LEMMA BallsStep ==
    ASSUME NEW gates, NEW center, NEW excluded, NEW Nodes,
           center \in Nodes, \A g \in gates : g[2] \in Nodes
    PROVE  LET ball == Balls(gates, center, excluded)
           IN  /\ ball \in [Nat -> SUBSET Nodes]
               /\ ball[0] = {center} \ excluded
               /\ \A n \in Nat : \A y : y \in ball[n + 1] <=>
                    \/ y \in ball[n]
                    \/ y \notin excluded /\ \E x \in ball[n] : y \in Neighbors(gates, x)
<1> DEFINE F == [B \in SUBSET Nodes |->
                   B \cup ((UNION {Neighbors(gates, x) : x \in B}) \ excluded)]
           start == {center} \ excluded
<1>1. start \in SUBSET Nodes /\ F \in [SUBSET Nodes -> SUBSET Nodes]
  BY DEF Neighbors
<1>2. PICK f \in [Nat -> SUBSET Nodes] :
           f[0] = start /\ \A n \in Nat : f[n + 1] = F[f[n]]
  <2> DEFINE S == SUBSET Nodes
  <2>1. start \in S /\ F \in [S -> S]
    BY <1>1
  <2> HIDE DEF F, start, S
  <2>2. \E f \in [Nat -> S] :
           f[0] = start /\ \A n \in Nat : f[n + 1] = F[f[n]]
    BY <2>1, Iteration, Z3
  <2> QED
    BY <2>2 DEF S
<1> DEFINE Is(b) == b = [n \in Nat |-> IF n = 0 THEN {center} \ excluded
            ELSE b[n - 1] \cup
                 ((UNION {Neighbors(gates, x) : x \in b[n - 1]}) \ excluded)]
<1>3. Is(f)
  <2>1. \A n \in Nat \ {0} : n - 1 \in Nat /\ (n - 1) + 1 = n
    OBVIOUS
  <2>2. \A n \in Nat \ {0} : f[n] = f[n - 1] \cup
                 ((UNION {Neighbors(gates, x) : x \in f[n - 1]}) \ excluded)
    BY <1>2, <2>1
  <2>3. f = [n \in Nat |-> f[n]]
    OBVIOUS
  <2> HIDE DEF F
  <2> QED
    BY <1>2, <2>2, <2>3
<1>4. Balls(gates, center, excluded) = CHOOSE b : Is(b)
  BY DEF Balls
<1>5. Is(Balls(gates, center, excluded))
  <2> HIDE DEF Is, F, start
  <2> QED
    BY <1>3, <1>4
<1> DEFINE ball == Balls(gates, center, excluded)
<1>6. /\ ball[0] = {center} \ excluded
      /\ \A n \in Nat : ball[n + 1] = ball[n] \cup
            ((UNION {Neighbors(gates, x) : x \in ball[n]}) \ excluded)
  <2>1. \A n \in Nat : n + 1 \in Nat /\ n + 1 # 0 /\ (n + 1) - 1 = n
    OBVIOUS
  <2> HIDE DEF ball
  <2>2. Is(ball)
    BY <1>5 DEF ball
  <2> QED
    BY <2>1, <2>2
<1>7. \A n \in Nat : ball[n] \in SUBSET Nodes
  <2> DEFINE T == {n \in Nat : ball[n] \in SUBSET Nodes}
  <2>1. 0 \in T
    BY <1>1, <1>6
  <2>2. ASSUME NEW n \in Nat, n \in T
        PROVE  n + 1 \in T
    <3>1. F[ball[n]] \in SUBSET Nodes
      BY <1>1, <2>2
    <3> QED
      BY <1>6, <2>2, <3>1
  <2> HIDE DEF T
  <2>3. \A n \in Nat : n \in T
    BY <2>1, <2>2, NatSetInduction
  <2> QED
    BY <2>3 DEF T
<1>8. ball \in [Nat -> SUBSET Nodes]
  <2>1. ball = [n \in Nat |-> ball[n]]
    BY <1>5
  <2> HIDE DEF ball
  <2> QED
    BY <1>7, <2>1
<1>9. ASSUME NEW n \in Nat, NEW y
      PROVE  y \in ball[n + 1] <=>
                \/ y \in ball[n]
                \/ y \notin excluded /\ \E x \in ball[n] : y \in Neighbors(gates, x)
  <2> HIDE DEF ball
  <2> QED
    BY <1>6
<1> QED
  BY <1>6, <1>8, <1>9

-----------------------------------------------------------------------------
(***************************************************************************)
(* What the proofs use of Balls.                                           *)
(***************************************************************************)
AreBalls(ball, gates, excluded) ==
    /\ \A n \in Nat : \A y : y \in ball[n + 1] <=>
          \/ y \in ball[n]
          \/ y \notin excluded /\ \E x \in ball[n] : y \in Neighbors(gates, x)
    /\ \A n \in Nat : /\ ball[n] \cap excluded = {}
                      /\ \A m \in 0..n : ball[m] \subseteq ball[n]

LEMMA BallsGrow ==
    ASSUME NEW gates, NEW center, NEW excluded, NEW Nodes,
           center \in Nodes, \A g \in gates : g[2] \in Nodes
    PROVE  AreBalls(Balls(gates, center, excluded), gates, excluded)
<1> DEFINE ball == Balls(gates, center, excluded)
           T == {n \in Nat : /\ ball[n] \cap excluded = {}
                             /\ \A m \in 0..n : ball[m] \subseteq ball[n]}
<1>1. /\ ball[0] = {center} \ excluded
      /\ \A n \in Nat : \A y : y \in ball[n + 1] <=>
            \/ y \in ball[n]
            \/ y \notin excluded /\ \E x \in ball[n] : y \in Neighbors(gates, x)
  BY BallsStep
<1> HIDE DEF ball
<1>2. 0 \in T
  BY <1>1
<1>3. ASSUME NEW n \in Nat, n \in T
      PROVE  n + 1 \in T
  <2>1. ball[n + 1] \cap excluded = {} /\ ball[n] \subseteq ball[n + 1]
    BY <1>1, <1>3
  <2>2. \A m \in 0..(n + 1) : m = n + 1 \/ m \in 0..n
    OBVIOUS
  <2>3. ASSUME NEW m \in 0..(n + 1)
        PROVE  ball[m] \subseteq ball[n + 1]
    BY <1>3, <2>1, <2>2
  <2> QED
    BY <2>1, <2>3
<1> HIDE DEF T
<1>4. \A n \in Nat : n \in T
  BY <1>2, <1>3, NatSetInduction
<1> QED
  BY <1>1, <1>4 DEF T, ball, AreBalls

(***************************************************************************)
(* A set that holds a ball and all its neighbours holds every ball.        *)
(***************************************************************************)
LEMMA BallsEnd ==
    ASSUME NEW gates, NEW excluded, NEW ball, AreBalls(ball, gates, excluded),
           NEW V, NEW d \in Nat, ball[d] \subseteq V,
           \A x \in V : Neighbors(gates, x) \ excluded \subseteq V
    PROVE  \A n \in Nat : ball[n] \subseteq V
<1> DEFINE T == {n \in Nat : ball[n] \subseteq V}
<1>1. 0 \in T
  <2>1. 0 \in 0..d
    OBVIOUS
  <2> QED
    BY <2>1 DEF AreBalls
<1>2. ASSUME NEW n \in Nat, n \in T
      PROVE  n + 1 \in T
  BY <1>2 DEF AreBalls
<1> HIDE DEF T
<1>3. \A n \in Nat : n \in T
  BY <1>1, <1>2, NatSetInduction
<1> QED
  BY <1>3 DEF T

-----------------------------------------------------------------------------
Entry == [system : Int, depth : Nat]

(***************************************************************************)
(* InOrder lists every system once, with the same depth.                   *)
(***************************************************************************)
Lists(list, systems, d) ==
    /\ list \in Seq(Entry)
    /\ Len(list) = Cardinality(systems)
    /\ \A n \in 1..Cardinality(systems) : list[n].depth = d /\ list[n].system \in systems
    /\ \A x \in systems : \E n \in 1..Cardinality(systems) : list[n].system = x

LEMMA InOrderLists ==
    ASSUME NEW systems \in SUBSET Int, IsFiniteSet(systems), NEW d \in Nat
    PROVE  Lists(InOrder(systems, d), systems, d)
<1> DEFINE Below(x) == {y \in systems : y < x}
           size == Cardinality(systems)
           rank == [x \in systems |-> Cardinality(Below(x)) + 1]
<1>1. size \in Nat
  BY FS_CardinalityType
<1>2. ASSUME NEW x \in systems
      PROVE  /\ IsFiniteSet(Below(x)) /\ Cardinality(Below(x)) \in Nat
             /\ Cardinality(Below(x)) < size
  <2>1. Below(x) \in SUBSET systems /\ Below(x) # systems
    OBVIOUS
  <2> HIDE DEF Below
  <2> QED
    BY <1>1, <2>1, FS_Subset, FS_CardinalityType
<1>3. ASSUME NEW x \in systems, NEW y \in systems, x < y
      PROVE  Cardinality(Below(x)) < Cardinality(Below(y))
  <2>1. \A z \in Below(x) : z < y
    BY <1>3
  <2>2. x \in Below(y) /\ x \notin Below(x)
    BY <1>3
  <2>3. Below(x) \in SUBSET Below(y) /\ Below(x) # Below(y)
    BY <2>1, <2>2
  <2> HIDE DEF Below
  <2> QED
    BY <1>2, <2>3, FS_Subset
<1>4. rank \in Injection(systems, 1..size)
  <2>1. rank \in [systems -> 1..size]
    BY <1>1, <1>2
  <2>2. ASSUME NEW x \in systems, NEW y \in systems, rank[x] = rank[y]
        PROVE  x = y
    <3>1. Cardinality(Below(x)) = Cardinality(Below(y))
      BY <1>2, <2>2
    <3>2. ~(x < y) /\ ~(y < x)
      BY <1>2, <1>3, <3>1
    <3> QED
      BY <3>2
  <2> HIDE DEF rank
  <2> QED
    BY <2>1, <2>2 DEF Injection, IsInjective
<1>5. rank \in Surjection(systems, 1..size)
  <2>1. IsFiniteSet(1..size) /\ Cardinality(1..size) = size
    BY <1>1, FS_Interval
  <2> HIDE DEF rank
  <2> QED
    BY <1>4, <2>1, FS_Injection
<1>6. \A n \in 1..size : \E x \in systems : Cardinality(Below(x)) = n - 1
  <2> SUFFICES ASSUME NEW n \in 1..size
               PROVE  \E x \in systems : Cardinality(Below(x)) = n - 1
    OBVIOUS
  <2>1. PICK x \in systems : rank[x] = n
    BY <1>5 DEF Surjection
  <2>2. Cardinality(Below(x)) + 1 = n
    BY <2>1
  <2> HIDE DEF Below
  <2> QED
    BY <1>2, <2>2
<1>7. \A x, y \in systems : Cardinality(Below(x)) = Cardinality(Below(y)) => x = y
  BY <1>4 DEF Injection, IsInjective
<1> DEFINE q == InOrder(systems, d)
<1>8. ASSUME NEW n \in 1..size
      PROVE  /\ q[n].depth = d /\ q[n].system \in systems
             /\ Cardinality(Below(q[n].system)) = n - 1
             /\ q[n] \in Entry
  <2> DEFINE x == CHOOSE x \in systems : Cardinality(Below(x)) = n - 1
  <2>1. q[n] = [system |-> x, depth |-> d]
    BY DEF InOrder
  <2>2. x \in systems /\ Cardinality(Below(x)) = n - 1
    <3> HIDE DEF Below
    <3> QED
      BY <1>6
  <2> HIDE DEF q, Below, x
  <2> QED
    BY <2>1, <2>2 DEF Entry
<1>9. q \in [1..size -> Entry]
  <2>1. \A n \in 1..size : q[n] \in Entry
    BY <1>8
  <2>2. q = [n \in 1..size |-> q[n]]
    BY DEF InOrder
  <2> HIDE DEF q
  <2> QED
    BY <2>1, <2>2
<1>10. q \in Seq(Entry) /\ Len(q) = size
  <2> HIDE DEF q
  <2> QED
    BY <1>1, <1>9
<1>11. ASSUME NEW x \in systems
       PROVE  \E n \in 1..size : q[n].system = x
  <2> DEFINE n == Cardinality(Below(x)) + 1
  <2>1. n \in 1..size /\ n - 1 = Cardinality(Below(x))
    BY <1>1, <1>2
  <2> HIDE DEF n, q, Below
  <2>2. q[n].system \in systems /\ Cardinality(Below(q[n].system)) = n - 1
    BY <1>8, <2>1
  <2> QED
    BY <1>7, <2>1, <2>2
<1> HIDE DEF q
<1>12. \A n \in 1..size : q[n].depth = d /\ q[n].system \in systems
  BY <1>8
<1> QED
  BY <1>10, <1>11, <1>12 DEF q, Lists

(***************************************************************************)
(* The systems that wait in a queue, and those that wait at a depth.       *)
(***************************************************************************)
Waiting(q) == {q[i].system : i \in 1..Len(q)}
WaitingAt(q, d) == {q[i].system : i \in {j \in 1..Len(q) : q[j].depth = d}}

LEMMA TailWaits ==
    ASSUME NEW q \in Seq(Entry), q # <<>>
    PROVE  /\ Head(q) = q[1] /\ q[1] \in Entry
           /\ Tail(q) \in Seq(Entry) /\ Len(Tail(q)) = Len(q) - 1
           /\ \A i \in 1..Len(Tail(q)) : i + 1 \in 1..Len(q) /\ Tail(q)[i] = q[i + 1]
           /\ Waiting(q) \subseteq {q[1].system} \cup Waiting(Tail(q))
           /\ \A d : WaitingAt(q, d) \subseteq
                        {q[1].system} \cup WaitingAt(Tail(q), d)
<1>1. /\ Head(q) = q[1] /\ q[1] \in Entry
      /\ Tail(q) \in Seq(Entry) /\ Len(Tail(q)) = Len(q) - 1
      /\ \A i \in 1..Len(Tail(q)) : i + 1 \in 1..Len(q) /\ Tail(q)[i] = q[i + 1]
  OBVIOUS
<1>2. ASSUME NEW i \in 1..Len(q), i # 1
      PROVE  i - 1 \in 1..Len(Tail(q)) /\ Tail(q)[i - 1] = q[i]
  BY <1>1, <1>2
<1>3. ASSUME NEW x \in Waiting(q), x # q[1].system
      PROVE  x \in Waiting(Tail(q))
  <2>1. PICK i \in 1..Len(q) : q[i].system = x
    BY DEF Waiting
  <2>2. i # 1
    BY <1>3, <2>1
  <2> QED
    BY <1>2, <2>1, <2>2 DEF Waiting
<1>4. ASSUME NEW d, NEW x \in WaitingAt(q, d), x # q[1].system
      PROVE  x \in WaitingAt(Tail(q), d)
  <2>1. PICK i \in 1..Len(q) : q[i].system = x /\ q[i].depth = d
    BY DEF WaitingAt
  <2>2. i # 1
    BY <1>4, <2>1
  <2> QED
    BY <1>2, <2>1, <2>2 DEF WaitingAt
<1> QED
  BY <1>1, <1>3, <1>4

LEMMA ConcatWaits ==
    ASSUME NEW p \in Seq(Entry), NEW q \in Seq(Entry)
    PROVE  /\ p \o q \in Seq(Entry) /\ Len(p \o q) = Len(p) + Len(q)
           /\ \A i \in 1..Len(p \o q) :
                 \/ i \in 1..Len(p) /\ (p \o q)[i] = p[i]
                 \/ /\ i > Len(p) /\ i - Len(p) \in 1..Len(q)
                    /\ (p \o q)[i] = q[i - Len(p)]
           /\ Waiting(p) \cup Waiting(q) \subseteq Waiting(p \o q)
           /\ \A d : WaitingAt(p, d) \subseteq WaitingAt(p \o q, d)
<1>1. /\ p \o q \in Seq(Entry) /\ Len(p \o q) = Len(p) + Len(q)
      /\ \A i \in 1..Len(p) : i \in 1..Len(p \o q) /\ (p \o q)[i] = p[i]
      /\ \A i \in 1..Len(q) : /\ i + Len(p) \in 1..Len(p \o q)
                              /\ (p \o q)[i + Len(p)] = q[i]
  OBVIOUS
<1>2. \A i \in 1..Len(p \o q) :
         \/ i \in 1..Len(p)
         \/ i > Len(p) /\ i - Len(p) \in 1..Len(q) /\ (i - Len(p)) + Len(p) = i
  BY <1>1
<1>3. Waiting(p) \subseteq Waiting(p \o q)
  <2> SUFFICES ASSUME NEW i \in 1..Len(p)
               PROVE  p[i].system \in Waiting(p \o q)
    BY DEF Waiting
  <2> QED
    BY <1>1 DEF Waiting
<1>4. Waiting(q) \subseteq Waiting(p \o q)
  <2> SUFFICES ASSUME NEW i \in 1..Len(q)
               PROVE  q[i].system \in Waiting(p \o q)
    BY DEF Waiting
  <2>1. i + Len(p) \in 1..Len(p \o q) /\ (p \o q)[i + Len(p)].system = q[i].system
    BY <1>1
  <2> QED
    BY <2>1 DEF Waiting
<1>5. ASSUME NEW d, NEW x \in WaitingAt(p, d)
      PROVE  x \in WaitingAt(p \o q, d)
  <2>1. PICK i \in 1..Len(p) : p[i].system = x /\ p[i].depth = d
    BY DEF WaitingAt
  <2> QED
    BY <1>1, <2>1 DEF WaitingAt
<1> QED
  BY <1>1, <1>2, <1>3, <1>4, <1>5

-----------------------------------------------------------------------------
(***************************************************************************)
(* The queue is in order of depth and spans two depths at most.            *)
(***************************************************************************)
Ordered(q, radius) ==
    \A i, j \in 1..Len(q) :
        /\ q[i].depth <= radius
        /\ i <= j => q[i].depth <= q[j].depth /\ q[j].depth <= q[i].depth + 1

\* While depth d is served, the ball of d is visited or waits at d, and what
\* lies next to visited systems is visited or waits.
Level(q, visited, d, ball, gates, radius, excluded) ==
    /\ ball[d] \subseteq visited \cup WaitingAt(q, d)
    /\ d < radius => \A x \in visited :
          Neighbors(gates, x) \ excluded \subseteq visited \cup Waiting(q)

Covers(q, visited, ball, gates, radius, excluded) ==
    IF q = <<>> THEN ball[radius] \subseteq visited
    ELSE Level(q, visited, q[1].depth, ball, gates, radius, excluded)

(***************************************************************************)
(* When the last system of a depth has been served, the next depth is at   *)
(* the head of the queue, or the search is over.                           *)
(***************************************************************************)
LEMMA NextLevel ==
    ASSUME NEW gates, NEW excluded, NEW ball, AreBalls(ball, gates, excluded),
           NEW radius \in Nat, NEW q \in Seq(Entry), NEW visited, NEW d \in 0..radius,
           Ordered(q, radius),
           \A i \in 1..Len(q) : d <= q[i].depth /\ q[i].depth <= d + 1,
           Level(q, visited, d, ball, gates, radius, excluded)
    PROVE  Covers(q, visited, ball, gates, radius, excluded)
<1>1. CASE q = <<>>
  <2>1. Waiting(q) = {} /\ WaitingAt(q, d) = {}
    BY <1>1 DEF Waiting, WaitingAt
  <2>2. ball[d] \subseteq visited
    BY <2>1 DEF Level
  <2>3. CASE d = radius
    BY <1>1, <2>2, <2>3 DEF Covers
  <2>4. CASE d < radius
    <3>1. \A x \in visited : Neighbors(gates, x) \ excluded \subseteq visited
      BY <2>1, <2>4 DEF Level
    <3>2. ball[radius] \subseteq visited
      BY <2>2, <3>1, BallsEnd
    <3> QED
      BY <1>1, <3>2 DEF Covers
  <2> QED
    BY <2>3, <2>4
<1>2. CASE q # <<>> /\ q[1].depth = d
  BY <1>2 DEF Covers
<1>3. CASE q # <<>> /\ q[1].depth # d
  <2>1. 1 \in 1..Len(q) /\ \A i \in 1..Len(q) : q[i] \in Entry
    BY <1>3
  <2>2. q[1].depth = d + 1 /\ d < radius
    BY <1>3, <2>1 DEF Ordered, Entry
  <2>3. \A i \in 1..Len(q) : q[i].depth = d + 1
    <3> SUFFICES ASSUME NEW i \in 1..Len(q)
                 PROVE  q[i].depth = d + 1
      OBVIOUS
    <3>1. q[1].depth <= q[i].depth
      BY <2>1 DEF Ordered
    <3> QED
      BY <2>1, <2>2, <3>1 DEF Entry
  <2>4. WaitingAt(q, d) = {} /\ WaitingAt(q, d + 1) = Waiting(q)
    BY <2>3 DEF WaitingAt, Waiting
  <2>5. ball[d] \subseteq visited
    BY <2>4 DEF Level
  <2>6. \A x \in visited :
           Neighbors(gates, x) \ excluded \subseteq visited \cup Waiting(q)
    BY <2>2 DEF Level
  <2>7. ball[d + 1] \subseteq visited \cup Waiting(q)
    BY <2>5, <2>6 DEF AreBalls
  <2> QED
    BY <1>3, <2>2, <2>4, <2>6, <2>7 DEF Covers, Level
<1> QED
  BY <1>1, <1>2, <1>3

-----------------------------------------------------------------------------
(* The loop, pass by pass.                                                 *)

LoopState == [queue : Seq(Entry), visited : SUBSET Int, thrown : BOOLEAN]

(***************************************************************************)
(* What holds between two passes.  A search that throws has more than the  *)
(* limit within its radius.                                                *)
(***************************************************************************)
Sound(q, ball, excluded) ==
    \A i \in 1..Len(q) : q[i].system \in ball[q[i].depth] \cup excluded

Exact(s, ball, gates, radius, excluded, maxSystems) ==
    IF s.thrown THEN Cardinality(ball[radius]) > maxSystems
    ELSE /\ Cardinality(s.visited) <= maxSystems
         /\ s.visited \subseteq ball[radius]
         /\ Ordered(s.queue, radius)
         /\ Sound(s.queue, ball, excluded)
         /\ Covers(s.queue, s.visited, ball, gates, radius, excluded)

\* Queue entries and rows that may still be pushed.
Left(s, gates) == Len(s.queue) + Cardinality({g \in gates : g[1] \notin s.visited})

LEMMA NeighborsAreRows ==
    ASSUME NEW gates \in SUBSET (Int \X Int), IsFiniteSet(gates), NEW x
    PROVE  /\ Neighbors(gates, x) \in SUBSET Int /\ IsFiniteSet(Neighbors(gates, x))
           /\ Cardinality(Neighbors(gates, x)) <= Cardinality({g \in gates : g[1] = x})
<1> DEFINE rows == {g \in gates : g[1] = x}
           f == [g \in rows |-> g[2]]
<1>1. IsFiniteSet(rows)
  BY FS_Subset
<1>2. f \in Surjection(rows, Neighbors(gates, x))
  BY DEF Neighbors, Surjection
<1>3. Neighbors(gates, x) \in SUBSET Int
  BY DEF Neighbors
<1> HIDE DEF rows, f
<1>4. IsFiniteSet(Neighbors(gates, x)) /\ Cardinality(Neighbors(gates, x)) <= Cardinality(rows)
  BY <1>1, <1>2, FS_Surjection
<1> QED
  BY <1>3, <1>4 DEF rows

(***************************************************************************)
(* One pass on a queue that is not empty.                                  *)
(***************************************************************************)
LEMMA Skipped ==
    ASSUME NEW s \in LoopState, s.queue # <<>>, ~s.thrown,
           NEW gates, NEW radius, NEW excluded, NEW maxSystems,
           s.queue[1].system \in s.visited \cup excluded
    PROVE  Iterate(s, gates, radius, excluded, maxSystems)
              = [queue |-> Tail(s.queue), visited |-> s.visited, thrown |-> FALSE]
<1>1. Head(s.queue) = s.queue[1]
  BY DEF LoopState
<1>2. [s EXCEPT !.queue = Tail(s.queue)]
        = [queue |-> Tail(s.queue), visited |-> s.visited, thrown |-> FALSE]
  <2>1. s.thrown \in BOOLEAN /\ s.thrown = FALSE
    BY DEF LoopState
  <2>2. \A t : [s EXCEPT !.queue = t]
                = [queue |-> t, visited |-> s.visited, thrown |-> s.thrown]
    BY DEF LoopState
  <2> QED
    BY <2>1, <2>2
<1> QED
  BY <1>1, <1>2 DEF Iterate

Served(s, gates, radius, maxSystems) ==
    LET x == s.queue[1].system
        d == s.queue[1].depth
        seen == s.visited \cup {x}
        found == Neighbors(gates, x) \ seen
    IN  [queue |-> IF d >= radius THEN Tail(s.queue)
                   ELSE Tail(s.queue) \o InOrder(found, d + 1),
         visited |-> seen,
         thrown |-> Cardinality(seen) > maxSystems]

LEMMA Visited ==
    ASSUME NEW s \in LoopState, s.queue # <<>>, ~s.thrown,
           NEW gates, NEW radius, NEW excluded, NEW maxSystems,
           s.queue[1].system \notin s.visited \cup excluded
    PROVE  Iterate(s, gates, radius, excluded, maxSystems)
              = Served(s, gates, radius, maxSystems)
<1>1. Head(s.queue) = s.queue[1]
  BY DEF LoopState
<1> QED
  BY <1>1 DEF Iterate, Pushed, Served

LEMMA PassSkips ==
    ASSUME NEW gates, NEW excluded, NEW ball, AreBalls(ball, gates, excluded),
           NEW radius \in Nat, NEW maxSystems \in Nat,
           NEW s \in LoopState, s.queue # <<>>, ~s.thrown,
           Exact(s, ball, gates, radius, excluded, maxSystems),
           s.queue[1].system \in s.visited \cup excluded
    PROVE  LET next == Iterate(s, gates, radius, excluded, maxSystems)
           IN  /\ next \in LoopState
               /\ Exact(next, ball, gates, radius, excluded, maxSystems)
<1> DEFINE q == s.queue
           rest == Tail(q)
           x == q[1].system
           d == q[1].depth
           next == [queue |-> rest, visited |-> s.visited, thrown |-> FALSE]
<1>1. /\ q \in Seq(Entry) /\ q # <<>> /\ 1 \in 1..Len(q)
      /\ d \in Nat /\ rest \in Seq(Entry) /\ Len(rest) = Len(q) - 1
      /\ \A i \in 1..Len(rest) : i + 1 \in 1..Len(q) /\ rest[i] = q[i + 1]
      /\ Waiting(q) \subseteq {x} \cup Waiting(rest)
      /\ WaitingAt(q, d) \subseteq {x} \cup WaitingAt(rest, d)
  <2>1. q \in Seq(Entry) /\ q # <<>>
    BY DEF LoopState
  <2> HIDE DEF q
  <2> QED
    BY <2>1, TailWaits DEF Entry
<1>2. Iterate(s, gates, radius, excluded, maxSystems) = next
  BY Skipped
<1>3. next \in LoopState
  BY <1>1 DEF LoopState
<1>4. /\ Ordered(q, radius) /\ Sound(q, ball, excluded)
      /\ Level(q, s.visited, d, ball, gates, radius, excluded)
      /\ Cardinality(s.visited) <= maxSystems /\ s.visited \subseteq ball[radius]
  BY DEF Exact, Covers
<1> HIDE DEF rest, q, d
<1>5. d \in 0..radius /\ \A i \in 1..Len(rest) : d <= rest[i].depth /\ rest[i].depth <= d + 1
  <2>1. q[1].depth <= radius
    BY <1>1, <1>4 DEF Ordered
  <2>2. ASSUME NEW i \in 1..Len(rest)
        PROVE  d <= rest[i].depth /\ rest[i].depth <= d + 1
    <3>1. i + 1 \in 1..Len(q) /\ 1 <= i + 1 /\ rest[i] = q[i + 1]
      BY <1>1
    <3> QED
      BY <1>1, <1>4, <3>1 DEF Ordered, d
  <2> QED
    BY <1>1, <2>1, <2>2 DEF d
<1>6. Ordered(rest, radius)
  <2> SUFFICES ASSUME NEW i \in 1..Len(rest), NEW j \in 1..Len(rest)
               PROVE  /\ rest[i].depth <= radius
                      /\ i <= j => /\ rest[i].depth <= rest[j].depth
                                   /\ rest[j].depth <= rest[i].depth + 1
    BY DEF Ordered
  <2>1. i + 1 \in 1..Len(q) /\ j + 1 \in 1..Len(q) /\ rest[i] = q[i + 1] /\ rest[j] = q[j + 1]
    BY <1>1
  <2>2. i <= j => i + 1 <= j + 1
    BY <1>1
  <2> QED
    BY <1>4, <2>1, <2>2 DEF Ordered
<1>7. Sound(rest, ball, excluded)
  BY <1>1, <1>4 DEF Sound
<1>8. Level(rest, s.visited, d, ball, gates, radius, excluded)
  <2>1. x \in s.visited \cup excluded /\ ball[d] \cap excluded = {}
    BY <1>1 DEF AreBalls, q
  <2> HIDE DEF x
  <2> QED
    BY <1>1, <1>4, <2>1 DEF Level
<1>9. Covers(rest, s.visited, ball, gates, radius, excluded)
  BY <1>1, <1>5, <1>6, <1>8, NextLevel
<1> QED
  BY <1>2, <1>3, <1>4, <1>6, <1>7, <1>9 DEF Exact

(***************************************************************************)
(* A queue is taken over by the rest of it and the found systems.          *)
(***************************************************************************)
LEMMA Enqueued ==
    ASSUME NEW q \in Seq(Entry), q # <<>>, NEW radius \in Nat, Ordered(q, radius),
           q[1].depth < radius, NEW found \in SUBSET Int, IsFiniteSet(found)
    PROVE  LET rest == Tail(q)
               d == q[1].depth
               q2 == rest \o InOrder(found, d + 1)
           IN  /\ q2 \in Seq(Entry) /\ Len(q2) = Len(q) - 1 + Cardinality(found)
               /\ Ordered(q2, radius)
               /\ \A i \in 1..Len(q2) : d <= q2[i].depth /\ q2[i].depth <= d + 1
               /\ \A i \in 1..Len(q2) :
                     \/ \E j \in 1..Len(q) : q2[i] = q[j]
                     \/ q2[i].depth = d + 1 /\ q2[i].system \in found
               /\ WaitingAt(rest, d) \subseteq WaitingAt(q2, d)
               /\ Waiting(rest) \cup found \subseteq Waiting(q2)
<1> DEFINE rest == Tail(q)
           d == q[1].depth
           last == InOrder(found, d + 1)
           q2 == rest \o last
<1>1. /\ q[1] \in Entry /\ d \in Nat /\ d + 1 \in Nat /\ d + 1 <= radius
      /\ 1 \in 1..Len(q) /\ Len(q) \in Nat
      /\ rest \in Seq(Entry) /\ Len(rest) = Len(q) - 1
      /\ \A i \in 1..Len(rest) : i + 1 \in 1..Len(q) /\ rest[i] = q[i + 1]
  BY TailWaits DEF Entry
<1> HIDE DEF rest, d
<1>2. /\ last \in Seq(Entry) /\ Len(last) = Cardinality(found)
      /\ \A n \in 1..Len(last) : last[n].depth = d + 1 /\ last[n].system \in found
      /\ \A x \in found : \E n \in 1..Len(last) : last[n].system = x
  <2> DEFINE e == d + 1
  <2>1. e \in Nat
    BY <1>1
  <2> HIDE DEF e
  <2>2. Lists(InOrder(found, e), found, e)
    BY <2>1, InOrderLists
  <2>3. InOrder(found, e) = last
    BY DEF e
  <2> HIDE DEF last
  <2> QED
    BY <2>2, <2>3 DEF e, Lists
<1> HIDE DEF last
<1>3. /\ q2 \in Seq(Entry) /\ Len(q2) = Len(rest) + Len(last)
      /\ \A i \in 1..Len(q2) :
            \/ i \in 1..Len(rest) /\ q2[i] = rest[i]
            \/ /\ i > Len(rest) /\ i - Len(rest) \in 1..Len(last)
               /\ q2[i] = last[i - Len(rest)]
      /\ Waiting(rest) \cup Waiting(last) \subseteq Waiting(q2)
      /\ WaitingAt(rest, d) \subseteq WaitingAt(q2, d)
  BY <1>1, <1>2, ConcatWaits
<1> HIDE DEF q2
<1>4. ASSUME NEW i \in 1..Len(rest)
      PROVE  /\ rest[i].depth \in Nat /\ rest[i].depth <= radius
             /\ d <= rest[i].depth /\ rest[i].depth <= d + 1
  <2>1. i + 1 \in 1..Len(q) /\ 1 <= i + 1 /\ rest[i] = q[i + 1]
    BY <1>1
  <2>2. rest[i] \in Entry
    BY <1>1
  <2> QED
    BY <1>1, <2>1, <2>2 DEF Ordered, d, Entry
<1>5. ASSUME NEW i \in 1..Len(rest), NEW j \in 1..Len(rest), i <= j
      PROVE  rest[i].depth <= rest[j].depth
  <2>1. i + 1 \in 1..Len(q) /\ j + 1 \in 1..Len(q) /\ i + 1 <= j + 1
    BY <1>1, <1>5
  <2> QED
    BY <1>1, <2>1 DEF Ordered
<1>6. \A i \in 1..Len(q2) : /\ q2[i].depth \in Nat /\ q2[i].depth <= radius
                            /\ d <= q2[i].depth /\ q2[i].depth <= d + 1
  <2> SUFFICES ASSUME NEW i \in 1..Len(q2)
               PROVE  /\ q2[i].depth \in Nat /\ q2[i].depth <= radius
                      /\ d <= q2[i].depth /\ q2[i].depth <= d + 1
    OBVIOUS
  <2>1. CASE i \in 1..Len(rest) /\ q2[i] = rest[i]
    BY <1>4, <2>1
  <2>2. CASE i - Len(rest) \in 1..Len(last) /\ q2[i] = last[i - Len(rest)]
    <3>1. q2[i].depth = d + 1
      BY <1>2, <2>2
    <3> QED
      BY <1>1, <3>1
  <2> QED
    BY <1>3, <2>1, <2>2
<1>7. Ordered(q2, radius)
  <2> SUFFICES ASSUME NEW i \in 1..Len(q2), NEW j \in 1..Len(q2), i <= j
               PROVE  q2[i].depth <= q2[j].depth /\ q2[j].depth <= q2[i].depth + 1
    BY <1>6 DEF Ordered
  <2>1. q2[j].depth <= q2[i].depth + 1
    BY <1>1, <1>6
  <2>2. CASE j \in 1..Len(rest) /\ q2[j] = rest[j]
    <3>1. i \in 1..Len(rest) /\ q2[i] = rest[i]
      BY <1>1, <1>3, <2>2
    <3> QED
      BY <1>5, <2>1, <2>2, <3>1
  <2>3. CASE j - Len(rest) \in 1..Len(last) /\ q2[j] = last[j - Len(rest)]
    <3>1. q2[j].depth = d + 1
      BY <1>2, <2>3
    <3> QED
      BY <1>1, <1>6, <2>1, <3>1
  <2> QED
    BY <1>3, <2>2, <2>3
<1>8. ASSUME NEW i \in 1..Len(q2)
      PROVE  \/ \E j \in 1..Len(q) : q2[i] = q[j]
             \/ q2[i].depth = d + 1 /\ q2[i].system \in found
  <2>1. CASE i \in 1..Len(rest) /\ q2[i] = rest[i]
    BY <1>1, <2>1
  <2>2. CASE i - Len(rest) \in 1..Len(last) /\ q2[i] = last[i - Len(rest)]
    BY <1>2, <2>2
  <2> QED
    BY <1>3, <2>1, <2>2
<1>9. found \subseteq Waiting(last)
  BY <1>2 DEF Waiting
<1>10. Len(q2) = Len(q) - 1 + Cardinality(found)
  BY <1>1, <1>2, <1>3
<1> QED
  BY <1>3, <1>6, <1>7, <1>8, <1>9, <1>10 DEF q2, rest, d, last

LEMMA PassVisits ==
    ASSUME NEW gates \in SUBSET (Int \X Int), IsFiniteSet(gates),
           NEW excluded, NEW ball, AreBalls(ball, gates, excluded),
           NEW radius \in Nat, IsFiniteSet(ball[radius]), NEW maxSystems \in Nat,
           NEW s \in LoopState, s.queue # <<>>, ~s.thrown,
           Exact(s, ball, gates, radius, excluded, maxSystems),
           s.queue[1].system \notin s.visited \cup excluded
    PROVE  LET next == Iterate(s, gates, radius, excluded, maxSystems)
           IN  /\ next \in LoopState
               /\ Exact(next, ball, gates, radius, excluded, maxSystems)
<1> DEFINE q == s.queue
           rest == Tail(q)
           x == q[1].system
           d == q[1].depth
           seen == s.visited \cup {x}
           found == Neighbors(gates, x) \ seen
           q2 == IF d >= radius THEN rest ELSE rest \o InOrder(found, d + 1)
           next == [queue |-> q2, visited |-> seen,
                    thrown |-> Cardinality(seen) > maxSystems]
<1>1. /\ q \in Seq(Entry) /\ q # <<>> /\ 1 \in 1..Len(q)
      /\ d \in Nat /\ x \in Int /\ rest \in Seq(Entry) /\ Len(rest) = Len(q) - 1
      /\ \A i \in 1..Len(rest) : i + 1 \in 1..Len(q) /\ rest[i] = q[i + 1]
      /\ Waiting(q) \subseteq {x} \cup Waiting(rest)
      /\ WaitingAt(q, d) \subseteq {x} \cup WaitingAt(rest, d)
  <2>1. q \in Seq(Entry) /\ q # <<>>
    BY DEF LoopState
  <2> HIDE DEF q
  <2> QED
    BY <2>1, TailWaits DEF Entry
<1>2. Iterate(s, gates, radius, excluded, maxSystems) = next
  <2>1. Served(s, gates, radius, maxSystems) = next
    BY DEF Served
  <2>2. Iterate(s, gates, radius, excluded, maxSystems)
           = Served(s, gates, radius, maxSystems)
    BY Visited
  <2> QED
    BY <2>1, <2>2
<1>3. /\ Ordered(q, radius) /\ Sound(q, ball, excluded)
      /\ Level(q, s.visited, d, ball, gates, radius, excluded)
      /\ s.visited \subseteq ball[radius] /\ s.visited \in SUBSET Int
      /\ x \notin s.visited /\ x \notin excluded
  BY DEF Exact, Covers, LoopState
<1>4. d \in 0..radius /\ x \in ball[d]
  BY <1>1, <1>3 DEF Ordered, Sound
<1>5. seen \subseteq ball[radius] /\ seen \in SUBSET Int
  BY <1>1, <1>3, <1>4 DEF AreBalls
<1>6. found \in SUBSET Int /\ IsFiniteSet(found)
  BY NeighborsAreRows, FS_Subset
<1> HIDE DEF q, rest, x, d, seen, found
<1>7. /\ q2 \in Seq(Entry) /\ Ordered(q2, radius)
      /\ \A i \in 1..Len(q2) : d <= q2[i].depth /\ q2[i].depth <= d + 1
      /\ \A i \in 1..Len(q2) :
            \/ \E j \in 1..Len(q) : q2[i] = q[j]
            \/ d < radius /\ q2[i].depth = d + 1 /\ q2[i].system \in found
      /\ WaitingAt(rest, d) \subseteq WaitingAt(q2, d)
      /\ Waiting(rest) \subseteq Waiting(q2)
      /\ d < radius => found \subseteq Waiting(q2)
  <2>1. CASE d < radius
    <3>1. q2 = rest \o InOrder(found, d + 1)
      BY <1>4, <2>1
    <3> HIDE DEF q2
    <3> QED
      BY <1>1, <1>3, <1>6, <2>1, <3>1, Enqueued DEF rest, d
  <2>2. CASE d >= radius
    <3>1. q2 = rest
      BY <2>2
    <3> HIDE DEF q2
    <3>2. ASSUME NEW i \in 1..Len(rest)
          PROVE  d <= rest[i].depth /\ rest[i].depth <= d + 1 /\ rest[i] = q[i + 1]
      <4>1. i + 1 \in 1..Len(q) /\ 1 <= i + 1 /\ rest[i] = q[i + 1]
        BY <1>1
      <4> QED
        BY <1>1, <1>3, <4>1 DEF Ordered, d
    <3>3. ASSUME NEW i \in 1..Len(rest), NEW j \in 1..Len(rest)
          PROVE  /\ rest[i].depth <= radius
                 /\ i <= j => /\ rest[i].depth <= rest[j].depth
                              /\ rest[j].depth <= rest[i].depth + 1
      <4>1. /\ i + 1 \in 1..Len(q) /\ j + 1 \in 1..Len(q)
            /\ rest[i] = q[i + 1] /\ rest[j] = q[j + 1] /\ (i <= j => i + 1 <= j + 1)
        BY <1>1
      <4> QED
        BY <1>3, <4>1 DEF Ordered
    <3>4. Ordered(rest, radius)
      BY <3>3 DEF Ordered
    <3> QED
      BY <1>1, <1>4, <2>2, <3>1, <3>2, <3>4
  <2> QED
    BY <1>4, <2>1, <2>2
<1> HIDE DEF q2
<1>8. next \in LoopState
  BY <1>5, <1>7 DEF LoopState
<1>9. Sound(q2, ball, excluded)
  <2> SUFFICES ASSUME NEW i \in 1..Len(q2)
               PROVE  q2[i].system \in ball[q2[i].depth] \cup excluded
    BY DEF Sound
  <2>1. CASE \E j \in 1..Len(q) : q2[i] = q[j]
    BY <1>3, <2>1 DEF Sound
  <2>2. CASE q2[i].depth = d + 1 /\ q2[i].system \in found
    BY <1>1, <1>4, <2>2 DEF AreBalls, found
  <2> QED
    BY <1>7, <2>1, <2>2
<1>10. Level(q2, seen, d, ball, gates, radius, excluded)
  <2>1. ball[d] \subseteq seen \cup WaitingAt(q2, d)
    BY <1>1, <1>3, <1>7 DEF Level, seen
  <2>2. ASSUME d < radius, NEW y \in seen
        PROVE  Neighbors(gates, y) \ excluded \subseteq seen \cup Waiting(q2)
    <3>1. CASE y = x
      BY <1>7, <2>2, <3>1 DEF found
    <3>2. CASE y \in s.visited
      BY <1>1, <1>3, <1>7, <2>2, <3>2 DEF Level, seen
    <3> QED
      BY <3>1, <3>2 DEF seen
  <2> QED
    BY <2>1, <2>2 DEF Level
<1>11. Covers(q2, seen, ball, gates, radius, excluded)
  BY <1>4, <1>7, <1>10, NextLevel
<1>12. CASE Cardinality(seen) > maxSystems
  <2>1. Cardinality(seen) <= Cardinality(ball[radius])
    BY <1>5, FS_Subset
  <2>2. Cardinality(seen) \in Nat /\ Cardinality(ball[radius]) \in Nat
    BY <1>5, FS_Subset, FS_CardinalityType
  <2>3. Cardinality(ball[radius]) > maxSystems
    BY <1>12, <2>1, <2>2
  <2>4. next.thrown
    BY <1>12
  <2> QED
    BY <1>2, <1>8, <2>3, <2>4 DEF Exact
<1>13. CASE ~(Cardinality(seen) > maxSystems)
  <2>1. Cardinality(seen) <= maxSystems
    <3>1. Cardinality(seen) \in Nat
      BY <1>5, FS_Subset, FS_CardinalityType
    <3> QED
      BY <1>13, <3>1
  <2>2. ~next.thrown /\ next.queue = q2 /\ next.visited = seen
    BY <1>13
  <2> HIDE DEF next
  <2> QED
    BY <1>2, <1>5, <1>7, <1>8, <1>9, <1>11, <2>1, <2>2 DEF Exact
<1> QED
  BY <1>12, <1>13

(***************************************************************************)
(* Every pass on a queue that is not empty takes one from what is left: a  *)
(* visit removes its own rows and pushes no more systems than it has rows. *)
(***************************************************************************)
LEMMA PassShrinks ==
    ASSUME NEW gates \in SUBSET (Int \X Int), IsFiniteSet(gates),
           NEW s \in LoopState, s.queue # <<>>, ~s.thrown,
           NEW radius \in Nat, NEW excluded, NEW maxSystems
    PROVE  LET next == Iterate(s, gates, radius, excluded, maxSystems)
           IN  Left(next, gates) <= Left(s, gates) - 1
<1> DEFINE q == s.queue
           rest == Tail(q)
           next == Iterate(s, gates, radius, excluded, maxSystems)
           Rows(visited) == {g \in gates : g[1] \notin visited}
<1>1. q \in Seq(Entry) /\ q # <<>>
  BY DEF LoopState
<1>2. /\ rest \in Seq(Entry) /\ Len(q) \in Nat /\ Len(rest) = Len(q) - 1
      /\ q[1].depth + 1 \in Nat
  <2> HIDE DEF q
  <2> QED
    BY <1>1, TailWaits DEF Entry
<1>3. \A v : IsFiniteSet(Rows(v)) /\ Cardinality(Rows(v)) \in Nat
  BY FS_Subset, FS_CardinalityType
<1>4. CASE q[1].system \in s.visited \cup excluded
  <2>1. next = [queue |-> rest, visited |-> s.visited, thrown |-> FALSE]
    BY <1>4, Skipped
  <2>2. next.queue = rest /\ next.visited = s.visited
    BY <2>1
  <2>3. /\ Left(next, gates) = Len(rest) + Cardinality(Rows(s.visited))
        /\ Left(s, gates) = Len(q) + Cardinality(Rows(s.visited))
    <3> HIDE DEF next, rest
    <3> QED
      BY <2>2 DEF Left
  <2>4. Cardinality(Rows(s.visited)) \in Nat
    BY <1>3
  <2> HIDE DEF next, rest, Rows, q
  <2>5. Left(next, gates) <= Left(s, gates) - 1
    BY <1>2, <2>3, <2>4
  <2> QED
    BY <2>5 DEF next
<1>5. CASE q[1].system \notin s.visited \cup excluded
  <2> DEFINE x == q[1].system
             seen == s.visited \cup {x}
             found == Neighbors(gates, x) \ seen
             own == {g \in gates : g[1] = x}
             e == q[1].depth + 1
             list == InOrder(found, e)
  <2>1. /\ next.visited = seen
        /\ next.queue = rest \/ next.queue = rest \o list
    <3>1. next = Served(s, gates, radius, maxSystems)
      BY <1>5, Visited
    <3>2. /\ Served(s, gates, radius, maxSystems).visited = seen
          /\ \/ Served(s, gates, radius, maxSystems).queue = rest
             \/ Served(s, gates, radius, maxSystems).queue = rest \o list
      BY DEF Served
    <3> HIDE DEF next, rest, list, seen
    <3> QED
      BY <3>1, <3>2
  <2>2. /\ found \in SUBSET Int /\ IsFiniteSet(found)
        /\ Cardinality(found) \in Nat /\ Cardinality(found) <= Cardinality(own)
    <3> DEFINE near == Neighbors(gates, x)
    <3>1. /\ near \in SUBSET Int /\ IsFiniteSet(near)
          /\ Cardinality(near) <= Cardinality(own)
      BY NeighborsAreRows
    <3>2. found \in SUBSET near
      OBVIOUS
    <3>3. IsFiniteSet(own)
      BY FS_Subset
    <3> HIDE DEF near, found, own
    <3>4. IsFiniteSet(found) /\ Cardinality(found) <= Cardinality(near)
      BY <3>1, <3>2, FS_Subset
    <3>5. /\ Cardinality(found) \in Nat /\ Cardinality(near) \in Nat
          /\ Cardinality(own) \in Nat
      BY <3>1, <3>3, <3>4, FS_CardinalityType
    <3>6. found \in SUBSET Int
      BY <3>1, <3>2
    <3>7. Cardinality(found) <= Cardinality(own)
      BY <3>1, <3>4, <3>5
    <3> QED
      BY <3>4, <3>5, <3>6, <3>7
  <2>3. list \in Seq(Entry) /\ Len(list) = Cardinality(found)
    <3> HIDE DEF found, e
    <3>1. e \in Nat
      BY <1>2 DEF e
    <3>2. Lists(list, found, e)
      BY <2>2, <3>1, InOrderLists
    <3> QED
      BY <3>2 DEF Lists
  <2>4. Cardinality(Rows(s.visited)) = Cardinality(Rows(seen)) + Cardinality(own)
    <3> DEFINE before == Rows(s.visited)
               after == Rows(seen)
    <3>1. before = after \cup own /\ after \cap own = {}
      BY <1>5
    <3>2. IsFiniteSet(after) /\ IsFiniteSet(own)
      BY FS_Subset
    <3> HIDE DEF before, after, own
    <3>3. Cardinality(after \cup own)
             = Cardinality(after) + Cardinality(own) - Cardinality(after \cap own)
      BY <3>2, FS_Union
    <3>4. Cardinality(after \cap own) = 0
      BY <3>1, FS_EmptySet
    <3>5. Cardinality(after) \in Nat /\ Cardinality(own) \in Nat
      BY <3>2, FS_CardinalityType
    <3>6. Cardinality(before) = Cardinality(after) + Cardinality(own)
      BY <3>1, <3>3, <3>4, <3>5
    <3> QED
      BY <3>6 DEF before, after
  <2>5. Len(next.queue) <= Len(q) - 1 + Cardinality(found) /\ Len(next.queue) \in Nat
    <3> HIDE DEF next, rest, q, list, found
    <3>1. Len(rest \o list) = Len(rest) + Len(list)
      BY <1>2, <2>3
    <3> QED
      BY <1>2, <2>1, <2>2, <2>3, <3>1
  <2>6. /\ Left(next, gates) = Len(next.queue) + Cardinality(Rows(seen))
        /\ Left(s, gates) = Len(q) + Cardinality(Rows(s.visited))
    <3> HIDE DEF next
    <3> QED
      BY <2>1 DEF Left
  <2>7. Cardinality(Rows(seen)) \in Nat /\ Cardinality(Rows(s.visited)) \in Nat
        /\ Cardinality(own) \in Nat
    <3>1. IsFiniteSet(own)
      BY FS_Subset
    <3> QED
      BY <1>3, <3>1, FS_CardinalityType
  <2> HIDE DEF next, q, Rows, seen, found, own
  <2>8. Left(next, gates) <= Left(s, gates) - 1
    BY <1>2, <2>2, <2>4, <2>5, <2>6, <2>7
  <2> QED
    BY <2>8 DEF next
<1> QED
  BY <1>4, <1>5

(***************************************************************************)
(* Every state of the loop is exact.                                       *)
(***************************************************************************)
Start(center) == [queue |-> <<[system |-> center, depth |-> 0]>>,
                  visited |-> {}, thrown |-> FALSE]

LEMMA StartIsExact ==
    ASSUME NEW gates, NEW center \in Int, NEW excluded, NEW ball,
           ball[0] = {center} \ excluded, NEW radius \in Nat, NEW maxSystems \in Nat
    PROVE  /\ Start(center) \in LoopState
           /\ Exact(Start(center), ball, gates, radius, excluded, maxSystems)
<1> DEFINE q == <<[system |-> center, depth |-> 0]>>
<1>1. /\ q \in Seq(Entry) /\ q # <<>> /\ Len(q) = 1 /\ 1 \in 1..Len(q)
      /\ q[1].system = center /\ q[1].depth = 0 /\ \A i \in 1..Len(q) : i = 1
  BY DEF Entry
<1>2. /\ Start(center).queue = q /\ Start(center).visited = {}
      /\ Start(center).thrown = FALSE /\ Start(center) \in LoopState
  BY <1>1 DEF Start, LoopState
<1> HIDE DEF q
<1>3. Ordered(q, radius)
  BY <1>1 DEF Ordered
<1>4. Sound(q, ball, excluded)
  BY <1>1 DEF Sound
<1>5. center \in WaitingAt(q, 0)
  BY <1>1 DEF WaitingAt
<1>6. Covers(q, {}, ball, gates, radius, excluded)
  BY <1>1, <1>5 DEF Covers, Level
<1>7. Cardinality({}) = 0
  BY FS_EmptySet
<1> QED
  BY <1>2, <1>3, <1>4, <1>6, <1>7 DEF Exact

LEMMA LoopRuns ==
    ASSUME NEW gates, NEW center, NEW radius, NEW excluded, NEW maxSystems,
           NEW S, Start(center) \in S,
           \A s \in S : Iterate(s, gates, radius, excluded, maxSystems) \in S
    PROVE  LET loop == Loop(gates, center, radius, excluded, maxSystems)
           IN  /\ loop[0] = Start(center)
               /\ \A n \in Nat :
                     /\ loop[n] \in S
                     /\ loop[n + 1] = Iterate(loop[n], gates, radius, excluded, maxSystems)
<1> DEFINE F == [s \in S |-> Iterate(s, gates, radius, excluded, maxSystems)]
           start == Start(center)
<1>1. start \in S
  OBVIOUS
<1>2. F \in [S -> S]
  OBVIOUS
<1>3. PICK f \in [Nat -> S] : f[0] = start /\ \A n \in Nat : f[n + 1] = F[f[n]]
  <2> HIDE DEF F, start
  <2> QED
    BY <1>1, <1>2, Iteration, Z3
<1> DEFINE Is(l) == l = [n \in Nat |->
              IF n = 0 THEN [queue |-> <<[system |-> center, depth |-> 0]>>,
                             visited |-> {}, thrown |-> FALSE]
              ELSE Iterate(l[n - 1], gates, radius, excluded, maxSystems)]
<1>4. Is(f)
  <2>1. \A n \in Nat \ {0} : n - 1 \in Nat /\ (n - 1) + 1 = n
    OBVIOUS
  <2>2. \A n \in Nat \ {0} : f[n] = Iterate(f[n - 1], gates, radius, excluded, maxSystems)
    BY <1>3, <2>1
  <2>3. f = [n \in Nat |-> f[n]]
    OBVIOUS
  <2>4. f[0] = [queue |-> <<[system |-> center, depth |-> 0]>>,
                visited |-> {}, thrown |-> FALSE]
    BY <1>3 DEF Start
  <2> HIDE DEF F
  <2> QED
    BY <2>2, <2>3, <2>4
<1> DEFINE loop == Loop(gates, center, radius, excluded, maxSystems)
<1>5. loop = CHOOSE l : Is(l)
  BY DEF Loop
<1>6. Is(loop)
  <2> HIDE DEF Is, F, start, loop
  <2> QED
    BY <1>4, <1>5
<1>7. /\ loop[0] = start
      /\ \A n \in Nat : loop[n + 1] = Iterate(loop[n], gates, radius, excluded, maxSystems)
  <2>1. \A n \in Nat : n + 1 \in Nat /\ n + 1 # 0 /\ (n + 1) - 1 = n
    OBVIOUS
  <2> HIDE DEF loop
  <2> QED
    BY <1>6, <2>1 DEF Start
<1>8. \A n \in Nat : loop[n] \in S
  <2> DEFINE T == {n \in Nat : loop[n] \in S}
  <2> HIDE DEF loop, start
  <2>1. 0 \in T
    BY <1>1, <1>7
  <2>2. ASSUME NEW n \in Nat, n \in T
        PROVE  n + 1 \in T
    BY <1>2, <1>7, <2>2
  <2> HIDE DEF T
  <2>3. \A n \in Nat : n \in T
    BY <2>1, <2>2, NatSetInduction
  <2> QED
    BY <2>3 DEF T
<1> HIDE DEF loop
<1> QED
  BY <1>7, <1>8 DEF loop

LEMMA LoopIsExact ==
    ASSUME NEW gates \in SUBSET (Int \X Int), IsFiniteSet(gates), NEW center \in Int,
           NEW excluded, NEW ball, AreBalls(ball, gates, excluded),
           ball[0] = {center} \ excluded,
           NEW radius \in Nat, IsFiniteSet(ball[radius]), NEW maxSystems \in Nat
    PROVE  LET loop == Loop(gates, center, radius, excluded, maxSystems)
           IN  /\ loop[0] = Start(center)
               /\ \A n \in Nat :
                     /\ loop[n] \in LoopState
                     /\ Exact(loop[n], ball, gates, radius, excluded, maxSystems)
                     /\ loop[n + 1] = Iterate(loop[n], gates, radius, excluded, maxSystems)
<1> DEFINE S == {s \in LoopState : Exact(s, ball, gates, radius, excluded, maxSystems)}
<1>1. Start(center) \in S
  BY StartIsExact
<1>2. \A s \in S : Iterate(s, gates, radius, excluded, maxSystems) \in S
  <2> SUFFICES ASSUME NEW s \in S
               PROVE  Iterate(s, gates, radius, excluded, maxSystems) \in S
    OBVIOUS
  <2>1. CASE s.queue = <<>> \/ s.thrown
    BY <2>1 DEF Iterate
  <2>2. CASE s.queue # <<>> /\ ~s.thrown /\ s.queue[1].system \in s.visited \cup excluded
    BY <2>2, PassSkips
  <2>3. CASE s.queue # <<>> /\ ~s.thrown /\ s.queue[1].system \notin s.visited \cup excluded
    BY <2>3, PassVisits
  <2> QED
    BY <2>1, <2>2, <2>3
<1> HIDE DEF S
<1>3. LET loop == Loop(gates, center, radius, excluded, maxSystems)
      IN  /\ loop[0] = Start(center)
          /\ \A n \in Nat :
                /\ loop[n] \in S
                /\ loop[n + 1] = Iterate(loop[n], gates, radius, excluded, maxSystems)
  BY <1>1, <1>2, LoopRuns
<1> QED
  BY <1>3 DEF S

LEMMA RowsCount ==
    ASSUME NEW gates, IsFiniteSet(gates)
    PROVE  1 + Cardinality(gates) \in Nat
BY FS_CardinalityType

LEMMA LeftCounts ==
    ASSUME NEW gates, IsFiniteSet(gates), NEW s \in LoopState
    PROVE  Left(s, gates) \in Nat /\ (s.queue # <<>> => Left(s, gates) >= 1)
<1> DEFINE q == s.queue
           rest == {g \in gates : g[1] \notin s.visited}
<1>1. Cardinality(rest) \in Nat
  BY FS_Subset, FS_CardinalityType
<1>2. q \in Seq(Entry)
  BY DEF LoopState
<1>3. Left(s, gates) = Len(q) + Cardinality(rest)
  BY DEF Left
<1> HIDE DEF rest, q
<1>4. Len(q) \in Nat
  BY <1>2
<1>5. CASE q # <<>>
  <2>1. Len(q) >= 1
    BY <1>2, <1>4, <1>5
  <2> QED
    BY <1>1, <1>3, <1>4, <2>1 DEF q
<1>6. CASE q = <<>>
  BY <1>1, <1>3, <1>4, <1>6 DEF q
<1> QED
  BY <1>5, <1>6

(***************************************************************************)
(* The passes are enough: the search ends with an empty queue, or throws.  *)
(***************************************************************************)
LEMMA LoopEnds ==
    ASSUME NEW gates \in SUBSET (Int \X Int), IsFiniteSet(gates), NEW center,
           NEW radius \in Nat, NEW excluded, NEW maxSystems, NEW loop,
           loop[0] = Start(center),
           \A n \in Nat :
              /\ loop[n] \in LoopState
              /\ loop[n + 1] = Iterate(loop[n], gates, radius, excluded, maxSystems)
    PROVE  LET end == loop[1 + Cardinality(gates)]
           IN  end.thrown \/ end.queue = <<>>
<1> DEFINE rows == 1 + Cardinality(gates)
           Over(s) == s.thrown \/ s.queue = <<>>
           T == {n \in Nat : Over(loop[n]) \/ n + Left(loop[n], gates) <= rows}
<1>1. rows \in Nat
  BY RowsCount, Zenon
<1>2. \A s \in LoopState : Left(s, gates) \in Nat /\ (s.queue # <<>> => Left(s, gates) >= 1)
  BY LeftCounts
<1>3. 0 \in T
  <2>1. Start(center).visited = {} /\ Len(Start(center).queue) = 1
    BY DEF Start
  <2>2. {g \in gates : g[1] \notin {}} = gates
    OBVIOUS
  <2>3. Left(Start(center), gates) = rows
    BY <2>1, <2>2 DEF Left
  <2> HIDE DEF rows, Over
  <2>4. 0 + Left(loop[0], gates) <= rows
    BY <1>1, <2>3
  <2> QED
    BY <2>4
<1>4. ASSUME NEW n \in Nat, n \in T
      PROVE  n + 1 \in T
  <2>1. CASE Over(loop[n])
    <3>1. loop[n + 1] = loop[n]
      BY <2>1 DEF Iterate
    <3>2. Over(loop[n + 1]) /\ n + 1 \in Nat
      BY <2>1, <3>1
    <3>3. \A m \in Nat : Over(loop[m]) => m \in T
      OBVIOUS
    <3> HIDE DEF T, Over
    <3> QED
      BY <3>2, <3>3
  <2>2. CASE ~Over(loop[n])
    <3>1. loop[n] \in LoopState /\ loop[n + 1] \in LoopState
      OBVIOUS
    <3>2. Left(loop[n + 1], gates) <= Left(loop[n], gates) - 1
      BY <2>2, <3>1, PassShrinks
    <3>3. n + Left(loop[n], gates) <= rows
      BY <1>4, <2>2
    <3>4. Left(loop[n], gates) \in Nat /\ Left(loop[n + 1], gates) \in Nat
      BY <1>2, <3>1
    <3>5. n + 1 \in Nat /\ (n + 1) + Left(loop[n + 1], gates) <= rows
      <4> HIDE DEF Over, rows
      <4> QED
        BY <1>1, <3>2, <3>3, <3>4
    <3> HIDE DEF rows
    <3>6. \A m \in Nat : m + Left(loop[m], gates) <= rows => m \in T
      OBVIOUS
    <3> HIDE DEF T
    <3> QED
      BY <3>5, <3>6
  <2> QED
    BY <2>1, <2>2
<1>5. rows \in T
  <2> HIDE DEF T, rows
  <2> QED
    BY <1>1, <1>3, <1>4, NatSetInduction
<1> HIDE DEF rows
<1>6. ASSUME rows + Left(loop[rows], gates) <= rows
      PROVE  loop[rows].queue = <<>>
  <2>1. loop[rows] \in LoopState
    BY <1>1
  <2>2. Left(loop[rows], gates) \in Nat
    BY <1>2, <2>1
  <2>3. ~(Left(loop[rows], gates) >= 1)
    BY <1>1, <1>6, <2>2
  <2> QED
    BY <1>2, <2>1, <2>3
<1> QED
  BY <1>1, <1>5, <1>6 DEF rows

-----------------------------------------------------------------------------
(***************************************************************************)
(* The search is exact for every finite set of rows, every center, radius, *)
(* exclusion and limit: the systems it returns are those that a path of at *)
(* most radius jumps leads to, and it throws when those are more than the  *)
(* limit, no earlier and no later.                                         *)
(***************************************************************************)
THEOREM SearchesAreRight ==
    ASSUME NEW gates \in SUBSET (Int \X Int), IsFiniteSet(gates), NEW center \in Int,
           NEW radius \in Nat, NEW excluded, NEW maxSystems \in Nat
    PROVE  SearchIsRight(gates, center, radius, excluded, maxSystems)
<1> DEFINE ball == Balls(gates, center, excluded)
           Nodes == {center} \cup {g[2] : g \in gates}
           loop == Loop(gates, center, radius, excluded, maxSystems)
           end == loop[1 + Cardinality(gates)]
<1>1. IsFiniteSet(Nodes)
  <2> DEFINE heads == {g[2] : g \in gates}
             f == [g \in gates |-> g[2]]
  <2>1. f \in Surjection(gates, heads)
    BY DEF Surjection
  <2> HIDE DEF f, heads
  <2>2. IsFiniteSet(heads)
    BY <2>1, FS_Surjection
  <2>3. IsFiniteSet({center})
    BY FS_Singleton
  <2>4. IsFiniteSet({center} \cup heads)
    BY <2>2, <2>3, FS_Union
  <2> QED
    BY <2>4 DEF heads
<1>2. center \in Nodes /\ \A g \in gates : g[2] \in Nodes
  OBVIOUS
<1> HIDE DEF Nodes
<1>3. ball[0] = {center} \ excluded /\ ball[radius] \in SUBSET Nodes
  BY <1>2, BallsStep
<1>4. AreBalls(ball, gates, excluded)
  BY <1>2, BallsGrow
<1>5. IsFiniteSet(ball[radius]) /\ Cardinality(ball[radius]) \in Nat
  BY <1>1, <1>3, FS_Subset, FS_CardinalityType
<1> HIDE DEF ball, loop
<1>w. ball[0] = {center} \ excluded /\ IsFiniteSet(ball[radius])
  BY <1>3, <1>5
<1>6. /\ loop[0] = Start(center)
      /\ \A n \in Nat :
            /\ loop[n] \in LoopState
            /\ Exact(loop[n], ball, gates, radius, excluded, maxSystems)
            /\ loop[n + 1] = Iterate(loop[n], gates, radius, excluded, maxSystems)
  <2>1. LET l == Loop(gates, center, radius, excluded, maxSystems)
        IN  /\ l[0] = Start(center)
            /\ \A n \in Nat :
                  /\ l[n] \in LoopState
                  /\ Exact(l[n], ball, gates, radius, excluded, maxSystems)
                  /\ l[n + 1] = Iterate(l[n], gates, radius, excluded, maxSystems)
    BY <1>w, <1>4, LoopIsExact
  <2> QED
    BY <2>1, Zenon DEF loop
<1>7. 1 + Cardinality(gates) \in Nat
  BY RowsCount, Zenon
<1>8. end.thrown \/ end.queue = <<>>
  BY <1>6, LoopEnds
<1>9. end \in LoopState /\ Exact(end, ball, gates, radius, excluded, maxSystems)
  BY <1>6, <1>7
<1>10. Search(gates, center, radius, excluded, maxSystems)
          = IF end.thrown THEN Exceeds ELSE end.visited
  BY DEF Search, loop
<1>11. Within(gates, center, radius, excluded) = ball[radius]
  BY DEF Within, ball
<1> HIDE DEF end
<1>12. CASE end.thrown
  <2>1. Cardinality(ball[radius]) > maxSystems
    BY <1>9, <1>12 DEF Exact
  <2> QED
    BY <1>10, <1>11, <1>12, <2>1 DEF SearchIsRight
<1>13. CASE ~end.thrown
  <2>1. end.visited = ball[radius] /\ Cardinality(end.visited) <= maxSystems
    BY <1>8, <1>9, <1>13 DEF Exact, Covers
  <2>2. ~(Cardinality(ball[radius]) > maxSystems)
    BY <1>5, <2>1
  <2> QED
    BY <1>10, <1>11, <1>13, <2>1, <2>2 DEF SearchIsRight
<1> QED
  BY <1>12, <1>13

-----------------------------------------------------------------------------
(* The tables that searches read.                                          *)

LEMMA ScopeKeepsImports == ScopeSpec => Spec
<1>1. ScopeInit => Init
  BY DEF ScopeInit
<1>2. [ScopeNext]_scopeVars => [Next]_vars
  BY DEF ScopeNext, Author, scopeVars
<1> QED
  BY <1>1, <1>2, PTL DEF ScopeSpec, Spec

(***************************************************************************)
(* Writing watches takes nothing from the imports: what holds of them      *)
(* alone holds beside it.                                                  *)
(***************************************************************************)
THEOREM ImportsBesideWatches ==
    ScopeSpec => []TypeOK /\ []StagingIsOwn /\ LookupEndsWhole /\ ImplementsSnapshot
<1> QED
  BY ScopeKeepsImports, ImportTypesCorrect, StagingIsNeverShared, LookupsEndWhole,
     ImportsKeepSnapshots, PTL

(***************************************************************************)
(* The lookup tables hold the rows of the latest import, or none.          *)
(***************************************************************************)
LEMMA TablesOfOneBuild ==
    ASSUME VisibleWhole
    PROVE  \/ Gates = {} /\ Systems = {}
           \/ /\ manifest["topology"] \in Sources
              /\ Complete(manifest["topology"], "topology")
              /\ Gates = GatesOf(manifest["topology"])
              /\ Systems = SystemsOf(manifest["topology"])
<1> DEFINE s == manifest["topology"]
<1>1. "topology" \in Kinds
  BY DEF Kinds
<1>2. CASE visible["topology"] = {}
  BY <1>2 DEF Gates, Systems
<1>3. CASE s \in Sources /\ Complete(s, "topology") /\ visible["topology"] = RowsOf(s, "topology")
  <2>1. "system_adjacency" \in TablesOf("topology") /\ "solar_systems" \in TablesOf("topology")
    <3>1. /\ Files("topology")
               = <<"regions", "constellations", "solar_systems", "system_adjacency">>
      BY DEF Files
    <3>2. /\ Len(Files("topology")) = 4
          /\ Files("topology")[3] = "solar_systems"
          /\ Files("topology")[4] = "system_adjacency"
      BY <3>1
    <3>3. 3 \in 1..Len(Files("topology")) /\ 4 \in 1..Len(Files("topology"))
      BY <3>2
    <3> QED
      BY <3>2, <3>3 DEF TablesOf
  <2> HIDE DEF s
  <2>2. \A t, x : <<t, x>> \in RowsOf(s, "topology") <=> t \in TablesOf("topology") /\ x = s
    BY DEF RowsOf
  <2>3. {r \in visible["topology"] : r[1] = "system_adjacency"} = {<<"system_adjacency", s>>}
    BY <1>3, <2>1 DEF RowsOf
  <2>4. {r \in visible["topology"] : r[1] = "solar_systems"} = {<<"solar_systems", s>>}
    BY <1>3, <2>1 DEF RowsOf
  <2>5. Gates = GatesOf(s)
    <3>1. {GatesOf(r[2]) : r \in {<<"system_adjacency", s>>}} = {GatesOf(s)}
      OBVIOUS
    <3>2. UNION {GatesOf(s)} = GatesOf(s)
      OBVIOUS
    <3> QED
      BY <2>3, <3>1, <3>2 DEF Gates
  <2>6. Systems = SystemsOf(s)
    <3>1. {SystemsOf(r[2]) : r \in {<<"solar_systems", s>>}} = {SystemsOf(s)}
      OBVIOUS
    <3>2. UNION {SystemsOf(s)} = SystemsOf(s)
      OBVIOUS
    <3> QED
      BY <2>4, <3>1, <3>2 DEF Systems
  <2> QED
    BY <1>3, <2>5, <2>6 DEF s
<1> QED
  BY <1>1, <1>2, <1>3 DEF VisibleWhole

LEMMA TablesAreFinite ==
    ASSUME VisibleWhole
    PROVE  /\ Gates \in SUBSET (Int \X Int) /\ IsFiniteSet(Gates)
           /\ Systems \in SUBSET Int /\ IsFiniteSet(Systems)
BY TablesOfOneBuild, WatchScopeAssumption, FS_EmptySet

(***************************************************************************)
(* The search is exact on every topology that readers ever see, whatever   *)
(* imports build, fail and crash.                                          *)
(***************************************************************************)
THEOREM SearchesAreExact == ScopeSpec => SearchIsExact
<1> DEFINE Right ==
      \A center \in Systems, radius \in Radii, excluded \in SUBSET Systems,
         limit \in 1..Cardinality(Systems) :
            SearchIsRight(Gates, center, radius, excluded, limit)
<1>1. VisibleWhole => Right
  <2> SUFFICES ASSUME VisibleWhole,
                      NEW center \in Systems, NEW radius \in Radii,
                      NEW excluded \in SUBSET Systems,
                      NEW limit \in 1..Cardinality(Systems)
               PROVE  SearchIsRight(Gates, center, radius, excluded, limit)
    OBVIOUS
  <2>1. /\ Gates \in SUBSET (Int \X Int) /\ IsFiniteSet(Gates)
        /\ center \in Int /\ radius \in Nat
    BY TablesAreFinite, WatchScopeAssumption
  <2>2. limit \in Nat
    BY TablesAreFinite, FS_CardinalityType
  <2> QED
    BY <2>1, <2>2, SearchesAreRight
<1>2. IInv => VisibleWhole
  BY DEF IInv, Tables
<1>3. IInv => Right
  BY <1>1, <1>2
<1> DEFINE Seen2 == visible'["topology"] # visible["topology"] =>
      \A center \in Systems', radius \in Radii, excluded \in SUBSET Systems',
         limit \in 1..Cardinality(Systems') :
            SearchIsRight(Gates', center, radius, excluded, limit)
<1>4. IInv' => [Seen2]_scopeVars
  <2>1. IInv' => Right'
    BY <1>3, PTL
  <2> QED
    BY <2>1
<1>5. (ScopeSpec => [][Seen2]_scopeVars) <=> (ScopeSpec => SearchIsExact)
  BY DEF SearchIsExact
<1> HIDE DEF Seen2
<1> QED
  BY <1>4, <1>5, ScopeKeepsImports, SpecIInv, PTL

(***************************************************************************)
(* A stored scope is the neighbourhood of its center in one build, for any *)
(* number of imports and builds and any topology.                          *)
(***************************************************************************)
THEOREM ScopesAreOfOneBuild == ScopeSpec => []ScopeIsOfOneBuild
<1>1. ScopeInit => ScopeIsOfOneBuild
  BY DEF ScopeInit, ScopeIsOfOneBuild
<1>2. ASSUME ScopeIsOfOneBuild, VisibleWhole, [ScopeNext]_scopeVars
      PROVE  ScopeIsOfOneBuild'
  <2>1. CASE watch' = watch
    BY <1>2, <2>1 DEF ScopeIsOfOneBuild
  <2>2. ASSUME NEW center \in Centers, NEW radius \in Radii, Author(center, radius)
        PROVE  ScopeIsOfOneBuild'
    <3> DEFINE found == Search(Gates, center, radius, {}, MaxSystems)
               s == manifest["topology"]
    <3>1. center \in Systems /\ found # Exceeds
      BY <2>2 DEF Author
    <3>2. /\ s \in Sources /\ Complete(s, "topology")
          /\ Gates = GatesOf(s) /\ Systems = SystemsOf(s)
      BY <1>2, <3>1, TablesOfOneBuild
    <3>3. SearchIsRight(Gates, center, radius, {}, MaxSystems)
      <4>1. /\ Gates \in SUBSET (Int \X Int) /\ IsFiniteSet(Gates)
            /\ center \in Int /\ radius \in Nat /\ MaxSystems \in Nat
        BY <1>2, <3>1, TablesAreFinite, WatchScopeAssumption
      <4> QED
        BY <4>1, SearchesAreRight
    <3>4. found = Within(Gates, center, radius, {})
      BY <3>1, <3>3 DEF SearchIsRight
    <3>5. watch' = [center |-> center, radius |-> radius, included |-> found]
      <4>1. PICK accepted \in SUBSET Systems :
                LET stored == Stored(found, accepted)
                IN  /\ stored # Exceeds
                    /\ watch' = [center |-> center, radius |-> radius,
                                 included |-> stored]
        BY <2>2 DEF Author
      <4>2. Stored(found, accepted) = found
        BY <4>1 DEF Stored
      <4> QED
        BY <4>1, <4>2
    <3> HIDE DEF found, s
    <3>6. /\ watch'.center = center /\ watch'.radius = radius
          /\ watch'.included = Within(GatesOf(s), center, radius, {})
      BY <3>2, <3>4, <3>5
    <3> QED
      BY <3>2, <3>6 DEF ScopeIsOfOneBuild
  <2> QED
    BY <1>2, <2>1, <2>2 DEF ScopeNext, scopeVars
<1>3. IInv => VisibleWhole
  BY DEF IInv, Tables
<1> QED
  BY <1>1, <1>2, <1>3, ScopeKeepsImports, SpecIInv, PTL DEF ScopeSpec
=============================================================================
