--------------------------- MODULE TopologyProofs ---------------------------
(***************************************************************************)
(* Theorems about the topology that the network manager hands out, for     *)
(* every network, any number of peers and everything the listener may      *)
(* publish.  First that the algorithm of _all_pairs_shortest_path finds    *)
(* the paths of least cost, round by round; then what there is under way   *)
(* between manager and peers; then the two together.                       *)
(***************************************************************************)
EXTENDS Topology, FiniteSetTheorems, TLAPS

-----------------------------------------------------------------------------

\* Induction, from counting: in a set that has a gap at m the steps up to m
\* would be an injection into fewer elements.
LEMMA FromZeroUp ==
  ASSUME NEW S, 0 \in S, \A n \in Nat : n \in S => n + 1 \in S
  PROVE  \A n \in Nat : n \in S
<1> SUFFICES ASSUME NEW m \in Nat, m \notin S PROVE FALSE
  OBVIOUS
<1> DEFINE T == { n \in 0 .. m : n \in S }
           up == [n \in T |-> n + 1]
<1>1. IsFiniteSet(T)
  <2>1. IsFiniteSet(0 .. m)
    BY FS_Interval
  <2>2. T \in SUBSET (0 .. m)
    OBVIOUS
  <2> HIDE DEF T
  <2> QED BY <2>1, <2>2, FS_Subset
<1>2. up \in Injection(T, T \ {0})
  <2>1. \A n \in T : n + 1 \in T \ {0}
    OBVIOUS
  <2> QED BY <2>1 DEF Injection, IsInjective
<1>3. /\ IsFiniteSet(T \ {0}) /\ Cardinality(T \ {0}) = Cardinality(T) - 1
      /\ Cardinality(T) \in Nat
  <2>1. 0 \in T
    OBVIOUS
  <2> HIDE DEF T
  <2> QED BY <1>1, <2>1, FS_RemoveElement, FS_CardinalityType
<1>4. Cardinality(T) <= Cardinality(T \ {0})
  <2> HIDE DEF T, up
  <2> QED BY <1>2, <1>3, FS_Injection
<1> QED BY <1>3, <1>4

LEMMA MaxIs ==
  ASSUME NEW n \in Nat, NEW T \in SUBSET (1 .. n), T # {}
  PROVE  Max(T) \in T /\ \A x \in T : x <= Max(T)
<1> DEFINE S == { m \in Nat : \A U \in SUBSET (1 .. m) :
                    U # {} => \E x \in U : \A y \in U : y <= x }
<1>1. 0 \in S
  <2>1. 1 .. 0 = {}
    OBVIOUS
  <2> QED BY <2>1
<1>2. ASSUME NEW m \in Nat, m \in S PROVE m + 1 \in S
  <2> SUFFICES ASSUME NEW U \in SUBSET (1 .. m + 1), U # {}
               PROVE  \E x \in U : \A y \in U : y <= x
    OBVIOUS
  <2>1. CASE m + 1 \in U
    BY <2>1
  <2>2. CASE m + 1 \notin U
    <3>1. U \in SUBSET (1 .. m)
      BY <2>2
    <3> QED BY <1>2, <3>1
  <2> QED BY <2>1, <2>2
<1>3. n \in S
  <2> HIDE DEF S
  <2> QED BY <1>1, <1>2, FromZeroUp
<1>4. \E x \in T : \A y \in T : y <= x
  BY <1>3
<1>5. \E x \in T : \A y \in T : x >= y
  BY <1>4
<1> QED BY <1>5 DEF Max

LEMMA LinkToIs ==
  ASSUME NEW ls \in Links, NEW i \in Nodes, NEW j, Linked(ls, i, j)
  PROVE  /\ LinkTo(ls, i, j) \in Link /\ LinkTo(ls, i, j).to = j
         /\ i \in Keys(ls)
<1>1. ls[i] \in Seq(Link)
  BY DEF Links
<1>2. Parallel(ls, i, j) \in SUBSET (1 .. Len(ls[i])) /\ Len(ls[i]) \in Nat
  BY <1>1 DEF Parallel
<1>3. Max(Parallel(ls, i, j)) \in Parallel(ls, i, j)
  BY <1>2, MaxIs DEF Linked
<1> DEFINE x == Max(Parallel(ls, i, j))
<1>4. x \in 1 .. Len(ls[i]) /\ ls[i][x].to = j
  BY <1>1, <1>3 DEF Parallel
<1>5. ls[i] # <<>>
  BY <1>4
<1> QED BY <1>1, <1>4, <1>5 DEF LinkTo, Keys

\* The rounds are what their recursive definition says.
LEMMA RoundsAre ==
  ASSUME NEW ls
  PROVE  /\ Rounds(ls)[0] = Adjacent(ls)
         /\ \A n \in 1 .. Len(NodeList) :
              Rounds(ls)[n] =
                IF NodeList[n] \notin Keys(ls) THEN Rounds(ls)[n - 1]
                ELSE [ij \in Pairs(ls) |-> Improved(Rounds(ls)[n - 1], NodeList[n], ij)]
<1> DEFINE Step(best, n) ==
             IF NodeList[n] \notin Keys(ls) THEN best
             ELSE [ij \in Pairs(ls) |-> Improved(best, NodeList[n], ij)]
           First == Adjacent(ls)
           Is(f, m) == f = [n \in 0 .. m |-> IF n = 0 THEN First ELSE Step(f[n - 1], n)]
           S == { m \in Nat : \E f : Is(f, m) }
<1>0. Rounds(ls) = CHOOSE f : Is(f, Len(NodeList))
  BY DEF Rounds
<1> HIDE DEF Step, First
<1>1. 0 \in S
  <2> DEFINE f == [n \in 0 .. 0 |-> First]
  <2>1. Is(f, 0)
    OBVIOUS
  <2> QED BY <2>1
<1>2. ASSUME NEW m \in Nat, m \in S PROVE m + 1 \in S
  <2>1. PICK f : Is(f, m)
    BY <1>2
  <2> DEFINE g == [n \in 0 .. m + 1 |-> IF n = m + 1 THEN Step(f[m], n) ELSE f[n]]
  <2>2. \A n \in 0 .. m + 1 : g[n] = IF n = 0 THEN First ELSE Step(g[n - 1], n)
    BY <2>1
  <2>3. Is(g, m + 1)
    <3> DEFINE h == [n \in 0 .. m + 1 |-> IF n = 0 THEN First ELSE Step(g[n - 1], n)]
    <3>1. DOMAIN g = 0 .. m + 1 /\ DOMAIN h = 0 .. m + 1
      OBVIOUS
    <3>2. g = h
      BY <2>2
    <3> QED BY <3>2
  <2> HIDE DEF Is, g
  <2> QED BY <2>3
<1>3. Len(NodeList) \in Nat
  BY TopologyAssumption
<1>4. \E f : Is(f, Len(NodeList))
  <2>1. Len(NodeList) \in S
    <3> HIDE DEF S
    <3> QED BY <1>1, <1>2, <1>3, FromZeroUp
  <2> QED BY <2>1
<1>5. Is(Rounds(ls), Len(NodeList))
  <2> HIDE DEF Is
  <2> QED BY <1>0, <1>4
<1>6. /\ Rounds(ls)[0] = First
      /\ \A n \in 1 .. Len(NodeList) : Rounds(ls)[n] = Step(Rounds(ls)[n - 1], n)
  BY <1>3, <1>5
<1> QED BY <1>6 DEF Step, First

\* What a path costs is what its recursive definition says.
LEMMA CostIs ==
  ASSUME NEW ls, NEW path, Len(path) \in Nat \ {0}
  PROVE  /\ CostTo(ls, path)[1] = 0
         /\ \A x \in 2 .. Len(path) :
              CostTo(ls, path)[x] =
                CostTo(ls, path)[x - 1] + LinkTo(ls, path[x - 1], path[x]).cost
<1> DEFINE Step(c, x) == c + LinkTo(ls, path[x - 1], path[x]).cost
           Is(f, m) == f = [x \in 1 .. m |-> IF x = 1 THEN 0 ELSE Step(f[x - 1], x)]
           S == { m \in Nat : \E f : Is(f, m) }
<1>0. CostTo(ls, path) = CHOOSE f : Is(f, Len(path))
  BY DEF CostTo
<1> HIDE DEF Step
<1>1. 0 \in S
  <2> DEFINE f == [x \in 1 .. 0 |-> 0]
  <2>1. Is(f, 0)
    OBVIOUS
  <2> QED BY <2>1
<1>2. ASSUME NEW m \in Nat, m \in S PROVE m + 1 \in S
  <2>1. PICK f : Is(f, m)
    BY <1>2
  <2> DEFINE g == [x \in 1 .. m + 1 |-> IF x = m + 1 /\ m # 0 THEN Step(f[m], x)
                                        ELSE IF x = 1 THEN 0 ELSE f[x]]
  <2>2. \A x \in 1 .. m + 1 : g[x] = IF x = 1 THEN 0 ELSE Step(g[x - 1], x)
    BY <2>1
  <2>3. Is(g, m + 1)
    <3> DEFINE h == [x \in 1 .. m + 1 |-> IF x = 1 THEN 0 ELSE Step(g[x - 1], x)]
    <3>2. g = h
      BY <2>2
    <3> QED BY <3>2
  <2> HIDE DEF Is, g
  <2> QED BY <2>3
<1>4. \E f : Is(f, Len(path))
  <2>1. Len(path) \in S
    <3> HIDE DEF S
    <3> QED BY <1>1, <1>2, FromZeroUp
  <2> QED BY <2>1
<1>5. Is(CostTo(ls, path), Len(path))
  <2> HIDE DEF Is
  <2> QED BY <1>0, <1>4
<1>6. /\ CostTo(ls, path)[1] = 0
      /\ \A x \in 2 .. Len(path) :
           CostTo(ls, path)[x] = Step(CostTo(ls, path)[x - 1], x)
  BY <1>5
<1> QED BY <1>6 DEF Step

\* An injective sequence of routers is a path: it cannot be longer than the
\* list of all routers.
LEMMA PathIs ==
  ASSUME NEW path
  PROVE  path \in NodePaths <=>
           \E m \in Nat \ {0} : path \in [1 .. m -> Nodes] /\ IsInjective(path)
<1>1. ASSUME path \in NodePaths
      PROVE  \E m \in Nat \ {0} : path \in [1 .. m -> Nodes] /\ IsInjective(path)
  BY <1>1, TopologyAssumption DEF NodePaths
<1>2. ASSUME NEW m \in Nat \ {0}, path \in [1 .. m -> Nodes], IsInjective(path)
      PROVE  path \in NodePaths
  <2> DEFINE n == Len(NodeList)
  <2>1. n \in Nat /\ DOMAIN NodeList = 1 .. n
    BY TopologyAssumption
  <2>2. NodeList \in Surjection(1 .. n, Nodes)
    BY <2>1, TopologyAssumption DEF Surjection, Nodes, Range
  <2>3. IsFiniteSet(1 .. n) /\ Cardinality(1 .. n) = n
    <3> HIDE DEF n
    <3>1. 1 \in Int /\ n \in Int /\ (IF 1 > n THEN 0 ELSE n - 1 + 1) = n
      BY <2>1
    <3> QED BY <3>1, FS_Interval
  <2>4. IsFiniteSet(Nodes) /\ Cardinality(Nodes) <= n
    <3> HIDE DEF n
    <3> QED BY <2>2, <2>3, FS_Surjection
  <2>5. path \in Injection(1 .. m, Nodes)
    BY <1>2 DEF Injection
  <2>6. Cardinality(1 .. m) <= Cardinality(Nodes)
    BY <2>4, <2>5, FS_Injection
  <2>7. Cardinality(1 .. m) = m /\ Cardinality(Nodes) \in Nat
    BY <2>4, FS_Interval, FS_CardinalityType
  <2>8. m <= n
    BY <2>1, <2>4, <2>6, <2>7
  <2>9. m \in 1 .. Len(NodeList)
    BY <2>1, <2>8
  <2> QED BY <1>2, <2>9 DEF NodePaths
<1> QED BY <1>1, <1>2

LEMMA PathOf ==
  ASSUME NEW path \in Seq(Nodes), path # <<>>,
         \A x, y \in 1 .. Len(path) : path[x] = path[y] => x = y
  PROVE  path \in NodePaths
<1> DEFINE m == Len(path)
<1>1. m \in Nat \ {0} /\ path \in [1 .. m -> Nodes]
  OBVIOUS
<1>2. IsInjective(path)
  BY DEF IsInjective
<1> HIDE DEF m
<1> QED BY <1>1, <1>2, PathIs

LEMMA PathHas ==
  ASSUME NEW path \in NodePaths
  PROVE  /\ Len(path) \in 1 .. Len(NodeList)
         /\ Len(path) \in Nat \ {0} /\ Len(NodeList) \in Nat
         /\ path \in [1 .. Len(path) -> Nodes]
         /\ \A x, y \in 1 .. Len(path) : path[x] = path[y] => x = y
<1>1. PICK m \in 1 .. Len(NodeList) : path \in [1 .. m -> Nodes] /\ IsInjective(path)
  BY DEF NodePaths
<1>2. Len(NodeList) \in Nat
  BY TopologyAssumption
<1>3. m \in Nat \ {0} /\ Len(path) = m
  BY <1>1, <1>2
<1> QED BY <1>1, <1>2, <1>3 DEF IsInjective

\* Each pair of successive routers is linked.
Chain(ls, path) == \A x \in 1 .. Len(path) - 1 : Linked(ls, path[x], path[x + 1])

LEMMA SimpleIs ==
  ASSUME NEW ls, NEW i, NEW j, NEW path
  PROVE  path \in SimplePaths(ls, i, j) <=>
           /\ path \in NodePaths /\ Chain(ls, path)
           /\ path[1] = i /\ path[Len(path)] = j
BY DEF SimplePaths, Chain

\* A path costs something for each link, and not more than the dearest.
LEMMA CostBounds ==
  ASSUME NEW ls \in Links, NEW path \in NodePaths, Chain(ls, path)
  PROVE  /\ \A x \in 1 .. Len(path) : CostTo(ls, path)[x] \in Nat
         /\ \A x \in 2 .. Len(path) : CostTo(ls, path)[x - 1] < CostTo(ls, path)[x]
         /\ CostOf(ls, path) \in Nat /\ CostOf(ls, path) < Infinite
<1> DEFINE c == CostTo(ls, path)
           S == { m \in Nat : m + 1 \in 1 .. Len(path) =>
                                c[m + 1] \in Nat /\ c[m + 1] <= MaxCost * m }
<1>1. /\ Len(path) \in 1 .. Len(NodeList) /\ Len(path) \in Nat \ {0}
      /\ path \in [1 .. Len(path) -> Nodes] /\ Len(NodeList) \in Nat
  BY PathHas
<1>2. MaxCost \in Nat \ {0}
  BY TopologyAssumption
<1>3. /\ c[1] = 0
      /\ \A x \in 2 .. Len(path) : c[x] = c[x - 1] + LinkTo(ls, path[x - 1], path[x]).cost
  BY <1>1, CostIs
<1>4. \A x \in 2 .. Len(path) : LinkTo(ls, path[x - 1], path[x]).cost \in 1 .. MaxCost
  <2> SUFFICES ASSUME NEW x \in 2 .. Len(path)
               PROVE  LinkTo(ls, path[x - 1], path[x]).cost \in 1 .. MaxCost
    OBVIOUS
  <2>1. x - 1 \in 1 .. Len(path) - 1 /\ (x - 1) + 1 = x
    BY <1>1
  <2>2. Linked(ls, path[x - 1], path[x]) /\ path[x - 1] \in Nodes
    BY <1>1, <2>1 DEF Chain
  <2> QED BY <2>2, LinkToIs DEF Link
<1> HIDE DEF c
<1>5. 0 \in S
  BY <1>2, <1>3
<1>6. ASSUME NEW m \in Nat, m \in S PROVE m + 1 \in S
  <2> SUFFICES ASSUME (m + 1) + 1 \in 1 .. Len(path)
               PROVE  c[(m + 1) + 1] \in Nat /\ c[(m + 1) + 1] <= MaxCost * (m + 1)
    OBVIOUS
  <2>1. (m + 1) + 1 \in 2 .. Len(path) /\ ((m + 1) + 1) - 1 = m + 1 /\ m + 1 \in 1 .. Len(path)
    BY <1>1
  <2> DEFINE l == LinkTo(ls, path[((m + 1) + 1) - 1], path[(m + 1) + 1]).cost
  <2>2. c[(m + 1) + 1] = c[m + 1] + l /\ l \in 1 .. MaxCost
    BY <1>3, <1>4, <2>1
  <2>3. c[m + 1] \in Nat /\ c[m + 1] <= MaxCost * m
    BY <1>6, <2>1
  <2>4. MaxCost * (m + 1) = MaxCost * m + MaxCost /\ MaxCost * m \in Nat
    BY <1>2
  <2> HIDE DEF l
  <2> QED BY <1>2, <2>2, <2>3, <2>4
<1>7. \A m \in Nat : m \in S
  <2> HIDE DEF S
  <2> QED BY <1>5, <1>6, FromZeroUp
<1>8. ASSUME NEW x \in 1 .. Len(path)
      PROVE  c[x] \in Nat /\ c[x] <= MaxCost * (x - 1)
  <2>1. x - 1 \in Nat /\ (x - 1) + 1 = x
    BY <1>1
  <2> QED BY <1>7, <1>8, <2>1
<1>9. \A x \in 2 .. Len(path) : c[x - 1] < c[x]
  <2> SUFFICES ASSUME NEW x \in 2 .. Len(path) PROVE c[x - 1] < c[x]
    OBVIOUS
  <2>1. x - 1 \in 1 .. Len(path)
    BY <1>1
  <2> QED BY <1>3, <1>4, <1>8, <2>1
<1>10. CostOf(ls, path) = c[Len(path)] /\ Len(path) \in 1 .. Len(path)
  BY <1>1 DEF CostOf, c
<1>11. CostOf(ls, path) < Infinite
  <2> DEFINE l == Len(path)
             n == Len(NodeList)
  <2>1. c[l] \in Nat /\ c[l] <= MaxCost * (l - 1)
    BY <1>8, <1>10
  <2>2. l \in 1 .. n /\ n \in Nat
    BY <1>1
  <2> HIDE DEF l, n
  <2>3. MaxCost * (l - 1) <= MaxCost * n
    <3>1. PICK k \in Nat : n = (l - 1) + k
      BY <2>2
    <3>2. MaxCost * n = MaxCost * (l - 1) + MaxCost * k /\ MaxCost * k \in Nat
      BY <1>2, <2>2, <3>1
    <3> QED BY <1>2, <2>2, <3>2
  <2>4. MaxCost * (n + 1) = MaxCost * n + MaxCost
    BY <1>2, <2>2
  <2>5. c[l] < MaxCost * (n + 1)
    BY <1>2, <2>1, <2>2, <2>3, <2>4
  <2> QED BY <1>10, <2>5 DEF Infinite, n, l
<1> QED BY <1>8, <1>9, <1>10, <1>11 DEF c

LEMMA CostGrows ==
  ASSUME NEW ls \in Links, NEW path \in NodePaths, Chain(ls, path),
         NEW x \in 1 .. Len(path)
  PROVE  CostTo(ls, path)[x] <= CostTo(ls, path)[Len(path)]
<1> DEFINE c == CostTo(ls, path)
           n == Len(path)
           S == { k \in Nat : x + k \in x .. n => c[x] <= c[x + k] }
<1>1. n \in Nat \ {0} /\ x \in 1 .. n
  BY PathHas
<1>2. /\ \A y \in 1 .. n : c[y] \in Nat
      /\ \A y \in 2 .. n : c[y - 1] < c[y]
  BY CostBounds
<1> HIDE DEF c, n
<1>3. 0 \in S
  <2>1. x + 0 = x /\ c[x] \in Nat
    BY <1>1, <1>2
  <2> QED BY <2>1
<1>4. ASSUME NEW k \in Nat, k \in S PROVE k + 1 \in S
  <2> SUFFICES ASSUME x + (k + 1) \in x .. n PROVE c[x] <= c[x + (k + 1)]
    OBVIOUS
  <2>1. /\ x + (k + 1) \in 2 .. n /\ (x + (k + 1)) - 1 = x + k
        /\ x + k \in x .. n /\ x + k \in 1 .. n /\ x + (k + 1) \in 1 .. n
    BY <1>1
  <2>2. c[x] <= c[x + k] /\ c[x + k] < c[x + (k + 1)]
    BY <1>2, <1>4, <2>1
  <2>3. c[x] \in Nat /\ c[x + k] \in Nat /\ c[x + (k + 1)] \in Nat
    BY <1>1, <1>2, <2>1
  <2> HIDE DEF S
  <2> QED BY <2>2, <2>3
<1>5. \A k \in Nat : k \in S
  <2> HIDE DEF S
  <2> QED BY <1>3, <1>4, FromZeroUp
<1>6. n - x \in Nat /\ x + (n - x) = n /\ n \in x .. n
  BY <1>1
<1> QED BY <1>5, <1>6 DEF c, n

-----------------------------------------------------------------------------

\* P up to its a-th router and then Q from its b-th on, which is the same.
Joined(P, a, Q, b) ==
  [x \in 1 .. a + Len(Q) - b |-> IF x <= a THEN P[x] ELSE Q[x - a + b]]

\* They meet there, and before that the first has nothing of the second.
Meet(P, a, Q, b) ==
  /\ a \in 1 .. Len(P) /\ b \in 1 .. Len(Q) /\ P[a] = Q[b]
  /\ \A x \in 1 .. a - 1 : \A y \in b .. Len(Q) : P[x] # Q[y]

IsJoin(ls, R, P, a, Q, b) ==
  /\ R \in NodePaths /\ Chain(ls, R)
  /\ Len(R) = a + Len(Q) - b
  /\ R[1] = P[1] /\ R[Len(R)] = Q[Len(Q)]
  /\ \A x \in 1 .. a : R[x] = P[x]
  /\ \A x \in a .. Len(R) : R[x] = Q[x - a + b]
  /\ CostOf(ls, R) = CostTo(ls, P)[a] + CostOf(ls, Q) - CostTo(ls, Q)[b]

LEMMA Join ==
  ASSUME NEW ls \in Links, NEW P \in NodePaths, NEW Q \in NodePaths,
         Chain(ls, P), Chain(ls, Q), NEW a, NEW b, Meet(P, a, Q, b)
  PROVE  IsJoin(ls, Joined(P, a, Q, b), P, a, Q, b)
<1> DEFINE R == Joined(P, a, Q, b)
           m == Len(P)
           n == Len(Q)
           r == a + n - b
<1>1. /\ m \in Nat \ {0} /\ P \in [1 .. m -> Nodes]
      /\ n \in Nat \ {0} /\ Q \in [1 .. n -> Nodes]
      /\ \A x, y \in 1 .. m : P[x] = P[y] => x = y
      /\ \A x, y \in 1 .. n : Q[x] = Q[y] => x = y
  BY PathHas
<1>2. /\ a \in 1 .. m /\ b \in 1 .. n /\ P[a] = Q[b]
      /\ \A x \in 1 .. a - 1 : \A y \in b .. n : P[x] # Q[y]
  BY DEF Meet
<1>3. R = [x \in 1 .. r |-> IF x <= a THEN P[x] ELSE Q[x - a + b]]
  BY DEF Joined
<1> HIDE DEF R, m, n
<1>4. r \in Nat \ {0} /\ a <= r
  BY <1>1, <1>2
<1>5. R \in [1 .. r -> Nodes]
  <2>1. \A x \in 1 .. r : (IF x <= a THEN P[x] ELSE Q[x - a + b]) \in Nodes
    BY <1>1, <1>2, <1>4
  <2> QED BY <1>3, <2>1
<1>6. \A x \in 1 .. a : R[x] = P[x]
  BY <1>2, <1>3, <1>4
<1>7. \A x \in a .. r : R[x] = Q[x - a + b] /\ x - a + b \in b .. n
  BY <1>1, <1>2, <1>3, <1>4
<1>8. ASSUME NEW x \in 1 .. r, NEW y \in 1 .. r, R[x] = R[y] PROVE x = y
  <2>1. CASE x \in 1 .. a - 1 /\ y \in 1 .. a - 1
    BY <1>1, <1>2, <1>6, <1>8, <2>1
  <2>2. CASE x \in 1 .. a - 1 /\ y \in a .. r
    <3>1. R[x] = P[x] /\ R[y] = Q[y - a + b] /\ y - a + b \in b .. n
      BY <1>1, <1>2, <1>6, <1>7, <2>2
    <3> QED BY <1>2, <1>8, <2>2, <3>1
  <2>3. CASE x \in a .. r /\ y \in 1 .. a - 1
    <3>1. R[y] = P[y] /\ R[x] = Q[x - a + b] /\ x - a + b \in b .. n
      BY <1>1, <1>2, <1>6, <1>7, <2>3
    <3> QED BY <1>2, <1>8, <2>3, <3>1
  <2>4. CASE x \in a .. r /\ y \in a .. r
    <3>1. Q[x - a + b] = Q[y - a + b] /\ x - a + b \in 1 .. n /\ y - a + b \in 1 .. n
      BY <1>1, <1>2, <1>7, <1>8, <2>4
    <3>2. x - a + b = y - a + b
      BY <1>1, <3>1
    <3> QED BY <1>2, <3>2
  <2> QED BY <1>2, <1>4, <2>1, <2>2, <2>3, <2>4
<1>9. R \in NodePaths /\ Len(R) = r
  <2>1. IsInjective(R)
    BY <1>5, <1>8 DEF IsInjective
  <2>2. Len(R) = r
    BY <1>4, <1>5
  <2> HIDE DEF r
  <2> QED BY <1>4, <1>5, <2>1, <2>2, PathIs
<1>10. Chain(ls, R)
  <2> SUFFICES ASSUME NEW x \in 1 .. r - 1 PROVE Linked(ls, R[x], R[x + 1])
    BY <1>9 DEF Chain
  <2>1. CASE x < a
    <3>1. R[x] = P[x] /\ R[x + 1] = P[x + 1] /\ x \in 1 .. m - 1
      BY <1>1, <1>2, <1>4, <1>6, <2>1
    <3> QED BY <3>1 DEF Chain, m
  <2>2. CASE x >= a
    <3>1. /\ R[x] = Q[x - a + b] /\ R[x + 1] = Q[(x - a + b) + 1]
          /\ x - a + b \in 1 .. n - 1
      <4>1. x \in a .. r /\ x + 1 \in a .. r /\ (x + 1) - a + b = (x - a + b) + 1
        BY <1>2, <1>4, <2>2
      <4>2. x - a + b \in 1 .. n - 1
        BY <1>1, <1>2, <1>4, <2>2
      <4> QED BY <1>7, <4>1, <4>2
    <3> QED BY <3>1 DEF Chain, n
  <2> QED BY <1>2, <2>1, <2>2
<1>11. CostOf(ls, R) = CostTo(ls, P)[a] + CostOf(ls, Q) - CostTo(ls, Q)[b]
  <2> DEFINE p == CostTo(ls, P)
             q == CostTo(ls, Q)
             c == CostTo(ls, R)
             lp(x) == LinkTo(ls, P[x - 1], P[x]).cost
             lq(x) == LinkTo(ls, Q[x - 1], Q[x]).cost
             lr(x) == LinkTo(ls, R[x - 1], R[x]).cost
  <2>1. /\ p[1] = 0 /\ \A x \in 2 .. m : p[x] = p[x - 1] + lp(x)
        /\ q[1] = 0 /\ \A x \in 2 .. n : q[x] = q[x - 1] + lq(x)
        /\ c[1] = 0 /\ \A x \in 2 .. r : c[x] = c[x - 1] + lr(x)
    <3>1. Len(P) \in Nat \ {0} /\ Len(Q) \in Nat \ {0} /\ Len(R) \in Nat \ {0}
      BY <1>1, <1>4, <1>9 DEF m, n
    <3>2. p[1] = 0 /\ \A x \in 2 .. m : p[x] = p[x - 1] + lp(x)
      BY <3>1, CostIs DEF m
    <3>3. q[1] = 0 /\ \A x \in 2 .. n : q[x] = q[x - 1] + lq(x)
      BY <3>1, CostIs DEF n
    <3>4. c[1] = 0 /\ \A x \in 2 .. r : c[x] = c[x - 1] + lr(x)
      BY <1>9, <3>1, CostIs
    <3> QED BY <3>2, <3>3, <3>4
  <2>2. /\ \A x \in 1 .. m : p[x] \in Nat
        /\ \A x \in 1 .. n : q[x] \in Nat
        /\ \A x \in 1 .. r : c[x] \in Nat
    BY <1>9, <1>10, CostBounds DEF m, n
  <2>3. \A x \in 2 .. a : lr(x) = lp(x)
    <3> SUFFICES ASSUME NEW x \in 2 .. a PROVE lr(x) = lp(x)
      OBVIOUS
    <3>1. x \in 1 .. a /\ x - 1 \in 1 .. a
      BY <1>2
    <3> QED BY <1>6, <3>1
  <2>4. \A x \in a + 1 .. r : lr(x) = lq(x - a + b)
    <3> SUFFICES ASSUME NEW x \in a + 1 .. r PROVE lr(x) = lq(x - a + b)
      OBVIOUS
    <3>1. x \in a .. r /\ x - 1 \in a .. r /\ (x - 1) - a + b = (x - a + b) - 1
      BY <1>2, <1>4
    <3>2. R[x] = Q[x - a + b] /\ R[x - 1] = Q[(x - a + b) - 1]
      BY <1>7, <3>1
    <3> QED BY <3>2
  <2> HIDE DEF p, q, c, lp, lq, lr, r
  <2> DEFINE S == { k \in Nat : k + 1 \in 1 .. a => c[k + 1] = p[k + 1] }
             T == { k \in Nat : k + a \in a .. r => c[k + a] = p[a] + q[k + b] - q[b] }
  <2>5. 0 \in S
    BY <2>1
  <2>6. ASSUME NEW k \in Nat, k \in S PROVE k + 1 \in S
    <3> SUFFICES ASSUME (k + 1) + 1 \in 1 .. a PROVE c[(k + 1) + 1] = p[(k + 1) + 1]
      OBVIOUS
    <3>1. /\ (k + 1) + 1 \in 2 .. a /\ (k + 1) + 1 \in 2 .. r /\ (k + 1) + 1 \in 2 .. m
          /\ ((k + 1) + 1) - 1 = k + 1 /\ k + 1 \in 1 .. a
      BY <1>1, <1>2, <1>4
    <3> QED BY <2>1, <2>3, <2>6, <3>1
  <2>7. \A k \in Nat : k \in S
    <3> HIDE DEF S
    <3> QED BY <2>5, <2>6, FromZeroUp
  <2>8. c[a] = p[a]
    <3>1. a - 1 \in Nat /\ (a - 1) + 1 = a /\ a \in 1 .. a
      BY <1>2
    <3> QED BY <2>7, <3>1
  <2>9. 0 \in T
    <3>1. 0 + a = a /\ 0 + b = b /\ p[a] \in Nat /\ q[b] \in Nat
      BY <1>2, <2>2
    <3> QED BY <2>8, <3>1
  <2>10. ASSUME NEW k \in Nat, k \in T PROVE k + 1 \in T
    <3> SUFFICES ASSUME (k + 1) + a \in a .. r
                 PROVE  c[(k + 1) + a] = p[a] + q[(k + 1) + b] - q[b]
      OBVIOUS
    <3> DEFINE x == (k + 1) + a
               y == (k + 1) + b
    <3>1. /\ x \in 2 .. r /\ x \in a + 1 .. r /\ x - 1 = k + a /\ k + a \in a .. r
          /\ x - a + b = y /\ y \in 2 .. n /\ y - 1 = k + b /\ k + b \in 1 .. n
      BY <1>1, <1>2, <1>4 DEF r
    <3> HIDE DEF x, y
    <3>2. c[x] = c[k + a] + lr(x) /\ q[y] = q[k + b] + lq(y) /\ lr(x) = lq(y)
      BY <2>1, <2>4, <3>1
    <3>3. c[k + a] = p[a] + q[k + b] - q[b]
      BY <2>10, <3>1
    <3>4. /\ c[x] \in Nat /\ c[k + a] \in Nat /\ p[a] \in Nat /\ q[k + b] \in Nat
          /\ q[b] \in Nat /\ q[y] \in Nat
      <4>1. x \in 1 .. r /\ k + a \in 1 .. r /\ y \in 1 .. n
        BY <1>2, <3>1
      <4> QED BY <1>2, <2>2, <3>1, <4>1
    <3>5. lr(x) \in Int
      <4>1. x - 1 \in 1 .. r - 1 /\ (x - 1) + 1 = x /\ x - 1 \in 1 .. r
        BY <1>2, <1>4, <3>1
      <4>2. Linked(ls, R[x - 1], R[x]) /\ R[x - 1] \in Nodes
        BY <1>5, <1>9, <1>10, <4>1 DEF Chain, r
      <4>3. LinkTo(ls, R[x - 1], R[x]) \in Link
        BY <4>2, LinkToIs
      <4> QED BY <4>3, TopologyAssumption DEF Link, lr
    <3>6. c[x] = p[a] + q[y] - q[b]
      <4> HIDE DEF S, T
      <4> DEFINE cx == c[x]
                 ck == c[k + a]
                 pa == p[a]
                 qk == q[k + b]
                 qy == q[y]
                 qb == q[b]
                 l == lr(x)
      <4>1. cx = ck + l /\ qy = qk + l /\ ck = pa + qk - qb
        BY <3>2, <3>3
      <4>2. cx \in Int /\ ck \in Int /\ pa \in Int /\ qk \in Int /\ qy \in Int /\ qb \in Int /\ l \in Int
        <5>1. cx \in Int /\ ck \in Int /\ pa \in Int
          BY <3>4
        <5>2. qk \in Int /\ qy \in Int /\ qb \in Int
          BY <3>4
        <5>3. l \in Int
          BY <3>5
        <5> QED BY <5>1, <5>2, <5>3
      <4> HIDE DEF cx, ck, pa, qk, qy, qb, l
      <4>3. cx = pa + qy - qb
        BY <4>1, <4>2
      <4> QED BY <4>3 DEF cx, pa, qy, qb
    <3> QED BY <3>6 DEF x, y
  <2>11. \A k \in Nat : k \in T
    <3> HIDE DEF T
    <3> QED BY <2>9, <2>10, FromZeroUp
  <2>12. c[r] = p[a] + q[n] - q[b]
    <3>1. /\ n - b \in Nat /\ (n - b) + a = r /\ (n - b) + b = n /\ r \in a .. r
      BY <1>1, <1>2, <1>4 DEF r
    <3> QED BY <2>11, <3>1
  <2> QED BY <1>9, <2>12 DEF CostOf, n, p, q, c
<1>12. R[1] = P[1]
  BY <1>2, <1>6
<1>13. R[r] = Q[n]
  BY <1>1, <1>2, <1>4, <1>7
<1> QED BY <1>6, <1>7, <1>9, <1>10, <1>11, <1>12, <1>13 DEF R, n, IsJoin

-----------------------------------------------------------------------------

\* Between its ends a path uses the first n routers only.
Via(path, n) == \A x \in 2 .. Len(path) - 1 : \E y \in 1 .. n : path[x] = NodeList[y]

\* After n rounds the entry of a pair is the least cost of a path by way of the
\* first n routers, and the second router of one that costs as much.
Right(ls, n, i, j) ==
  LET e == Rounds(ls)[n][<<i, j>>]
  IN  /\ e.cost \in Nat
      /\ i # j =>
           /\ e.hop = NoHop => e.cost = Infinite
           /\ e.hop # NoHop =>
                \E path \in SimplePaths(ls, i, j) :
                  Via(path, n) /\ CostOf(ls, path) = e.cost /\ e.hop = <<path[2]>>
           /\ \A path \in SimplePaths(ls, i, j) : Via(path, n) => e.cost <= CostOf(ls, path)

LEMMA InfiniteIs == Infinite \in Nat
<1>1. Len(NodeList) \in Nat /\ MaxCost \in Nat
  BY TopologyAssumption
<1> QED BY <1>1 DEF Infinite

\* The first round knows the paths of one link.
LEMMA FirstRound ==
  ASSUME NEW ls \in Links, NEW i \in Keys(ls), NEW j \in Keys(ls)
  PROVE  Right(ls, 0, i, j)
<1> DEFINE e == Rounds(ls)[0][<<i, j>>]
<1>1. e = IF Linked(ls, i, j) THEN [cost |-> LinkTo(ls, i, j).cost, hop |-> <<j>>]
          ELSE IF i = j THEN [cost |-> 0, hop |-> <<j>>]
          ELSE [cost |-> Infinite, hop |-> NoHop]
  <2>1. Rounds(ls)[0] = Adjacent(ls)
    BY RoundsAre
  <2>2. <<i, j>> \in Pairs(ls)
    BY DEF Pairs
  <2> QED BY <2>1, <2>2 DEF Adjacent
<1>2. i \in Nodes /\ j \in Nodes
  BY DEF Keys
<1>3. Linked(ls, i, j) => LinkTo(ls, i, j).cost \in Nat
  BY <1>2, LinkToIs, TopologyAssumption DEF Link
<1> HIDE DEF e
<1>4. e.cost \in Nat
  <2>1. CASE Linked(ls, i, j)
    BY <1>1, <1>3, <2>1
  <2>2. CASE ~Linked(ls, i, j)
    BY <1>1, <2>2, InfiniteIs
  <2> QED BY <2>1, <2>2
<1>5. ASSUME i # j, e.hop = NoHop PROVE e.cost = Infinite
  BY <1>1, <1>5 DEF NoHop
<1>6. ASSUME i # j, e.hop # NoHop
      PROVE  \E path \in SimplePaths(ls, i, j) :
               Via(path, 0) /\ CostOf(ls, path) = e.cost /\ e.hop = <<path[2]>>
  <2> DEFINE path == <<i, j>>
  <2>1. Linked(ls, i, j) /\ e.cost = LinkTo(ls, i, j).cost /\ e.hop = <<j>>
    BY <1>1, <1>6 DEF NoHop
  <2>2. Len(path) = 2 /\ path[1] = i /\ path[2] = j
    OBVIOUS
  <2>3. path \in NodePaths
    <3>1. /\ path \in Seq(Nodes) /\ path # <<>>
          /\ \A x, y \in 1 .. Len(path) : path[x] = path[y] => x = y
      BY <1>2, <1>6
    <3> HIDE DEF path
    <3> QED BY <3>1, PathOf
  <2> HIDE DEF path
  <2>4. path \in SimplePaths(ls, i, j) /\ Via(path, 0)
    <3>1. \A x \in 1 .. Len(path) - 1 : x = 1
      BY <2>2
    <3>2. Chain(ls, path)
      BY <2>1, <2>2, <3>1 DEF Chain
    <3>3. Via(path, 0)
      BY <2>2 DEF Via
    <3> QED BY <2>2, <2>3, <3>2, <3>3, SimpleIs
  <2>5. CostOf(ls, path) = LinkTo(ls, i, j).cost
    <3>1. /\ CostTo(ls, path)[1] = 0
          /\ CostTo(ls, path)[2] = CostTo(ls, path)[1] + LinkTo(ls, path[1], path[2]).cost
      <4>1. Len(path) \in Nat \ {0} /\ 2 \in 2 .. Len(path) /\ 2 - 1 = 1
        BY <2>2
      <4> QED BY <4>1, CostIs
    <3> QED BY <1>3, <2>1, <2>2, <3>1 DEF CostOf
  <2> QED BY <2>1, <2>2, <2>4, <2>5
<1>7. ASSUME i # j, NEW path \in SimplePaths(ls, i, j), Via(path, 0)
      PROVE  e.cost <= CostOf(ls, path)
  <2>1. /\ path \in NodePaths /\ Chain(ls, path)
        /\ path[1] = i /\ path[Len(path)] = j
    BY <1>7, SimpleIs
  <2>2. Len(path) \in Nat \ {0}
    BY <2>1, PathHas
  <2>3. Len(path) # 1
    BY <1>7, <2>1
  <2>4. ~(Len(path) > 2)
    <3> SUFFICES ASSUME Len(path) > 2 PROVE FALSE
      OBVIOUS
    <3>1. 2 \in 2 .. Len(path) - 1 /\ 1 .. 0 = {}
      BY <2>2
    <3> QED BY <1>7, <3>1 DEF Via
  <2>5. Len(path) = 2
    <3> DEFINE l == Len(path)
    <3>1. l \in Nat \ {0} /\ l # 1 /\ ~(l > 2)
      BY <2>2, <2>3, <2>4
    <3> HIDE DEF l
    <3>2. l = 2
      BY <3>1
    <3> QED BY <3>2 DEF l
  <2>6. Linked(ls, i, j)
    <3>1. 1 \in 1 .. Len(path) - 1
      BY <2>5
    <3> QED BY <2>1, <2>5, <3>1 DEF Chain
  <2>7. /\ CostTo(ls, path)[1] = 0
        /\ CostTo(ls, path)[2] = CostTo(ls, path)[1] + LinkTo(ls, path[1], path[2]).cost
    <3>1. 2 \in 2 .. Len(path) /\ 2 - 1 = 1
      BY <2>5
    <3> QED BY <2>2, <3>1, CostIs
  <2>8. CostOf(ls, path) = LinkTo(ls, i, j).cost
    BY <1>3, <2>1, <2>5, <2>6, <2>7 DEF CostOf
  <2>9. e.cost = LinkTo(ls, i, j).cost
    BY <1>1, <2>6
  <2> QED BY <1>3, <2>6, <2>8, <2>9
<1> QED BY <1>4, <1>5, <1>6, <1>7 DEF Right, e

\* Two paths by way of fewer than n routers that make this one, cut at y.
CutAt(ls, i, j, path, n, y) ==
  \E first \in SimplePaths(ls, i, path[y]) :
  \E second \in SimplePaths(ls, path[y], j) :
    /\ Via(first, n - 1) /\ Via(second, n - 1)
    /\ CostOf(ls, first) = CostTo(ls, path)[y]
    /\ CostOf(ls, path) = CostOf(ls, first) + CostOf(ls, second)

ViaBut(path, n, y) ==
  \A x \in 2 .. Len(path) - 1 : x # y => \E z \in 1 .. n - 1 : path[x] = NodeList[z]

\* A path through path[y] is one to it and one from there.
LEMMA Split ==
  ASSUME NEW ls \in Links, NEW i, NEW j, NEW path \in SimplePaths(ls, i, j),
         NEW n \in Nat, NEW y \in 1 .. Len(path), ViaBut(path, n, y)
  PROVE  CutAt(ls, i, j, path, n, y)
<1> DEFINE l == Len(path)
           one == <<path[y]>>
           first == Joined(path, y, one, 1)
           second == Joined(one, 1, path, y)
<1>1. /\ path \in NodePaths /\ Chain(ls, path)
      /\ path[1] = i /\ path[l] = j
  BY SimpleIs
<1>2. /\ l \in Nat \ {0} /\ path \in [1 .. l -> Nodes]
      /\ \A x, z \in 1 .. l : path[x] = path[z] => x = z
  BY <1>1, PathHas
<1>3. one \in NodePaths /\ Len(one) = 1 /\ one[1] = path[y] /\ Chain(ls, one)
  <2>1. /\ one \in Seq(Nodes) /\ one # <<>>
        /\ \A x, z \in 1 .. Len(one) : one[x] = one[z] => x = z
    BY <1>2
  <2>2. Len(one) = 1
    OBVIOUS
  <2>3. one[1] = path[y]
    OBVIOUS
  <2> HIDE DEF one
  <2>4. one \in NodePaths
    BY <2>1, PathOf
  <2>5. Chain(ls, one)
    BY <2>2 DEF Chain
  <2> QED BY <2>2, <2>3, <2>4, <2>5
<1> HIDE DEF one
<1>4. CostTo(ls, one)[1] = 0 /\ CostOf(ls, one) = 0
  <2>1. Len(one) \in Nat \ {0}
    BY <1>3
  <2> QED BY <1>3, <2>1, CostIs DEF CostOf
<1>5. y \in 1 .. l
  OBVIOUS
<1> HIDE DEF first, second
<1>6. IsJoin(ls, first, path, y, one, 1)
  <2>1. \A x \in 1 .. y - 1 : \A z \in 1 .. Len(one) : path[x] # one[z]
    <3> SUFFICES ASSUME NEW x \in 1 .. y - 1, path[x] = one[1] PROVE FALSE
      BY <1>3
    <3>1. x \in 1 .. l /\ x # y
      BY <1>2
    <3> QED BY <1>2, <1>3, <1>5, <3>1
  <2>2. Meet(path, y, one, 1)
    BY <1>3, <2>1 DEF Meet
  <2> QED BY <1>1, <1>3, <2>2, Join DEF first
<1>7. IsJoin(ls, second, one, 1, path, y)
  <2>1. \A x \in 1 .. 1 - 1 : \A z \in y .. Len(path) : one[x] # path[z]
    OBVIOUS
  <2>2. Meet(one, 1, path, y)
    BY <1>3, <2>1 DEF Meet
  <2> QED BY <1>1, <1>3, <2>2, Join DEF second
<1>6a. /\ first \in NodePaths /\ Chain(ls, first)
       /\ Len(first) = y
       /\ first[1] = path[1] /\ first[Len(first)] = one[1]
       /\ \A x \in 1 .. y : first[x] = path[x]
       /\ CostOf(ls, first) = CostTo(ls, path)[y] + CostOf(ls, one) - CostTo(ls, one)[1]
  BY <1>3, <1>5, <1>6 DEF IsJoin
<1>7a. /\ second \in NodePaths /\ Chain(ls, second)
       /\ Len(second) = 1 + l - y
       /\ second[1] = one[1] /\ second[Len(second)] = path[l]
       /\ \A x \in 1 .. Len(second) : second[x] = path[x - 1 + y]
       /\ CostOf(ls, second) = CostTo(ls, one)[1] + CostOf(ls, path) - CostTo(ls, path)[y]
  BY <1>3, <1>7 DEF IsJoin
<1>8. first \in SimplePaths(ls, i, path[y]) /\ second \in SimplePaths(ls, path[y], j)
  <2>1. first[1] = i /\ first[Len(first)] = path[y]
    BY <1>1, <1>3, <1>6a, Zenon
  <2>2. second[1] = path[y] /\ second[Len(second)] = j
    BY <1>1, <1>3, <1>7a, Zenon
  <2>3. first \in SimplePaths(ls, i, path[y])
    BY <1>6a, <2>1, SimpleIs, Zenon
  <2>4. second \in SimplePaths(ls, path[y], j)
    BY <1>7a, <2>2, SimpleIs, Zenon
  <2> QED BY <2>3, <2>4
<1>9. Via(first, n - 1)
  <2> SUFFICES ASSUME NEW x \in 2 .. y - 1 PROVE \E z \in 1 .. n - 1 : first[x] = NodeList[z]
    BY <1>5, <1>6a DEF Via
  <2>1. x \in 2 .. Len(path) - 1 /\ x # y /\ x \in 1 .. y
    BY <1>2, <1>5
  <2> QED BY <1>6a, <2>1 DEF ViaBut
<1>10. Via(second, n - 1)
  <2>0. Len(second) - 1 = l - y
    BY <1>2, <1>5, <1>7a
  <2> SUFFICES ASSUME NEW x \in 2 .. l - y PROVE \E z \in 1 .. n - 1 : second[x] = NodeList[z]
    BY <2>0 DEF Via
  <2>1. x - 1 + y \in 2 .. Len(path) - 1 /\ x - 1 + y # y /\ x \in 1 .. Len(second)
    BY <1>2, <1>5, <1>7a
  <2> QED BY <1>7a, <2>1 DEF ViaBut
<1>11. /\ CostOf(ls, first) = CostTo(ls, path)[y]
       /\ CostOf(ls, path) = CostOf(ls, first) + CostOf(ls, second)
  <2>1. CostTo(ls, path)[y] \in Nat /\ CostOf(ls, path) \in Nat
    BY <1>1, CostBounds
  <2> QED BY <1>4, <1>6a, <1>7a, <2>1
<1> QED BY <1>8, <1>9, <1>10, <1>11 DEF CutAt

LEMMA MinIs ==
  ASSUME NEW n \in Nat, NEW T \in SUBSET (1 .. n), T # {}
  PROVE  \E x \in T : \A y \in T : x <= y
<1> DEFINE S == { m \in Nat : \A U \in SUBSET (1 .. m) :
                    U # {} => \E x \in U : \A y \in U : x <= y }
<1>1. 0 \in S
  <2>1. 1 .. 0 = {}
    OBVIOUS
  <2> QED BY <2>1
<1>2. ASSUME NEW m \in Nat, m \in S PROVE m + 1 \in S
  <2> SUFFICES ASSUME NEW U \in SUBSET (1 .. m + 1), U # {}
               PROVE  \E x \in U : \A y \in U : x <= y
    OBVIOUS
  <2> DEFINE W == U \ {m + 1}
  <2>1. W \in SUBSET (1 .. m)
    OBVIOUS
  <2>2. CASE W = {}
    <3>1. U = {m + 1}
      BY <2>2
    <3> QED BY <3>1
  <2>3. CASE W # {}
    <3>1. PICK x \in W : \A y \in W : x <= y
      BY <1>2, <2>1, <2>3
    <3>2. x \in U /\ \A y \in U : x <= y
      BY <2>1, <3>1
    <3> QED BY <3>2
  <2> QED BY <2>2, <2>3
<1>3. n \in S
  <2> HIDE DEF S
  <2> QED BY <1>1, <1>2, FromZeroUp
<1> QED BY <1>3

\* Two paths that meet in router n make one: either it uses router n too and
\* costs what they cost together, or a shorter one does without it.
LEMMA Through ==
  ASSUME NEW ls \in Links, NEW n \in 1 .. Len(NodeList), NEW i, NEW j,
         i # NodeList[n], j # NodeList[n],
         NEW P \in SimplePaths(ls, i, NodeList[n]), Via(P, n - 1),
         NEW Q \in SimplePaths(ls, NodeList[n], j), Via(Q, n - 1)
  PROVE  \E R \in SimplePaths(ls, i, j) :
            \/ Via(R, n - 1) /\ CostOf(ls, R) <= CostOf(ls, P) + CostOf(ls, Q)
            \/ /\ Via(R, n) /\ R[2] = P[2]
               /\ CostOf(ls, R) = CostOf(ls, P) + CostOf(ls, Q)
<1> DEFINE k == NodeList[n]
           lp == Len(P)
           lq == Len(Q)
<1>1. /\ P \in NodePaths /\ Chain(ls, P) /\ P[1] = i /\ P[lp] = k
      /\ Q \in NodePaths /\ Chain(ls, Q) /\ Q[1] = k /\ Q[lq] = j
  BY SimpleIs
<1>2. /\ lp \in Nat \ {0} /\ lq \in Nat \ {0}
      /\ \A x, y \in 1 .. lp : P[x] = P[y] => x = y
      /\ \A x, y \in 1 .. lq : Q[x] = Q[y] => x = y
  BY <1>1, PathHas
<1>3. n \in Nat \ {0}
  BY TopologyAssumption
<1>4. i # k /\ j # k
  OBVIOUS
<1> HIDE DEF k, lp, lq
<1> DEFINE T == { x \in 1 .. lp : \E y \in 1 .. lq : P[x] = Q[y] }
<1>5. lp \in T
  BY <1>1, <1>2
<1>6. PICK a \in T : \A x \in T : a <= x
  <2>1. T \in SUBSET (1 .. lp) /\ T # {}
    BY <1>5
  <2> HIDE DEF T
  <2> QED BY <1>2, <2>1, MinIs
<1>7. PICK b \in 1 .. lq : P[a] = Q[b]
  BY <1>6
<1>8. /\ a \in 1 .. lp
      /\ \A x \in 1 .. a - 1 : \A y \in b .. lq : P[x] # Q[y]
  <2>1. a \in 1 .. lp
    BY <1>6
  <2>2. ASSUME NEW x \in 1 .. a - 1, NEW y \in b .. lq, P[x] = Q[y] PROVE FALSE
    <3>1. x \in 1 .. lp /\ y \in 1 .. lq /\ x < a
      BY <1>2, <1>7, <2>1
    <3>2. x \in T /\ ~(a <= x)
      BY <2>1, <2>2, <3>1
    <3> QED BY <1>6, <3>2
  <2> QED BY <2>1, <2>2
<1> HIDE DEF T
<1> DEFINE R == Joined(P, a, Q, b)
           r == a + lq - b
<1>9. /\ R \in NodePaths /\ Chain(ls, R)
      /\ Len(R) = a + lq - b
      /\ R[1] = P[1] /\ R[Len(R)] = Q[lq]
      /\ \A x \in 1 .. a : R[x] = P[x]
      /\ \A x \in a .. Len(R) : R[x] = Q[x - a + b]
      /\ CostOf(ls, R) = CostTo(ls, P)[a] + CostOf(ls, Q) - CostTo(ls, Q)[b]
  <2>1. Meet(P, a, Q, b)
    BY <1>7, <1>8 DEF lp, lq, Meet
  <2> HIDE DEF R
  <2>2. IsJoin(ls, R, P, a, Q, b)
    BY <1>1, <2>1, Join DEF R
  <2> QED BY <2>2 DEF IsJoin, lq
<1> HIDE DEF R
<1>10. R \in SimplePaths(ls, i, j)
  BY <1>1, <1>9, SimpleIs
<1>11. \A x \in 2 .. lp - 1 : \E y \in 1 .. n - 1 : P[x] = NodeList[y]
  BY DEF Via, lp
<1>12. \A x \in 2 .. lq - 1 : \E y \in 1 .. n - 1 : Q[x] = NodeList[y]
  BY DEF Via, lq
<1>13. /\ \A x \in 1 .. lp : CostTo(ls, P)[x] \in Nat
       /\ \A x \in 1 .. lq : CostTo(ls, Q)[x] \in Nat
       /\ CostOf(ls, P) = CostTo(ls, P)[lp] /\ CostOf(ls, Q) = CostTo(ls, Q)[lq]
  BY <1>1, CostBounds DEF CostOf, lp, lq
<1>14. /\ \A x \in 2 .. a - 1 : \E y \in 1 .. n - 1 : R[x] = NodeList[y]
       /\ \A x \in a + 1 .. r - 1 : \E y \in 1 .. n - 1 : R[x] = NodeList[y]
  <2>1. ASSUME NEW x \in 2 .. a - 1 PROVE \E y \in 1 .. n - 1 : R[x] = NodeList[y]
    <3>1. x \in 2 .. lp - 1 /\ x \in 1 .. a
      BY <1>2, <1>8
    <3> QED BY <1>9, <1>11, <3>1
  <2>2. ASSUME NEW x \in a + 1 .. r - 1 PROVE \E y \in 1 .. n - 1 : R[x] = NodeList[y]
    <3>1. x - a + b \in 2 .. lq - 1 /\ x \in a .. r
      BY <1>2, <1>7, <1>8
    <3> QED BY <1>9, <1>12, <3>1
  <2> QED BY <2>1, <2>2
<1>15. CASE P[a] = k
  <2>1. a = lp /\ b = 1
    <3>1. lp \in 1 .. lp /\ 1 \in 1 .. lq
      BY <1>2
    <3>2. P[a] = P[lp] /\ Q[b] = Q[1]
      BY <1>1, <1>7, <1>15
    <3> QED BY <1>2, <1>7, <1>8, <3>1, <3>2
  <2>2. a # 1
    BY <1>1, <1>4, <1>15
  <2>3. R[2] = P[2]
    <3>1. 2 \in 1 .. a
      BY <1>2, <1>8, <2>2
    <3> QED BY <1>9, <3>1
  <2>4. Via(R, n)
    <3> SUFFICES ASSUME NEW x \in 2 .. r - 1 PROVE \E y \in 1 .. n : R[x] = NodeList[y]
      BY <1>9 DEF Via
    <3>1. CASE x = a
      <4>1. R[x] = P[a]
        BY <1>8, <1>9, <3>1
      <4> QED BY <1>3, <1>15, <4>1 DEF k
    <3>2. CASE x # a
      <4>1. x \in 2 .. a - 1 \/ x \in a + 1 .. r - 1
        BY <1>2, <1>8, <3>2
      <4>2. PICK y \in 1 .. n - 1 : R[x] = NodeList[y]
        BY <1>14, <4>1
      <4> QED BY <1>3, <4>2
    <3> QED BY <3>1, <3>2
  <2>5. CostTo(ls, Q)[1] = 0
    <3>1. Len(Q) \in Nat \ {0}
      BY <1>2 DEF lq
    <3> QED BY <3>1, CostIs
  <2>6. CostOf(ls, R) = CostOf(ls, P) + CostOf(ls, Q)
    <3>1. lp \in 1 .. lp /\ lq \in 1 .. lq
      BY <1>2
    <3>2. CostOf(ls, P) \in Nat /\ CostOf(ls, Q) \in Nat
      BY <1>13, <3>1
    <3>3. CostOf(ls, R) = CostOf(ls, P) + CostOf(ls, Q) - 0
      BY <1>9, <1>13, <2>1, <2>5
    <3> QED BY <3>2, <3>3
  <2> QED BY <1>10, <2>3, <2>4, <2>6
<1>16. CASE P[a] # k
  <2>1. a # lp /\ b # 1
    BY <1>1, <1>7, <1>16
  <2>2. Via(R, n - 1)
    <3> SUFFICES ASSUME NEW x \in 2 .. r - 1 PROVE \E y \in 1 .. n - 1 : R[x] = NodeList[y]
      BY <1>9 DEF Via
    <3>1. CASE x = a
      <4>1. a \in 2 .. lp - 1 /\ R[x] = P[a]
        BY <1>2, <1>8, <1>9, <2>1, <3>1
      <4> QED BY <1>11, <4>1
    <3>2. CASE x # a
      <4>1. x \in 2 .. a - 1 \/ x \in a + 1 .. r - 1
        BY <1>2, <1>8, <3>2
      <4> QED BY <1>14, <4>1
    <3> QED BY <3>1, <3>2
  <2>3. CostTo(ls, P)[a] <= CostOf(ls, P)
    BY <1>1, <1>8, CostGrows DEF CostOf, lp
  <2>4. CostOf(ls, R) <= CostOf(ls, P) + CostOf(ls, Q)
    <3>1. lp \in 1 .. lp /\ lq \in 1 .. lq
      BY <1>2
    <3>2. CostOf(ls, P) \in Nat /\ CostOf(ls, Q) \in Nat /\ CostTo(ls, P)[a] \in Nat
          /\ CostTo(ls, Q)[b] \in Nat
      BY <1>7, <1>8, <1>13, <3>1
    <3>3. CostOf(ls, R) = CostTo(ls, P)[a] + CostOf(ls, Q) - CostTo(ls, Q)[b]
      BY <1>9
    <3> DEFINE whole == CostOf(ls, R)
               one == CostOf(ls, P)
               two == CostOf(ls, Q)
               toA == CostTo(ls, P)[a]
               toB == CostTo(ls, Q)[b]
    <3>4. /\ one \in Nat /\ two \in Nat /\ toA \in Nat /\ toB \in Nat
          /\ toA <= one /\ whole = toA + two - toB
      BY <2>3, <3>2, <3>3
    <3> HIDE DEF whole, one, two, toA, toB
    <3>5. whole <= one + two
      BY <3>4
    <3> QED BY <3>5 DEF whole, one, two
  <2> QED BY <1>10, <2>2, <2>4
<1> QED BY <1>15, <1>16

\* All routers of a path but the last have links.
LEMMA Inner ==
  ASSUME NEW ls \in Links, NEW path \in NodePaths, Chain(ls, path),
         NEW x \in 1 .. Len(path) - 1
  PROVE  path[x] \in Keys(ls)
<1>1. Len(path) \in Nat \ {0} /\ path \in [1 .. Len(path) -> Nodes]
  BY PathHas
<1>2. path[x] \in Nodes /\ Linked(ls, path[x], path[x + 1])
  BY <1>1 DEF Chain
<1> QED BY <1>2, LinkToIs

LEMMA ViaMore ==
  ASSUME NEW n \in Nat \ {0}, NEW path, Via(path, n - 1)
  PROVE  Via(path, n)
<1>1. \A y \in 1 .. n - 1 : y \in 1 .. n
  OBVIOUS
<1> QED BY <1>1 DEF Via

\* A round in which router k has no links changes nothing: no path uses it.
LEMMA RoundWithout ==
  ASSUME NEW ls \in Links, NEW n \in 1 .. Len(NodeList), NodeList[n] \notin Keys(ls),
         NEW i, NEW j, Right(ls, n - 1, i, j)
  PROVE  Right(ls, n, i, j)
<1>1. n \in Nat \ {0}
  BY TopologyAssumption
<1>2. Rounds(ls)[n] = Rounds(ls)[n - 1]
  BY RoundsAre
<1>3. ASSUME NEW path \in SimplePaths(ls, i, j), Via(path, n)
      PROVE  Via(path, n - 1)
  <2> SUFFICES ASSUME NEW x \in 2 .. Len(path) - 1
               PROVE  \E y \in 1 .. n - 1 : path[x] = NodeList[y]
    BY DEF Via
  <2>1. path \in NodePaths /\ Chain(ls, path)
    BY SimpleIs
  <2>2. path[x] \in Keys(ls)
    <3>1. x \in 1 .. Len(path) - 1
      BY <2>1, PathHas
    <3> QED BY <2>1, <3>1, Inner
  <2>3. PICK y \in 1 .. n : path[x] = NodeList[y]
    BY <1>3 DEF Via
  <2>4. y \in 1 .. n - 1
    BY <1>1, <2>2, <2>3
  <2> QED BY <2>3, <2>4
<1>4. \A path : Via(path, n - 1) => Via(path, n)
  BY <1>1, ViaMore
<1> QED BY <1>2, <1>3, <1>4 DEF Right

\* What improving an entry does.
LEMMA ImprovedIs ==
  ASSUME NEW ls \in Links, NEW n \in 1 .. Len(NodeList), NodeList[n] \in Keys(ls),
         NEW i \in Keys(ls), NEW j \in Keys(ls)
  PROVE  LET old == Rounds(ls)[n - 1][<<i, j>>]
             toK == Rounds(ls)[n - 1][<<i, NodeList[n]>>]
             onward == Rounds(ls)[n - 1][<<NodeList[n], j>>]
         IN  Rounds(ls)[n][<<i, j>>] =
               IF old.cost <= toK.cost + onward.cost THEN old
               ELSE [cost |-> toK.cost + onward.cost, hop |-> toK.hop]
<1>1. Rounds(ls)[n] = [ij \in Pairs(ls) |-> Improved(Rounds(ls)[n - 1], NodeList[n], ij)]
  BY RoundsAre
<1>2. <<i, j>> \in Pairs(ls)
  BY DEF Pairs
<1>3. Rounds(ls)[n][<<i, j>>] = Improved(Rounds(ls)[n - 1], NodeList[n], <<i, j>>)
  BY <1>1, <1>2
<1> QED BY <1>3 DEF Improved

LEMMA NextRound ==
  ASSUME NEW ls \in Links, NEW n \in 1 .. Len(NodeList), NodeList[n] \in Keys(ls),
         \A u, v \in Keys(ls) : Right(ls, n - 1, u, v),
         NEW i \in Keys(ls), NEW j \in Keys(ls)
  PROVE  Right(ls, n, i, j)
<1> DEFINE k == NodeList[n]
           e(u, v) == Rounds(ls)[n - 1][<<u, v>>]
           via == e(i, k).cost + e(k, j).cost
           new == Rounds(ls)[n][<<i, j>>]
<1>1. new = IF e(i, j).cost <= via THEN e(i, j)
            ELSE [cost |-> via, hop |-> e(i, k).hop]
  BY ImprovedIs
<1>2. \A u, v \in Keys(ls) :
        /\ e(u, v).cost \in Nat
        /\ u # v =>
             /\ e(u, v).hop = NoHop => e(u, v).cost = Infinite
             /\ e(u, v).hop # NoHop =>
                  \E path \in SimplePaths(ls, u, v) :
                    /\ Via(path, n - 1) /\ CostOf(ls, path) = e(u, v).cost
                    /\ e(u, v).hop = <<path[2]>>
             /\ \A path \in SimplePaths(ls, u, v) :
                  Via(path, n - 1) => e(u, v).cost <= CostOf(ls, path)
  BY DEF Right
<1>3. n \in Nat \ {0} /\ k \in Keys(ls)
  BY TopologyAssumption
<1>4. \A u, v : \A path \in SimplePaths(ls, u, v) :
        CostOf(ls, path) \in Nat /\ CostOf(ls, path) < Infinite
  BY SimpleIs, CostBounds
<1>5. \A path : Via(path, n - 1) => Via(path, n)
  BY <1>3, ViaMore
<1> HIDE DEF e, new, k
<1>6. via \in Nat /\ e(i, j).cost \in Nat /\ e(i, k).cost \in Nat /\ e(k, j).cost \in Nat
  BY <1>2, <1>3
<1> HIDE DEF via
<1>7. new.cost \in Nat /\ new.cost <= via /\ new.cost <= e(i, j).cost
  <2>1. CASE e(i, j).cost <= via
    BY <1>1, <1>6, <2>1
  <2>2. CASE ~(e(i, j).cost <= via)
    BY <1>1, <1>6, <2>2
  <2> QED BY <2>1, <2>2
<1>8. ASSUME i # j, NEW path \in SimplePaths(ls, i, j), Via(path, n)
      PROVE  new.cost <= CostOf(ls, path)
  <2>0. /\ path \in NodePaths /\ Chain(ls, path)
        /\ path[1] = i /\ path[Len(path)] = j
    BY SimpleIs
  <2>1. /\ Len(path) \in Nat \ {0}
        /\ \A x, y \in 1 .. Len(path) : path[x] = path[y] => x = y
    BY <2>0, PathHas
  <2>2. CASE \E y \in 2 .. Len(path) - 1 : path[y] = k
    <3>1. PICK y \in 2 .. Len(path) - 1 : path[y] = k
      BY <2>2
    <3>2. y \in 1 .. Len(path) /\ 1 \in 1 .. Len(path) /\ Len(path) \in 1 .. Len(path)
      BY <2>1
    <3>3. i # k /\ j # k
      BY <2>0, <2>1, <3>1, <3>2
    <3>4. ASSUME NEW x \in 2 .. Len(path) - 1, x # y
          PROVE  \E z \in 1 .. n - 1 : path[x] = NodeList[z]
      <4>1. PICK z \in 1 .. n : path[x] = NodeList[z]
        BY <1>8 DEF Via
      <4>2. path[x] # k
        BY <2>1, <3>1, <3>2, <3>4
      <4>3. z \in 1 .. n - 1
        BY <1>3, <4>1, <4>2 DEF k
      <4> QED BY <4>1, <4>3
    <3>5. CutAt(ls, i, j, path, n, y)
      <4>1. ViaBut(path, n, y)
        BY <3>4 DEF ViaBut
      <4> QED BY <1>3, <3>2, <4>1, Split
    <3>5a. PICK first \in SimplePaths(ls, i, k), second \in SimplePaths(ls, k, j) :
            /\ Via(first, n - 1) /\ Via(second, n - 1)
            /\ CostOf(ls, path) = CostOf(ls, first) + CostOf(ls, second)
      BY <3>1, <3>5 DEF CutAt
    <3>6. e(i, k).cost <= CostOf(ls, first) /\ e(k, j).cost <= CostOf(ls, second)
      BY <1>2, <1>3, <3>3, <3>5a
    <3>7. CostOf(ls, first) \in Nat /\ CostOf(ls, second) \in Nat
      BY <1>4
    <3>8. via <= CostOf(ls, path)
      BY <1>6, <3>5a, <3>6, <3>7 DEF via
    <3> QED BY <1>4, <1>6, <1>7, <3>8
  <2>3. CASE \A y \in 2 .. Len(path) - 1 : path[y] # k
    <3>1. Via(path, n - 1)
      <4> SUFFICES ASSUME NEW x \in 2 .. Len(path) - 1
                   PROVE  \E z \in 1 .. n - 1 : path[x] = NodeList[z]
        BY DEF Via
      <4>1. PICK z \in 1 .. n : path[x] = NodeList[z]
        BY <1>8 DEF Via
      <4>2. z \in 1 .. n - 1
        BY <1>3, <2>3, <4>1 DEF k
      <4> QED BY <4>1, <4>2
    <3>2. e(i, j).cost <= CostOf(ls, path)
      BY <1>2, <1>8, <3>1
    <3> QED BY <1>4, <1>6, <1>7, <3>2
  <2> QED BY <2>2, <2>3
<1>9. CASE e(i, j).cost <= via
  <2>1. new = e(i, j)
    BY <1>1, <1>9
  <2>2. ASSUME i # j
        PROVE  /\ new.hop = NoHop => new.cost = Infinite
               /\ new.hop # NoHop =>
                    \E path \in SimplePaths(ls, i, j) :
                      Via(path, n) /\ CostOf(ls, path) = new.cost /\ new.hop = <<path[2]>>
    BY <1>2, <1>5, <2>1, <2>2
  <2> QED BY <1>7, <1>8, <2>2 DEF Right, new
<1>10. CASE ~(e(i, j).cost <= via)
  <2>1. new.cost = via /\ new.hop = e(i, k).hop
    BY <1>1, <1>10
  <2>2. i # k /\ j # k
    BY <1>6, <1>10 DEF via
  <2>3. CASE i = j
    BY <1>7, <2>3 DEF Right, new
  <2>4. CASE i # j
    <3>1. e(i, j).cost <= Infinite
      BY <1>2, <1>4, <1>6, <2>4, InfiniteIs
    <3>2. e(i, k).hop # NoHop /\ e(k, j).hop # NoHop
      <4>1. e(i, k).cost # Infinite /\ e(k, j).cost # Infinite
        BY <1>6, <1>10, <3>1, InfiniteIs DEF via
      <4> QED BY <1>2, <1>3, <2>2, <4>1
    <3>3. PICK P \in SimplePaths(ls, i, k) :
            /\ Via(P, n - 1) /\ CostOf(ls, P) = e(i, k).cost /\ e(i, k).hop = <<P[2]>>
      BY <1>2, <1>3, <2>2, <3>2
    <3>4. PICK Q \in SimplePaths(ls, k, j) : Via(Q, n - 1) /\ CostOf(ls, Q) = e(k, j).cost
      BY <1>2, <1>3, <2>2, <3>2
    <3>5. PICK R \in SimplePaths(ls, i, j) :
            \/ Via(R, n - 1) /\ CostOf(ls, R) <= CostOf(ls, P) + CostOf(ls, Q)
            \/ /\ Via(R, n) /\ R[2] = P[2]
               /\ CostOf(ls, R) = CostOf(ls, P) + CostOf(ls, Q)
      BY <2>2, <3>3, <3>4, Through DEF k
    <3>6. CostOf(ls, P) + CostOf(ls, Q) = via
      BY <3>3, <3>4 DEF via
    <3>7. ~(Via(R, n - 1) /\ CostOf(ls, R) <= via)
      <4> SUFFICES ASSUME Via(R, n - 1), CostOf(ls, R) <= via PROVE FALSE
        OBVIOUS
      <4>1. e(i, j).cost <= CostOf(ls, R) /\ CostOf(ls, R) \in Nat
        BY <1>2, <1>4, <2>4
      <4> QED BY <1>6, <1>10, <4>1
    <3>8. Via(R, n) /\ CostOf(ls, R) = new.cost /\ new.hop = <<R[2]>>
      BY <2>1, <3>3, <3>5, <3>6, <3>7
    <3>9. new.hop # NoHop
      BY <2>1, <3>2
    <3> QED BY <1>7, <1>8, <3>8, <3>9 DEF Right, new
  <2> QED BY <2>3, <2>4
<1> QED BY <1>9, <1>10

LEMMA AllRounds ==
  ASSUME NEW ls \in Links, NEW i \in Keys(ls), NEW j \in Keys(ls)
  PROVE  Right(ls, Len(NodeList), i, j)
<1> DEFINE S == { n \in Nat : n <= Len(NodeList) =>
                    \A u, v \in Keys(ls) : Right(ls, n, u, v) }
<1>1. 0 \in S
  BY FirstRound
<1>2. ASSUME NEW n \in Nat, n \in S PROVE n + 1 \in S
  <2> SUFFICES ASSUME n + 1 <= Len(NodeList), NEW u \in Keys(ls), NEW v \in Keys(ls)
               PROVE  Right(ls, n + 1, u, v)
    OBVIOUS
  <2>1. n + 1 \in 1 .. Len(NodeList) /\ (n + 1) - 1 = n /\ n <= Len(NodeList)
    BY TopologyAssumption
  <2>2. \A w, x \in Keys(ls) : Right(ls, (n + 1) - 1, w, x)
    BY <1>2, <2>1
  <2> HIDE DEF S
  <2>3. CASE NodeList[n + 1] \in Keys(ls)
    BY <2>1, <2>2, <2>3, NextRound
  <2>4. CASE NodeList[n + 1] \notin Keys(ls)
    BY <2>1, <2>2, <2>4, RoundWithout
  <2> QED BY <2>3, <2>4
<1>3. Len(NodeList) \in Nat
  BY TopologyAssumption
<1>4. Len(NodeList) \in S
  <2> HIDE DEF S
  <2> QED BY <1>1, <1>2, <1>3, FromZeroUp
<1> QED BY <1>3, <1>4

LEMMA TableDomain ==
  ASSUME NEW ls
  PROVE  DOMAIN AllPairs(ls) = Pairs(ls)
<1> DEFINE S == { n \in Nat : n <= Len(NodeList) => DOMAIN (Rounds(ls)[n]) = Pairs(ls) }
<1>1. 0 \in S
  <2>1. Rounds(ls)[0] = Adjacent(ls)
    BY RoundsAre
  <2> QED BY <2>1 DEF Adjacent
<1>2. ASSUME NEW n \in Nat, n \in S PROVE n + 1 \in S
  <2> SUFFICES ASSUME n + 1 <= Len(NodeList) PROVE DOMAIN (Rounds(ls)[n + 1]) = Pairs(ls)
    OBVIOUS
  <2>1. n + 1 \in 1 .. Len(NodeList) /\ (n + 1) - 1 = n /\ n <= Len(NodeList)
    BY TopologyAssumption
  <2>2. Rounds(ls)[n + 1] =
          IF NodeList[n + 1] \notin Keys(ls) THEN Rounds(ls)[(n + 1) - 1]
          ELSE [ij \in Pairs(ls) |-> Improved(Rounds(ls)[(n + 1) - 1], NodeList[n + 1], ij)]
    BY <2>1, RoundsAre
  <2>3. DOMAIN (Rounds(ls)[n]) = Pairs(ls)
    BY <1>2, <2>1
  <2> QED BY <2>1, <2>2, <2>3
<1>3. Len(NodeList) \in Nat
  BY TopologyAssumption
<1>4. Len(NodeList) \in S
  <2> HIDE DEF S
  <2> QED BY <1>1, <1>2, <1>3, FromZeroUp
<1> QED BY <1>3, <1>4 DEF AllPairs

\* Every path uses the routers there are.
LEMMA ViaAll ==
  ASSUME NEW path \in NodePaths
  PROVE  Via(path, Len(NodeList))
<1> SUFFICES ASSUME NEW x \in 2 .. Len(path) - 1
             PROVE  \E y \in 1 .. Len(NodeList) : path[x] = NodeList[y]
  BY DEF Via
<1>1. Len(path) \in Nat \ {0} /\ path \in [1 .. Len(path) -> Nodes]
  BY PathHas
<1>2. path[x] \in Nodes
  BY <1>1
<1> QED BY <1>2, TopologyAssumption DEF Nodes, Range

\* The table that the algorithm ends with.
LEMMA TableIs ==
  ASSUME NEW ls \in Links, NEW i \in Keys(ls), NEW j \in Keys(ls), i # j
  PROVE  LET e == AllPairs(ls)[<<i, j>>]
         IN  /\ e.cost \in Nat
             /\ e.hop = NoHop => SimplePaths(ls, i, j) = {}
             /\ e.hop # NoHop =>
                  \E path \in SimplePaths(ls, i, j) :
                    CostOf(ls, path) = e.cost /\ e.hop = <<path[2]>>
             /\ \A path \in SimplePaths(ls, i, j) : e.cost <= CostOf(ls, path)
<1> DEFINE e == AllPairs(ls)[<<i, j>>]
<1>1. \A path \in SimplePaths(ls, i, j) :
        /\ Via(path, Len(NodeList))
        /\ CostOf(ls, path) \in Nat /\ CostOf(ls, path) < Infinite
  BY SimpleIs, ViaAll, CostBounds
<1>2. /\ e.cost \in Nat
      /\ e.hop = NoHop => e.cost = Infinite
      /\ e.hop # NoHop =>
           \E path \in SimplePaths(ls, i, j) :
             CostOf(ls, path) = e.cost /\ e.hop = <<path[2]>>
      /\ \A path \in SimplePaths(ls, i, j) : e.cost <= CostOf(ls, path)
  <2>1. e = Rounds(ls)[Len(NodeList)][<<i, j>>]
    BY DEF AllPairs
  <2>2. Right(ls, Len(NodeList), i, j)
    BY AllRounds
  <2> HIDE DEF e
  <2> QED BY <1>1, <2>1, <2>2 DEF Right
<1> HIDE DEF e
<1>3. e.hop = NoHop => SimplePaths(ls, i, j) = {}
  BY <1>1, <1>2, InfiniteIs
<1> QED BY <1>2, <1>3 DEF e

LEMMA ConnectedIs ==
  ASSUME NEW ls \in Links
  PROVE  Connected(AllPairs(ls)) <=> Reaches(ls)
<1> DEFINE best == AllPairs(ls)
<1>1. DOMAIN best = Pairs(ls)
  BY TableDomain
<1>2. \A i, j \in Keys(ls) : i # j => (best[<<i, j>>].hop # NoHop <=> SimplePaths(ls, i, j) # {})
  BY TableIs
<1> HIDE DEF best
<1>3. Connected(best) <=> \A i, j \in Keys(ls) : i # j => best[<<i, j>>].hop # NoHop
  <2>1. ASSUME Connected(best), NEW i \in Keys(ls), NEW j \in Keys(ls), i # j
        PROVE  best[<<i, j>>].hop # NoHop
    <3>1. <<i, j>> \in DOMAIN best
      BY <1>1 DEF Pairs
    <3> QED BY <2>1, <3>1 DEF Connected
  <2>2. ASSUME \A i, j \in Keys(ls) : i # j => best[<<i, j>>].hop # NoHop,
               NEW ij \in DOMAIN best, ij[1] # ij[2]
        PROVE  best[ij].hop # NoHop
    <3>1. ij[1] \in Keys(ls) /\ ij[2] \in Keys(ls) /\ ij = <<ij[1], ij[2]>>
      BY <1>1 DEF Pairs
    <3> QED BY <2>2, <3>1
  <2> QED BY <2>1, <2>2 DEF Connected
<1> QED BY <1>2, <1>3 DEF best, Reaches

\* The next hop is linked, and closer by the cost of the link.
LEMMA HopIsCloser ==
  ASSUME NEW ls \in Links, NEW i \in Keys(ls), NEW j \in Keys(ls), i # j,
         NEW n, AllPairs(ls)[<<i, j>>].hop = <<n>>
  PROVE  /\ n \in Nodes /\ Linked(ls, i, n)
         /\ n = j => AllPairs(ls)[<<i, j>>].cost = LinkTo(ls, i, n).cost
         /\ n # j => /\ n \in Keys(ls)
                     /\ AllPairs(ls)[<<i, j>>].cost =
                          LinkTo(ls, i, n).cost + AllPairs(ls)[<<n, j>>].cost
<1> DEFINE e == AllPairs(ls)[<<i, j>>]
           f == AllPairs(ls)[<<n, j>>]
           c == LinkTo(ls, i, n).cost
<1>1. PICK path \in SimplePaths(ls, i, j) : CostOf(ls, path) = e.cost /\ <<n>> = <<path[2]>>
  <2>1. e.hop = <<n>> /\ e.hop # NoHop
    BY DEF NoHop
  <2> QED BY <2>1, TableIs, Zenon
<1>2. /\ path \in NodePaths /\ Chain(ls, path)
      /\ path[1] = i /\ path[Len(path)] = j /\ path[2] = n
  BY <1>1, SimpleIs
<1>3. /\ Len(path) \in Nat \ {0} /\ path \in [1 .. Len(path) -> Nodes]
      /\ \A x, y \in 1 .. Len(path) : path[x] = path[y] => x = y
  BY <1>2, PathHas
<1>4. Len(path) >= 2 /\ 2 \in 1 .. Len(path) /\ 1 \in 1 .. Len(path) - 1
  <2> DEFINE l == Len(path)
  <2>1. l \in Nat \ {0} /\ l # 1
    BY <1>2, <1>3
  <2> HIDE DEF l
  <2>2. l >= 2 /\ 2 \in 1 .. l /\ 1 \in 1 .. l - 1
    BY <2>1
  <2> QED BY <2>2 DEF l
<1>5. n \in Nodes /\ i \in Nodes /\ Linked(ls, i, n)
  <2>1. Linked(ls, path[1], path[1 + 1])
    BY <1>2, <1>4 DEF Chain
  <2> QED BY <1>2, <1>3, <1>4, <2>1 DEF Keys
<1>6. c \in Nat
  BY <1>5, LinkToIs, TopologyAssumption DEF Link
<1>7. CostTo(ls, path)[2] = c
  <2>1. 2 \in 2 .. Len(path) /\ 2 - 1 = 1
    BY <1>3, <1>4
  <2>2. /\ CostTo(ls, path)[1] = 0
        /\ CostTo(ls, path)[2] = CostTo(ls, path)[2 - 1] + LinkTo(ls, path[2 - 1], path[2]).cost
    BY <1>3, <2>1, CostIs
  <2> QED BY <1>2, <1>6, <2>1, <2>2
<1> HIDE DEF e, f, c
<1>8. ASSUME n = j PROVE e.cost = c
  <2>1. Len(path) = 2
    <3>1. Len(path) \in 1 .. Len(path)
      BY <1>3
    <3> QED BY <1>2, <1>3, <1>4, <1>8, <3>1
  <2> QED BY <1>1, <1>7, <2>1 DEF CostOf
<1>9. ASSUME n # j PROVE n \in Keys(ls) /\ e.cost = c + f.cost
  <2>1. n \in Keys(ls)
    <3>1. 2 \in 1 .. Len(path) - 1
      BY <1>2, <1>3, <1>4, <1>9
    <3> QED BY <1>2, <3>1, Inner
  <2>2. /\ f.cost \in Nat /\ e.cost \in Nat
        /\ \A p \in SimplePaths(ls, n, j) : f.cost <= CostOf(ls, p)
        /\ \A p \in SimplePaths(ls, i, j) : e.cost <= CostOf(ls, p)
        /\ f.hop = NoHop => SimplePaths(ls, n, j) = {}
        /\ f.hop # NoHop => \E p \in SimplePaths(ls, n, j) : CostOf(ls, p) = f.cost
    BY <1>9, <2>1, TableIs DEF e, f
  <2> DEFINE m == Len(NodeList) + 1
  <2>3. m \in Nat /\ m - 1 = Len(NodeList)
    BY TopologyAssumption
  <2>4. \A u, v : \A p \in SimplePaths(ls, u, v) :
          \A x \in 2 .. Len(p) - 1 : \E z \in 1 .. m - 1 : p[x] = NodeList[z]
    BY <2>3, ViaAll, SimpleIs DEF Via
  <2> HIDE DEF m
  <2>5. \E second \in SimplePaths(ls, n, j) : CostOf(ls, path) = c + CostOf(ls, second)
    <3>1. CutAt(ls, i, j, path, m, 2)
      <4>1. ViaBut(path, m, 2)
        BY <2>4 DEF ViaBut
      <4> QED BY <1>4, <2>3, <4>1, Split
    <3> QED BY <1>2, <1>7, <3>1 DEF CutAt
  <2>6. e.cost >= c + f.cost
    <3>1. PICK second \in SimplePaths(ls, n, j) : CostOf(ls, path) = c + CostOf(ls, second)
      BY <2>5
    <3>2. f.cost <= CostOf(ls, second) /\ CostOf(ls, second) \in Nat
      BY <2>2, SimpleIs, CostBounds
    <3>3. e.cost = c + CostOf(ls, second)
      BY <1>1, <3>1
    <3> QED BY <1>6, <2>2, <3>2, <3>3
  <2>7. PICK Q \in SimplePaths(ls, n, j) : CostOf(ls, Q) = f.cost
    BY <2>2, <2>5
  <2>8. Q \in NodePaths /\ Chain(ls, Q) /\ Q[1] = n /\ Q[Len(Q)] = j
    BY SimpleIs
  <2>9. e.cost <= c + f.cost
    <3>1. CASE \E y \in 1 .. Len(Q) : Q[y] = i
      <4>1. PICK y \in 1 .. Len(Q) : Q[y] = i
        BY <3>1
      <4>2. CutAt(ls, n, j, Q, m, y)
        <5>1. ViaBut(Q, m, y)
          BY <2>4 DEF ViaBut
        <5> QED BY <2>3, <5>1, Split
      <4>3. PICK first \in SimplePaths(ls, n, i), second \in SimplePaths(ls, i, j) :
              CostOf(ls, Q) = CostOf(ls, first) + CostOf(ls, second)
        BY <4>1, <4>2 DEF CutAt
      <4>4. CostOf(ls, first) \in Nat /\ CostOf(ls, second) \in Nat
        BY SimpleIs, CostBounds
      <4>5. e.cost <= CostOf(ls, second)
        BY <2>2
      <4> QED BY <1>6, <2>2, <2>7, <4>3, <4>4, <4>5
    <3>2. CASE \A y \in 1 .. Len(Q) : Q[y] # i
      <4> DEFINE P == <<i, n>>
      <4>0. Len(Q) \in Nat \ {0}
        BY <2>8, PathHas
      <4>1. i # n
        BY <2>8, <3>2, <4>0
      <4>2. Len(P) = 2 /\ P[1] = i /\ P[2] = n
        OBVIOUS
      <4>3. /\ P \in Seq(Nodes) /\ P # <<>>
            /\ \A x, y \in 1 .. Len(P) : P[x] = P[y] => x = y
        BY <1>5, <4>1
      <4> HIDE DEF P
      <4>4. P \in NodePaths
        BY <4>3, PathOf
      <4>5. Chain(ls, P)
        <5>1. \A x \in 1 .. Len(P) - 1 : x = 1
          BY <4>2
        <5> QED BY <1>5, <4>2, <5>1 DEF Chain
      <4>6. CostTo(ls, P)[2] = c
        <5>1. Len(P) \in Nat \ {0} /\ 2 \in 2 .. Len(P) /\ 2 - 1 = 1
          BY <4>2
        <5>2. /\ CostTo(ls, P)[1] = 0
              /\ CostTo(ls, P)[2] = CostTo(ls, P)[2 - 1] + LinkTo(ls, P[2 - 1], P[2]).cost
          BY <5>1, CostIs
        <5>3. LinkTo(ls, P[2 - 1], P[2]).cost = c
          BY <4>2, <5>1 DEF c
        <5> QED BY <1>6, <5>1, <5>2, <5>3
      <4> DEFINE R == Joined(P, 2, Q, 1)
      <4>7. /\ R \in NodePaths /\ Chain(ls, R)
            /\ R[1] = P[1] /\ R[Len(R)] = Q[Len(Q)]
            /\ CostOf(ls, R) = CostTo(ls, P)[2] + CostOf(ls, Q) - CostTo(ls, Q)[1]
        <5>1. Meet(P, 2, Q, 1)
          BY <2>8, <3>2, <4>0, <4>2 DEF Meet
        <5> HIDE DEF R
        <5>2. IsJoin(ls, R, P, 2, Q, 1)
          BY <2>8, <4>4, <4>5, <5>1, Join DEF R
        <5> QED BY <5>2 DEF IsJoin
      <4> HIDE DEF R
      <4>8. R \in SimplePaths(ls, i, j)
        BY <2>8, <4>2, <4>7, SimpleIs
      <4>9. CostTo(ls, Q)[1] = 0
        BY <4>0, CostIs
      <4>10. CostOf(ls, R) = c + f.cost - 0
        BY <2>7, <4>6, <4>7, <4>9
      <4> QED BY <1>6, <2>2, <4>8, <4>10
    <3> QED BY <3>1, <3>2
  <2> QED BY <1>6, <2>1, <2>2, <2>6, <2>9
<1> QED BY <1>5, <1>8, <1>9 DEF e, f, c
-----------------------------------------------------------------------------
\* What there can be in the mailboxes.
Known == { Result[ls].paths : ls \in AnyLinks }
Sent == [type : {"topology"}, paths : Known]
        \cup [type : {"topolinks"}, links : AnyLinks]

MailTyped ==
  /\ mailbox \in Seq(Snapshots)
  /\ links \in AnyLinks
  /\ topology \in Known \cup {{}}
  /\ mail \in [Peers -> Seq(Sent)]
  /\ peerTopology \in [Peers -> Known \cup {{}}]
  /\ peerGraph \in [Peers -> AnyLinks]

\* Links that are not empty go with the paths that were computed from them.
Match(ls, paths) == ls # NoLinks => Result[ls].paths = paths

\* Links follow the paths they belong to, in a mailbox or in the peer.
LinksFollowPaths(p) ==
  \A i \in DOMAIN mail[p] :
    mail[p][i].type = "topolinks" =>
      IF i = 1 THEN Match(mail[p][i].links, peerTopology[p])
      ELSE /\ mail[p][i - 1].type = "topology"
           /\ Match(mail[p][i].links, mail[p][i - 1].paths)

\* The last two messages are what the manager has.
EndsWithNewest(p) ==
  LET n == Len(mail[p])
  IN  IF n = 0 THEN peerTopology[p] = topology /\ peerGraph[p] = links
      ELSE /\ mail[p][n] = [type |-> "topolinks", links |-> links]
           /\ IF n = 1 THEN peerTopology[p] = topology
              ELSE mail[p][n - 1] = [type |-> "topology", paths |-> topology]

TopologyInv ==
  /\ MailTyped
  /\ Match(links, topology)
  /\ \A p \in Peers : /\ Match(peerGraph[p], peerTopology[p])
                      /\ LinksFollowPaths(p)
                      /\ EndsWithNewest(p)
-----------------------------------------------------------------------------
\* The tabulated results: links that are left are all or none.
LEMMA ResultOf ==
  ASSUME NEW ls \in AnyLinks
  PROVE  /\ Result[ls].paths \in Known
         /\ Result[ls].links \in {ls, NoLinks}
<1>1. Result[ls].links = LinksLeft(ls)
  BY DEF Result
<1> QED BY <1>1 DEF Known, LinksLeft

LEMMA LinksThereAre ==
  /\ NoLinks \in AnyLinks
  /\ Loaded(NoLinks) \in AnyLinks
  /\ \A msg \in Snapshots : Loaded(msg) \in AnyLinks
BY DEF AnyLinks

LEMMA TwoMore ==
  ASSUME NEW S, NEW s \in Seq(S), NEW a \in S, NEW b \in S
  PROVE  LET t == s \o <<a, b>>
         IN  /\ t \in Seq(S)
             /\ Len(t) = Len(s) + 2
             /\ DOMAIN t = 1 .. Len(s) + 2
             /\ DOMAIN s = 1 .. Len(s)
             /\ Len(s) \in Nat
             /\ \A i \in 1 .. Len(s) : t[i] = s[i]
             /\ t[Len(s) + 1] = a
             /\ t[Len(s) + 2] = b
<1>1. <<a, b>> \in Seq(S) /\ Len(<<a, b>>) = 2
  OBVIOUS
<1> QED BY <1>1

LEMMA OneLess ==
  ASSUME NEW S, NEW s \in Seq(S), s # <<>>
  PROVE  /\ Tail(s) \in Seq(S)
         /\ Head(s) = s[1] /\ Head(s) \in S
         /\ Len(s) \in Nat \ {0}
         /\ Len(Tail(s)) = Len(s) - 1
         /\ DOMAIN s = 1 .. Len(s)
         /\ DOMAIN Tail(s) = 1 .. Len(s) - 1
         /\ \A i \in 1 .. Len(s) - 1 : Tail(s)[i] = s[i + 1]
OBVIOUS

\* Sending the result of links that there can be keeps everything.
LEMMA UpdateKeeps ==
  ASSUME TopologyInv, NEW ls \in AnyLinks, Update(ls),
         mailbox' \in Seq(Snapshots), UNCHANGED peerVars
  PROVE  TopologyInv'
<1> DEFINE a == [type |-> "topology", paths |-> topology']
           b == [type |-> "topolinks", links |-> links']
<1>1. /\ links' \in AnyLinks /\ topology' \in Known
      /\ Match(links', topology')
  BY ResultOf, LinksThereAre DEF Update, Match
<1>2. a \in Sent /\ b \in Sent
  BY <1>1 DEF Sent
<1>3. \A p \in Peers : mail'[p] = mail[p] \o <<a, b>>
  BY DEF Update, PathsThenLinks
<1>4. \A p \in Peers : mail[p] \in Seq(Sent)
  BY DEF TopologyInv, MailTyped
<1>5. mail' \in [Peers -> Seq(Sent)]
  <2>1. \A p \in Peers : mail[p] \o <<a, b>> \in Seq(Sent)
    BY <1>2, <1>4, TwoMore
  <2> QED BY <2>1 DEF Update, PathsThenLinks
<1>6. MailTyped'
  BY <1>1, <1>5 DEF TopologyInv, MailTyped, peerVars
<1>7. ASSUME NEW p \in Peers
      PROVE  LinksFollowPaths(p)' /\ EndsWithNewest(p)'
  <2> DEFINE s == mail[p]
             t == mail'[p]
  <2>1. /\ t \in Seq(Sent) /\ Len(t) = Len(s) + 2
        /\ DOMAIN t = 1 .. Len(s) + 2 /\ DOMAIN s = 1 .. Len(s)
        /\ Len(s) \in Nat
        /\ \A i \in 1 .. Len(s) : t[i] = s[i]
        /\ t[Len(s) + 1] = a /\ t[Len(s) + 2] = b
    <3>1. s \in Seq(Sent) /\ t = s \o <<a, b>>
      BY <1>3, <1>4
    <3> HIDE DEF s, t, a, b
    <3> QED BY <1>2, <3>1, TwoMore
  <2> HIDE DEF s, t
  <2>2. \A i \in DOMAIN s :
          s[i].type = "topolinks" =>
            IF i = 1 THEN Match(s[i].links, peerTopology[p])
            ELSE s[i - 1].type = "topology" /\ Match(s[i].links, s[i - 1].paths)
    BY DEF TopologyInv, LinksFollowPaths, s
  <2>3. ASSUME NEW i \in DOMAIN t, t[i].type = "topolinks"
        PROVE  IF i = 1 THEN Match(t[i].links, peerTopology[p])
               ELSE t[i - 1].type = "topology" /\ Match(t[i].links, t[i - 1].paths)
    <3>1. CASE i \in 1 .. Len(s)
      <4>1. t[i] = s[i] /\ (i # 1 => t[i - 1] = s[i - 1])
        BY <2>1, <3>1
      <4> QED BY <2>1, <2>2, <2>3, <3>1, <4>1
    <3>2. CASE i = Len(s) + 1
      BY <2>1, <2>3, <3>2
    <3>3. CASE i = Len(s) + 2
      BY <1>1, <2>1, <3>3
    <3> QED BY <2>1, <3>1, <3>2, <3>3
  <2>4. LinksFollowPaths(p)'
    BY <2>3 DEF LinksFollowPaths, Match, peerVars, t
  <2>5. EndsWithNewest(p)'
    BY <2>1 DEF EndsWithNewest, t
  <2> QED BY <2>4, <2>5
<1>8. \A p \in Peers : Match(peerGraph[p], peerTopology[p])'
  BY DEF TopologyInv, peerVars, Match
<1> QED BY <1>1, <1>6, <1>7, <1>8 DEF TopologyInv, Match

\* A peer that reads its next message keeps everything.
LEMMA PeerKeeps ==
  ASSUME TopologyInv, NEW p \in Peers,
         PeerGetsTopology(p) \/ PeerGetsLinks(p)
  PROVE  TopologyInv'
<1> DEFINE s == mail[p]
           t == mail'[p]
<1>1. /\ s \in Seq(Sent) /\ s # <<>>
      /\ mail' = [mail EXCEPT ![p] = Tail(s)]
      /\ mail \in [Peers -> Seq(Sent)]
  BY DEF PeerGetsTopology, PeerGetsLinks, IsNext, Read, TopologyInv, MailTyped
<1>2. t = Tail(s) /\ \A q \in Peers \ {p} : mail'[q] = mail[q]
  BY <1>1
<1>3. \A i \in DOMAIN s :
        s[i].type = "topolinks" =>
          IF i = 1 THEN Match(s[i].links, peerTopology[p])
          ELSE s[i - 1].type = "topology" /\ Match(s[i].links, s[i - 1].paths)
  BY DEF TopologyInv, LinksFollowPaths
<1>4. LET n == Len(s)
      IN  /\ s[n] = [type |-> "topolinks", links |-> links]
          /\ IF n = 1 THEN peerTopology[p] = topology
             ELSE s[n - 1] = [type |-> "topology", paths |-> topology]
  BY <1>1 DEF TopologyInv, EndsWithNewest
<1> HIDE DEF s, t
<1>5. /\ t \in Seq(Sent)
      /\ Head(s) = s[1] /\ Head(s) \in Sent
      /\ Len(s) \in Nat \ {0} /\ Len(t) = Len(s) - 1
      /\ DOMAIN s = 1 .. Len(s) /\ DOMAIN t = 1 .. Len(s) - 1
      /\ \A i \in 1 .. Len(s) - 1 : t[i] = s[i + 1]
  BY <1>1, <1>2, OneLess
<1>6. UNCHANGED <<managerVars, mailbox>>
  BY DEF PeerGetsTopology, PeerGetsLinks
<1>7. mail' \in [Peers -> Seq(Sent)]
  BY <1>1, <1>2, <1>5
<1>8. ASSUME PeerGetsTopology(p)
      PROVE  /\ MailTyped' /\ Match(peerGraph[p], peerTopology[p])'
             /\ LinksFollowPaths(p)' /\ EndsWithNewest(p)'
  <2>1. /\ s[1].type = "topology" /\ s[1].paths \in Known
        /\ peerTopology' = [peerTopology EXCEPT ![p] = s[1].paths]
        /\ peerGraph' = [peerGraph EXCEPT ![p] = NoLinks]
    BY <1>5, <1>8 DEF PeerGetsTopology, IsNext, Sent, EmptyGraph, s
  <2>2. Len(s) # 1
    BY <1>4, <2>1
  <2>3. MailTyped'
    BY <1>6, <1>7, <2>1, LinksThereAre DEF TopologyInv, MailTyped, managerVars
  <2>4. peerTopology'[p] = s[1].paths /\ peerGraph'[p] = NoLinks
    BY <2>1 DEF TopologyInv, MailTyped
  <2>5. ASSUME NEW i \in DOMAIN t, t[i].type = "topolinks"
        PROVE  IF i = 1 THEN Match(t[i].links, s[1].paths)
               ELSE t[i - 1].type = "topology" /\ Match(t[i].links, t[i - 1].paths)
    <3>1. i + 1 \in DOMAIN s /\ t[i] = s[i + 1] /\ (i # 1 => t[i - 1] = s[i])
      BY <1>5
    <3>2. s[i].type = "topology" /\ Match(s[i + 1].links, s[i].paths)
      BY <1>3, <1>5, <2>5, <3>1
    <3> QED BY <3>1, <3>2
  <2>6. LinksFollowPaths(p)'
    BY <2>4, <2>5 DEF LinksFollowPaths, Match, t
  <2>7. EndsWithNewest(p)'
    <3>1. t[Len(t)] = s[Len(s)]
      BY <1>5, <2>2
    <3>2. Len(t) # 1 => t[Len(t) - 1] = s[Len(s) - 1]
      BY <1>5, <2>2
    <3>3. Len(t) = 1 => s[1] = s[Len(s) - 1]
      BY <1>5
    <3>4. links' = links /\ topology' = topology
      BY <1>6 DEF managerVars
    <3>5. /\ Len(t) # 0
          /\ t[Len(t)] = [type |-> "topolinks", links |-> links']
          /\ IF Len(t) = 1 THEN peerTopology'[p] = topology'
             ELSE t[Len(t) - 1] = [type |-> "topology", paths |-> topology']
      BY <1>4, <1>5, <2>2, <2>4, <3>1, <3>2, <3>3, <3>4
    <3> QED BY <3>5 DEF EndsWithNewest, t
  <2>8. Match(peerGraph[p], peerTopology[p])'
    BY <2>4 DEF Match
  <2> QED BY <2>3, <2>6, <2>7, <2>8
<1>9. ASSUME PeerGetsLinks(p)
      PROVE  /\ MailTyped' /\ Match(peerGraph[p], peerTopology[p])'
             /\ LinksFollowPaths(p)' /\ EndsWithNewest(p)'
  <2>1. /\ s[1].type = "topolinks" /\ s[1].links \in AnyLinks
        /\ peerGraph' = [peerGraph EXCEPT ![p] = s[1].links]
        /\ UNCHANGED peerTopology
    BY <1>5, <1>9 DEF PeerGetsLinks, IsNext, Sent, s
  <2>2. MailTyped'
    BY <1>6, <1>7, <2>1 DEF TopologyInv, MailTyped, managerVars
  <2>3. peerGraph'[p] = s[1].links /\ Match(s[1].links, peerTopology[p])
    <3>1. peerGraph'[p] = s[1].links
      BY <2>1 DEF TopologyInv, MailTyped
    <3>2. 1 \in DOMAIN s
      BY <1>5
    <3> QED BY <1>3, <2>1, <3>1, <3>2
  <2>4. ASSUME NEW i \in DOMAIN t, t[i].type = "topolinks"
        PROVE  IF i = 1 THEN Match(t[i].links, peerTopology[p])
               ELSE t[i - 1].type = "topology" /\ Match(t[i].links, t[i - 1].paths)
    <3>1. i + 1 \in DOMAIN s /\ t[i] = s[i + 1] /\ (i # 1 => t[i - 1] = s[i])
      BY <1>5
    <3>2. s[i].type = "topology" /\ Match(s[i + 1].links, s[i].paths)
      BY <1>3, <1>5, <2>4, <3>1
    <3> QED BY <2>1, <3>1, <3>2
  <2>5. LinksFollowPaths(p)'
    BY <2>1, <2>4 DEF LinksFollowPaths, Match, t
  <2>6. EndsWithNewest(p)'
    <3>1. Len(t) # 0 => t[Len(t)] = s[Len(s)]
      BY <1>5
    <3>2. Len(t) \notin {0, 1} => t[Len(t) - 1] = s[Len(s) - 1]
      BY <1>5
    <3>3. Len(t) = 1 => s[1] = s[Len(s) - 1]
      BY <1>5
    <3>4. links' = links /\ topology' = topology
      BY <1>6 DEF managerVars
    <3>5. IF Len(t) = 0 THEN peerTopology'[p] = topology' /\ peerGraph'[p] = links'
          ELSE /\ t[Len(t)] = [type |-> "topolinks", links |-> links']
               /\ IF Len(t) = 1 THEN peerTopology'[p] = topology'
                  ELSE t[Len(t) - 1] = [type |-> "topology", paths |-> topology']
      BY <1>4, <1>5, <2>1, <2>3, <3>1, <3>2, <3>3, <3>4
    <3> QED BY <3>5 DEF EndsWithNewest, t
  <2>7. Match(peerGraph[p], peerTopology[p])'
    BY <2>1, <2>3 DEF Match
  <2> QED BY <2>2, <2>5, <2>6, <2>7
<1>10. ASSUME NEW q \in Peers, q # p
       PROVE  /\ Match(peerGraph[q], peerTopology[q])'
              /\ LinksFollowPaths(q)' /\ EndsWithNewest(q)'
  <2>1. /\ mail'[q] = mail[q] /\ peerTopology'[q] = peerTopology[q]
        /\ peerGraph'[q] = peerGraph[q]
    BY <1>1, <1>10 DEF PeerGetsTopology, PeerGetsLinks, TopologyInv, MailTyped
  <2>2. Match(peerGraph[q], peerTopology[q]) /\ LinksFollowPaths(q) /\ EndsWithNewest(q)
    BY DEF TopologyInv
  <2> QED BY <1>6, <2>1, <2>2 DEF LinksFollowPaths, EndsWithNewest, Match, managerVars
<1>11. MailTyped' /\ /\ Match(peerGraph[p], peerTopology[p])'
                     /\ LinksFollowPaths(p)' /\ EndsWithNewest(p)'
  BY <1>8, <1>9
<1>12. Match(links, topology)'
  BY <1>6 DEF TopologyInv, Match, managerVars
<1> QED BY <1>10, <1>11, <1>12 DEF TopologyInv
-----------------------------------------------------------------------------
\* Before anything is sent nobody has anything.
LEMMA InvInit == Init => TopologyInv
<1> SUFFICES ASSUME Init PROVE TopologyInv
  OBVIOUS
<1>1. MailTyped
  BY LinksThereAre DEF Init, MailTyped
<1>2. \A p \in Peers : mail[p] = <<>> /\ peerGraph[p] = NoLinks /\ peerTopology[p] = {}
  BY DEF Init
<1> QED BY <1>1, <1>2 DEF Init, TopologyInv, Match, LinksFollowPaths, EndsWithNewest

LEMMA InvNext == TopologyInv /\ [Next]_vars => TopologyInv'
<1> SUFFICES ASSUME TopologyInv, [Next]_vars PROVE TopologyInv'
  OBVIOUS
<1>1. CASE Start
  BY <1>1, LinksThereAre, UpdateKeeps DEF Start, TopologyInv, MailTyped
<1>2. CASE BuildTopology
  <2> DEFINE msg == Head(mailbox)
  <2>1. msg \in Snapshots /\ Tail(mailbox) \in Seq(Snapshots)
    BY <1>2, OneLess DEF BuildTopology, TopologyInv, MailTyped
  <2>2. mailbox' \in Seq(Snapshots) /\ UNCHANGED peerVars
    BY <1>2, <2>1 DEF BuildTopology
  <2>3. CASE Unchanged(Loaded(msg), msg)
    <3>1. UNCHANGED <<links, topology, mail, peerVars>>
      BY <1>2, <2>3 DEF BuildTopology
    <3> QED BY <2>2, <3>1 DEF TopologyInv, MailTyped, Match, LinksFollowPaths,
                              EndsWithNewest, peerVars
  <2>4. CASE ~Unchanged(Loaded(msg), msg)
    <3>1. Update(Loaded(msg))
      BY <1>2, <2>4 DEF BuildTopology
    <3>2. Loaded(msg) \in AnyLinks
      BY <2>1, LinksThereAre
    <3> QED BY <2>2, <3>1, <3>2, UpdateKeeps
  <2> QED BY <2>3, <2>4
<1>3. ASSUME NEW msg \in Snapshots, Publish(msg) PROVE TopologyInv'
  <2>1. mailbox' \in Seq(Snapshots)
    BY <1>3 DEF Publish, TopologyInv, MailTyped
  <2>2. UNCHANGED <<links, topology, mail, peerVars>>
    BY <1>3 DEF Publish, managerVars
  <2> QED BY <2>1, <2>2 DEF TopologyInv, MailTyped, Match, LinksFollowPaths,
                            EndsWithNewest, peerVars
<1>4. ASSUME NEW p \in Peers, PeerGetsTopology(p) \/ PeerGetsLinks(p)
      PROVE  TopologyInv'
  BY <1>4, PeerKeeps
<1>5. CASE UNCHANGED vars
  BY <1>5 DEF TopologyInv, MailTyped, Match, LinksFollowPaths, EndsWithNewest,
              vars, managerVars, peerVars
<1> QED BY <1>1, <1>2, <1>3, <1>4, <1>5 DEF Next

LEMMA InvAlways == Spec => []TopologyInv
BY InvInit, InvNext, PTL DEF Spec

(***************************************************************************)
(* A peer never joins the links of one topology with the paths of another  *)
(* (the two messages of NetworkManager._update).                           *)
(***************************************************************************)
THEOREM GraphAlwaysMatches == Spec => []GraphMatchesPaths
<1>1. TopologyInv => GraphMatchesPaths
  BY DEF TopologyInv, Match, GraphMatchesPaths
<1> QED BY <1>1, InvAlways, PTL

(***************************************************************************)
(* A peer that has read its mail has the paths and the links that the      *)
(* manager has, the empty ones after a reset included.                     *)
(***************************************************************************)
ReadIsNewest ==
  \A p \in Peers : mail[p] = <<>> => peerTopology[p] = topology /\ peerGraph[p] = links

THEOREM PeersHaveNewest == Spec => []ReadIsNewest
<1>1. TopologyInv => ReadIsNewest
  BY DEF TopologyInv, EndsWithNewest, ReadIsNewest
<1> QED BY <1>1, InvAlways, PTL
-----------------------------------------------------------------------------
LEMMA AnyLinksAre == AnyLinks \subseteq Links
<1>1. NoLinks \in Links
  <2>1. <<>> \in Seq(Link)
    OBVIOUS
  <2> QED BY <2>1 DEF NoLinks, Links
<1>2. ASSUME NEW msg \in Links PROVE Loaded(msg) \in Links
  <2>1. \A n \in Nodes : Static[n] \o msg[n] \in Seq(Link)
    BY TopologyAssumption DEF Links
  <2> QED BY <2>1 DEF Loaded, Links
<1> QED BY <1>1, <1>2, TopologyAssumption DEF AnyLinks

\* The entries that are handed out.
LEMMA PathsAre ==
  ASSUME NEW ls \in Links, Connected(AllPairs(ls)), NEW e \in Paths(ls)
  PROVE  \E i, j \in Keys(ls), n \in Nodes :
           /\ i # j /\ AllPairs(ls)[<<i, j>>].hop = <<n>>
           /\ e = [src |-> i, dst |-> j, cost |-> AllPairs(ls)[<<i, j>>].cost,
                   address |-> LinkTo(ls, i, n).address]
<1> DEFINE best == AllPairs(ls)
<1>1. PICK ij \in Pairs(ls) :
        /\ ij[1] # ij[2]
        /\ e = [src |-> ij[1], dst |-> ij[2], cost |-> best[ij].cost,
                address |-> IF best[ij].hop = NoHop THEN 0
                            ELSE LinkTo(ls, ij[1], best[ij].hop[1]).address]
  BY DEF Paths
<1>2. ij[1] \in Keys(ls) /\ ij[2] \in Keys(ls) /\ ij = <<ij[1], ij[2]>>
  BY DEF Pairs
<1>3. best[ij].hop # NoHop
  BY <1>1, TableDomain DEF Connected
<1>4. \E path \in SimplePaths(ls, ij[1], ij[2]) : best[ij].hop = <<path[2]>>
  BY <1>1, <1>2, <1>3, TableIs
<1>5. PICK n : best[ij].hop = <<n>>
  BY <1>4
<1>6. n \in Nodes
  BY <1>1, <1>2, <1>5, HopIsCloser
<1>7. e = [src |-> ij[1], dst |-> ij[2], cost |-> best[ij].cost,
           address |-> LinkTo(ls, ij[1], n).address]
  BY <1>1, <1>3, <1>5
<1> QED BY <1>1, <1>2, <1>5, <1>6, <1>7

LEMMA PathsTyped ==
  ASSUME NEW ls \in Links
  PROVE  Paths(ls) \in SUBSET Path
<1> SUFFICES ASSUME NEW e \in Paths(ls) PROVE e \in Path
  OBVIOUS
<1>1. Connected(AllPairs(ls))
  BY DEF Paths
<1>2. PICK i \in Keys(ls), j \in Keys(ls), n \in Nodes :
        /\ i # j /\ AllPairs(ls)[<<i, j>>].hop = <<n>>
        /\ e = [src |-> i, dst |-> j, cost |-> AllPairs(ls)[<<i, j>>].cost,
                address |-> LinkTo(ls, i, n).address]
  BY <1>1, PathsAre
<1>3. i \in Nodes /\ j \in Nodes
  BY DEF Keys
<1>4. AllPairs(ls)[<<i, j>>].cost \in Nat
  BY <1>2, TableIs
<1>5. LinkTo(ls, i, n).address \in Nat \ {0}
  BY <1>2, <1>3, HopIsCloser, LinkToIs DEF Link
<1> QED BY <1>2, <1>3, <1>4, <1>5 DEF Path

LEMMA PathsShortest ==
  ASSUME NEW ls \in Links, NEW e \in Paths(ls)
  PROVE  /\ IsLeastCost(e.cost, ls, e.src, e.dst)
         /\ \E n \in Nodes :
              /\ Linked(ls, e.src, n) /\ e.address = LinkTo(ls, e.src, n).address
              /\ \/ n = e.dst /\ e.cost = LinkTo(ls, e.src, n).cost
                 \/ \E f \in Paths(ls) : /\ f.src = n /\ f.dst = e.dst
                                         /\ e.cost = LinkTo(ls, e.src, n).cost + f.cost
<1> DEFINE best == AllPairs(ls)
<1>1. Connected(best)
  BY DEF Paths
<1>2. PICK i \in Keys(ls), j \in Keys(ls), n \in Nodes :
        /\ i # j /\ best[<<i, j>>].hop = <<n>>
        /\ e = [src |-> i, dst |-> j, cost |-> best[<<i, j>>].cost,
                address |-> LinkTo(ls, i, n).address]
  BY <1>1, PathsAre
<1>3. e.src = i /\ e.dst = j /\ e.cost = best[<<i, j>>].cost
      /\ e.address = LinkTo(ls, i, n).address
  BY <1>2
<1>4. IsLeastCost(best[<<i, j>>].cost, ls, i, j)
  <2>1. best[<<i, j>>].hop # NoHop
    BY <1>2 DEF NoHop
  <2>2. /\ \E path \in SimplePaths(ls, i, j) : CostOf(ls, path) = best[<<i, j>>].cost
        /\ \A path \in SimplePaths(ls, i, j) : best[<<i, j>>].cost <= CostOf(ls, path)
    BY <1>2, <2>1, TableIs
  <2> HIDE DEF best
  <2> QED BY <2>2 DEF IsLeastCost
<1>5. /\ Linked(ls, i, n)
      /\ n = j => best[<<i, j>>].cost = LinkTo(ls, i, n).cost
      /\ n # j => /\ n \in Keys(ls)
                  /\ best[<<i, j>>].cost = LinkTo(ls, i, n).cost + best[<<n, j>>].cost
  BY <1>2, HopIsCloser
<1>6. ASSUME n # j
      PROVE  \E f \in Paths(ls) : /\ f.src = n /\ f.dst = j
                                  /\ best[<<i, j>>].cost = LinkTo(ls, i, n).cost + f.cost
  <2> DEFINE entry(ij) ==
               [src |-> ij[1], dst |-> ij[2], cost |-> best[ij].cost,
                address |-> IF best[ij].hop = NoHop THEN 0
                            ELSE LinkTo(ls, ij[1], best[ij].hop[1]).address]
  <2>1. <<n, j>> \in { kl \in Pairs(ls) : kl[1] # kl[2] }
    BY <1>5, <1>6 DEF Pairs
  <2>2. entry(<<n, j>>) \in Paths(ls)
    BY <1>1, <2>1 DEF Paths
  <2>3. entry(<<n, j>>).src = n /\ entry(<<n, j>>).dst = j /\ entry(<<n, j>>).cost = best[<<n, j>>].cost
    OBVIOUS
  <2> HIDE DEF entry, best
  <2> QED BY <1>5, <1>6, <2>2, <2>3
<1> HIDE DEF best
<1> QED BY <1>3, <1>4, <1>5, <1>6

LEMMA PathsOfAll ==
  ASSUME NEW ls \in Links, Connected(AllPairs(ls))
  PROVE  { <<e.src, e.dst>> : e \in Paths(ls) } = { ij \in Pairs(ls) : ij[1] # ij[2] }
<1> DEFINE best == AllPairs(ls)
           entry(ij) ==
             [src |-> ij[1], dst |-> ij[2], cost |-> best[ij].cost,
              address |-> IF best[ij].hop = NoHop THEN 0
                          ELSE LinkTo(ls, ij[1], best[ij].hop[1]).address]
           D == { ij \in Pairs(ls) : ij[1] # ij[2] }
<1>1. Paths(ls) = { entry(ij) : ij \in D }
  BY DEF Paths
<1>2. \A ij \in D : entry(ij).src = ij[1] /\ entry(ij).dst = ij[2]
  OBVIOUS
<1>3. \A ij \in D : ij = <<ij[1], ij[2]>>
  BY DEF Pairs
<1> HIDE DEF entry, D
<1>4. { <<e.src, e.dst>> : e \in Paths(ls) } = D
  BY <1>1, <1>2, <1>3
<1> QED BY <1>4 DEF D
-----------------------------------------------------------------------------
\* What the manager has is the result for what was published last, or that is
\* still in its mailbox.
ManagerInv ==
  /\ started \in BOOLEAN /\ lsdb \in Snapshots \cup {NoLinks}
  /\ published \in 0 .. MaxPublished
  /\ links = NoLinks => topology = {}
  /\ links # NoLinks => Result[links].links = links
  /\ IF mailbox = <<>>
     THEN IF started THEN links = Result[Loaded(lsdb)].links /\ topology = Result[Loaded(lsdb)].paths
          ELSE lsdb = NoLinks
     ELSE mailbox[Len(mailbox)] = lsdb

LEMMA ResultIs ==
  ASSUME NEW ls \in AnyLinks
  PROVE  /\ Result[ls].links = LinksLeft(ls) /\ Result[ls].paths = Paths(ls)
         /\ Result[ls].links = NoLinks => Result[ls].paths = {}
         /\ Result[ls].links # NoLinks => Result[ls].links = ls
<1>1. Result[ls].links = LinksLeft(ls) /\ Result[ls].paths = Paths(ls)
  BY DEF Result
<1>2. Paths(NoLinks) = {}
  <2>1. Keys(NoLinks) = {}
    BY DEF Keys, NoLinks
  <2>2. Pairs(NoLinks) = {}
    BY <2>1 DEF Pairs
  <2> QED BY <2>2 DEF Paths
<1>3. ~Connected(AllPairs(ls)) => Paths(ls) = {}
  BY DEF Paths
<1> QED BY <1>1, <1>2, <1>3 DEF LinksLeft

LEMMA ManagerInvInit == Init => ManagerInv
<1> SUFFICES ASSUME Init PROVE ManagerInv
  OBVIOUS
<1>1. /\ started = FALSE /\ lsdb = NoLinks /\ published = 0 /\ mailbox = <<>>
      /\ links = NoLinks /\ topology = {}
  BY DEF Init
<1>2. published \in 0 .. MaxPublished
  BY <1>1, TopologyAssumption
<1> QED BY <1>1, <1>2 DEF ManagerInv

LEMMA ManagerInvNext == TopologyInv /\ ManagerInv /\ [Next]_vars => ManagerInv'
<1> SUFFICES ASSUME TopologyInv, ManagerInv, [Next]_vars PROVE ManagerInv'
  OBVIOUS
<1>1. mailbox \in Seq(Snapshots) /\ links \in AnyLinks /\ Match(links, topology)
  BY DEF TopologyInv, MailTyped
<1>2. ASSUME NEW ls \in AnyLinks, Update(ls)
      PROVE  /\ links' = Result[ls].links /\ topology' = Result[ls].paths
             /\ links' = NoLinks => topology' = {}
             /\ links' # NoLinks => Result[links'].links = links'
  <2>1. links' = Result[ls].links /\ topology' = Result[ls].paths
    BY <1>2 DEF Update
  <2> QED BY <2>1, ResultIs
<1>3. CASE Start
  <2>1. /\ Loaded(NoLinks) \in AnyLinks /\ Update(Loaded(NoLinks))
        /\ started' = TRUE /\ UNCHANGED <<lsdb, published, mailbox>> /\ ~started
    BY <1>3, LinksThereAre DEF Start, listenerVars
  <2> QED BY <1>2, <2>1 DEF ManagerInv
<1>4. CASE BuildTopology
  <2> DEFINE msg == Head(mailbox)
             ls == Loaded(msg)
             n == Len(mailbox)
  <2>1. /\ started /\ mailbox # <<>> /\ mailbox' = Tail(mailbox)
        /\ UNCHANGED <<started, lsdb, published>>
        /\ IF Unchanged(ls, msg) THEN UNCHANGED <<links, topology>> ELSE Update(ls)
    BY <1>4 DEF BuildTopology, listenerVars
  <2>2. /\ Head(mailbox) = mailbox[1] /\ Head(mailbox) \in Snapshots
        /\ n \in Nat \ {0} /\ Len(Tail(mailbox)) = n - 1
        /\ \A i \in 1 .. n - 1 : Tail(mailbox)[i] = mailbox[i + 1]
        /\ Tail(mailbox) \in Seq(Snapshots)
    BY <1>1, <2>1, OneLess
  <2>3. ls \in AnyLinks
    BY <2>2, LinksThereAre
  <2>4. /\ mailbox[n] = lsdb
        /\ links = NoLinks => topology = {}
        /\ links # NoLinks => Result[links].links = links
    BY <2>1 DEF ManagerInv
  <2>5. /\ links' = Result[ls].links /\ topology' = Result[ls].paths
        /\ links' = NoLinks => topology' = {}
        /\ links' # NoLinks => Result[links'].links = links'
    <3>1. CASE Unchanged(ls, msg)
      <4>1. links' = links /\ topology' = topology /\ ls = links
        BY <2>1, <3>1 DEF Unchanged
      <4>2. links # NoLinks => Result[links].paths = topology
        BY <1>1 DEF Match
      <4>3. links = NoLinks => Result[links].links = NoLinks /\ Result[links].paths = {}
        BY <1>1, ResultIs
      <4> QED BY <2>4, <4>1, <4>2, <4>3
    <3>2. CASE ~Unchanged(ls, msg)
      BY <1>2, <2>1, <2>3, <3>2
    <3> QED BY <3>1, <3>2
  <2>6. CASE n = 1
    <3>1. mailbox' = <<>> /\ msg = lsdb
      BY <2>1, <2>2, <2>4, <2>6
    <3> HIDE DEF n, msg
    <3>2. ls = Loaded(lsdb')
      BY <2>1, <3>1
    <3> HIDE DEF ls
    <3> QED BY <2>1, <2>5, <3>1, <3>2 DEF ManagerInv
  <2>7. CASE n # 1
    <3>1. Len(mailbox') = n - 1 /\ n - 1 \in 1 .. n - 1 /\ (n - 1) + 1 = n
      BY <2>1, <2>2, <2>7
    <3>2. mailbox'[Len(mailbox')] = lsdb' /\ mailbox' # <<>>
      BY <2>1, <2>2, <2>4, <3>1
    <3> HIDE DEF n, msg, ls
    <3> QED BY <2>1, <2>5, <3>2 DEF ManagerInv
  <2> QED BY <2>6, <2>7
<1>5. ASSUME NEW msg \in Snapshots, Publish(msg) PROVE ManagerInv'
  <2>1. /\ published < MaxPublished /\ published' = published + 1 /\ lsdb' = msg
        /\ mailbox' = Append(mailbox, msg) /\ UNCHANGED <<started, links, topology>>
    BY <1>5 DEF Publish, managerVars
  <2>2. mailbox' # <<>> /\ mailbox'[Len(mailbox')] = msg
    BY <1>1, <2>1
  <2>3. published' \in 0 .. MaxPublished
    BY <2>1, TopologyAssumption DEF ManagerInv
  <2> QED BY <2>1, <2>2, <2>3 DEF ManagerInv
<1>6. ASSUME NEW p \in Peers, PeerGetsTopology(p) \/ PeerGetsLinks(p)
      PROVE  ManagerInv'
  <2>1. UNCHANGED <<managerVars, listenerVars, mailbox>>
    BY <1>6 DEF PeerGetsTopology, PeerGetsLinks
  <2> QED BY <2>1 DEF ManagerInv, managerVars, listenerVars
<1>7. CASE UNCHANGED vars
  BY <1>7 DEF ManagerInv, vars, managerVars, listenerVars
<1> QED BY <1>3, <1>4, <1>5, <1>6, <1>7 DEF Next

LEMMA ManagerInvAlways == Spec => []ManagerInv
<1>1. Spec => []TopologyInv
  BY InvAlways
<1> QED BY <1>1, ManagerInvInit, ManagerInvNext, PTL DEF Spec

(***************************************************************************)
(* Everything is well typed; of the topologies this says that each entry   *)
(* has a cost and the address of a link.                                   *)
(***************************************************************************)
THEOREM TypeCorrect == Spec => []TypeOK
<1>1. ASSUME TopologyInv, ManagerInv PROVE TypeOK
  <2>1. Known \subseteq SUBSET Path /\ Sent \subseteq Message
    <3>1. \A ls \in AnyLinks : Result[ls].paths \in SUBSET Path
      BY AnyLinksAre, ResultIs, PathsTyped
    <3>2. Known \subseteq SUBSET Path
      BY <3>1 DEF Known
    <3> QED BY <3>2, AnyLinksAre DEF Sent, Message
  <2>2. \A S, T : S \subseteq T => Seq(S) \subseteq Seq(T)
    OBVIOUS
  <2>3. mailbox \in Seq(Links)
    BY <1>1, <2>2, TopologyAssumption DEF TopologyInv, MailTyped
  <2>4. mail \in [Peers -> Seq(Message)]
    <3>1. Seq(Sent) \subseteq Seq(Message)
      BY <2>1, <2>2
    <3> QED BY <1>1, <3>1 DEF TopologyInv, MailTyped
  <2>5. links \in Links /\ lsdb \in Links
    BY <1>1, AnyLinksAre, LinksThereAre, TopologyAssumption DEF TopologyInv, MailTyped, ManagerInv
  <2>6. /\ topology \in SUBSET Path
        /\ peerTopology \in [Peers -> SUBSET Path]
        /\ peerGraph \in [Peers -> Links]
    BY <1>1, <2>1, AnyLinksAre DEF TopologyInv, MailTyped
  <2> QED BY <1>1, <2>3, <2>4, <2>5, <2>6 DEF TypeOK, ManagerInv
<1> QED BY <1>1, InvAlways, ManagerInvAlways, PTL

(***************************************************************************)
(* The manager hands out least-cost paths that lead to the destination hop *)
(* by hop, for any number of routers and any links.                        *)
(***************************************************************************)
THEOREM AlwaysShortest == Spec => []ShortestPaths
<1>1. ASSUME TopologyInv, ManagerInv PROVE ShortestPaths
  <2>1. links \in AnyLinks /\ links \in Links
    BY <1>1, AnyLinksAre DEF TopologyInv, MailTyped
  <2>2. CASE links = NoLinks
    BY <1>1, <2>2 DEF ManagerInv, ShortestPaths
  <2>3. CASE links # NoLinks
    <3>1. topology = Paths(links)
      BY <1>1, <2>1, <2>3, ResultIs DEF TopologyInv, Match
    <3> QED BY <2>1, <3>1, PathsShortest DEF ShortestPaths
  <2> QED BY <2>2, <2>3
<1> QED BY <1>1, InvAlways, ManagerInvAlways, PTL

(***************************************************************************)
(* An entry for each pair of routers if all can be reached from all, and   *)
(* otherwise nothing, neither paths nor links (Network.py 51-58).          *)
(***************************************************************************)
THEOREM AlwaysAllOrNothing == Spec => []AllOrNothing
<1>1. ASSUME TopologyInv, ManagerInv PROVE AllOrNothing
  <2> SUFFICES ASSUME started, mailbox = <<>>
               PROVE  LET ls == Loaded(lsdb)
                          pairs == { <<e.src, e.dst>> : e \in topology }
                      IN  IF Reaches(ls)
                          THEN links = ls /\ pairs = { ij \in Pairs(ls) : ij[1] # ij[2] }
                          ELSE links = NoLinks /\ topology = {}
    BY DEF AllOrNothing
  <2> DEFINE ls == Loaded(lsdb)
  <2>1. ls \in AnyLinks /\ ls \in Links
    BY <1>1, LinksThereAre, AnyLinksAre DEF ManagerInv
  <2>2. links = LinksLeft(ls) /\ topology = Paths(ls)
    BY <1>1, <2>1, ResultIs DEF ManagerInv
  <2>3. Connected(AllPairs(ls)) <=> Reaches(ls)
    BY <2>1, ConnectedIs
  <2> HIDE DEF ls
  <2>4. CASE Reaches(ls)
    BY <2>1, <2>2, <2>3, <2>4, PathsOfAll DEF LinksLeft, ls
  <2>5. CASE ~Reaches(ls)
    BY <2>2, <2>3, <2>5 DEF LinksLeft, Paths, ls
  <2> QED BY <2>4, <2>5 DEF ls
<1> QED BY <1>1, InvAlways, ManagerInvAlways, PTL
=============================================================================
