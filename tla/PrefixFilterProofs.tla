-------------------------- MODULE PrefixFilterProofs --------------------------
(***************************************************************************)
(* A rule matches what its patterns accept, for addresses of any width,    *)
(* any number of patterns and any order of them.                           *)
(***************************************************************************)
EXTENDS PrefixFilter, WellFoundedInduction, TLAPS

\* Of what is being added, the lengths that the loop has come past.
Partly(p) == todo # None /\ Accepts(todo, p) /\ p.len < low

Judged ==
  \A p \in Prefix : p.len # 0 =>
    (p.len \in BestAccept(trie, p) <=> Partly(p) \/ \E q \in added : Accepts(q, p))

ZeroFlag == zero <=> \E q \in added \cup ({todo} \ {None}) : q.low = 0

LoopBounds ==
  todo # None => todo.low <= low /\ (low <= LastLen(todo) \/ low = todo.low)

Inv == TypeOK /\ Judged /\ ZeroFlag /\ LoopBounds
-----------------------------------------------------------------------------
\* Facts about prefixes.
LEMMA PatternType ==
  \A q \in Patterns : /\ q.prefix \in Prefix /\ q.low \in 0 .. Width /\ q.high \in 0 .. Width
                      /\ q.low <= q.high
BY FilterAssumption DEF Pattern

LEMMA SameFunction ==
  ASSUME NEW S, NEW T, NEW f \in [S -> T], NEW g \in [S -> T], \A i \in S : f[i] = g[i]
  PROVE  f = g
OBVIOUS

LEMMA MaskType ==
  ASSUME NEW p \in Prefix, NEW n \in 0 .. Width
  PROVE  /\ Mask(p, n) \in Prefix
         /\ Mask(p, n).family = p.family /\ Mask(p, n).len = n
         /\ \A i \in 1 .. Width : Mask(p, n).ip[i] = IF i <= n THEN p.ip[i] ELSE 0
         /\ Mask(p, n) \in Nodes
<1> DEFINE m == Mask(p, n)
<1>1. /\ m = [family |-> p.family, ip |-> [i \in 1 .. Width |-> IF i <= n THEN p.ip[i] ELSE 0],
              len |-> n]
  BY DEF Mask
<1>2. [i \in 1 .. Width |-> IF i <= n THEN p.ip[i] ELSE 0] \in [1 .. Width -> {0, 1}]
  BY DEF Prefix
<1>3. m \in Prefix
  BY <1>1, <1>2 DEF Prefix
<1>4. /\ m.family = p.family /\ m.len = n
      /\ m.ip = [i \in 1 .. Width |-> IF i <= n THEN p.ip[i] ELSE 0]
  BY <1>1
<1> HIDE DEF m
<1>5. Mask(m, m.len) = m
  <2>1. Mask(m, m.len) = [family |-> m.family, len |-> m.len,
                          ip |-> [i \in 1 .. Width |-> IF i <= n THEN m.ip[i] ELSE 0]]
    BY <1>3, <1>4 DEF Mask, Prefix
  <2>2. [i \in 1 .. Width |-> IF i <= n THEN m.ip[i] ELSE 0] = m.ip
    BY <1>4
  <2>3. m = [family |-> m.family, len |-> m.len, ip |-> m.ip]
    BY <1>3 DEF Prefix
  <2> QED BY <2>1, <2>2, <2>3
<1> QED BY <1>3, <1>4, <1>5 DEF Nodes, m

LEMMA NodeBits ==
  ASSUME NEW n \in Nodes
  PROVE  n \in Prefix /\ \A i \in 1 .. Width : i > n.len => n.ip[i] = 0
<1>1. n \in Prefix /\ n = Mask(n, n.len) /\ n.len \in 0 .. Width
  BY DEF Nodes, Prefix
<1>2. \A i \in 1 .. Width : n.ip[i] = IF i <= n.len THEN n.ip[i] ELSE 0
  BY <1>1, MaskType
<1> QED BY <1>1, <1>2 DEF Prefix

\* Two nodes of one length that cover the same prefix are one node.
LEMMA NodeUnique ==
  ASSUME NEW n \in Nodes, NEW m \in Nodes, NEW p \in Prefix,
         Covers(n, p), Covers(m, p), n.len = m.len
  PROVE  n = m
<1>1. n.family = m.family
  BY DEF Covers
<1>2. \A i \in 1 .. Width : n.ip[i] = m.ip[i]
  <2> SUFFICES ASSUME NEW i \in 1 .. Width PROVE n.ip[i] = m.ip[i]
    OBVIOUS
  <2>1. CASE i <= n.len
    BY <2>1, NodeBits DEF Covers, Prefix
  <2>2. CASE i > n.len
    BY <2>2, NodeBits
  <2> QED BY <2>1, <2>2, NodeBits DEF Prefix
<1>3. n \in Prefix /\ m \in Prefix
  BY NodeBits
<1>4. n.ip = m.ip
  <2>1. n.ip \in [1 .. Width -> {0, 1}] /\ m.ip \in [1 .. Width -> {0, 1}]
    BY <1>3 DEF Prefix
  <2> DEFINE S == 1 .. Width
  <2>2. n.ip \in [S -> {0, 1}] /\ m.ip \in [S -> {0, 1}] /\ \A i \in S : n.ip[i] = m.ip[i]
    BY <1>2, <2>1
  <2> HIDE DEF S
  <2> QED BY <2>2, SameFunction
<1> QED BY <1>1, <1>3, <1>4 DEF Prefix

LEMMA CoversChain ==
  ASSUME NEW n \in Prefix, NEW m \in Prefix, NEW p \in Prefix, Covers(n, p)
  PROVE  /\ Covers(m, n) => Covers(m, p)
         /\ Covers(m, p) /\ m.len <= n.len => Covers(m, n)
BY DEF Covers, Prefix
-----------------------------------------------------------------------------
\* The longest node exists and is the only one of its length.
LEMMA LongestExists ==
  ASSUME NEW S \in SUBSET Prefix, S # {}
  PROVE  \E n \in S : \A m \in S : m.len <= n.len
<1> DEFINE T == { Width - n.len : n \in S }
<1>1. \A n \in S : n.len \in 0 .. Width
  BY DEF Prefix
<1>2. Width \in Nat
  BY FilterAssumption
<1>3. T \subseteq Nat /\ T # {}
  BY <1>1, <1>2
<1>4. \E x \in T : \A y \in T : ~ (<<y, x>> \in OpToRel(<, Nat))
  <2> HIDE DEF T
  <2> QED BY <1>3, WFMin, NatLessThanWellFounded
<1>5. PICK x \in T : \A y \in T : ~ (y < x)
  BY <1>3, <1>4 DEF OpToRel
<1>6. PICK n \in S : x = Width - n.len
  BY <1>5
<1>7. ASSUME NEW m \in S PROVE m.len <= n.len
  <2>1. ~ (Width - m.len < Width - n.len)
    BY <1>5, <1>6
  <2> QED BY <1>1, <1>2, <2>1
<1> QED BY <1>7

LEMMA BestType ==
  ASSUME NEW t, IsTrie(t), NEW p \in Prefix, Covering(t, p) # {}
  PROVE  /\ Best(t, p) \in DOMAIN t /\ Best(t, p) \in Nodes /\ Covers(Best(t, p), p)
         /\ \A m \in DOMAIN t : Covers(m, p) => m.len <= Best(t, p).len
         /\ BestAccept(t, p) = t[Best(t, p)]
<1>1. Covering(t, p) \in SUBSET Prefix
  BY DEF IsTrie, Covering, Nodes
<1>2. \E n \in Covering(t, p) : \A m \in Covering(t, p) : m.len <= n.len
  BY <1>1, LongestExists
<1>3. Best(t, p) \in Covering(t, p) /\ \A m \in Covering(t, p) : m.len <= Best(t, p).len
  BY <1>2 DEF Best
<1> QED BY <1>3 DEF Covering, IsTrie, BestAccept

\* What is the longest node for a prefix is Best of it.
LEMMA BestIs ==
  ASSUME NEW t, IsTrie(t), NEW p \in Prefix, NEW b \in DOMAIN t, Covers(b, p),
         \A m \in DOMAIN t : Covers(m, p) => m.len <= b.len
  PROVE  BestAccept(t, p) = t[b]
<1>1. Covering(t, p) # {}
  BY DEF Covering
<1>2. Best(t, p) \in Nodes /\ b \in Nodes /\ Covers(Best(t, p), p)
  BY <1>1, BestType DEF IsTrie
<1>3. Best(t, p).len <= b.len /\ b.len <= Best(t, p).len
  BY <1>1, <1>2, BestType
<1>4. Best(t, p) = b
  BY <1>2, <1>3, NodeUnique DEF Nodes, Prefix
<1> QED BY <1>1, <1>4 DEF BestAccept

(***************************************************************************)
(* A node n is added to a trie t, or is there already, and the nodes in C  *)
(* accept B too.  For a prefix, either n becomes the longest node, or a    *)
(* longer one stays the longest, or there is none.                         *)
(***************************************************************************)
Added(t, n, A, C, B) ==
  [m \in DOMAIN t \cup {n} |-> IF m = n THEN A \cup BestAccept(t, n)
                               ELSE IF m \in C THEN t[m] \cup B ELSE t[m]]

LEMMA AcceptType ==
  ASSUME NEW t, IsTrie(t), NEW p \in Prefix
  PROVE  BestAccept(t, p) \subseteq 1 .. Width
<1>1. CASE Covering(t, p) = {}
  BY <1>1 DEF BestAccept
<1>2. CASE Covering(t, p) # {}
  BY <1>2, BestType DEF IsTrie
<1> QED BY <1>1, <1>2

LEMMA Grown ==
  ASSUME NEW t, IsTrie(t), NEW n \in Nodes,
         NEW A \in SUBSET (1 .. Width), NEW C, NEW B \in SUBSET (1 .. Width),
         NEW u, u = Added(t, n, A, C, B), NEW p \in Prefix
  PROVE  \/ Covers(n, p) /\ BestAccept(u, p) = A \cup BestAccept(t, p)
         \/ \E b \in DOMAIN t \ {n} : /\ Covers(b, p)
                                      /\ Covers(n, p) => n.len < b.len
                                      /\ BestAccept(t, p) = t[b] /\ BestAccept(u, p) = u[b]
         \/ ~Covers(n, p) /\ BestAccept(t, p) = {} /\ BestAccept(u, p) = {}
<1>1. /\ IsTrie(u) /\ DOMAIN u = DOMAIN t \cup {n}
      /\ u[n] = A \cup BestAccept(t, n)
  <2>1. BestAccept(t, n) \subseteq 1 .. Width
    BY AcceptType, NodeBits
  <2> QED BY <2>1 DEF Added, IsTrie
<1>2. n \in Prefix /\ n.len \in Nat /\ \A m \in DOMAIN t : m \in Prefix /\ m.len \in Nat
  BY NodeBits DEF IsTrie, Nodes, Prefix
<1>3. CASE Covers(n, p) /\ \A m \in DOMAIN t : Covers(m, p) => m.len <= n.len
  <2>1. BestAccept(u, p) = u[n]
    <3>1. \A m \in DOMAIN u : Covers(m, p) => m.len <= n.len
      BY <1>1, <1>2, <1>3
    <3> QED BY <1>1, <1>3, <3>1, BestIs
  <2>2. BestAccept(t, n) = BestAccept(t, p)
    <3>1. CASE Covering(t, p) = {}
      <4>1. Covering(t, n) = {}
        BY <1>2, <1>3, <3>1, CoversChain DEF Covering
      <4> QED BY <3>1, <4>1 DEF BestAccept
    <3>2. CASE Covering(t, p) # {}
      <4> DEFINE b == Best(t, p)
      <4>1. /\ b \in DOMAIN t /\ Covers(b, p) /\ BestAccept(t, p) = t[b]
            /\ \A m \in DOMAIN t : Covers(m, p) => m.len <= b.len
        BY <3>2, BestType
      <4> HIDE DEF b
      <4>2. Covers(b, n)
        BY <1>2, <1>3, <4>1, CoversChain
      <4>3. \A m \in DOMAIN t : Covers(m, n) => m.len <= b.len
        BY <1>2, <1>3, <4>1, CoversChain
      <4> QED BY <1>2, <4>1, <4>2, <4>3, BestIs
    <3> QED BY <3>1, <3>2
  <2> QED BY <1>1, <1>3, <2>1, <2>2
<1>4. CASE ~(Covers(n, p) /\ \A m \in DOMAIN t : Covers(m, p) => m.len <= n.len)
  <2>1. CASE Covering(t, p) = {}
    <3>1. ~Covers(n, p)
      BY <1>4, <2>1 DEF Covering
    <3>2. Covering(u, p) = {}
      BY <1>1, <2>1, <3>1 DEF Covering
    <3> QED BY <2>1, <3>1, <3>2 DEF BestAccept
  <2>2. CASE Covering(t, p) # {}
    <3> DEFINE b == Best(t, p)
    <3>1. /\ b \in DOMAIN t /\ Covers(b, p) /\ BestAccept(t, p) = t[b]
          /\ \A m \in DOMAIN t : Covers(m, p) => m.len <= b.len
      BY <2>2, BestType
    <3> HIDE DEF b
    <3>2. Covers(n, p) => n.len < b.len
      BY <1>2, <1>4, <3>1
    <3>3. b # n
      BY <1>2, <3>1, <3>2
    <3>4. \A m \in DOMAIN u : Covers(m, p) => m.len <= b.len
      BY <1>1, <1>2, <3>1, <3>2
    <3>5. BestAccept(u, p) = u[b]
      BY <1>1, <3>1, <3>4, BestIs
    <3> QED BY <3>1, <3>2, <3>3, <3>5
  <2> QED BY <2>1, <2>2
<1> QED BY <1>3, <1>4
-----------------------------------------------------------------------------
LEMMA InvInit == Init => Inv
<1> SUFFICES ASSUME Init PROVE Inv
  OBVIOUS
<1>1. DOMAIN trie = {}
  BY DEF Init
<1>2. Width \in Nat
  BY FilterAssumption
<1>3. TypeOK
  <2>1. IsTrie(trie) /\ low \in 0 .. Width /\ todo \in Patterns \cup {None} /\ added \subseteq Patterns
    BY <1>1, <1>2 DEF Init, IsTrie
  <2>2. zero \in BOOLEAN
    BY DEF Init
  <2> QED BY <2>1, <2>2 DEF TypeOK
<1>4. \A p : BestAccept(trie, p) = {}
  BY <1>1 DEF BestAccept, Covering
<1> QED BY <1>3, <1>4 DEF Init, Inv, Judged, Partly, ZeroFlag, LoopBounds

LEMMA StartKeeps ==
  ASSUME Inv, NEW q \in Patterns, StartPattern(q)
  PROVE  Inv'
<1>1. /\ todo = None /\ todo' = q /\ low' = q.low /\ q # None
      /\ zero' = (zero \/ q.low = 0) /\ trie' = trie /\ added' = added
  BY FilterAssumption DEF StartPattern
<1>2. TypeOK'
  BY <1>1, PatternType DEF Inv, TypeOK
<1>3. \A p \in Prefix : ~Partly(p)' /\ ~Partly(p)
  BY <1>1, PatternType DEF Partly, Accepts, Prefix
<1>4. Judged'
  BY <1>1, <1>3 DEF Inv, Judged
<1>5. ZeroFlag'
  <2>1. zero' <=> zero \/ q.low = 0
    BY <1>1
  <2>2. added \cup ({todo} \ {None}) = added /\ (added \cup ({todo} \ {None}))' = added \cup {q}
    BY <1>1
  <2>3. zero <=> \E r \in added : r.low = 0
    BY <2>2 DEF Inv, ZeroFlag
  <2>4. zero' <=> \E r \in added \cup {q} : r.low = 0
    BY <2>1, <2>3
  <2> QED BY <2>2, <2>4 DEF ZeroFlag
<1>6. LoopBounds'
  BY <1>1, PatternType DEF LoopBounds
<1> QED BY <1>2, <1>4, <1>5, <1>6 DEF Inv

\* The pattern that is being added.
LEMMA TodoType ==
  ASSUME Inv, todo # None
  PROVE  /\ todo \in Patterns /\ todo.prefix \in Prefix
         /\ todo.low \in 0 .. Width /\ todo.high \in 0 .. Width /\ todo.low <= todo.high
         /\ LastLen(todo) \in 0 .. Width /\ LastLen(todo) <= todo.high
         /\ LastLen(todo) <= todo.prefix.len
         /\ Accept(todo) \in SUBSET (1 .. Width)
         /\ \A k \in Nat : k # 0 => (k \in Accept(todo) <=> todo.low <= k /\ k <= todo.high)
<1>1. /\ todo \in Patterns /\ todo.prefix \in Prefix
      /\ todo.low \in 0 .. Width /\ todo.high \in 0 .. Width /\ todo.low <= todo.high
  BY PatternType DEF Inv, TypeOK
<1>2. todo.prefix.len \in 0 .. Width /\ Width \in Nat
  BY <1>1, FilterAssumption DEF Prefix
<1>3. /\ LastLen(todo) \in 0 .. Width /\ LastLen(todo) <= todo.high
      /\ LastLen(todo) <= todo.prefix.len
  BY <1>1, <1>2 DEF LastLen
<1>4. \A k \in Nat : k # 0 => (k \in Accept(todo) <=> todo.low <= k /\ k <= todo.high)
  BY <1>1, <1>2 DEF Accept, Netmask
<1>5. Accept(todo) \in SUBSET (1 .. Width)
  BY <1>1, <1>2 DEF Accept, Netmask
<1> QED BY <1>1, <1>3, <1>4, <1>5

\* A node made from the pattern covers a prefix that agrees with the pattern.
LEMMA MaskCovers ==
  ASSUME NEW q \in Patterns, NEW n \in 0 .. Width, n <= q.prefix.len, NEW p \in Prefix, n <= p.len
  PROVE  /\ Agree(q, p) => Covers(Mask(q.prefix, n), p)
         /\ Covers(Mask(q.prefix, n), p) /\ (n = q.prefix.len \/ n = p.len) => Agree(q, p)
<1>1. q.prefix \in Prefix
  BY PatternType
<1>2. /\ Mask(q.prefix, n).family = q.prefix.family /\ Mask(q.prefix, n).len = n
      /\ \A i \in 1 .. Width : i <= n => Mask(q.prefix, n).ip[i] = q.prefix.ip[i]
  BY <1>1, MaskType
<1>3. n \in Nat /\ p.len \in 0 .. Width /\ q.prefix.len \in 0 .. Width /\ Width \in Nat
  BY <1>1, FilterAssumption DEF Prefix
<1>4. Agree(q, p) => Covers(Mask(q.prefix, n), p)
  BY <1>2, <1>3 DEF Agree, Covers
<1>5. Covers(Mask(q.prefix, n), p) /\ (n = q.prefix.len \/ n = p.len) => Agree(q, p)
  BY <1>2, <1>3 DEF Agree, Covers
<1> QED BY <1>4, <1>5

\* What a node accepts is not the same as what its prefixes accept of one that
\* is being added, unless their length comes into it.
LEMMA SupernetKeeps ==
  ASSUME Inv, AddSupernet
  PROVE  Inv'
<1> DEFINE n == Mask(todo.prefix, low)
           A == Accept(todo) \cap Netmask(low)
<1>1. /\ todo # None /\ low < LastLen(todo) /\ low' = low + 1
      /\ UNCHANGED <<zero, todo, added>>
  BY DEF AddSupernet, MoreSupernets
<1>2. /\ todo \in Patterns /\ todo.prefix \in Prefix
      /\ low \in 0 .. Width /\ low + 1 \in 0 .. Width /\ low <= todo.prefix.len
      /\ IsTrie(trie) /\ todo.low \in Nat /\ todo.low <= low
  <2>1. low \in 0 .. Width /\ IsTrie(trie) /\ todo.low <= low /\ Width \in Nat
    BY <1>1, FilterAssumption DEF Inv, TypeOK, LoopBounds
  <2>2. todo.prefix.len \in 0 .. Width
    BY <1>1, TodoType DEF Prefix
  <2> QED BY <1>1, <2>1, <2>2, TodoType
<1>3. n \in Nodes /\ n.len = low
  BY <1>2, MaskType
<1>4. A \in SUBSET (1 .. Width)
  BY <1>1, TodoType
<1>5. trie' = Added(trie, n, A, {}, {})
  BY DEF AddSupernet, Added, Merged
<1> HIDE DEF n, A
<1>6. IsTrie(trie') /\ \A b \in DOMAIN trie \ {n} : trie'[b] = trie[b]
  <2>1. BestAccept(trie, n) \subseteq 1 .. Width
    BY <1>2, <1>3, AcceptType, NodeBits
  <2> QED BY <1>2, <1>3, <1>4, <1>5, <2>1 DEF Added, IsTrie
<1>7. TypeOK'
  BY <1>1, <1>2, <1>6 DEF Inv, TypeOK
<1>8. ASSUME NEW p \in Prefix, p.len # 0
      PROVE  p.len \in BestAccept(trie', p)
             <=> p.len \in BestAccept(trie, p) \/ (Accepts(todo, p) /\ p.len = low)
  <2>1. p.len \in Nat /\ low \in Nat
    BY <1>2 DEF Prefix
  <2>2. ~Covers(n, p) => ~(Accepts(todo, p) /\ p.len = low)
    BY <1>2, <2>1, MaskCovers DEF Accepts, n
  <2>3. CASE Covers(n, p) /\ BestAccept(trie', p) = A \cup BestAccept(trie, p)
    <3>1. low <= p.len
      BY <1>3, <2>3 DEF Covers
    <3>2. p.len = low => (p.len \in A <=> Accepts(todo, p))
      <4>1. p.len = low => Agree(todo, p)
        BY <1>2, <2>1, <2>3, MaskCovers DEF n
      <4>2. p.len = low => (p.len \in A <=> p.len \in Accept(todo))
        BY <1>8, <2>1 DEF A, Netmask
      <4> QED BY <1>1, <1>8, <2>1, <4>1, <4>2, TodoType DEF Accepts
    <3>3. p.len # low => p.len \notin A
      BY <2>1, <3>1 DEF A, Netmask
    <3> QED BY <2>3, <3>2, <3>3
  <2>4. CASE \E b \in DOMAIN trie \ {n} : /\ Covers(b, p)
                                          /\ Covers(n, p) => n.len < b.len
                                          /\ BestAccept(trie, p) = trie[b]
                                          /\ BestAccept(trie', p) = trie'[b]
    <3>1. BestAccept(trie', p) = BestAccept(trie, p)
      BY <1>6, <2>4
    <3>2. Covers(n, p) => p.len # low
      BY <1>2, <1>3, <2>1, <2>4 DEF Covers, IsTrie, Nodes, Prefix
    <3> QED BY <2>2, <3>1, <3>2
  <2>5. CASE ~Covers(n, p) /\ BestAccept(trie, p) = {} /\ BestAccept(trie', p) = {}
    BY <2>2, <2>5
  <2> QED BY <1>2, <1>3, <1>4, <1>5, <2>3, <2>4, <2>5, Grown
<1>9. Judged'
  <2> SUFFICES ASSUME NEW p \in Prefix, p.len # 0
               PROVE  p.len \in BestAccept(trie', p)
                      <=> Partly(p)' \/ \E q \in added : Accepts(q, p)
    BY <1>1 DEF Judged
  <2>1. Partly(p)' <=> Partly(p) \/ (Accepts(todo, p) /\ p.len = low)
    <3>1. p.len \in Nat /\ low \in Nat
      BY <1>2 DEF Prefix
    <3> QED BY <1>1, <3>1 DEF Partly
  <2> QED BY <1>8, <2>1 DEF Inv, Judged
<1>10. ZeroFlag'
  BY <1>1 DEF Inv, ZeroFlag
<1>11. LoopBounds'
  <2>1. LastLen(todo) \in Nat
    BY <1>1, TodoType
  <2> QED BY <1>1, <1>2, <2>1 DEF LoopBounds
<1> QED BY <1>9, <1>10, <1>11, <1>7 DEF Inv

LEMMA PrefixKeeps ==
  ASSUME Inv, AddPrefix
  PROVE  Inv'
<1> DEFINE last == LastLen(todo)
           n == Mask(todo.prefix, last)
           A == Accept(todo)
           C == Children(n, todo)
<1>1. /\ todo # None /\ ~(low < last /\ low < todo.high)
      /\ todo' = None /\ added' = added \cup {todo} /\ UNCHANGED <<zero, low>>
  BY DEF AddPrefix, MoreSupernets
<1>2. /\ todo \in Patterns /\ todo.prefix \in Prefix
      /\ last \in 0 .. Width /\ last <= todo.high /\ last <= todo.prefix.len
      /\ last = todo.high \/ last = todo.prefix.len
      /\ todo.low \in Nat /\ todo.high \in Nat /\ todo.prefix.len \in Nat
      /\ A \in SUBSET (1 .. Width)
      /\ \A k \in Nat : k # 0 => (k \in A <=> todo.low <= k /\ k <= todo.high)
  <2>1. todo.prefix.len \in 0 .. Width
    BY <1>1, TodoType DEF Prefix
  <2> QED BY <1>1, <2>1, TodoType DEF LastLen
<1>3. low \in Nat /\ last <= low /\ IsTrie(trie)
  BY <1>1, <1>2 DEF Inv, TypeOK
<1>4. n \in Nodes /\ n.len = last
  BY <1>2, MaskType
<1>5. trie' = Added(trie, n, A, C, A)
  BY DEF AddPrefix, Added, Merged
<1>6. /\ IsTrie(trie')
      /\ \A b \in DOMAIN trie \ {n} : trie'[b] = IF b \in C THEN trie[b] \cup A ELSE trie[b]
  <2>1. BestAccept(trie, n) \subseteq 1 .. Width
    BY <1>3, <1>4, AcceptType, NodeBits
  <2> HIDE DEF A, C, n
  <2> QED BY <1>2, <1>3, <1>4, <1>5, <2>1 DEF Added, IsTrie
<1>7. TypeOK'
  BY <1>1, <1>2, <1>6 DEF Inv, TypeOK
<1>8. \A b \in DOMAIN trie : b \in C <=> Covers(n, b) /\ n.len < b.len /\ b.len <= todo.high
  BY DEF Children
<1> HIDE DEF A, C, n, last
<1>9. ASSUME NEW p \in Prefix, p.len # 0
      PROVE  p.len \in BestAccept(trie', p)
             <=> p.len \in BestAccept(trie, p) \/ (Accepts(todo, p) /\ last <= p.len)
  <2>1. p.len \in Nat /\ last \in Nat
    BY <1>2 DEF Prefix
  <2>2. ~Covers(n, p) => ~(Accepts(todo, p) /\ last <= p.len)
    BY <1>2, <2>1, MaskCovers DEF Accepts, n
  <2>3. Covers(n, p) /\ p.len <= todo.high => Agree(todo, p)
    <3>1. ASSUME Covers(n, p), p.len <= todo.high PROVE last <= p.len /\ (last = todo.prefix.len \/ last = p.len)
      BY <1>2, <1>4, <2>1, <3>1 DEF Covers
    <3> QED BY <1>2, <3>1, MaskCovers DEF n
  <2>4. Covers(n, p) => (p.len \in A <=> Accepts(todo, p) /\ last <= p.len)
    <3>1. Covers(n, p) => last <= p.len
      BY <1>4 DEF Covers
    <3> QED BY <1>2, <1>9, <2>1, <2>3, <3>1 DEF Accepts
  <2>5. CASE Covers(n, p) /\ BestAccept(trie', p) = A \cup BestAccept(trie, p)
    BY <2>4, <2>5
  <2>6. ASSUME NEW b \in DOMAIN trie \ {n}, Covers(b, p), Covers(n, p) => n.len < b.len,
               BestAccept(trie, p) = trie[b], BestAccept(trie', p) = trie'[b]
        PROVE  p.len \in BestAccept(trie', p)
               <=> p.len \in BestAccept(trie, p) \/ (Accepts(todo, p) /\ last <= p.len)
    <3>1. b \in Prefix /\ n \in Prefix /\ b.len \in Nat /\ b.len <= p.len
      BY <1>3, <1>4, <2>6 DEF IsTrie, Nodes, Prefix, Covers
    <3>2. CASE b \in C
      <4>1. Covers(n, p)
        BY <1>8, <2>6, <3>1, <3>2, CoversChain
      <4>2. BestAccept(trie', p) = BestAccept(trie, p) \cup A
        BY <1>6, <2>6, <3>2
      <4> QED BY <2>4, <4>1, <4>2
    <3>3. CASE b \notin C
      <4>1. BestAccept(trie', p) = BestAccept(trie, p)
        BY <1>6, <2>6, <3>3
      <4>2. Covers(n, p) => Covers(n, b)
        BY <1>2, <1>4, <2>1, <2>6, <3>1, CoversChain
      <4>3. Covers(n, p) => todo.high < p.len
        BY <1>2, <1>8, <2>1, <2>6, <3>1, <3>3, <4>2
      <4> QED BY <1>2, <2>1, <2>2, <4>1, <4>3 DEF Accepts
    <3> QED BY <3>2, <3>3
  <2>7. CASE ~Covers(n, p) /\ BestAccept(trie, p) = {} /\ BestAccept(trie', p) = {}
    BY <2>2, <2>7
  <2> QED BY <1>2, <1>3, <1>4, <1>5, <2>5, <2>6, <2>7, Grown
<1>10. Judged'
  <2> SUFFICES ASSUME NEW p \in Prefix, p.len # 0
               PROVE  p.len \in BestAccept(trie', p) <=> \E q \in added \cup {todo} : Accepts(q, p)
    BY <1>1 DEF Judged, Partly
  <2>1. p.len \in Nat /\ last \in Nat
    BY <1>2 DEF Prefix
  <2>2. Partly(p) \/ (Accepts(todo, p) /\ last <= p.len) <=> Accepts(todo, p)
    BY <1>1, <1>3, <2>1 DEF Partly
  <2> QED BY <1>9, <2>2 DEF Inv, Judged
<1>11. ZeroFlag' /\ LoopBounds'
  <2>1. added \cup ({todo} \ {None}) = (added \cup ({todo} \ {None}))'
    BY <1>1
  <2> QED BY <1>1, <2>1 DEF Inv, ZeroFlag, LoopBounds
<1> QED BY <1>7, <1>10, <1>11 DEF Inv
-----------------------------------------------------------------------------
LEMMA InvNext == Inv /\ [Next]_vars => Inv'
<1> SUFFICES ASSUME Inv, [Next]_vars PROVE Inv'
  OBVIOUS
<1>1. CASE \E q \in Patterns : StartPattern(q)
  BY <1>1, StartKeeps
<1>2. CASE AddSupernet
  BY <1>2, SupernetKeeps
<1>3. CASE AddPrefix
  BY <1>3, PrefixKeeps
<1>4. CASE UNCHANGED vars
  BY <1>4 DEF vars, Inv, TypeOK, Judged, Partly, ZeroFlag, LoopBounds
<1> QED BY <1>1, <1>2, <1>3, <1>4 DEF Next

(***************************************************************************)
(* The trie, the flag and the loop are well typed, for any patterns.       *)
(***************************************************************************)
THEOREM TypeCorrect == Spec => []TypeOK
<1>1. Spec => []Inv
  BY InvInit, InvNext, PTL DEF Spec
<1>2. Inv => TypeOK
  BY DEF Inv
<1> QED BY <1>1, <1>2, PTL

(***************************************************************************)
(* A prefix matches a rule if and only if one of the rule's patterns       *)
(* accepts it (Filter.py, PrefixFilterRule): for IPv4 and IPv6 addresses   *)
(* of any width, whatever the patterns are and in whatever order they are  *)
(* given.                                                                  *)
(***************************************************************************)
THEOREM AlwaysMatchesPatterns == Spec => []MatchesPatterns
<1>1. Spec => []Inv
  BY InvInit, InvNext, PTL DEF Spec
<1>2. Inv => MatchesPatterns
  <2> SUFFICES ASSUME Inv, todo = None, NEW p \in Prefix
               PROVE  Matches(p)
                      <=> \E q \in added : IF p.len = 0 THEN q.low = 0 ELSE Accepts(q, p)
    BY DEF MatchesPatterns
  <2>1. CASE p.len = 0
    <3>1. added \cup ({todo} \ {None}) = added
      OBVIOUS
    <3> QED BY <2>1, <3>1 DEF Inv, ZeroFlag, Matches
  <2>2. CASE p.len # 0
    BY <2>2 DEF Inv, Judged, Partly, Matches
  <2> QED BY <2>1, <2>2
<1> QED BY <1>1, <1>2, PTL
=============================================================================
