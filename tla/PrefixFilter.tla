----------------------------- MODULE PrefixFilter -----------------------------
(***************************************************************************)
(* A filter rule for patterns of prefixes (bgpcontroller/Filter.py,        *)
(* PrefixFilterRule).  The patterns are put into a radix trie one after    *)
(* the other; a node carries a mask of the prefix lengths it accepts, and  *)
(* a route is judged by the mask of the longest node that covers it alone. *)
(* So each pattern that is added has to leave its mark on every node that  *)
(* is there and on those that come later.                                  *)
(*                                                                         *)
(* A netmask stands for the set of its bits, where bit n is the one that   *)
(* is looked at for prefixes of length n.                                  *)
(***************************************************************************)
EXTENDS Naturals, FiniteSets

CONSTANTS
  Width,        \* bits of an address
  Families,     \* IPv4 and IPv6
  Patterns,     \* the patterns a rule may be given
  MaxPatterns,  \* bound: patterns of a rule
  None

Prefix == [family : Families, ip : [1 .. Width -> {0, 1}], len : 0 .. Width]
Pattern == [prefix : Prefix, low : 0 .. Width, high : 0 .. Width]

\* Lengths of a pattern are in order (the class comment: low <= len <= high).
ASSUME FilterAssumption ==
  /\ Width \in Nat
  /\ Patterns \subseteq { q \in Pattern : q.low <= q.high }
  /\ None \notin Patterns

VARIABLES
  trie,   \* _rtree: for each node the lengths it accepts
  zero,   \* _zero
  todo,   \* the pattern that is being added, or None
  low,    \* low: the length of the supernet that comes next
  added   \* the patterns that have been added

vars == <<trie, zero, todo, low, added>>

\* The first n bits of an address, the rest zero.
Mask(p, n) ==
  [family |-> p.family, ip |-> [i \in 1 .. Width |-> IF i <= n THEN p.ip[i] ELSE 0], len |-> n]
Nodes == { p \in Prefix : p = Mask(p, p.len) }

IsTrie(t) ==
  /\ DOMAIN t \subseteq Nodes
  /\ \A n \in DOMAIN t : t[n] \subseteq 1 .. Width

TypeOK ==
  /\ IsTrie(trie)
  /\ zero \in BOOLEAN
  /\ todo \in Patterns \cup {None}
  /\ low \in 0 .. Width
  /\ added \subseteq Patterns

Init ==
  /\ trie = << >>
  /\ zero = FALSE
  /\ todo = None
  /\ low = 0
  /\ added = {}
-----------------------------------------------------------------------------
(***************************************************************************)
(* The trie, external (py-radix).                                          *)
(***************************************************************************)
Covers(n, p) ==
  /\ n.family = p.family /\ n.len <= p.len
  /\ \A i \in 1 .. n.len : n.ip[i] = p.ip[i]

Covering(t, p) == { n \in DOMAIN t : Covers(n, p) }

\* search_best: the longest node that covers a prefix, if there is one.
Best(t, p) == CHOOSE n \in Covering(t, p) : \A m \in Covering(t, p) : m.len <= n.len
BestAccept(t, p) == IF Covering(t, p) = {} THEN {} ELSE t[Best(t, p)]
-----------------------------------------------------------------------------
Netmask(n) == 1 .. n

Accept(q) == Netmask(q.high) \ Netmask(IF q.low = 0 THEN 0 ELSE q.low - 1)

\* A range below the length of the prefix ignores the remaining bits.
LastLen(q) == IF q.high < q.prefix.len THEN q.high ELSE q.prefix.len

\* A faulty variant: a new node starts with its own lengths only.
MergedIfThere(n, accept) ==
  IF n \in DOMAIN trie THEN trie[n] \cup accept ELSE accept

\* _add_prefix: what the best match accepts is kept, be it the node or one
\* above it.
Merged(n, accept) == accept \cup BestAccept(trie, n)

\* The children of the new node whose length the pattern can accept.
Children(n, q) ==
  { m \in DOMAIN trie : Covers(n, m) /\ n.len < m.len /\ m.len <= q.high }

StartPattern(q) ==
  /\ todo = None
  /\ Cardinality(added) < MaxPatterns
  /\ todo' = q
  /\ low' = q.low
  /\ zero' = (zero \/ q.low = 0)
  /\ UNCHANGED <<trie, added>>

\* A faulty variant: the loop makes a turn for the prefix itself.
MoreSupernetsAndPrefix == low <= LastLen(todo)

MoreSupernets == low < LastLen(todo) /\ low < todo.high

\* One turn of the loop over the supernets of the prefix.
AddSupernet ==
  /\ todo # None /\ MoreSupernets
  /\ LET n == Mask(todo.prefix, low)
     IN  trie' = [m \in DOMAIN trie \cup {n} |->
                   IF m = n THEN Merged(n, Accept(todo) \cap Netmask(low)) ELSE trie[m]]
  /\ low' = low + 1
  /\ UNCHANGED <<zero, todo, added>>

\* The prefix itself, and its lengths for the nodes below it.
AddPrefix ==
  /\ todo # None /\ ~MoreSupernets
  /\ LET n == Mask(todo.prefix, LastLen(todo))
     IN  trie' = [m \in DOMAIN trie \cup {n} |->
                   IF m = n THEN Merged(n, Accept(todo))
                   ELSE IF m \in Children(n, todo) THEN trie[m] \cup Accept(todo)
                   ELSE trie[m]]
  /\ todo' = None
  /\ added' = added \cup {todo}
  /\ UNCHANGED <<zero, low>>

Next == (\E q \in Patterns : StartPattern(q)) \/ AddSupernet \/ AddPrefix

Spec == Init /\ [][Next]_vars

\* match: length zero has a flag of its own, the rest is one look at the trie.
Matches(p) == IF p.len = 0 THEN zero ELSE p.len \in BestAccept(trie, p)
-----------------------------------------------------------------------------
(***************************************************************************)
(* What the comment of the class says of a pattern: the length is in the   *)
(* range, and one of the two prefixes covers the other.                    *)
(***************************************************************************)
Agree(q, p) ==
  /\ q.prefix.family = p.family
  /\ \A i \in 1 .. Width : i <= q.prefix.len /\ i <= p.len => q.prefix.ip[i] = p.ip[i]

Accepts(q, p) == q.low <= p.len /\ p.len <= q.high /\ Agree(q, p)

(***************************************************************************)
(* However patterns overlap and in whatever order they are given, a prefix *)
(* matches the rule if and only if one of the patterns accepts it.  The    *)
(* flag for length zero does not look at the family: the pattern of one    *)
(* default route accepts the other one's too.                              *)
(***************************************************************************)
MatchesPatterns ==
  todo = None =>
    \A p \in Prefix :
      Matches(p) <=> \E q \in added : IF p.len = 0 THEN q.low = 0 ELSE Accepts(q, p)

\* Refuted: the same with the family of the default routes.
MatchesFamilies ==
  todo = None => \A p \in Prefix : Matches(p) <=> \E q \in added : Accepts(q, p)
=============================================================================
