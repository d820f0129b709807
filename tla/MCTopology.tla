----------------------------- MODULE MCTopology -----------------------------
(* Instances of Topology for TLC: routers are numbers. *)
EXTENDS Topology

CONSTANT p1

FourNodes == <<1, 2, 3, 4>>

\* The address of a link tells what it connects.
Edge(i, j, k) == [from |-> i, link |-> [to |-> j, cost |-> k, address |-> 10 * i + j]]
BothWays(i, j, k) == { Edge(i, j, k), Edge(j, i, k) }

Of(S, n) == SetToSortSeq({ e.link : e \in { f \in S : f.from = n } },
                         LAMBDA l, m : l.cost < m.cost)
AsLinks(S) == << Of(S, 1), Of(S, 2), Of(S, 3), Of(S, 4) >>

StaticLinks == AsLinks(BothWays(3, 2, 1))
Optional == { BothWays(1, 3, 1), BothWays(2, 4, 2), BothWays(1, 4, 5),
              {Edge(1, 3, 4)}, {Edge(3, 4, 1)} }
Graphs == { AsLinks(UNION S) : S \in SUBSET Optional }
=============================================================================
