------------------------------ MODULE Topology ------------------------------
(***************************************************************************)
(* The network manager (Network.py): from the static topology and what the *)
(* OSPF listener publishes to the shortest paths, and on to the peers and  *)
(* head ends, which get them in two messages, first the paths and then the *)
(* links.  What a peer does with them is in BGPPeer.tla, what a head end   *)
(* does in Provisioning.tla.                                               *)
(***************************************************************************)
EXTENDS Naturals, Sequences, FiniteSets, SequencesExt

CONSTANTS
  NodeList,      \* the routers, in the order in which they are iterated over
  Peers,         \* peers and head ends
  Static,        \* the static topology
  Snapshots,     \* what the listener may publish
  MaxCost,       \* bound: costs of links
  MaxPublished   \* bound: how often the listener publishes

Nodes == Range(NodeList)
Link == [to : Nodes, cost : 1 .. MaxCost, address : Nat \ {0}]
Links == [Nodes -> Seq(Link)]

ASSUME TopologyAssumption ==
  /\ NodeList \in Seq(Nodes) /\ IsInjective(NodeList)
  /\ MaxCost \in Nat \ {0} /\ MaxPublished \in Nat
  /\ Static \in Links /\ Snapshots \subseteq Links

NoLinks == [n \in Nodes |-> <<>>]

VARIABLES
  started,   \* run() has loaded the static topology
  mailbox,   \* of the network manager: topologies from the listener
  lsdb,      \* external: the topology that the listener published last
  published, \* how often it did
  links,     \* Network.links
  topology,  \* Network.topology, empty after reset()
  mail,      \* mail[p]: topologies and links under way to a peer
  peerTopology, \* of the Network object of a peer
  peerGraph     \* the same: the links that its graph has been made of

managerVars == <<started, links, topology>>
listenerVars == <<lsdb, published>>
peerVars == <<peerTopology, peerGraph>>
vars == <<managerVars, listenerVars, mailbox, mail, peerVars>>
-----------------------------------------------------------------------------
(***************************************************************************)
(* Floyd and Warshall's algorithm as it is in _all_pairs_shortest_path.    *)
(***************************************************************************)
\* sys.maxsize
Infinite == MaxCost * (Len(NodeList) + 1)
NoHop == <<>>

\* The routers with links: only they are keys of Network.links.
Keys(ls) == { n \in Nodes : ls[n] # <<>> }
Pairs(ls) == Keys(ls) \X Keys(ls)

\* Of parallel links the last one counts.
Parallel(ls, i, j) == { x \in DOMAIN ls[i] : ls[i][x].to = j }
Linked(ls, i, j) == Parallel(ls, i, j) # {}
LinkTo(ls, i, j) == ls[i][Max(Parallel(ls, i, j))]

\* A faulty variant: the cost of a link stays that of the first one, while the
\* address becomes that of the last.
AdjacentFirst(ls) ==
  [ij \in Pairs(ls) |->
     IF Linked(ls, ij[1], ij[2])
     THEN [cost |-> ls[ij[1]][Min(Parallel(ls, ij[1], ij[2]))].cost, hop |-> <<ij[2]>>]
     ELSE IF ij[1] = ij[2] THEN [cost |-> 0, hop |-> <<ij[2]>>]
     ELSE [cost |-> Infinite, hop |-> NoHop]]

\* The cost and the next hop of each pair.
Adjacent(ls) ==
  [ij \in Pairs(ls) |->
     IF Linked(ls, ij[1], ij[2])
     THEN [cost |-> LinkTo(ls, ij[1], ij[2]).cost, hop |-> <<ij[2]>>]
     ELSE IF ij[1] = ij[2] THEN [cost |-> 0, hop |-> <<ij[2]>>]
     ELSE [cost |-> Infinite, hop |-> NoHop]]

\* The pair ij after router k has been considered.
Improved(best, k, ij) ==
  LET via == best[<<ij[1], k>>].cost + best[<<k, ij[2]>>].cost
  IN  IF best[ij].cost <= via THEN best[ij]
      ELSE [cost |-> via, hop |-> best[<<ij[1], k>>].hop]

\* What the loops over i and j read is not changed by them, as no cost is
\* negative, so that each round is a function of the one before.
Rounds(ls) ==
  LET round[n \in 0 .. Len(NodeList)] ==
        IF n = 0 THEN Adjacent(ls)
        ELSE IF NodeList[n] \notin Keys(ls) THEN round[n - 1]
        ELSE LET best == round[n - 1]
             IN  [ij \in Pairs(ls) |-> Improved(best, NodeList[n], ij)]
  IN  round

AllPairs(ls) == Rounds(ls)[Len(NodeList)]

\* A faulty variant: a pair without a path is left out.
AllConnected(best) == TRUE

\* A pair without a next hop is a KeyError, on which update() resets all.
Connected(best) == \A ij \in DOMAIN best : ij[1] # ij[2] => best[ij].hop # NoHop

\* update: the topology that results from links, and the links that are left.
Paths(ls) ==
  LET best == AllPairs(ls)
  IN  IF ~Connected(best) THEN {}
      ELSE { [src |-> ij[1], dst |-> ij[2], cost |-> best[ij].cost,
              address |-> IF best[ij].hop = NoHop THEN 0
                          ELSE LinkTo(ls, ij[1], best[ij].hop[1]).address] :
             ij \in { kl \in Pairs(ls) : kl[1] # kl[2] } }

LinksLeft(ls) == IF Connected(AllPairs(ls)) THEN ls ELSE NoLinks

\* The static topology, and after it the links of a message.
Loaded(msg) == [n \in Nodes |-> Static[n] \o msg[n]]

\* The results for all links there can be, tabulated once.
AnyLinks == { Loaded(msg) : msg \in Snapshots \cup {NoLinks} } \cup {NoLinks}
Result == [ls \in AnyLinks |-> [paths |-> Paths(ls), links |-> LinksLeft(ls)]]
-----------------------------------------------------------------------------
Path == [src : Nodes, dst : Nodes, cost : Nat, address : Nat \ {0}]
Message == [type : {"topology"}, paths : SUBSET Path]
           \cup [type : {"topolinks"}, links : Links]

TypeOK ==
  /\ started \in BOOLEAN
  /\ mailbox \in Seq(Links) /\ lsdb \in Links /\ links \in Links
  /\ published \in 0 .. MaxPublished
  /\ topology \in SUBSET Path
  /\ mail \in [Peers -> Seq(Message)]
  /\ peerTopology \in [Peers -> SUBSET Path]
  /\ peerGraph \in [Peers -> Links]

Init ==
  /\ started = FALSE
  /\ mailbox = <<>>
  /\ lsdb = NoLinks /\ published = 0
  /\ links = NoLinks /\ topology = {}
  /\ mail = [p \in Peers |-> <<>>]
  /\ peerTopology = [p \in Peers |-> {}]
  /\ peerGraph = [p \in Peers |-> NoLinks]

\* A faulty variant: a peer is not told that there is no topology.
OnlyIfAny(paths, ls) ==
  IF paths = {} THEN <<>>
  ELSE << [type |-> "topology", paths |-> paths], [type |-> "topolinks", links |-> ls] >>

PathsThenLinks(paths, ls) ==
  << [type |-> "topology", paths |-> paths], [type |-> "topolinks", links |-> ls] >>

\* update() and _update()
Update(ls) ==
  /\ links' = Result[ls].links
  /\ topology' = Result[ls].paths
  /\ mail' = [p \in Peers |-> mail[p] \o PathsThenLinks(topology', links')]

\* run, before its loop
Start ==
  /\ ~started
  /\ started' = TRUE
  /\ Update(Loaded(NoLinks))
  /\ UNCHANGED <<listenerVars, mailbox, peerVars>>

\* The listener publishes a topology (external: OspfFlooding.tla).
Publish(msg) ==
  /\ published < MaxPublished
  /\ published' = published + 1
  /\ lsdb' = msg
  /\ mailbox' = Append(mailbox, msg)
  /\ UNCHANGED <<managerVars, mail, peerVars>>

\* A faulty variant: the same routers are taken for the same links.
SameRouters(ls, msg) == Keys(ls) = Keys(links)

\* The links are compared with those of the last router of the message, which
\* they never equal; only a message without routers is compared with the old
\* links.
Unchanged(ls, msg) == msg = NoLinks /\ ls = links

\* _build_topo
BuildTopology ==
  /\ started /\ mailbox # <<>>
  /\ mailbox' = Tail(mailbox)
  /\ LET ls == Loaded(Head(mailbox))
     IN  IF Unchanged(ls, Head(mailbox)) THEN UNCHANGED <<links, topology, mail>>
         ELSE Update(ls)
  /\ UNCHANGED <<started, listenerVars, peerVars>>

IsNext(p, type) == mail[p] # <<>> /\ Head(mail[p]).type = type
Read(p) == mail' = [mail EXCEPT ![p] = Tail(@)]

\* A faulty variant: the graph is kept until there is a new one.
GraphKept(p) == peerGraph[p]

\* A new Network object: its graph is empty.
EmptyGraph(p) == NoLinks

PeerGetsTopology(p) ==
  /\ IsNext(p, "topology") /\ Read(p)
  /\ peerTopology' = [peerTopology EXCEPT ![p] = Head(mail[p]).paths]
  /\ peerGraph' = [peerGraph EXCEPT ![p] = EmptyGraph(p)]
  /\ UNCHANGED <<managerVars, listenerVars, mailbox>>

PeerGetsLinks(p) ==
  /\ IsNext(p, "topolinks") /\ Read(p)
  /\ peerGraph' = [peerGraph EXCEPT ![p] = Head(mail[p]).links]
  /\ UNCHANGED <<managerVars, listenerVars, mailbox, peerTopology>>

Next ==
  \/ Start \/ BuildTopology
  \/ \E msg \in Snapshots : Publish(msg)
  \/ \E p \in Peers : PeerGetsTopology(p) \/ PeerGetsLinks(p)

Spec == Init /\ [][Next]_vars

\* The manager and the peers keep reading their mailboxes.
Fairness ==
  /\ WF_vars(Start) /\ WF_vars(BuildTopology)
  /\ \A p \in Peers : WF_vars(PeerGetsTopology(p)) /\ WF_vars(PeerGetsLinks(p))

FairSpec == Spec /\ Fairness
-----------------------------------------------------------------------------
(***************************************************************************)
(* get_segments_list: a path with the fewest links, whatever they cost.    *)
(***************************************************************************)
NodePaths ==
  { path \in UNION { [1 .. n -> Nodes] : n \in 1 .. Len(NodeList) } : IsInjective(path) }

SimplePaths(ls, i, j) ==
  { path \in NodePaths :
      /\ path[1] = i /\ path[Len(path)] = j
      /\ \A x \in 1 .. Len(path) - 1 : Linked(ls, path[x], path[x + 1]) }

ShortestSegments(ls, i, j) ==
  LET paths == SimplePaths(ls, i, j)
  IN  { path \in paths : \A other \in paths : Len(path) <= Len(other) }

\* The addresses of a segment list, the last router's first.
SegmentsOf(ls, path) ==
  Reverse([x \in 1 .. Len(path) - 1 |-> LinkTo(ls, path[x], path[x + 1]).address])
-----------------------------------------------------------------------------
(***************************************************************************)
(* A reference for the costs: the least sum along a simple path.           *)
(***************************************************************************)
CostTo(ls, path) ==
  LET upTo[x \in 1 .. Len(path)] ==
        IF x = 1 THEN 0 ELSE upTo[x - 1] + LinkTo(ls, path[x - 1], path[x]).cost
  IN  upTo

CostOf(ls, path) == CostTo(ls, path)[Len(path)]

IsLeastCost(c, ls, i, j) ==
  LET costs == { CostOf(ls, path) : path \in SimplePaths(ls, i, j) }
  IN  c \in costs /\ \A d \in costs : c <= d

(***************************************************************************)
(* What the manager hands out are least-cost paths, and the address leads  *)
(* to a neighbour that is closer by the cost of the link, so that packets  *)
(* that are forwarded router by router arrive.                             *)
(***************************************************************************)
ShortestPaths ==
  \A e \in topology :
    /\ IsLeastCost(e.cost, links, e.src, e.dst)
    /\ \E n \in Nodes :
         /\ Linked(links, e.src, n) /\ e.address = LinkTo(links, e.src, n).address
         /\ \/ n = e.dst /\ e.cost = LinkTo(links, e.src, n).cost
            \/ \E f \in topology : /\ f.src = n /\ f.dst = e.dst
                                   /\ e.cost = LinkTo(links, e.src, n).cost + f.cost

(***************************************************************************)
(* All or nothing (Network.py 51-58): if there is a path from every router *)
(* that has links to every other there is an entry for each pair, and      *)
(* otherwise none at all.  Checked for the topology last published.        *)
(***************************************************************************)
Reaches(ls) ==
  \A i, j \in Keys(ls) : i # j => SimplePaths(ls, i, j) # {}

AllOrNothing ==
  started /\ mailbox = <<>> =>
    LET ls == Loaded(lsdb)
        pairs == { <<e.src, e.dst>> : e \in topology }
    IN  IF Reaches(ls) THEN links = ls /\ pairs = { ij \in Pairs(ls) : ij[1] # ij[2] }
        ELSE links = NoLinks /\ topology = {}

(***************************************************************************)
(* A peer that has a graph has the one its paths were computed from: the   *)
(* next hops and the segments of a prefix never come from two topologies,  *)
(* although they arrive in two messages.  Between the two it has no graph. *)
(***************************************************************************)
GraphMatchesPaths ==
  \A p \in Peers : peerGraph[p] # NoLinks => Result[peerGraph[p]].paths = peerTopology[p]

(***************************************************************************)
(* In the end every peer has the paths and the links that the manager has, *)
(* also if those are none: then it withdraws.                              *)
(***************************************************************************)
PeersFollow ==
  <>[](mailbox = <<>> /\ \A p \in Peers : peerTopology[p] = topology /\ peerGraph[p] = links)

\* Refuted: the segments follow a least-cost path; they have the fewest links.
SegmentsAreCheapest ==
  \A e \in topology : \A path \in ShortestSegments(links, e.src, e.dst) :
    CostOf(links, path) = e.cost

\* Refuted: of parallel links the cheapest is used.
CheapestLinkUsed ==
  \A e \in topology : \A x \in DOMAIN links[e.src] :
    links[e.src][x].to = e.dst => e.cost <= links[e.src][x].cost

\* Refuted: a topology that is published again changes nothing for a peer.
RepeatedIsNotSent ==
  [][mailbox # <<>> /\ Loaded(Head(mailbox)) = links /\ mailbox' = Tail(mailbox)
       => UNCHANGED mail]_vars
=============================================================================
