--------------------------- MODULE PathSelection ---------------------------
(***************************************************************************)
(* The PAR modules (PARMetricsModule.py): each learns from the peers the   *)
(* nodes that have a route to the watched prefix and the route that is in  *)
(* use, gets the delay to the destination over each node from a client     *)
(* that measures, and tells the controller to use another node when the    *)
(* one in use is too slow or has failed.                                   *)
(*                                                                         *)
(* There is one destination, a route per node, and every measurement       *)
(* covers all nodes, so a decision depends on the last one alone.  A       *)
(* measurement that only falls within the period changes nothing here.     *)
(* The empty update that answers "get" has no effect and is left out.      *)
(***************************************************************************)
EXTENDS Provisioning

CONSTANTS
  Delays,      \* the delays there can be; 0 stands for a path that failed
  Desirable,   \* the threshold of a delay that needs no better one
  Acceptable,  \* the threshold of a delay that is taken if none is desirable
  MaxChanges   \* bound: how often the delays change

ASSUME DelayAssumption ==
  /\ Delays \subseteq Nat /\ 0 \in Delays
  /\ Desirable \in Nat /\ Acceptable \in Nat /\ Desirable <= Acceptable
  /\ MaxChanges \in Nat

VARIABLES
  parMail,    \* parMail[m]: the mailbox of the module
  parAlive,   \* the module has met no exception
  routes,     \* routes[m]: the nodes of which the module knows a route
  current,    \* current_routes: the node of the route the peers use
  preferred,  \* preferred_routes: the node the module decided for
  delay,      \* the delay over each node, as the client measures it
  changes     \* how often the delays changed

parVars == <<parMail, parAlive, routes, current, preferred>>
delayVars == <<delay, changes>>

PeerReport ==
  [type : {"add", "remove"}, node : Nodes]
  \cup [type : {"set-initial"}, node : Nodes, marked : BOOLEAN]

ParTypeOK ==
  /\ parMail \in [Mods -> Seq(PeerReport)]
  /\ parAlive \in [Mods -> BOOLEAN]
  /\ routes \in [Mods -> SUBSET Nodes]
  /\ current \in [Mods -> Nodes \cup {None}]
  /\ preferred \in [Mods -> Nodes \cup {None}]
  /\ delay \in [Nodes -> Delays]
  /\ changes \in Nat

ParInit ==
  /\ parMail = [m \in Mods |-> <<>>]
  /\ parAlive = [m \in Mods |-> TRUE]
  /\ routes = [m \in Mods |-> {}]
  /\ current = [m \in Mods |-> None]
  /\ preferred = [m \in Mods |-> None]
  /\ delay = [n \in Nodes |-> 0]
  /\ changes = 0
-----------------------------------------------------------------------------
Learns(m, type) ==
  /\ ctlAlive /\ parAlive[m] /\ parMail[m] # <<>>
  /\ Head(parMail[m]).type = type

ReadPar(m) == parMail' = [parMail EXCEPT ![m] = Tail(@)]
Update(m, n) == [type |-> "par-update", mod |-> m, node |-> n]

ModuleDies(m) ==
  /\ parAlive' = [parAlive EXCEPT ![m] = FALSE]
  /\ UNCHANGED <<ctlQueue, parMail, routes, current, preferred>>

ProcessAddRoute(m) ==
  /\ Learns(m, "add")
  /\ ReadPar(m)
  /\ routes' = [routes EXCEPT ![m] = @ \cup {Head(parMail[m]).node}]
  /\ UNCHANGED <<ctlQueue, parAlive, current, preferred>>

\* The handler reads another key than the peers write.
ProcessRemoveRoute(m) ==
  /\ Learns(m, "remove")
  /\ ModuleDies(m)

\* The route in use is told to the controller only if the module has the same
\* route: one that is marked with a community differs from what was announced.
ProcessInitialRoute(m) ==
  /\ Learns(m, "set-initial")
  /\ ReadPar(m)
  /\ LET r == Head(parMail[m])
     IN  /\ current' = [current EXCEPT ![m] = r.node]
         /\ ctlQueue' = IF r.node \in routes[m] /\ ~r.marked
                        THEN Append(ctlQueue, Update(m, r.node)) ELSE ctlQueue
  /\ UNCHANGED <<parAlive, routes, preferred>>
-----------------------------------------------------------------------------
Failed(n) == delay[n] = 0
DesirableNodes == { n \in Nodes : delay[n] < Desirable /\ ~Failed(n) }
AcceptableNodes == { n \in Nodes : Desirable <= delay[n] /\ delay[n] < Acceptable
                                   /\ ~Failed(n) }
Fastest(S) == { n \in S : \A k \in S : delay[n] <= delay[k] }

\* A faulty variant: a path that failed is not slow.
BetterThanSlow(n) ==
  IF delay[n] <= Desirable THEN {}
  ELSE IF DesirableNodes # {} THEN Fastest(DesirableNodes)
  ELSE IF delay[n] > Acceptable THEN Fastest(AcceptableNodes)
  ELSE {}

\* The nodes that replace n: none if n is good enough or nothing is better.
BetterThan(n) ==
  IF delay[n] <= Desirable /\ ~Failed(n) THEN {}
  ELSE IF DesirableNodes # {} THEN Fastest(DesirableNodes)
  ELSE IF delay[n] > Acceptable THEN Fastest(AcceptableNodes)
  ELSE {}

\* The node a decision starts from.
InUse(m) == IF preferred[m] = None THEN current[m] ELSE preferred[m]

\* A faulty variant: the route is told before it is taken over.
TakesOverEarly(m) == IF preferred[m] = None THEN <<Update(m, preferred[m])>> ELSE <<>>

\* The first decision takes over the route in use and tells it.
TakesOver(m) == IF preferred[m] = None THEN <<Update(m, current[m])>> ELSE <<>>

\* A measurement arrives, which names at least a node, and the period is over.
Measured(m) == ctlAlive /\ parAlive[m] /\ Nodes # {}

DecideKeep(m) ==
  /\ Measured(m)
  /\ InUse(m) # None
  /\ BetterThan(InUse(m)) = {}
  /\ preferred' = [preferred EXCEPT ![m] = InUse(m)]
  /\ ctlQueue' = ctlQueue \o TakesOver(m)
  /\ UNCHANGED <<parMail, parAlive, routes, current>>

DecideSwitch(m) ==
  /\ Measured(m)
  /\ InUse(m) # None
  /\ \E n \in BetterThan(InUse(m)) \cap routes[m] :
       /\ preferred' = [preferred EXCEPT ![m] = n]
       /\ ctlQueue' = ctlQueue \o TakesOver(m) \o <<Update(m, n)>>
  /\ UNCHANGED <<parMail, parAlive, routes, current>>

\* No route is in use yet, or the better node has none.
DecideFails(m) ==
  /\ Measured(m)
  /\ \/ /\ InUse(m) = None
        /\ UNCHANGED <<ctlQueue, preferred>>
     \/ /\ InUse(m) # None
        /\ BetterThan(InUse(m)) \ routes[m] # {}
        /\ preferred' = [preferred EXCEPT ![m] = InUse(m)]
        /\ ctlQueue' = ctlQueue \o TakesOver(m)
  /\ parAlive' = [parAlive EXCEPT ![m] = FALSE]
  /\ UNCHANGED <<parMail, routes, current>>

ModuleStep(m) ==
  /\ \/ ProcessAddRoute(m) \/ ProcessRemoveRoute(m) \/ ProcessInitialRoute(m)
     \/ DecideKeep(m) \/ DecideSwitch(m) \/ DecideFails(m)
  /\ UNCHANGED <<agentVars, ctlAlive, dpStatus, deviceVars, dpEnvVars, delayVars>>

DelaysChange ==
  /\ ctlAlive
  /\ changes < MaxChanges
  /\ changes' = changes + 1
  /\ \E n \in Nodes, d \in Delays : d # delay[n] /\ delay' = [delay EXCEPT ![n] = d]
  /\ UNCHANGED <<agentVars, controlVars, deviceVars, dpEnvVars, parVars>>
=============================================================================
