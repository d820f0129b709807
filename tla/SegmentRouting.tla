--------------------------- MODULE SegmentRouting ---------------------------
(***************************************************************************)
(* Performance-aware steering from end to end: the PAR modules decide      *)
(* (PathSelection.tla), the controller tells every device, the device      *)
(* process works out the segments and asks the controller to put the path  *)
(* into the table of the module, or, for a route it exports, into the main *)
(* table, and the manager of the device does so (DataplaneAgent.tla).  The *)
(* devices are prepared for it meanwhile (Provisioning.tla).               *)
(*                                                                         *)
(* The nodes are the peers that announce a route to the prefix; a device   *)
(* may be one of them.  Every node is a neighbour of every device, as in   *)
(* the topologies that come with the code, so that a path is named by its  *)
(* last node.  Which route a peer exports is left to the routing           *)
(* (RouteExchange.tla): any that another node announced.                   *)
(***************************************************************************)
EXTENDS PathSelection

CONSTANTS
  Offering,        \* the peers whose neighbour offers the family of the prefix in
                   \*   the sessions it opens
  MaxRouteChanges  \* bound: how often the exports of a peer change or a
                   \*   neighbour withdraws its route

ASSUME SteeringAssumption == Offering \subseteq Peers /\ MaxRouteChanges \in Nat

VARIABLES
  negotiated,    \* BGPPeer.afi_safi of a peer has the family of the prefix
  announced,     \* the nodes whose neighbours announce the prefix
  exported,      \* exported[p]: what Peer.exported says of the prefix
  routeChanges,  \* how often exports changed or routes were withdrawn
  told,          \* history: told[m] is the node of the last update of m that the
                 \*   controller passed on, or None
  unheeded       \* history: <<d, m>> if d read its last update of m before it had
                 \*   negotiated the family, and ignored it

routeVars == <<negotiated, announced, exported, routeChanges>>
toldVars == <<told, unheeded>>
vars == <<provVars, parVars, delayVars, routeVars, toldVars>>

Export == [node : Nodes \cup {None}, marked : BOOLEAN]
NoExport == [node |-> None, marked |-> FALSE]

TypeOK ==
  /\ ProvTypeOK
  /\ ParTypeOK
  /\ negotiated \in [Devices -> BOOLEAN]
  /\ announced \in SUBSET Nodes
  /\ exported \in [Devices \cup Nodes -> Export]
  /\ routeChanges \in Nat
  /\ told \in [Mods -> Nodes \cup {None}]
  /\ unheeded \in SUBSET (Devices \X Mods)

Init ==
  /\ ProvInit
  /\ ParInit
  /\ negotiated = [d \in Devices |-> FALSE]
  /\ announced = {}
  /\ exported = [p \in Devices \cup Nodes |-> NoExport]
  /\ routeChanges = 0
  /\ told = [m \in Mods |-> None]
  /\ unheeded = {}
-----------------------------------------------------------------------------
\* Controller.process_par_message: an update goes to every device.
ProcessPar ==
  /\ ctlAlive /\ ctlQueue # <<>>
  /\ Head(ctlQueue).type = "par-update"
  /\ LET u == Head(ctlQueue)
     IN  /\ mail' = [d \in Devices |->
                       Append(mail[d], [type |-> "par", mod |-> u.mod, node |-> u.node])]
         /\ told' = [told EXCEPT ![u.mod] = u.node]
  /\ ctlQueue' = Tail(ctlQueue)
  /\ UNCHANGED <<agentVars, ctlAlive, dpStatus, alive, network, hasIfaces,
                 number, flowObjs, dpEnvVars, parVars, delayVars, routeVars, unheeded>>

\* The device to steer can be called and the request can be carried out.  A
\* table without a number cannot be put into a message (only a path for the
\* main table goes without), and a path that is not there cannot be removed.
CanSteer(r) ==
  /\ reachable[r.dev]
  /\ r.tab # 0
  /\ r.action = "Remove" => fib[r.dev][r.tab] # None

UpdateDatapath(d) ==
  /\ Serves("steer", d)
  /\ CanSteer(Head(ctlQueue))
  /\ ctlQueue' = Tail(ctlQueue)
  /\ LET r == Head(ctlQueue)
     IN  IF r.action = "Replace" THEN ReplacePath(d, r.tab, r.node)
         ELSE RemovePath(d, r.tab)
  /\ UNCHANGED <<tables, lastRoute, ipRules, markRules, ctlAlive, dpStatus,
                 deviceVars, dpEnvVars, parVars, delayVars, routeVars, toldVars>>

UpdateDatapathFails(d) ==
  /\ Serves("steer", d)
  /\ ~CanSteer(Head(ctlQueue))
  /\ ControllerDies
  /\ UNCHANGED <<parVars, delayVars, routeVars, toldVars>>
-----------------------------------------------------------------------------
Steer(d, action, tab, n) ==
  [type |-> "steer", dev |-> d, action |-> action, tab |-> tab, node |-> n]

\* Segments and the interface to the first of them can be found.
CanReach(d) == network[d] = "linked" /\ hasIfaces[d]

\* The path to node n, unless the device is that node: then nothing is done,
\* not even about an older path.
PathTo(d, m, n) ==
  IF n = d THEN <<>> ELSE << Steer(d, "Replace", number[d][m], n) >>

\* The prefix can be imported: a head end does not look, a peer looks whether its
\* neighbour has the family.
CanImport(d) == d \in Headends \/ negotiated[d]

\* _process_par_update
ProcessParUpdate(d) ==
  /\ MailIs(d, "par")
  /\ CanImport(d)
  /\ Head(mail[d]).node # d => CanReach(d)
  /\ Read(d)
  /\ LET u == Head(mail[d])
     IN  /\ ctlQueue' = ctlQueue \o PathTo(d, u.mod, u.node)
         /\ unheeded' = unheeded \ {<<d, u.mod>>}
  /\ UNCHANGED <<agentVars, ctlAlive, dpStatus, alive, network, hasIfaces, number,
                 flowObjs, dpEnvVars, parVars, delayVars, routeVars, told>>

\* Nothing is done, not even later.
ParUpdateIgnored(d) ==
  /\ MailIs(d, "par")
  /\ ~CanImport(d)
  /\ Read(d)
  /\ unheeded' = unheeded \cup {<<d, Head(mail[d]).mod>>}
  /\ UNCHANGED <<agentVars, controlVars, alive, network, hasIfaces, number,
                 flowObjs, dpEnvVars, parVars, delayVars, routeVars, told>>

ProcessParUpdateFails(d) ==
  /\ MailIs(d, "par")
  /\ CanImport(d)
  /\ Head(mail[d]).node # d
  /\ ~CanReach(d)
  /\ DeviceDies(d)
  /\ UNCHANGED <<parVars, delayVars, routeVars, toldVars>>
-----------------------------------------------------------------------------
\* The neighbour of a peer opens a session in which it offers the family; what was
\* agreed on outlives the session.
Negotiates(d) ==
  /\ ctlAlive
  /\ d \in Offering /\ alive[d] /\ ~negotiated[d]
  /\ negotiated' = [negotiated EXCEPT ![d] = TRUE]
  /\ UNCHANGED <<provVars, parVars, delayVars, announced, exported, routeChanges,
                 toldVars>>

\* A peer has routes to the prefix only after that.
HasFamily(p) == p \in Peers => negotiated[p]

\* All modules get the report of a peer.
Report(r) == parMail' = [m \in Mods |-> Append(parMail[m], r)]

\* BGPPeer._update_tables_with_routes of the peer of node n.
Announce(n) ==
  /\ ctlAlive
  /\ n \notin announced /\ HasFamily(n)
  /\ announced' = announced \cup {n}
  /\ Report([type |-> "add", node |-> n])
  /\ UNCHANGED <<provVars, parAlive, routes, current, preferred, delayVars,
                 negotiated, exported, routeChanges, toldVars>>

\* BGPPeer._process_withdraw_prefixes, for a prefix that a module watches.
Withdraw(n) ==
  /\ ctlAlive
  /\ n \in announced
  /\ routeChanges < MaxRouteChanges
  /\ routeChanges' = routeChanges + 1
  /\ announced' = announced \ {n}
  /\ Report([type |-> "remove", node |-> n])
  /\ UNCHANGED <<provVars, parAlive, routes, current, preferred, delayVars,
                 negotiated, exported, toldVars>>

\* Peer._do_export_routes of p changes to the route of n; with marked it bears
\* the community that says that peers are missing.
Exports(p, n, marked) ==
  /\ ctlAlive
  /\ n \in announced /\ n # p /\ HasFamily(p)
  /\ exported[p] # [node |-> n, marked |-> marked]
  /\ routeChanges < MaxRouteChanges
  /\ routeChanges' = routeChanges + 1

\* The paths of p in the main table follow what it exports.
PathsOf(p, n) ==
  (IF exported[p].node = None THEN <<>>
   ELSE << Steer(p, "Remove", MainTable, exported[p].node) >>)
  \o << Steer(p, "Replace", MainTable, n) >>

\* Without links no node is found at the next hop: the route is exported, and
\* no path and no module knows of it.
ExportQuietly(p, n, marked) ==
  /\ Exports(p, n, marked)
  /\ p \in Peers /\ alive[p] /\ network[p] = "bare"
  /\ exported' = [exported EXCEPT ![p] = [node |-> n, marked |-> marked]]
  /\ UNCHANGED <<provVars, parVars, delayVars, negotiated, announced, toldVars>>

ExportAndSteer(p, n, marked) ==
  /\ Exports(p, n, marked)
  /\ p \in Peers /\ alive[p] /\ CanReach(p)
  /\ exported' = [exported EXCEPT ![p] = [node |-> n, marked |-> marked]]
  /\ ctlQueue' = ctlQueue \o PathsOf(p, n)
  /\ Report([type |-> "set-initial", node |-> n, marked |-> marked])
  /\ UNCHANGED <<agentVars, ctlAlive, dpStatus, deviceVars, dpEnvVars, parAlive,
                 routes, current, preferred, delayVars, negotiated, announced,
                 toldVars>>

\* The interface of the path is looked up among interfaces it has not got yet.
ExportFails(p, n, marked) ==
  /\ Exports(p, n, marked)
  /\ p \in Peers /\ alive[p] /\ network[p] = "linked" /\ ~hasIfaces[p]
  /\ DeviceDies(p)
  /\ UNCHANGED <<parVars, delayVars, negotiated, announced, exported, toldVars>>

\* A peer without PAR steers nothing, but reports the route it exports.
ExportElsewhere(p, n, marked) ==
  /\ Exports(p, n, marked)
  /\ p \in Nodes \ Devices
  /\ exported' = [exported EXCEPT ![p] = [node |-> n, marked |-> marked]]
  /\ Report([type |-> "set-initial", node |-> n, marked |-> marked])
  /\ UNCHANGED <<provVars, parAlive, routes, current, preferred, delayVars,
                 negotiated, announced, toldVars>>
-----------------------------------------------------------------------------
\* The controller and all its processes are started again.
RestartAll ==
  /\ Restart
  /\ parMail' = [m \in Mods |-> <<>>]
  /\ parAlive' = [m \in Mods |-> TRUE]
  /\ routes' = [m \in Mods |-> {}]
  /\ current' = [m \in Mods |-> None]
  /\ preferred' = [m \in Mods |-> None]
  /\ negotiated' = [d \in Devices |-> FALSE]
  /\ announced' = {}
  /\ exported' = [p \in Devices \cup Nodes |-> NoExport]
  /\ told' = [m \in Mods |-> None]
  /\ unheeded' = {}
  /\ UNCHANGED <<delayVars, routeChanges>>

Unsteered == UNCHANGED <<parVars, delayVars, routeVars, toldVars>>

DeviceStep(d) ==
  \/ DeviceProvision(d) /\ Unsteered
  \/ ProcessParUpdate(d) \/ ParUpdateIgnored(d) \/ ProcessParUpdateFails(d)

ControllerStep ==
  \/ \E d \in Devices : \/ ControllerProvision(d) /\ Unsteered
                        \/ UpdateDatapath(d) \/ UpdateDatapathFails(d)
  \/ ProcessPar

DecideStep(m) == ModuleStep(m) /\ UNCHANGED <<routeVars, toldVars>>

ExportStep ==
  \E p \in Devices \cup Nodes, n \in Nodes, marked \in BOOLEAN :
    \/ ExportQuietly(p, n, marked) \/ ExportAndSteer(p, n, marked)
    \/ ExportFails(p, n, marked) \/ ExportElsewhere(p, n, marked)

Next ==
  \/ ControllerStep
  \/ \E d \in Devices : DeviceStep(d)
  \/ \E m \in Mods : DecideStep(m)
  \/ ProvEnvironment /\ Unsteered
  \/ DelaysChange /\ UNCHANGED <<routeVars, toldVars>>
  \/ \E d \in Devices : Negotiates(d)
  \/ \E n \in Nodes : Announce(n) \/ Withdraw(n)
  \/ ExportStep
  \/ RestartAll

\* Controller and devices keep serving their queues, the network manager makes
\* the puts it began, neighbours send keepalives, and no device stays out of
\* reach or without its services for ever.
ProvisionFairness ==
  /\ WF_vars(ControllerStep)
  /\ \A d \in Devices : /\ WF_vars(DeviceStep(d))
                        /\ WF_vars(Keepalive(d) /\ Unsteered)
                        /\ WF_vars((Recover(d) \/ GetsReady(d)) /\ Unsteered)
  /\ WF_vars(PutTopology /\ Unsteered)

\* The modules keep running and the client keeps measuring.
DecisionFairness == \A m \in Mods : WF_vars(DecideStep(m))

Spec == Init /\ [][Next]_vars
ProvisionSpec == Spec /\ ProvisionFairness
DecisionSpec == Spec /\ DecisionFairness
-----------------------------------------------------------------------------
\* The controller does not learn a number that is not the one of the table, and
\* no two modules share a table: neither attempts that overlap nor a restart
\* give a module the table of another.
NumbersAgree ==
  \A d \in Devices, m \in Mods :
    /\ number[d][m] \in {0, tables[d][m]}
    /\ \A k \in Mods \ {m} : tables[d][m] # 0 => tables[d][m] # tables[d][k]

\* However often a device is configured, the flow of a module is marked once
\* and has one flow object.
MarksOnce ==
  \A d \in Devices, m \in Mods :
    /\ markRules[d][m] <= 1
    /\ flowObjs[d][m] <= markRules[d][m]

\* A dataplane that counts as configured marks the flow of every module and
\* leads the mark to the module's table, and nowhere else.
ConfiguredIsMarked ==
  \A d \in Devices : dpStatus[d] = "CONFIGURED" =>
    \A m \in Mods :
      /\ markRules[d][m] = 1
      /\ { r \in ipRules[d] : r[1] = m } = {<<m, tables[d][m]>>}

Quiet == /\ ctlAlive /\ ctlQueue = <<>>
         /\ \A d \in Devices : alive[d] => mail[d] = <<>>

\* When nothing is under way, every device has the path to the node of the last
\* update in the module's table, unless it is that node itself or it read the
\* update before its neighbour had offered the family.
SteeredAsTold ==
  Quiet => \A d \in Devices, m \in Mods :
    (alive[d] /\ told[m] \notin {None, d} /\ <<d, m>> \notin unheeded) =>
      fib[d][tables[d][m]] = told[m]

\* A device whose tables have no number: the controller was started again, and
\* the manager does not name the tables it made before.
Unnumbered(d) == \E m \in Mods : number[d][m] = 0 /\ tables[d][m] # 0

\* Whatever attempts fail or overlap, every device gets configured, again if
\* another attempt undid it, unless its process or the controller met an
\* exception, or its tables were made for an earlier controller.  A head end
\* that found an old manager or whose rules were refused does not try again.
Provisioned ==
  \A d \in Devices :
    []<>( \/ dpStatus[d] = "CONFIGURED"
          \/ ~ctlAlive \/ ~alive[d] \/ Unnumbered(d)
          \/ d \in (OldAgents \cup refused) \cap Headends )

\* When a node is desirable, a module that decides does not stay for ever with
\* one that is slow or failed.
GoodPathPreferred ==
  \A m \in Mods :
    <>[]( (ctlAlive /\ parAlive[m] /\ preferred[m] # None /\ DesirableNodes # {})
          => (delay[preferred[m]] <= Desirable /\ ~Failed(preferred[m])) )
-----------------------------------------------------------------------------
\* What one might expect and the code does not do; README.md tells why.

\* Without a fault the controller meets no exception.
ControllerKeepsRunning == faults = 0 => ctlAlive

\* When nothing is under way, a device with the family has the path it was told.
SteeredOnceNegotiated ==
  Quiet => \A d \in Devices, m \in Mods :
    (alive[d] /\ CanImport(d) /\ told[m] \notin {None, d}) =>
      tables[d][m] # 0 /\ fib[d][tables[d][m]] = told[m]

\* When nothing is under way, the last update is the module's decision.
ToldAsPreferred ==
  (Quiet /\ \A m \in Mods : parMail[m] = <<>>) =>
    \A m \in Mods : (parAlive[m] /\ preferred[m] # None) => told[m] = preferred[m]

\* A module does not stay with a failed path when another works.
FailedPathLeft ==
  \A m \in Mods :
    <>[]( (ctlAlive /\ parAlive[m] /\ preferred[m] # None
             /\ DesirableNodes \cup AcceptableNodes # {})
          => ~Failed(preferred[m]) )

\* A dataplane that was configured stays so.
StaysConfigured ==
  [][\A d \in Devices : (dpStatus[d] = "CONFIGURED" /\ faults' = faults)
                        => dpStatus'[d] = "CONFIGURED"]_vars
=============================================================================
