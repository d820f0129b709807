---------------------------- MODULE Provisioning ----------------------------
(***************************************************************************)
(* How the controller prepares the dataplane of a device for path steering *)
(* (Controller.process_dataplane_mgmt and process_config_dataplane with    *)
(* Headend.py and Peer.py): the device process asks for its interfaces,    *)
(* then for a table for every PAR module, then for the marks that lead the *)
(* flows of the modules to the tables.  Each request passes the queue of   *)
(* the controller, each answer the mailbox of the device.  A head end      *)
(* starts by itself and starts again if it gets no answer; a peer starts   *)
(* whenever a keepalive of its neighbour comes and the dataplane is not    *)
(* configured, so it may be in the middle of several attempts.             *)
(*                                                                         *)
(* Which interfaces a device has is left out, and so are peers without PAR *)
(* and requests by hand over the control connection.                       *)
(***************************************************************************)
EXTENDS DataplaneAgent

CONSTANTS
  HeadendList,    \* the devices that are head ends, as they are configured
  OldAgents,      \* the devices whose manager starts with the service for paths
                  \*   alone and is replaced later
  MaxAttempts,    \* bound: attempts of a peer under way at a time
  MaxFaults,      \* bound: how often a device gets out of reach or refuses rules
                  \*   or the controller is started again
  MaxTopologies   \* bound: how often a topology is sent

Headends == Range(HeadendList)
Peers == Devices \ Headends

ASSUME ProvisioningAssumption ==
  /\ HeadendList \in Seq(Devices)
  /\ OldAgents \subseteq Devices
  /\ MaxAttempts \in Nat /\ MaxFaults \in Nat /\ MaxTopologies \in Nat

VARIABLES
  ctlQueue,    \* Controller.internal_command_queue, with what is left of a
               \*   request between two calls at its head
  ctlAlive,    \* the main loop of the controller has met no exception
  dpStatus,    \* the state in Controller.datapath
  mail,        \* mail[d]: the mailbox of the device process
  alive,       \* the device process has met no exception
  network,     \* Headend.network, Peer.routing.topology: "none", "bare" (no
               \*   links yet) or "linked"
  hasIfaces,   \* Headend.interfaces, Peer.interfaces are known
  number,      \* DPRouteTable: the number of a module's table, or 0
  flowObjs,    \* flowobj: how many entries there are for a module
  reachable,   \* the controller can call the device
  ready,       \* the manager of the device has all services
  faults,      \* how many faults there were
  refused,     \* history: devices that refused rules of this controller
  topoToSend,  \* the puts that NetworkManager._update still has to make
  topologies   \* how many topologies were sent, the first one included

controlVars == <<ctlQueue, ctlAlive, dpStatus>>
deviceVars == <<mail, alive, network, hasIfaces, number, flowObjs>>
dpEnvVars == <<reachable, ready, faults, refused, topoToSend, topologies>>
provVars == <<agentVars, controlVars, deviceVars, dpEnvVars>>

\* The messages to the controller and to a device, and what is left of
\* "create-flowmark-rules" after its first call ("add-ip6tables").  A path update
\* and a path to steer pass the same queues; SegmentRouting.tla sends them.
Requests == {"headend-notify", "get-interfaces", "create-tables",
             "create-flowmark-rules", "add-ip6tables"}
Answers == {"interface-init", "interfaces", "dp-tables", "dp-flowmarks"}

Request ==
  [type : Requests \ {"create-flowmark-rules", "add-ip6tables"}, dev : Devices]
  \cup [type : {"create-flowmark-rules"}, dev : Devices, num : [Mods -> Nat]]
  \cup [type : {"add-ip6tables"}, dev : Devices, mods : SUBSET Mods]
  \cup [type : {"par-update"}, mod : Mods, node : Nodes]
  \cup [type : {"steer"}, dev : Devices, action : {"Replace", "Remove"},
        tab : Nat, node : Nodes]

Answer ==
  [type : {"interface-init", "interfaces", "topology"}]
  \cup [type : {"dp-tables"}, num : [Mods -> Nat]]
  \cup [type : {"dp-flowmarks"}, mods : SUBSET Mods]
  \cup [type : {"topolinks"}, linked : BOOLEAN]
  \cup [type : {"par"}, mod : Mods, node : Nodes]

\* What the network manager puts into the mailboxes.
TopologyMessage ==
  [type : {"topology"}] \cup [type : {"topolinks"}, linked : BOOLEAN]

ProvTypeOK ==
  /\ AgentTypeOK
  /\ ctlQueue \in Seq(Request)
  /\ ctlAlive \in BOOLEAN
  /\ dpStatus \in [Devices -> {"NOT CONNECTED", "CONNECTED", "CONFIGURED"}]
  /\ mail \in [Devices -> Seq(Answer)]
  /\ alive \in [Devices -> BOOLEAN]
  /\ network \in [Devices -> {"none", "bare", "linked"}]
  /\ hasIfaces \in [Devices -> BOOLEAN]
  /\ number \in [Devices -> [Mods -> Nat]]
  /\ flowObjs \in [Devices -> [Mods -> Nat]]
  /\ reachable \in [Devices -> BOOLEAN]
  /\ ready \in [Devices -> BOOLEAN]
  /\ faults \in Nat
  /\ refused \in SUBSET Devices
  /\ topoToSend \in Seq([dev : Devices, msg : TopologyMessage])
  /\ topologies \in Nat

\* The values with which the processes of the controller start.
Start ==
  [queue |-> [i \in DOMAIN HeadendList |->
                [type |-> "headend-notify", dev |-> HeadendList[i]]],
   number |-> [d \in Devices |-> [m \in Mods |-> 0]]]

ProvInit ==
  /\ AgentInit
  /\ ctlQueue = Start.queue
  /\ ctlAlive = TRUE
  /\ dpStatus = [d \in Devices |-> "NOT CONNECTED"]
  /\ mail = [d \in Devices |-> <<>>]
  /\ alive = [d \in Devices |-> TRUE]
  /\ network = [d \in Devices |-> "none"]
  /\ hasIfaces = [d \in Devices |-> FALSE]
  /\ number = Start.number
  /\ flowObjs = Start.number
  /\ reachable \in [Devices -> BOOLEAN]
  /\ faults = Cardinality({ d \in Devices : ~reachable[d] })
  /\ faults <= MaxFaults
  /\ ready = [d \in Devices |-> d \notin OldAgents]
  /\ refused = {}
  /\ topoToSend = <<>>
  /\ topologies = 0
-----------------------------------------------------------------------------
\* A request is the next the controller deals with.
Serves(type, d) ==
  /\ ctlAlive /\ ctlQueue # <<>>
  /\ Head(ctlQueue).type = type
  /\ Head(ctlQueue).dev = d

Tell(d, msg) == mail' = [mail EXCEPT ![d] = Append(@, msg)]

\* An exception ends the main loop of the controller.
ControllerDies ==
  /\ ctlAlive' = FALSE
  /\ ctlQueue' = Tail(ctlQueue)
  /\ UNCHANGED <<agentVars, dpStatus, deviceVars, dpEnvVars>>

HeadendNotify(d) ==
  /\ Serves("headend-notify", d)
  /\ ctlQueue' = Tail(ctlQueue)
  /\ Tell(d, [type |-> "interface-init"])
  /\ UNCHANGED <<agentVars, ctlAlive, dpStatus, alive, network, hasIfaces,
                 number, flowObjs, dpEnvVars>>

GetIfaces(d) ==
  /\ Serves("get-interfaces", d)
  /\ reachable[d] /\ ready[d]
  /\ ctlQueue' = Tail(ctlQueue)
  /\ Tell(d, [type |-> "interfaces"])
  /\ dpStatus' = [dpStatus EXCEPT ![d] = "CONNECTED"]
  /\ UNCHANGED <<agentVars, ctlAlive, alive, network, hasIfaces, number,
                 flowObjs, dpEnvVars>>

\* The manager does not know the call: the attempt ends.
GetIfacesUnimplemented(d) ==
  /\ Serves("get-interfaces", d)
  /\ reachable[d] /\ ~ready[d]
  /\ ctlQueue' = Tail(ctlQueue)
  /\ UNCHANGED <<agentVars, ctlAlive, dpStatus, deviceVars, dpEnvVars>>

\* A faulty variant: no answer ends the attempt of a head end.
GetIfacesGivesUp(d) ==
  /\ Serves("get-interfaces", d)
  /\ ~reachable[d] /\ d \in Headends
  /\ ctlQueue' = Tail(ctlQueue)
  /\ UNCHANGED <<agentVars, ctlAlive, dpStatus, deviceVars, dpEnvVars>>

\* No answer: a head end is told to try again.
GetIfacesAgain(d) ==
  /\ Serves("get-interfaces", d)
  /\ ~reachable[d] /\ d \in Headends
  /\ ctlQueue' = Tail(ctlQueue)
  /\ Tell(d, [type |-> "interface-init"])
  /\ UNCHANGED <<agentVars, ctlAlive, dpStatus, alive, network, hasIfaces,
                 number, flowObjs, dpEnvVars>>

\* For a peer the code goes on with a response that is not there.
GetIfacesFails(d) ==
  /\ Serves("get-interfaces", d)
  /\ ~reachable[d] /\ d \in Peers
  /\ ControllerDies

\* The request to configure that the controller deals with now.
ConfigureRequest(d) ==
  Serves("create-tables", d) \/ Serves("create-flowmark-rules", d)

\* Marks cannot be asked for without the numbers of all tables.
LacksTable == /\ Head(ctlQueue).type = "create-flowmark-rules"
              /\ \E m \in Mods : Head(ctlQueue).num[m] = 0

\* Dropped without an answer, also if the dataplane never answered.
ConfigureDropped(d) ==
  /\ ConfigureRequest(d)
  /\ dpStatus[d] = "NOT CONNECTED" \/ LacksTable
  /\ ctlQueue' = Tail(ctlQueue)
  /\ UNCHANGED <<agentVars, ctlAlive, dpStatus, deviceVars, dpEnvVars>>

CreateTables(d) ==
  /\ Serves("create-tables", d)
  /\ dpStatus[d] # "NOT CONNECTED"
  /\ reachable[d]
  /\ ctlQueue' = Tail(ctlQueue)
  /\ CreateRouteTable(d)
  /\ Tell(d, [type |-> "dp-tables", num |-> Created(d)])
  /\ UNCHANGED <<ctlAlive, dpStatus, alive, network, hasIfaces, number,
                 flowObjs, dpEnvVars>>

\* The first call of create-flowmark-rules: the rules from marks to tables.
CreateRules(d) ==
  /\ Serves("create-flowmark-rules", d)
  /\ dpStatus[d] # "NOT CONNECTED"
  /\ ~LacksTable
  /\ reachable[d]
  /\ LET num == Head(ctlQueue).num
     IN  /\ FlowMark(d, num)
         /\ ctlQueue' = << [type |-> "add-ip6tables", dev |-> d,
                           mods |-> MarkedNow(d, num)] >> \o Tail(ctlQueue)
  /\ UNCHANGED <<tables, lastRoute, markRules, fib, ctlAlive, dpStatus, deviceVars,
                 dpEnvVars>>

\* The kernel refuses a new rule and the manager meets an exception, the status
\* UNKNOWN: the attempt ends.
CreateRulesRefused(d) ==
  /\ Serves("create-flowmark-rules", d)
  /\ dpStatus[d] # "NOT CONNECTED"
  /\ ~LacksTable
  /\ reachable[d]
  /\ MarkedNow(d, Head(ctlQueue).num) # {}
  /\ faults < MaxFaults
  /\ faults' = faults + 1
  /\ refused' = refused \cup {d}
  /\ ctlQueue' = Tail(ctlQueue)
  /\ UNCHANGED <<agentVars, ctlAlive, dpStatus, deviceVars, reachable, ready,
                 topoToSend, topologies>>

\* The second call: the marks of the flows whose rule is new.
CreateMarks(d) ==
  /\ Serves("add-ip6tables", d)
  /\ reachable[d]
  /\ LET ms == Head(ctlQueue).mods
     IN  AddIp6tableRule(d, ms) /\ Tell(d, [type |-> "dp-flowmarks", mods |-> ms])
  /\ ctlQueue' = Tail(ctlQueue)
  /\ dpStatus' = [dpStatus EXCEPT ![d] = "CONFIGURED"]
  /\ UNCHANGED <<tables, lastRoute, ipRules, fib, ctlAlive, alive, network, hasIfaces,
                 number, flowObjs, dpEnvVars>>

\* A faulty variant: no answer to the second call ends the attempt.
CreateMarksGivesUp(d) ==
  /\ Serves("add-ip6tables", d)
  /\ ~reachable[d]
  /\ ctlQueue' = Tail(ctlQueue)
  /\ UNCHANGED <<agentVars, ctlAlive, dpStatus, deviceVars, dpEnvVars>>

\* The second call is not guarded.  The rules stay, without marks.
CreateMarksFails(d) ==
  /\ Serves("add-ip6tables", d)
  /\ ~reachable[d]
  /\ ControllerDies

\* The calls are not guarded against a device out of reach.
ConfigureFails(d) ==
  /\ ConfigureRequest(d)
  /\ dpStatus[d] # "NOT CONNECTED" /\ ~LacksTable
  /\ ~reachable[d]
  /\ ControllerDies

ControllerProvision(d) ==
  \/ HeadendNotify(d)
  \/ GetIfaces(d) \/ GetIfacesUnimplemented(d)
  \/ GetIfacesAgain(d) \/ GetIfacesFails(d)
  \/ ConfigureDropped(d) \/ ConfigureFails(d)
  \/ CreateTables(d)
  \/ CreateRules(d) \/ CreateRulesRefused(d)
  \/ CreateMarks(d) \/ CreateMarksFails(d)
-----------------------------------------------------------------------------
\* A message is the next the process of d deals with.  The processes are
\* daemonic: they end with the controller.
MailIs(d, type) == ctlAlive /\ alive[d] /\ mail[d] # <<>> /\ Head(mail[d]).type = type

Read(d) == mail' = [mail EXCEPT ![d] = Tail(@)]
Ask(msg) == ctlQueue' = Append(ctlQueue, msg)

\* An exception ends the process of a device.
DeviceDies(d) ==
  /\ alive' = [alive EXCEPT ![d] = FALSE]
  /\ UNCHANGED <<agentVars, controlVars, mail, network, hasIfaces, number,
                 flowObjs, dpEnvVars>>

InterfaceInit(d) ==
  /\ MailIs(d, "interface-init")
  /\ Read(d)
  /\ Ask([type |-> "get-interfaces", dev |-> d])
  /\ UNCHANGED <<agentVars, ctlAlive, dpStatus, alive, network, hasIfaces,
                 number, flowObjs, dpEnvVars>>

ProcessDpInterface(d) ==
  /\ MailIs(d, "interfaces")
  /\ network[d] # "none"
  /\ Read(d)
  /\ hasIfaces' = [hasIfaces EXCEPT ![d] = TRUE]
  /\ Ask([type |-> "create-tables", dev |-> d])
  /\ UNCHANGED <<agentVars, ctlAlive, dpStatus, alive, network, number,
                 flowObjs, dpEnvVars>>

\* The neighbours are looked up in the topology, which is not there yet.
ProcessDpInterfaceFails(d) ==
  /\ MailIs(d, "interfaces")
  /\ network[d] = "none"
  /\ DeviceDies(d)

\* A number that is known is kept.
ProcessCreateDpTable(d) ==
  /\ MailIs(d, "dp-tables")
  /\ Read(d)
  /\ number' = [number EXCEPT ![d] =
                  [m \in Mods |-> IF @[m] = 0 THEN Head(mail[d]).num[m] ELSE @[m]]]
  /\ Ask([type |-> "create-flowmark-rules", dev |-> d, num |-> number'[d]])
  /\ UNCHANGED <<agentVars, ctlAlive, dpStatus, alive, network, hasIfaces,
                 flowObjs, dpEnvVars>>

ProcessCreateFlowObjects(d) ==
  /\ MailIs(d, "dp-flowmarks")
  /\ Read(d)
  /\ flowObjs' = [flowObjs EXCEPT ![d] =
       [m \in Mods |-> @[m] + IF m \in Head(mail[d]).mods THEN 1 ELSE 0]]
  /\ UNCHANGED <<agentVars, controlVars, alive, network, hasIfaces, number,
                 dpEnvVars>>

\* The new topology has no graph until its links arrive.
ProcessTopology(d) ==
  /\ MailIs(d, "topology")
  /\ Read(d)
  /\ network' = [network EXCEPT ![d] = "bare"]
  /\ UNCHANGED <<agentVars, controlVars, alive, hasIfaces, number, flowObjs,
                 dpEnvVars>>

ProcessTopologyLinks(d) ==
  /\ MailIs(d, "topolinks")
  /\ Read(d)
  /\ network' = [network EXCEPT ![d] = IF Head(mail[d]).linked THEN "linked"
                                       ELSE "bare"]
  /\ UNCHANGED <<agentVars, controlVars, alive, hasIfaces, number, flowObjs,
                 dpEnvVars>>

DeviceProvision(d) ==
  \/ InterfaceInit(d)
  \/ ProcessDpInterface(d) \/ ProcessDpInterfaceFails(d)
  \/ ProcessCreateDpTable(d) \/ ProcessCreateFlowObjects(d)
  \/ ProcessTopology(d) \/ ProcessTopologyLinks(d)
-----------------------------------------------------------------------------
\* How many steps of the handshake with d are waiting.
Attempts(d) ==
  Len(SelectSeq(mail[d], LAMBDA a : a.type \in Answers))
  + Len(SelectSeq(ctlQueue, LAMBDA r : r.type \in Requests /\ r.dev = d))

\* SendPeerKeepalive: as long as the dataplane of the neighbour is not
\* configured, the peer is told to ask for its interfaces.
Keepalive(d) ==
  /\ ctlAlive
  /\ d \in Peers
  /\ dpStatus[d] # "CONFIGURED"
  /\ Attempts(d) < MaxAttempts
  /\ Tell(d, [type |-> "interface-init"])
  /\ UNCHANGED <<agentVars, controlVars, alive, network, hasIfaces, number,
                 flowObjs, dpEnvVars>>

\* NetworkManager._update: for each device the topology, then its links.
TopologyFor(linked) ==
  [k \in 1 .. 2 * Cardinality(Devices) |->
    [dev |-> SetToSeq(Devices)[(k + 1) \div 2],
     msg |-> IF k % 2 = 1 THEN [type |-> "topology"]
             ELSE [type |-> "topolinks", linked |-> linked]]]

BuildTopology ==
  /\ ctlAlive
  /\ topoToSend = <<>>
  /\ topologies < MaxTopologies
  /\ \E linked \in BOOLEAN : topoToSend' = TopologyFor(linked)
  /\ topologies' = topologies + 1
  /\ UNCHANGED <<agentVars, controlVars, deviceVars, reachable, ready, faults, refused>>

PutTopology ==
  /\ ctlAlive
  /\ topoToSend # <<>>
  /\ Tell(Head(topoToSend).dev, Head(topoToSend).msg)
  /\ topoToSend' = Tail(topoToSend)
  /\ UNCHANGED <<agentVars, controlVars, alive, network, hasIfaces, number,
                 flowObjs, reachable, ready, faults, refused, topologies>>

\* A device can be out of reach for a while.
Outage(d) ==
  /\ reachable[d] /\ faults < MaxFaults
  /\ reachable' = [reachable EXCEPT ![d] = FALSE]
  /\ faults' = faults + 1
  /\ UNCHANGED <<agentVars, controlVars, deviceVars, ready, refused, topoToSend,
                 topologies>>

Recover(d) ==
  /\ ~reachable[d]
  /\ reachable' = [reachable EXCEPT ![d] = TRUE]
  /\ UNCHANGED <<agentVars, controlVars, deviceVars, ready, faults, refused,
                 topoToSend, topologies>>

GetsReady(d) ==
  /\ ~ready[d]
  /\ ready' = [ready EXCEPT ![d] = TRUE]
  /\ UNCHANGED <<agentVars, controlVars, deviceVars, reachable, faults, refused,
                 topoToSend, topologies>>

\* The controller is started again: its processes begin anew, the devices keep
\* what they have.
Restart ==
  /\ faults < MaxFaults
  /\ ctlQueue' = Start.queue
  /\ ctlAlive' = TRUE
  /\ dpStatus' = [d \in Devices |-> "NOT CONNECTED"]
  /\ mail' = [d \in Devices |-> <<>>]
  /\ alive' = [d \in Devices |-> TRUE]
  /\ network' = [d \in Devices |-> "none"]
  /\ hasIfaces' = [d \in Devices |-> FALSE]
  /\ number' = Start.number
  /\ flowObjs' = Start.number
  /\ topoToSend' = <<>>
  /\ topologies' = 0
  /\ refused' = {}
  /\ faults' = faults + 1
  /\ UNCHANGED <<agentVars, reachable, ready>>

ProvEnvironment ==
  \/ \E d \in Devices : Keepalive(d) \/ Outage(d) \/ Recover(d) \/ GetsReady(d)
  \/ BuildTopology \/ PutTopology
=============================================================================
