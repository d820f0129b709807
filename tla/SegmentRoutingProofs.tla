------------------------ MODULE SegmentRoutingProofs ------------------------
(***************************************************************************)
(* Theorems about the dataplanes for any devices, modules, nodes and       *)
(* delays, any number of attempts, outages, restarts and changes.          *)
(***************************************************************************)
EXTENDS SegmentRouting, FiniteSetTheorems, TLAPS

\* The parts of TypeOK, one for the variables of each process.
ControlTypeOK ==
  /\ ctlQueue \in Seq(Request)
  /\ ctlAlive \in BOOLEAN
  /\ dpStatus \in [Devices -> {"NOT CONNECTED", "CONNECTED", "CONFIGURED"}]

DeviceTypeOK ==
  /\ mail \in [Devices -> Seq(Answer)]
  /\ alive \in [Devices -> BOOLEAN]
  /\ network \in [Devices -> {"none", "bare", "linked"}]
  /\ hasIfaces \in [Devices -> BOOLEAN]
  /\ number \in [Devices -> [Mods -> Nat]]
  /\ flowObjs \in [Devices -> [Mods -> Nat]]

EnvTypeOK ==
  /\ reachable \in [Devices -> BOOLEAN]
  /\ ready \in [Devices -> BOOLEAN]
  /\ faults \in Nat
  /\ refused \in SUBSET Devices
  /\ topoToSend \in Seq([dev : Devices, msg : TopologyMessage])
  /\ topologies \in Nat

ModuleTypeOK ==
  /\ parMail \in [Mods -> Seq(PeerReport)]
  /\ parAlive \in [Mods -> BOOLEAN]
  /\ routes \in [Mods -> SUBSET Nodes]
  /\ current \in [Mods -> Nodes \cup {None}]
  /\ preferred \in [Mods -> Nodes \cup {None}]

DelayTypeOK == delay \in [Nodes -> Delays] /\ changes \in Nat

RouteTypeOK ==
  /\ negotiated \in [Devices -> BOOLEAN]
  /\ announced \in SUBSET Nodes
  /\ exported \in [Devices \cup Nodes -> Export]
  /\ routeChanges \in Nat

ToldTypeOK ==
  /\ told \in [Mods -> Nodes \cup {None}]
  /\ unheeded \in SUBSET (Devices \X Mods)

LEMMA Parts ==
  /\ TypeOK <=> /\ AgentTypeOK /\ ControlTypeOK /\ DeviceTypeOK /\ EnvTypeOK
                /\ ModuleTypeOK /\ DelayTypeOK /\ RouteTypeOK /\ ToldTypeOK
  /\ TypeOK' <=> /\ AgentTypeOK' /\ ControlTypeOK' /\ DeviceTypeOK' /\ EnvTypeOK'
                 /\ ModuleTypeOK' /\ DelayTypeOK' /\ RouteTypeOK' /\ ToldTypeOK'
BY DEF TypeOK, ProvTypeOK, ControlTypeOK, DeviceTypeOK, EnvTypeOK, ParTypeOK,
       ModuleTypeOK, DelayTypeOK, RouteTypeOK, ToldTypeOK

LEMMA Kept ==
  /\ AgentTypeOK /\ UNCHANGED agentVars => AgentTypeOK'
  /\ ControlTypeOK /\ UNCHANGED controlVars => ControlTypeOK'
  /\ DeviceTypeOK /\ UNCHANGED deviceVars => DeviceTypeOK'
  /\ EnvTypeOK /\ UNCHANGED dpEnvVars => EnvTypeOK'
  /\ ModuleTypeOK /\ UNCHANGED parVars => ModuleTypeOK'
  /\ DelayTypeOK /\ UNCHANGED delayVars => DelayTypeOK'
  /\ RouteTypeOK /\ UNCHANGED routeVars => RouteTypeOK'
  /\ ToldTypeOK /\ UNCHANGED toldVars => ToldTypeOK'
BY DEF AgentTypeOK, agentVars, ControlTypeOK, controlVars, DeviceTypeOK, deviceVars,
       EnvTypeOK, dpEnvVars, ModuleTypeOK, parVars, DelayTypeOK, delayVars,
       RouteTypeOK, routeVars, ToldTypeOK, toldVars

\* Facts about queues, cited by the steps below.
LEMMA SeqFacts ==
  ASSUME NEW S, NEW s \in Seq(S)
  PROVE  /\ \A e \in S : Append(s, e) \in Seq(S)
         /\ s # <<>> => Head(s) \in S /\ Tail(s) \in Seq(S)
         /\ \A t \in Seq(S) : s \o t \in Seq(S)
         /\ <<>> \in Seq(S)
         /\ \A e, f \in S : <<e>> \in Seq(S) /\ <<e, f>> \in Seq(S)
  OBVIOUS

LEMMA AppendJoins ==
  ASSUME NEW S, NEW s \in Seq(S), NEW e \in S
  PROVE  Append(s, e) = s \o <<e>>
  OBVIOUS

LEMMA EmptyQueue == \A S : <<>> \in Seq(S)
OBVIOUS

LEMMA TableIsSeq ==
  ASSUME NEW S, NEW n \in Nat, NEW f \in [1 .. n -> S]
  PROVE  f \in Seq(S)
  OBVIOUS

LEMMA RequestType ==
  /\ \A d \in Devices, t \in Requests \ {"create-flowmark-rules", "add-ip6tables"} :
       [type |-> t, dev |-> d] \in Request
  /\ \A d \in Devices, f \in [Mods -> Nat] :
       [type |-> "create-flowmark-rules", dev |-> d, num |-> f] \in Request
  /\ \A d \in Devices, ms \in SUBSET Mods :
       [type |-> "add-ip6tables", dev |-> d, mods |-> ms] \in Request
  /\ \A m \in Mods, n \in Nodes : Update(m, n) \in Request
  /\ \A d \in Devices, a \in {"Replace", "Remove"}, k \in Nat, n \in Nodes :
       Steer(d, a, k, n) \in Request
BY DEF Request, Update, Steer

LEMMA AnswerType ==
  /\ \A t \in {"interface-init", "interfaces", "topology"} : [type |-> t] \in Answer
  /\ \A f \in [Mods -> Nat] : [type |-> "dp-tables", num |-> f] \in Answer
  /\ \A ms \in SUBSET Mods : [type |-> "dp-flowmarks", mods |-> ms] \in Answer
  /\ \A b \in BOOLEAN : [type |-> "topolinks", linked |-> b] \in Answer
  /\ \A m \in Mods, n \in Nodes : [type |-> "par", mod |-> m, node |-> n] \in Answer
BY DEF Answer

\* The head of the controller's queue has the fields of its kind.
LEMMA ServesType ==
  ASSUME ControlTypeOK, NEW d \in Devices, NEW t, Serves(t, d)
  PROVE  /\ Head(ctlQueue) \in Request
         /\ Tail(ctlQueue) \in Seq(Request)
         /\ Head(ctlQueue).dev = d
         /\ t = "create-flowmark-rules" => Head(ctlQueue).num \in [Mods -> Nat]
         /\ t = "add-ip6tables" => Head(ctlQueue).mods \in SUBSET Mods
         /\ t = "steer" => Head(ctlQueue).tab \in Nat /\ Head(ctlQueue).node \in Nodes
<1>1. Head(ctlQueue) \in Request /\ Tail(ctlQueue) \in Seq(Request)
  BY SeqFacts DEF ControlTypeOK, Serves
<1>2. Head(ctlQueue).type = t /\ Head(ctlQueue).dev = d
  BY DEF Serves
<1> QED BY <1>1, <1>2 DEF Request, Requests

LEMMA MailType ==
  ASSUME DeviceTypeOK, NEW d \in Devices, NEW t, MailIs(d, t)
  PROVE  /\ mail[d] \in Seq(Answer) /\ mail[d] # <<>>
         /\ Head(mail[d]) \in Answer
         /\ Tail(mail[d]) \in Seq(Answer)
         /\ t = "dp-tables" => Head(mail[d]).num \in [Mods -> Nat]
         /\ t = "dp-flowmarks" => Head(mail[d]).mods \in SUBSET Mods
         /\ t = "par" => Head(mail[d]).mod \in Mods /\ Head(mail[d]).node \in Nodes
<1>1. mail[d] \in Seq(Answer) /\ mail[d] # <<>>
  BY DEF DeviceTypeOK, MailIs
<1>2. Head(mail[d]) \in Answer /\ Tail(mail[d]) \in Seq(Answer)
  BY <1>1, SeqFacts
<1>3. Head(mail[d]).type = t
  BY DEF MailIs
<1> QED BY <1>1, <1>2, <1>3 DEF Answer

LEMMA TellType ==
  ASSUME DeviceTypeOK, NEW d \in Devices, NEW a \in Answer, Tell(d, a)
  PROVE  mail' \in [Devices -> Seq(Answer)]
<1>1. Append(mail[d], a) \in Seq(Answer)
  BY SeqFacts DEF DeviceTypeOK
<1> QED BY <1>1 DEF DeviceTypeOK, Tell

LEMMA ReadType ==
  ASSUME DeviceTypeOK, NEW d \in Devices, mail[d] # <<>>, Read(d)
  PROVE  mail' \in [Devices -> Seq(Answer)]
<1>1. Tail(mail[d]) \in Seq(Answer)
  BY SeqFacts DEF DeviceTypeOK
<1> QED BY <1>1 DEF DeviceTypeOK, Read

LEMMA AskType ==
  ASSUME ControlTypeOK, NEW r \in Request, Ask(r)
  PROVE  ctlQueue' \in Seq(Request)
BY SeqFacts DEF ControlTypeOK, Ask
-----------------------------------------------------------------------------
(***************************************************************************)
(* The numbers of tables.                                                  *)
(***************************************************************************)
LEMMA ModsFinite == IsFiniteSet(Mods)
<1>1. ModList \in [1 .. Len(ModList) -> Mods] /\ Len(ModList) \in Nat
  BY AgentAssumption
<1>2. \A m \in Mods : \E i \in 1 .. Len(ModList) : ModList[i] = m
  BY <1>1 DEF Mods, Range
<1>3. ModList \in Surjection(1 .. Len(ModList), Mods)
  BY <1>1, <1>2 DEF Surjection
<1>4. IsFiniteSet(1 .. Len(ModList))
  BY <1>1, FS_Interval
<1> QED BY <1>3, <1>4, FS_Surjection

LEMMA EarlierType ==
  ASSUME NEW d, NEW m \in NewOnDevice(d)
  PROVE  /\ IsFiniteSet(NewOnDevice(d)) /\ IsFiniteSet(Earlier(d, m))
         /\ Cardinality(NewOnDevice(d)) \in Nat /\ Cardinality(Earlier(d, m)) \in Nat
         /\ Cardinality(Earlier(d, m)) < Cardinality(NewOnDevice(d))
<1>1. IsFiniteSet(NewOnDevice(d))
  BY ModsFinite, FS_Subset DEF NewOnDevice
<1>2. Earlier(d, m) \subseteq NewOnDevice(d)
  BY DEF Earlier
<1>3. m \notin Earlier(d, m)
  <2> SUFFICES ASSUME m \in Earlier(d, m) PROVE FALSE
    OBVIOUS
  <2>1. PICK i, j \in DOMAIN ModList : i < j /\ ModList[i] = m /\ ModList[j] = m
    BY DEF Earlier
  <2>2. ModList \in Seq(Mods) /\ IsInjective(ModList)
    BY AgentAssumption
  <2>3. i = j
    BY <2>1, <2>2 DEF IsInjective
  <2> QED BY <2>1, <2>2, <2>3
<1> QED BY <1>1, <1>2, <1>3, FS_Subset, FS_CardinalityType

\* Of two new modules one comes first, and gets the smaller number.
LEMMA EarlierDiffers ==
  ASSUME NEW d, NEW m \in NewOnDevice(d), NEW k \in NewOnDevice(d), m # k
  PROVE  Cardinality(Earlier(d, m)) # Cardinality(Earlier(d, k))
<1>1. ASSUME NEW a \in NewOnDevice(d), NEW b \in NewOnDevice(d),
             NEW i \in DOMAIN ModList, NEW j \in DOMAIN ModList,
             i < j, ModList[i] = a, ModList[j] = b
      PROVE  Cardinality(Earlier(d, a)) < Cardinality(Earlier(d, b))
  <2>1. ModList \in Seq(Mods) /\ IsInjective(ModList)
    BY AgentAssumption
  <2>2. Earlier(d, a) \subseteq Earlier(d, b)
    <3> SUFFICES ASSUME NEW c \in Earlier(d, a) PROVE c \in Earlier(d, b)
      OBVIOUS
    <3>1. PICK x, y \in DOMAIN ModList : x < y /\ ModList[x] = c /\ ModList[y] = a
      BY DEF Earlier
    <3>2. y = i
      BY <1>1, <2>1, <3>1 DEF IsInjective
    <3>3. x < j
      BY <1>1, <2>1, <3>1, <3>2
    <3> QED BY <1>1, <3>1, <3>3 DEF Earlier
  <2>3. a \in Earlier(d, b)
    BY <1>1 DEF Earlier
  <2>4. a \notin Earlier(d, a)
    <3> SUFFICES ASSUME a \in Earlier(d, a) PROVE FALSE
      OBVIOUS
    <3>1. PICK x, y \in DOMAIN ModList : x < y /\ ModList[x] = a /\ ModList[y] = a
      BY DEF Earlier
    <3> QED BY <2>1, <3>1 DEF IsInjective
  <2>5. IsFiniteSet(Earlier(d, b)) /\ IsFiniteSet(Earlier(d, a))
    BY EarlierType
  <2> QED BY <2>2, <2>3, <2>4, <2>5, FS_Subset, FS_CardinalityType
<1>2. PICK i, j \in DOMAIN ModList : ModList[i] = m /\ ModList[j] = k
  BY DEF NewOnDevice, Mods, Range
<1>3. i \in Nat /\ j \in Nat /\ i # j
  BY <1>2, AgentAssumption
<1>4. CASE i < j
  BY <1>1, <1>2, <1>4, EarlierType
<1>5. CASE j < i
  BY <1>1, <1>2, <1>5, EarlierType
<1> QED BY <1>3, <1>4, <1>5

LEMMA CreatedType ==
  ASSUME AgentTypeOK, NEW d \in Devices
  PROVE  /\ Created(d) \in [Mods -> Nat]
         /\ NextTable(d) \in Nat
         /\ NewOnDevice(d) # {} => Cardinality(NewOnDevice(d)) \in Nat
<1>1. NextTable(d) \in Nat
  BY DEF NextTable, AgentTypeOK, FirstTable
<1> QED BY <1>1, EarlierType DEF Created

LEMMA CreateType ==
  ASSUME AgentTypeOK, NEW d \in Devices, CreateRouteTable(d)
  PROVE  AgentTypeOK'
<1>1. tables' \in [Devices -> [Mods -> Nat]]
  BY CreatedType DEF AgentTypeOK, CreateRouteTable
<1>2. lastRoute' \in [Devices -> Nat]
  <2>1. NewOnDevice(d) # {} => NextTable(d) + Cardinality(NewOnDevice(d)) \in Nat
    BY CreatedType
  <2> QED BY <2>1 DEF AgentTypeOK, CreateRouteTable
<1> QED BY <1>1, <1>2 DEF AgentTypeOK, CreateRouteTable
-----------------------------------------------------------------------------
(***************************************************************************)
(* Types.                                                                  *)
(***************************************************************************)
LEMMA DiesType ==
  ASSUME ControlTypeOK, ctlQueue # <<>>, ControllerDies
  PROVE  ControlTypeOK' /\ UNCHANGED <<agentVars, deviceVars, dpEnvVars>>
BY SeqFacts DEF ControlTypeOK, ControllerDies

LEMMA FlowMarkType ==
  ASSUME AgentTypeOK, NEW d \in Devices, NEW num \in [Mods -> Nat], FlowMark(d, num)
  PROVE  ipRules' \in [Devices -> SUBSET (Mods \X Nat)]
<1>1. { <<m, num[m]>> : m \in Mods } \in SUBSET (Mods \X Nat)
  OBVIOUS
<1>2. ipRules[d] \cup { <<m, num[m]>> : m \in Mods } \in SUBSET (Mods \X Nat)
  BY <1>1 DEF AgentTypeOK
<1> QED BY <1>2 DEF FlowMark, AgentTypeOK

LEMMA AddRuleType ==
  ASSUME AgentTypeOK, NEW d \in Devices, NEW ms, AddIp6tableRule(d, ms)
  PROVE  markRules' \in [Devices -> [Mods -> Nat]]
BY DEF AddIp6tableRule, AgentTypeOK

\* The handlers of the controller.
LEMMA ControllerType ==
  ASSUME TypeOK, NEW d \in Devices, ControllerProvision(d)
  PROVE  AgentTypeOK' /\ ControlTypeOK' /\ DeviceTypeOK' /\ EnvTypeOK'
<1> USE Parts, Kept
<1>1. CASE HeadendNotify(d)
  <2>1. ctlQueue' \in Seq(Request)
    BY <1>1, ServesType DEF HeadendNotify
  <2>2. mail' \in [Devices -> Seq(Answer)]
    BY <1>1, TellType, AnswerType DEF HeadendNotify
  <2> QED BY <1>1, <2>1, <2>2 DEF HeadendNotify, ControlTypeOK, DeviceTypeOK
<1>2. CASE GetIfaces(d)
  <2>1. ctlQueue' \in Seq(Request)
    BY <1>2, ServesType DEF GetIfaces
  <2>2. mail' \in [Devices -> Seq(Answer)]
    BY <1>2, TellType, AnswerType DEF GetIfaces
  <2> QED BY <1>2, <2>1, <2>2 DEF GetIfaces, ControlTypeOK, DeviceTypeOK
<1>3. CASE GetIfacesUnimplemented(d)
  <2>1. ctlQueue' \in Seq(Request)
    BY <1>3, ServesType DEF GetIfacesUnimplemented
  <2> QED BY <1>3, <2>1 DEF GetIfacesUnimplemented, ControlTypeOK
<1>4. CASE GetIfacesAgain(d)
  <2>1. ctlQueue' \in Seq(Request)
    BY <1>4, ServesType DEF GetIfacesAgain
  <2>2. mail' \in [Devices -> Seq(Answer)]
    BY <1>4, TellType, AnswerType DEF GetIfacesAgain
  <2> QED BY <1>4, <2>1, <2>2 DEF GetIfacesAgain, ControlTypeOK, DeviceTypeOK
<1>5. CASE GetIfacesFails(d) \/ ConfigureFails(d) \/ CreateMarksFails(d)
  <2>1. ctlQueue # <<>> /\ ControllerDies
    BY <1>5 DEF GetIfacesFails, ConfigureFails, ConfigureRequest, CreateMarksFails, Serves
  <2> QED BY <2>1, DiesType
<1>6. CASE ConfigureDropped(d)
  <2>1. ctlQueue' \in Seq(Request)
    BY <1>6, ServesType DEF ConfigureDropped, ConfigureRequest
  <2> QED BY <1>6, <2>1 DEF ConfigureDropped, ControlTypeOK
<1>7. CASE CreateTables(d)
  <2>1. ctlQueue' \in Seq(Request)
    BY <1>7, ServesType DEF CreateTables
  <2>2. mail' \in [Devices -> Seq(Answer)]
    BY <1>7, TellType, AnswerType, CreatedType DEF CreateTables
  <2>3. AgentTypeOK'
    BY <1>7, CreateType DEF CreateTables
  <2> QED BY <1>7, <2>1, <2>2, <2>3 DEF CreateTables, ControlTypeOK, DeviceTypeOK
<1>8. CASE CreateRules(d)
  <2> DEFINE num == Head(ctlQueue).num
  <2>1. num \in [Mods -> Nat] /\ Tail(ctlQueue) \in Seq(Request)
    BY <1>8, ServesType DEF CreateRules
  <2>2. MarkedNow(d, num) \in SUBSET Mods
    BY DEF MarkedNow
  <2>3. << [type |-> "add-ip6tables", dev |-> d, mods |-> MarkedNow(d, num)] >>
          \in Seq(Request)
    BY <2>2, RequestType, SeqFacts
  <2>4. ctlQueue' \in Seq(Request)
    BY <1>8, <2>1, <2>3, SeqFacts DEF CreateRules
  <2>5. ipRules' \in [Devices -> SUBSET (Mods \X Nat)]
    BY <1>8, <2>1, FlowMarkType DEF CreateRules
  <2>6. AgentTypeOK'
    BY <1>8, <2>5 DEF CreateRules, AgentTypeOK
  <2>7. ControlTypeOK'
    BY <1>8, <2>4 DEF CreateRules, ControlTypeOK
  <2> QED BY <1>8, <2>6, <2>7 DEF CreateRules
<1>9. CASE CreateRulesRefused(d)
  <2>1. ctlQueue' \in Seq(Request)
    BY <1>9, ServesType DEF CreateRulesRefused
  <2>2. EnvTypeOK'
    <3>1. refused' = refused \cup {d} /\ refused \in SUBSET Devices
      BY <1>9 DEF CreateRulesRefused, EnvTypeOK
    <3>2. faults' = faults + 1 /\ faults \in Nat
      BY <1>9 DEF CreateRulesRefused, EnvTypeOK
    <3>3. refused' \in SUBSET Devices
      BY <3>1
    <3>4. faults' \in Nat
      BY <3>2
    <3>5. UNCHANGED <<reachable, ready, topoToSend, topologies>>
      BY <1>9 DEF CreateRulesRefused
    <3> QED BY <3>3, <3>4, <3>5 DEF EnvTypeOK
  <2>3. ControlTypeOK'
    BY <1>9, <2>1 DEF CreateRulesRefused, ControlTypeOK
  <2> QED BY <1>9, <2>2, <2>3 DEF CreateRulesRefused
<1>10. CASE CreateMarks(d)
  <2> DEFINE ms == Head(ctlQueue).mods
  <2>1. ms \in SUBSET Mods /\ ctlQueue' \in Seq(Request)
    BY <1>10, ServesType DEF CreateMarks
  <2>2. mail' \in [Devices -> Seq(Answer)]
    BY <1>10, <2>1, TellType, AnswerType DEF CreateMarks
  <2>3. markRules' \in [Devices -> [Mods -> Nat]]
    BY <1>10, AddRuleType DEF CreateMarks
  <2>4. AgentTypeOK'
    BY <1>10, <2>3 DEF CreateMarks, AgentTypeOK
  <2>5. ControlTypeOK'
    BY <1>10, <2>1 DEF CreateMarks, ControlTypeOK
  <2> QED BY <1>10, <2>2, <2>4, <2>5 DEF CreateMarks, DeviceTypeOK
<1> QED
  BY <1>1, <1>2, <1>3, <1>4, <1>5, <1>6, <1>7, <1>8, <1>9, <1>10 DEF ControllerProvision

\* The handlers of a device.
LEMMA DeviceType ==
  ASSUME TypeOK, NEW d \in Devices, DeviceProvision(d)
  PROVE  ControlTypeOK' /\ DeviceTypeOK' /\ UNCHANGED <<agentVars, dpEnvVars>>
<1> USE Parts, Kept
<1>1. CASE InterfaceInit(d)
  <2>1. ctlQueue' \in Seq(Request)
    BY <1>1, AskType, RequestType DEF InterfaceInit, Requests
  <2>2. mail' \in [Devices -> Seq(Answer)]
    BY <1>1, MailType, ReadType DEF InterfaceInit
  <2> QED BY <1>1, <2>1, <2>2 DEF InterfaceInit, ControlTypeOK, DeviceTypeOK
<1>2. CASE ProcessDpInterface(d)
  <2>1. ctlQueue' \in Seq(Request)
    BY <1>2, AskType, RequestType DEF ProcessDpInterface, Requests
  <2>2. mail' \in [Devices -> Seq(Answer)]
    BY <1>2, MailType, ReadType DEF ProcessDpInterface
  <2> QED BY <1>2, <2>1, <2>2 DEF ProcessDpInterface, ControlTypeOK, DeviceTypeOK
<1>3. CASE ProcessDpInterfaceFails(d)
  <2>1. /\ alive' = [alive EXCEPT ![d] = FALSE]
        /\ UNCHANGED <<agentVars, controlVars, mail, network, hasIfaces, number, flowObjs,
                       dpEnvVars>>
    BY <1>3 DEF ProcessDpInterfaceFails, DeviceDies
  <2>2. ControlTypeOK'
    BY <2>1 DEF controlVars, ControlTypeOK
  <2>3. DeviceTypeOK'
    BY <2>1 DEF DeviceTypeOK
  <2> QED BY <2>1, <2>2, <2>3
<1>4. CASE ProcessCreateDpTable(d)
  <2>1. number' \in [Devices -> [Mods -> Nat]]
    <3>1. Head(mail[d]).num \in [Mods -> Nat]
      BY <1>4, MailType DEF ProcessCreateDpTable
    <3>2. number[d] \in [Mods -> Nat] /\ number \in [Devices -> [Mods -> Nat]]
      BY DEF DeviceTypeOK
    <3>3. [m \in Mods |-> IF number[d][m] = 0 THEN Head(mail[d]).num[m] ELSE number[d][m]]
            \in [Mods -> Nat]
      BY <3>1, <3>2
    <3>4. \E f \in [Mods -> Nat] : number' = [number EXCEPT ![d] = f]
      BY <1>4, <3>2, <3>3 DEF ProcessCreateDpTable
    <3> QED BY <3>2, <3>4
  <2>2. ctlQueue' \in Seq(Request)
    BY <1>4, <2>1, AskType, RequestType DEF ProcessCreateDpTable
  <2>3. mail' \in [Devices -> Seq(Answer)]
    BY <1>4, MailType, ReadType DEF ProcessCreateDpTable
  <2> QED BY <1>4, <2>1, <2>2, <2>3 DEF ProcessCreateDpTable, ControlTypeOK, DeviceTypeOK
<1>5. CASE ProcessCreateFlowObjects(d)
  <2>1. flowObjs' \in [Devices -> [Mods -> Nat]]
    BY <1>5 DEF ProcessCreateFlowObjects, DeviceTypeOK
  <2>2. mail' \in [Devices -> Seq(Answer)]
    BY <1>5, MailType, ReadType DEF ProcessCreateFlowObjects
  <2> QED BY <1>5, <2>1, <2>2 DEF ProcessCreateFlowObjects, controlVars, ControlTypeOK, DeviceTypeOK
<1>6. CASE ProcessTopology(d)
  <2>1. mail' \in [Devices -> Seq(Answer)]
    BY <1>6, MailType, ReadType DEF ProcessTopology
  <2> QED BY <1>6, <2>1 DEF ProcessTopology, controlVars, ControlTypeOK, DeviceTypeOK
<1>7. CASE ProcessTopologyLinks(d)
  <2>1. mail' \in [Devices -> Seq(Answer)]
    BY <1>7, MailType, ReadType DEF ProcessTopologyLinks
  <2> QED BY <1>7, <2>1 DEF ProcessTopologyLinks, controlVars, ControlTypeOK, DeviceTypeOK
<1> QED
  BY <1>1, <1>2, <1>3, <1>4, <1>5, <1>6, <1>7 DEF DeviceProvision

\* The network manager and the devices' environment.
LEMMA TopologyAnswers ==
  ASSUME NEW a \in TopologyMessage
  PROVE  a \in Answer /\ a.type \in {"topology", "topolinks"}
BY DEF TopologyMessage, Answer

LEMMA TopologyForType ==
  \A b \in BOOLEAN : TopologyFor(b) \in Seq([dev : Devices, msg : TopologyMessage])
<1> SUFFICES ASSUME NEW b \in BOOLEAN
             PROVE  TopologyFor(b) \in Seq([dev : Devices, msg : TopologyMessage])
  OBVIOUS
<1> DEFINE n == Cardinality(Devices)
<1>1. n \in Nat /\ ExistsBijection(1 .. n, Devices)
  BY AgentAssumption, FS_CardinalityType
<1>2. \E f \in [1 .. n -> Devices] : IsInjective(f)
  BY <1>1 DEF ExistsBijection, Bijection, Injection, IsInjective
<1>3. SetToSeq(Devices) \in [1 .. n -> Devices]
  BY <1>2 DEF SetToSeq
<1>4. ASSUME NEW k \in 1 .. 2 * n
      PROVE  TopologyFor(b)[k] \in [dev : Devices, msg : TopologyMessage]
  <2>1. (k + 1) \div 2 \in 1 .. n
    BY <1>1
  <2>2. SetToSeq(Devices)[(k + 1) \div 2] \in Devices
    BY <1>3, <2>1
  <2>3. /\ [type |-> "topology"] \in TopologyMessage
        /\ [type |-> "topolinks", linked |-> b] \in TopologyMessage
    BY DEF TopologyMessage
  <2> QED BY <2>2, <2>3 DEF TopologyFor
<1>5. TopologyFor(b) = [k \in 1 .. 2 * n |-> TopologyFor(b)[k]] /\ 2 * n \in Nat
  BY <1>1 DEF TopologyFor
<1>6. TopologyFor(b) \in [1 .. 2 * n -> [dev : Devices, msg : TopologyMessage]]
  BY <1>4, <1>5
<1> HIDE DEF n
<1> QED BY <1>5, <1>6, TableIsSeq

LEMMA EnvironmentType ==
  ASSUME TypeOK, ProvEnvironment
  PROVE  DeviceTypeOK' /\ EnvTypeOK' /\ UNCHANGED <<agentVars, controlVars>>
<1> USE Parts, Kept
<1>1. ASSUME NEW d \in Devices, Keepalive(d)
      PROVE  DeviceTypeOK' /\ EnvTypeOK' /\ UNCHANGED <<agentVars, controlVars>>
  <2>1. mail' \in [Devices -> Seq(Answer)]
    BY <1>1, TellType, AnswerType DEF Keepalive
  <2> QED BY <1>1, <2>1 DEF Keepalive, DeviceTypeOK
<1>2. ASSUME NEW d \in Devices, Outage(d) \/ Recover(d) \/ GetsReady(d)
      PROVE  DeviceTypeOK' /\ EnvTypeOK' /\ UNCHANGED <<agentVars, controlVars>>
  <2>1. EnvTypeOK'
    <3>1. CASE Outage(d)
      BY <3>1 DEF Outage, EnvTypeOK
    <3>2. CASE Recover(d)
      BY <3>2 DEF Recover, EnvTypeOK
    <3>3. CASE GetsReady(d)
      BY <3>3 DEF GetsReady, EnvTypeOK
    <3> QED BY <1>2, <3>1, <3>2, <3>3
  <2>2. UNCHANGED <<agentVars, controlVars, deviceVars>>
    BY <1>2 DEF Outage, Recover, GetsReady
  <2> QED BY <2>1, <2>2
<1>3. CASE BuildTopology
  <2>a. topoToSend' \in Seq([dev : Devices, msg : TopologyMessage])
    BY <1>3, TopologyForType DEF BuildTopology
  <2>b. topologies' \in Nat
    BY <1>3 DEF BuildTopology, EnvTypeOK
  <2>0. topoToSend' \in Seq([dev : Devices, msg : TopologyMessage]) /\ topologies' \in Nat
    BY <2>a, <2>b
  <2>1. EnvTypeOK'
    BY <1>3, <2>0 DEF BuildTopology, EnvTypeOK
  <2>2. UNCHANGED <<agentVars, controlVars, deviceVars>>
    BY <1>3 DEF BuildTopology
  <2> QED BY <2>1, <2>2
<1>4. CASE PutTopology
  <2>1. /\ Head(topoToSend) \in [dev : Devices, msg : TopologyMessage]
        /\ Tail(topoToSend) \in Seq([dev : Devices, msg : TopologyMessage])
    BY <1>4, SeqFacts DEF PutTopology, EnvTypeOK
  <2>2. mail' \in [Devices -> Seq(Answer)]
    BY <1>4, <2>1, TellType, TopologyAnswers DEF PutTopology
  <2>3. EnvTypeOK'
    BY <1>4, <2>1 DEF PutTopology, EnvTypeOK
  <2> QED BY <1>4, <2>2, <2>3 DEF PutTopology, DeviceTypeOK
<1> QED BY <1>1, <1>2, <1>3, <1>4 DEF ProvEnvironment

\* The modules.
LEMMA ReadParType ==
  ASSUME ModuleTypeOK, NEW m \in Mods, NEW t, Learns(m, t)
  PROVE  /\ Head(parMail[m]) \in PeerReport
         /\ Head(parMail[m]).node \in Nodes
         /\ ReadPar(m) => parMail' \in [Mods -> Seq(PeerReport)]
<1>1. parMail[m] \in Seq(PeerReport) /\ parMail[m] # <<>>
  BY DEF ModuleTypeOK, Learns
<1>2. Head(parMail[m]) \in PeerReport /\ Tail(parMail[m]) \in Seq(PeerReport)
  BY <1>1, SeqFacts
<1>3. Head(parMail[m]).node \in Nodes
  BY <1>2 DEF PeerReport
<1>4. ReadPar(m) => parMail' \in [Mods -> Seq(PeerReport)]
  BY <1>2 DEF ReadPar, ModuleTypeOK
<1> QED BY <1>2, <1>3, <1>4

LEMMA TakesOverType ==
  ASSUME ModuleTypeOK, NEW m \in Mods, InUse(m) # None
  PROVE  InUse(m) \in Nodes /\ TakesOver(m) \in Seq(Request)
<1>1. InUse(m) \in Nodes
  BY DEF InUse, ModuleTypeOK
<1>2. preferred[m] = None => current[m] \in Nodes
  BY <1>1 DEF InUse
<1>3. preferred[m] = None => Update(m, current[m]) \in Request
  BY <1>2, RequestType
<1> QED BY <1>1, <1>3, SeqFacts DEF TakesOver

LEMMA BetterType == \A n : BetterThan(n) \subseteq Nodes
BY DEF BetterThan, Fastest, DesirableNodes, AcceptableNodes

LEMMA ModuleType ==
  ASSUME TypeOK, NEW m \in Mods, ModuleStep(m)
  PROVE  /\ ControlTypeOK' /\ ModuleTypeOK'
         /\ UNCHANGED <<agentVars, ctlAlive, dpStatus, deviceVars, dpEnvVars, delayVars>>
<1> USE Parts
<1>0. UNCHANGED <<agentVars, ctlAlive, dpStatus, deviceVars, dpEnvVars, delayVars>>
  BY DEF ModuleStep
<1>1. CASE ProcessAddRoute(m)
  BY <1>0, <1>1, ReadParType DEF ProcessAddRoute, ControlTypeOK, ModuleTypeOK
<1>2. CASE ProcessRemoveRoute(m)
  BY <1>0, <1>2 DEF ProcessRemoveRoute, ModuleDies, ControlTypeOK, ModuleTypeOK
<1>3. CASE ProcessInitialRoute(m)
  <2> DEFINE n == Head(parMail[m]).node
  <2>1. n \in Nodes /\ parMail' \in [Mods -> Seq(PeerReport)]
    BY <1>3, ReadParType DEF ProcessInitialRoute
  <2>2. Append(ctlQueue, Update(m, n)) \in Seq(Request)
    BY <2>1, RequestType, SeqFacts DEF ControlTypeOK
  <2>3. ctlQueue' \in Seq(Request)
    BY <1>3, <2>2 DEF ProcessInitialRoute, ControlTypeOK
  <2> QED BY <1>0, <1>3, <2>1, <2>3 DEF ProcessInitialRoute, ControlTypeOK, ModuleTypeOK
<1>4. CASE DecideKeep(m)
  <2>1. ctlQueue' \in Seq(Request)
    BY <1>4, TakesOverType, SeqFacts DEF DecideKeep, ControlTypeOK
  <2> QED BY <1>0, <1>4, <2>1, TakesOverType DEF DecideKeep, ControlTypeOK, ModuleTypeOK
<1>5. CASE DecideSwitch(m)
  <2>1. PICK n \in Nodes : /\ preferred' = [preferred EXCEPT ![m] = n]
                           /\ ctlQueue' = ctlQueue \o TakesOver(m) \o <<Update(m, n)>>
    BY <1>5, BetterType DEF DecideSwitch
  <2>2. ctlQueue \o TakesOver(m) \in Seq(Request)
    BY <1>5, TakesOverType, SeqFacts DEF DecideSwitch, ControlTypeOK
  <2>3. <<Update(m, n)>> \in Seq(Request)
    BY RequestType, SeqFacts
  <2>4. ctlQueue' \in Seq(Request)
    BY <2>1, <2>2, <2>3, SeqFacts
  <2> QED BY <1>0, <1>5, <2>1, <2>4 DEF DecideSwitch, ControlTypeOK, ModuleTypeOK
<1>6. CASE DecideFails(m)
  <2>1. parAlive' \in [Mods -> BOOLEAN]
    BY <1>6 DEF DecideFails, ModuleTypeOK
  <2>2. CASE UNCHANGED <<ctlQueue, preferred>>
    BY <1>0, <1>6, <2>1, <2>2 DEF DecideFails, ControlTypeOK, ModuleTypeOK
  <2>3. CASE /\ InUse(m) # None
             /\ preferred' = [preferred EXCEPT ![m] = InUse(m)]
             /\ ctlQueue' = ctlQueue \o TakesOver(m)
    <3>1. ctlQueue' \in Seq(Request)
      BY <2>3, TakesOverType, SeqFacts DEF ControlTypeOK
    <3> QED BY <1>0, <1>6, <2>1, <2>3, <3>1, TakesOverType DEF DecideFails, ControlTypeOK, ModuleTypeOK
  <2> QED BY <1>6, <2>2, <2>3 DEF DecideFails
<1> QED BY <1>1, <1>2, <1>3, <1>4, <1>5, <1>6 DEF ModuleStep

\* Steering and exports.
LEMMA ProcessParType ==
  ASSUME TypeOK, ProcessPar
  PROVE  TypeOK'
<1> USE Parts, Kept
<1> DEFINE u == Head(ctlQueue)
<1>1. u \in Request /\ Tail(ctlQueue) \in Seq(Request)
  BY SeqFacts DEF ProcessPar, ControlTypeOK
<1>2. u.mod \in Mods /\ u.node \in Nodes
  BY <1>1 DEF ProcessPar, Request, Requests
<1>3. [type |-> "par", mod |-> u.mod, node |-> u.node] \in Answer
  BY <1>2, AnswerType
<1>4. \A d \in Devices :
        Append(mail[d], [type |-> "par", mod |-> u.mod, node |-> u.node]) \in Seq(Answer)
  BY <1>3, SeqFacts DEF DeviceTypeOK
<1>5. DeviceTypeOK'
  BY <1>4 DEF ProcessPar, DeviceTypeOK
<1>6. ControlTypeOK'
  BY <1>1 DEF ProcessPar, ControlTypeOK
<1>7. ToldTypeOK'
  BY <1>2 DEF ProcessPar, ToldTypeOK
<1> QED BY <1>5, <1>6, <1>7 DEF ProcessPar

LEMMA UpdateDatapathType ==
  ASSUME TypeOK, NEW d \in Devices, UpdateDatapath(d) \/ UpdateDatapathFails(d)
  PROVE  TypeOK'
<1> USE Parts, Kept
<1>1. CASE UpdateDatapath(d)
  <2>1. Tail(ctlQueue) \in Seq(Request) /\ Head(ctlQueue).node \in Nodes
    BY <1>1, ServesType DEF UpdateDatapath
  <2>2. fib' \in [Devices -> [Tables -> Nodes \cup {None}]]
    <3>1. ASSUME NEW k, NEW x \in Nodes \cup {None}
          PROVE  [fib EXCEPT ![d][k] = x] \in [Devices -> [Tables -> Nodes \cup {None}]]
      BY DEF AgentTypeOK
    <3>2. \E x \in Nodes \cup {None} : fib' = [fib EXCEPT ![d][Head(ctlQueue).tab] = x]
      BY <1>1, <2>1 DEF UpdateDatapath, ReplacePath, RemovePath
    <3>3. PICK x \in Nodes \cup {None} : fib' = [fib EXCEPT ![d][Head(ctlQueue).tab] = x]
      BY <3>2
    <3> DEFINE k == Head(ctlQueue).tab
    <3>4. fib' = [fib EXCEPT ![d][k] = x]
      BY <3>3
    <3> HIDE DEF k
    <3>5. [fib EXCEPT ![d][k] = x] \in [Devices -> [Tables -> Nodes \cup {None}]]
      BY <3>1
    <3> QED BY <3>4, <3>5
  <2>3. AgentTypeOK' /\ ControlTypeOK'
    BY <1>1, <2>1, <2>2 DEF UpdateDatapath, AgentTypeOK, ControlTypeOK
  <2> QED BY <1>1, <2>3 DEF UpdateDatapath
<1>2. CASE UpdateDatapathFails(d)
  <2>1. ctlQueue # <<>> /\ ControllerDies
    BY <1>2 DEF UpdateDatapathFails, Serves
  <2> QED BY <1>2, <2>1, DiesType DEF UpdateDatapathFails
<1> QED BY <1>1, <1>2

LEMMA ProcessParUpdateType ==
  ASSUME TypeOK, NEW d \in Devices,
         ProcessParUpdate(d) \/ ParUpdateIgnored(d) \/ ProcessParUpdateFails(d)
  PROVE  TypeOK'
<1> USE Parts, Kept
<1>1. CASE ProcessParUpdate(d)
  <2> DEFINE u == Head(mail[d])
  <2>1. u.mod \in Mods /\ u.node \in Nodes /\ mail' \in [Devices -> Seq(Answer)]
    BY <1>1, MailType, ReadType DEF ProcessParUpdate
  <2>2. number[d][u.mod] \in Nat
    BY <2>1 DEF DeviceTypeOK
  <2>3. Steer(d, "Replace", number[d][u.mod], u.node) \in Request
    BY <2>1, <2>2, RequestType
  <2>4. PathTo(d, u.mod, u.node) \in Seq(Request)
    BY <2>3, SeqFacts DEF PathTo
  <2>5. ctlQueue' \in Seq(Request)
    BY <1>1, <2>4, SeqFacts DEF ProcessParUpdate, ControlTypeOK
  <2>6. ControlTypeOK'
    BY <1>1, <2>5 DEF ProcessParUpdate, ControlTypeOK
  <2>7. ToldTypeOK'
    BY <1>1 DEF ProcessParUpdate, ToldTypeOK
  <2> QED BY <1>1, <2>1, <2>6, <2>7 DEF ProcessParUpdate, DeviceTypeOK
<1>2. CASE ProcessParUpdateFails(d)
  <2>1. DeviceTypeOK' /\ UNCHANGED <<agentVars, controlVars, dpEnvVars>>
    BY <1>2 DEF ProcessParUpdateFails, DeviceDies, DeviceTypeOK
  <2> QED BY <1>2, <2>1 DEF ProcessParUpdateFails
<1>3. CASE ParUpdateIgnored(d)
  <2>1. Head(mail[d]).mod \in Mods /\ mail' \in [Devices -> Seq(Answer)]
    BY <1>3, MailType, ReadType DEF ParUpdateIgnored
  <2>2. ToldTypeOK'
    BY <1>3, <2>1 DEF ParUpdateIgnored, ToldTypeOK
  <2>3. DeviceTypeOK'
    BY <1>3, <2>1 DEF ParUpdateIgnored, DeviceTypeOK
  <2> QED BY <1>3, <2>2, <2>3 DEF ParUpdateIgnored
<1> QED BY <1>1, <1>2, <1>3

LEMMA ReportType ==
  ASSUME ModuleTypeOK, NEW r \in PeerReport, Report(r)
  PROVE  parMail' \in [Mods -> Seq(PeerReport)]
<1>1. \A m \in Mods : Append(parMail[m], r) \in Seq(PeerReport)
  BY SeqFacts DEF ModuleTypeOK
<1> QED BY <1>1 DEF Report

LEMMA AnnounceType ==
  ASSUME TypeOK, NEW n \in Nodes, Announce(n) \/ Withdraw(n)
  PROVE  TypeOK'
<1> USE Parts, Kept
<1>1. [type |-> "add", node |-> n] \in PeerReport /\ [type |-> "remove", node |-> n] \in PeerReport
  BY DEF PeerReport
<1>2. CASE Announce(n)
  <2>1. parMail' \in [Mods -> Seq(PeerReport)]
    BY <1>1, <1>2, ReportType DEF Announce
  <2>2. ModuleTypeOK'
    BY <1>2, <2>1 DEF Announce, ModuleTypeOK
  <2>3. RouteTypeOK'
    BY <1>2 DEF Announce, RouteTypeOK
  <2> QED BY <1>2, <2>2, <2>3 DEF Announce, provVars
<1>3. CASE Withdraw(n)
  <2>1. parMail' \in [Mods -> Seq(PeerReport)]
    BY <1>1, <1>3, ReportType DEF Withdraw
  <2>2. ModuleTypeOK'
    BY <1>3, <2>1 DEF Withdraw, ModuleTypeOK
  <2>3. RouteTypeOK'
    BY <1>3 DEF Withdraw, RouteTypeOK
  <2> QED BY <1>3, <2>2, <2>3 DEF Withdraw, provVars
<1> QED BY <1>2, <1>3

\* An export is remembered and reported.
LEMMA ExportedType ==
  ASSUME TypeOK, NEW p \in Devices \cup Nodes, NEW n \in Nodes, NEW marked \in BOOLEAN,
         exported' = [exported EXCEPT ![p] = [node |-> n, marked |-> marked]],
         Exports(p, n, marked), UNCHANGED <<negotiated, announced>>
  PROVE  RouteTypeOK'
<1>1. [node |-> n, marked |-> marked] \in Export
  BY DEF Export
<1>2. exported' \in [Devices \cup Nodes -> Export]
  BY <1>1, Parts DEF RouteTypeOK
<1> QED BY <1>2, Parts DEF Exports, RouteTypeOK

LEMMA ReportedType ==
  ASSUME TypeOK, NEW n \in Nodes, NEW marked \in BOOLEAN,
         Report([type |-> "set-initial", node |-> n, marked |-> marked]),
         UNCHANGED <<parAlive, routes, current, preferred>>
  PROVE  ModuleTypeOK'
<1>1. [type |-> "set-initial", node |-> n, marked |-> marked] \in PeerReport
  BY DEF PeerReport
<1>2. parMail' \in [Mods -> Seq(PeerReport)]
  BY <1>1, ReportType, Parts
<1> QED BY <1>2, Parts DEF ModuleTypeOK

LEMMA PathsType ==
  ASSUME TypeOK, NEW p \in Devices, NEW n \in Nodes
  PROVE  PathsOf(p, n) \in Seq(Request)
<1>1. MainTable \in Nat
  BY DEF MainTable
<1>2. <<Steer(p, "Replace", MainTable, n)>> \in Seq(Request)
  BY <1>1, RequestType, SeqFacts
<1>3. exported[p].node # None => exported[p].node \in Nodes
  BY Parts DEF RouteTypeOK, Export
<1>4. exported[p].node # None => <<Steer(p, "Remove", MainTable, exported[p].node)>> \in Seq(Request)
  BY <1>1, <1>3, RequestType, SeqFacts
<1> QED BY <1>2, <1>4, SeqFacts DEF PathsOf

LEMMA ExportType ==
  ASSUME TypeOK, ExportStep
  PROVE  TypeOK'
<1> USE Parts, Kept
<1>0. PICK p \in Devices \cup Nodes, n \in Nodes, marked \in BOOLEAN :
        \/ ExportQuietly(p, n, marked) \/ ExportAndSteer(p, n, marked)
        \/ ExportFails(p, n, marked) \/ ExportElsewhere(p, n, marked)
  BY DEF ExportStep
<1>1. CASE ExportQuietly(p, n, marked)
  <2>1. RouteTypeOK'
    BY <1>1, ExportedType DEF ExportQuietly
  <2> QED BY <1>1, <2>1 DEF ExportQuietly, provVars
<1>2. CASE ExportAndSteer(p, n, marked)
  <2>1. RouteTypeOK'
    BY <1>2, ExportedType DEF ExportAndSteer
  <2>2. ModuleTypeOK'
    BY <1>2, ReportedType DEF ExportAndSteer
  <2>3. PathsOf(p, n) \in Seq(Request)
    BY <1>2, PathsType DEF ExportAndSteer, Peers
  <2>4. ctlQueue' \in Seq(Request)
    BY <1>2, <2>3, SeqFacts DEF ExportAndSteer, ControlTypeOK
  <2>5. ControlTypeOK'
    BY <1>2, <2>4 DEF ExportAndSteer, ControlTypeOK
  <2> QED BY <1>2, <2>1, <2>2, <2>5 DEF ExportAndSteer
<1>3. CASE ExportFails(p, n, marked)
  <2>1. DeviceTypeOK' /\ UNCHANGED <<agentVars, controlVars, dpEnvVars>>
    BY <1>3 DEF ExportFails, DeviceDies, DeviceTypeOK
  <2>2. RouteTypeOK'
    BY <1>3 DEF ExportFails, Exports, RouteTypeOK
  <2> QED BY <1>3, <2>1, <2>2 DEF ExportFails
<1>4. CASE ExportElsewhere(p, n, marked)
  <2>1. RouteTypeOK'
    BY <1>4, ExportedType DEF ExportElsewhere
  <2>2. ModuleTypeOK'
    BY <1>4, ReportedType DEF ExportElsewhere
  <2> QED BY <1>4, <2>1, <2>2 DEF ExportElsewhere, provVars
<1> QED BY <1>0, <1>1, <1>2, <1>3, <1>4

LEMMA StartType ==
  /\ Start.queue \in Seq(Request)
  /\ Start.number \in [Devices -> [Mods -> Nat]]
<1>1. HeadendList \in [1 .. Len(HeadendList) -> Devices] /\ Len(HeadendList) \in Nat
  BY ProvisioningAssumption
<1>2. [i \in 1 .. Len(HeadendList) |-> [type |-> "headend-notify", dev |-> HeadendList[i]]]
        \in [1 .. Len(HeadendList) -> Request]
  BY <1>1, RequestType DEF Requests
<1>3. [i \in DOMAIN HeadendList |-> [type |-> "headend-notify", dev |-> HeadendList[i]]]
        \in Seq(Request)
  BY <1>1, <1>2, TableIsSeq
<1> QED BY <1>3 DEF Start

LEMMA RestartType ==
  ASSUME TypeOK, RestartAll
  PROVE  TypeOK'
<1> USE Parts, Kept
<1>1. ControlTypeOK'
  BY StartType DEF RestartAll, Restart, ControlTypeOK
<1>2. DeviceTypeOK'
  BY StartType, EmptyQueue DEF RestartAll, Restart, DeviceTypeOK
<1>3. EnvTypeOK'
  <2>1. UNCHANGED <<reachable, ready>> /\ topoToSend' = <<>> /\ topologies' = 0
    BY DEF RestartAll, Restart
  <2>2. faults' = faults + 1 /\ refused' = {}
    BY DEF RestartAll, Restart
  <2>3. faults \in Nat
    BY DEF EnvTypeOK
  <2> QED BY <2>1, <2>2, <2>3, EmptyQueue DEF EnvTypeOK
<1>4. ModuleTypeOK'
  BY EmptyQueue DEF RestartAll, ModuleTypeOK
<1>5. RouteTypeOK'
  BY DEF RestartAll, RouteTypeOK, Export, NoExport
<1>6. ToldTypeOK'
  BY DEF RestartAll, ToldTypeOK
<1>7. UNCHANGED <<agentVars, delayVars>>
  BY DEF RestartAll, Restart
<1> QED BY <1>1, <1>2, <1>3, <1>4, <1>5, <1>6, <1>7

LEMMA DelaysType ==
  ASSUME DelayTypeOK, DelaysChange
  PROVE  DelayTypeOK'
BY DEF DelayTypeOK, DelaysChange

LEMMA TypeInit == Init => TypeOK
<1> SUFFICES ASSUME Init PROVE TypeOK
  OBVIOUS
<1> USE Parts DEF Init, ProvInit, ParInit, AgentInit
<1>1. AgentTypeOK
  BY DEF AgentTypeOK
<1>2. ControlTypeOK
  BY StartType DEF ControlTypeOK
<1>3. DeviceTypeOK
  BY StartType, EmptyQueue DEF DeviceTypeOK
<1>4. EnvTypeOK
  <2>1. { d \in Devices : ~reachable[d] } \subseteq Devices
    OBVIOUS
  <2>2. faults \in Nat
    BY <2>1, AgentAssumption, FS_Subset, FS_CardinalityType
  <2> QED BY <2>2, EmptyQueue DEF EnvTypeOK
<1>5. ModuleTypeOK
  BY EmptyQueue DEF ModuleTypeOK
<1>6. DelayTypeOK
  BY DelayAssumption DEF DelayTypeOK
<1>7. RouteTypeOK
  BY DEF RouteTypeOK, Export, NoExport
<1>8. ToldTypeOK
  BY DEF ToldTypeOK
<1> QED BY <1>1, <1>2, <1>3, <1>4, <1>5, <1>6, <1>7, <1>8

LEMMA TypeNext == TypeOK /\ [Next]_vars => TypeOK'
<1> SUFFICES ASSUME TypeOK, [Next]_vars PROVE TypeOK'
  OBVIOUS
<1> USE Parts, Kept
<1>1. ASSUME NEW d \in Devices, ControllerProvision(d) /\ Unsteered PROVE TypeOK'
  BY <1>1, ControllerType DEF Unsteered
<1>2. ASSUME NEW d \in Devices, UpdateDatapath(d) \/ UpdateDatapathFails(d) PROVE TypeOK'
  BY <1>2, UpdateDatapathType
<1>3. CASE ProcessPar
  BY <1>3, ProcessParType
<1>4. ASSUME NEW d \in Devices, DeviceStep(d) PROVE TypeOK'
  <2>1. CASE DeviceProvision(d) /\ Unsteered
    BY <2>1, DeviceType DEF Unsteered
  <2>2. CASE ProcessParUpdate(d) \/ ParUpdateIgnored(d) \/ ProcessParUpdateFails(d)
    BY <2>2, ProcessParUpdateType
  <2> QED BY <1>4, <2>1, <2>2 DEF DeviceStep
<1>5. ASSUME NEW m \in Mods, DecideStep(m) PROVE TypeOK'
  BY <1>5, ModuleType DEF DecideStep
<1>6. CASE ProvEnvironment /\ Unsteered
  BY <1>6, EnvironmentType DEF Unsteered
<1>7. CASE DelaysChange /\ UNCHANGED <<routeVars, toldVars>>
  BY <1>7, DelaysType DEF DelaysChange
<1>8. ASSUME NEW n \in Nodes, Announce(n) \/ Withdraw(n) PROVE TypeOK'
  BY <1>8, AnnounceType
<1>9. CASE ExportStep
  BY <1>9, ExportType
<1>10. CASE RestartAll
  BY <1>10, RestartType
<1>11. ASSUME NEW d \in Devices, Negotiates(d) PROVE TypeOK'
  <2>1. RouteTypeOK'
    BY <1>11 DEF Negotiates, RouteTypeOK
  <2> QED BY <1>11, <2>1 DEF Negotiates, provVars
<1>12. CASE UNCHANGED vars
  BY <1>12 DEF vars, provVars
<1> QED
  BY <1>1, <1>2, <1>3, <1>4, <1>5, <1>6, <1>7, <1>8, <1>9, <1>10, <1>11, <1>12
  DEF Next, ControllerStep

(***************************************************************************)
(* Queues, dataplanes, processes and modules are well typed (every handler *)
(* of the controller, the devices and the modules, and their exceptions).  *)
(***************************************************************************)
THEOREM TypeCorrect == Spec => []TypeOK
BY TypeInit, TypeNext, PTL DEF Spec
-----------------------------------------------------------------------------
(***************************************************************************)
(* What is under way between the controller and a dataplane.               *)
(***************************************************************************)
\* Each module's table has a number of its own, below the counter.
Numbered ==
  \A d \in Devices, m \in Mods : tables[d][m] # 0 =>
    /\ tables[d][m] < lastRoute[d]
    /\ \A k \in Mods \ {m} : tables[d][m] # tables[d][k]

\* The numbers are those of the tables, as far as they are known.
Known(d, num) == \A m \in Mods : num[m] \in {0, tables[d][m]}

NumbersKnown ==
  /\ \A d \in Devices : Known(d, number[d])
  /\ \A i \in DOMAIN ctlQueue : ctlQueue[i].type = "create-flowmark-rules"
                               => Known(ctlQueue[i].dev, ctlQueue[i].num)
  /\ \A d \in Devices : \A i \in DOMAIN mail[d] :
       mail[d][i].type = "dp-tables" => Known(d, mail[d][i].num)

\* The mark of m leads to the table of m.
HasRule(d, m) == <<m, tables[d][m]>> \in ipRules[d]

\* The controller is between its two calls: the mark of m is still to be made.
Unmarked(d, m) ==
  \E i \in DOMAIN ctlQueue : /\ ctlQueue[i].type = "add-ip6tables"
                             /\ ctlQueue[i].dev = d /\ m \in ctlQueue[i].mods

\* The controller cannot learn the number of the table of m any more: the
\* manager names a table once, when it makes it.
Lost(d, m) ==
  /\ tables[d][m] # 0 /\ number[d][m] = 0
  /\ \A i \in DOMAIN mail[d] : mail[d][i].type = "dp-tables" => mail[d][i].num[m] = 0
  /\ \A i \in DOMAIN ctlQueue :
       ctlQueue[i].type = "create-flowmark-rules" /\ ctlQueue[i].dev = d
         => ctlQueue[i].num[m] = 0

\* The kernel has rules for tables there are, and one mark for each rule, if the
\* controller came to make it.
RulesMarked ==
  \A d \in Devices :
    /\ \A r \in ipRules[d] : r[2] = tables[d][r[1]] /\ r[2] # 0
    /\ \A m \in Mods :
         /\ markRules[d][m] \in {0, 1}
         /\ markRules[d][m] = 1 => HasRule(d, m)
         /\ HasRule(d, m) /\ ctlAlive =>
              markRules[d][m] = 1 \/ Unmarked(d, m) \/ Lost(d, m)

\* The second call is the next the controller makes, and names all the flows
\* without a mark.
MarksAsked ==
  \A i \in DOMAIN ctlQueue : ctlQueue[i].type = "add-ip6tables" =>
    /\ i = 1
    /\ \A m \in Mods :
         /\ HasRule(ctlQueue[i].dev, m)
         /\ markRules[ctlQueue[i].dev][m] = IF m \in ctlQueue[i].mods THEN 0 ELSE 1

\* An answer that tells the device that the flow of m was marked.
Names(a, m) == a.type = "dp-flowmarks" /\ m \in a.mods

\* The device is told once that a flow was marked, and after it was.
FlowsNamed ==
  \A d \in Devices, m \in Mods :
    /\ flowObjs[d][m] <= markRules[d][m]
    /\ \A i \in DOMAIN mail[d] : Names(mail[d][i], m) =>
         /\ flowObjs[d][m] = 0 /\ markRules[d][m] = 1
         /\ \A j \in DOMAIN mail[d] : Names(mail[d][j], m) => i = j

DpInv ==
  /\ TypeOK
  /\ Numbered /\ NumbersKnown /\ RulesMarked /\ MarksAsked /\ FlowsNamed
  /\ ConfiguredIsMarked

\* What the queues hold that the invariant speaks of was there before, and a
\* controller between its two calls stays there or ends.
Marking == {"create-flowmark-rules", "add-ip6tables"}

OldRequests ==
  /\ \E n \in {0, 1} : \A i \in DOMAIN ctlQueue' : ctlQueue'[i].type \in Marking =>
       i + n \in DOMAIN ctlQueue /\ ctlQueue[i + n] = ctlQueue'[i]
  /\ ctlAlive' =>
       /\ ctlAlive
       /\ \A i \in DOMAIN ctlQueue : ctlQueue[i].type = "add-ip6tables" =>
            \E j \in DOMAIN ctlQueue' : ctlQueue'[j] = ctlQueue[i]

Telling == {"dp-tables", "dp-flowmarks"}

OldAnswers(d) ==
  \E n \in {0, 1} : \A i \in DOMAIN mail'[d] : mail'[d][i].type \in Telling =>
    i + n \in DOMAIN mail[d] /\ mail[d][i + n] = mail'[d][i]

\* Steps that leave tables, marks and numbers alone and tell nothing of them.
Bystander ==
  /\ UNCHANGED <<tables, lastRoute, ipRules, markRules, number, flowObjs>>
  /\ \A d \in Devices : dpStatus'[d] = "CONFIGURED" => dpStatus[d] = "CONFIGURED"
  /\ OldRequests
  /\ \A d \in Devices : OldAnswers(d)

\* A number that was lost stays so.
LEMMA LostStays ==
  ASSUME NEW e \in Devices, NEW m \in Mods, Lost(e, m),
         tables'[e][m] = tables[e][m], number'[e][m] = 0,
         \A i \in DOMAIN mail'[e] : mail'[e][i].type = "dp-tables" =>
           \/ mail'[e][i].num[m] = 0
           \/ \E j \in DOMAIN mail[e] : mail[e][j] = mail'[e][i],
         \A i \in DOMAIN ctlQueue' :
           (ctlQueue'[i].type = "create-flowmark-rules" /\ ctlQueue'[i].dev = e) =>
             \/ ctlQueue'[i].num[m] = 0
             \/ \E j \in DOMAIN ctlQueue : ctlQueue[j] = ctlQueue'[i]
  PROVE  Lost(e, m)'
BY DEF Lost

LEMMA BystanderKeeps ==
  ASSUME DpInv, TypeOK', Bystander
  PROVE  DpInv'
<1>1. Numbered'
  BY DEF DpInv, Bystander, Numbered
<1>2. NumbersKnown'
  <2>1. \A d \in Devices, m \in Mods : number'[d][m] \in {0, tables'[d][m]}
    BY DEF DpInv, Bystander, NumbersKnown, Known
  <2>2. ASSUME NEW i \in DOMAIN ctlQueue', ctlQueue'[i].type = "create-flowmark-rules", NEW m \in Mods
        PROVE  ctlQueue'[i].num[m] \in {0, tables'[ctlQueue'[i].dev][m]}
    <3>1. PICK j \in DOMAIN ctlQueue : ctlQueue[j] = ctlQueue'[i]
      BY <2>2 DEF Bystander, OldRequests, Marking
    <3>2. ctlQueue[j].num[m] \in {0, tables[ctlQueue[j].dev][m]}
      BY <2>2, <3>1 DEF DpInv, NumbersKnown, Known
    <3> QED BY <3>1, <3>2 DEF Bystander
  <2>3. ASSUME NEW d \in Devices, NEW i \in DOMAIN mail'[d], mail'[d][i].type = "dp-tables", NEW m \in Mods
        PROVE  mail'[d][i].num[m] \in {0, tables'[d][m]}
    <3>1. PICK j \in DOMAIN mail[d] : mail[d][j] = mail'[d][i]
      BY <2>3 DEF Bystander, OldAnswers, Telling
    <3>2. mail[d][j].num[m] \in {0, tables[d][m]}
      BY <2>3, <3>1 DEF DpInv, NumbersKnown, Known
    <3> QED BY <3>1, <3>2 DEF Bystander
  <2> QED BY <2>1, <2>2, <2>3 DEF NumbersKnown, Known
<1>a. PICK k \in {0, 1} :
        \A i \in DOMAIN ctlQueue' : ctlQueue'[i].type \in Marking =>
          i + k \in DOMAIN ctlQueue /\ ctlQueue[i + k] = ctlQueue'[i]
  BY DEF Bystander, OldRequests
<1>b. UNCHANGED <<tables, ipRules, markRules, number>>
  BY DEF Bystander
<1>c. ASSUME NEW d \in Devices, NEW m \in Mods PROVE HasRule(d, m)' <=> HasRule(d, m)
  BY <1>b DEF HasRule
<1>3. RulesMarked'
  <2>1. ASSUME NEW d \in Devices, NEW m \in Mods, HasRule(d, m), ctlAlive'
        PROVE  markRules[d][m] = 1 \/ Unmarked(d, m)' \/ Lost(d, m)'
    <3>1. ctlAlive
      BY <2>1 DEF Bystander, OldRequests
    <3>2. CASE Unmarked(d, m)
      BY <2>1, <3>2 DEF Bystander, OldRequests, Unmarked
    <3>3. CASE Lost(d, m)
      <4>1. \A i \in DOMAIN mail'[d] : mail'[d][i].type = "dp-tables" =>
              \E j \in DOMAIN mail[d] : mail[d][j] = mail'[d][i]
        BY DEF Bystander, OldAnswers, Telling
      <4>2. \A i \in DOMAIN ctlQueue' : ctlQueue'[i].type = "create-flowmark-rules" =>
              \E j \in DOMAIN ctlQueue : ctlQueue[j] = ctlQueue'[i]
        BY <1>a DEF Marking
      <4>3. number'[d][m] = 0
        BY <1>b, <3>3 DEF Lost
      <4> QED BY <1>b, <3>3, <4>1, <4>2, <4>3, LostStays
    <3> QED BY <2>1, <3>1, <3>2, <3>3 DEF DpInv, RulesMarked
  <2> QED BY <1>b, <1>c, <2>1 DEF DpInv, RulesMarked
<1>6. MarksAsked'
  <2> SUFFICES ASSUME NEW i \in DOMAIN ctlQueue', ctlQueue'[i].type = "add-ip6tables"
               PROVE  i = 1 /\ \A m \in Mods :
                        /\ <<m, tables'[ctlQueue'[i].dev][m]>> \in
                             ipRules'[ctlQueue'[i].dev]
                        /\ markRules'[ctlQueue'[i].dev][m] =
                             IF m \in ctlQueue'[i].mods THEN 0 ELSE 1
    BY DEF MarksAsked, HasRule
  <2>1. i + k \in DOMAIN ctlQueue /\ ctlQueue[i + k] = ctlQueue'[i]
    BY <1>a DEF Marking
  <2>2. i \in Nat \ {0} /\ ctlQueue'[i] \in Request
    <3>1. ctlQueue' \in Seq(Request)
      BY Parts DEF ControlTypeOK
    <3> QED BY <3>1
  <2>3. i + k = 1
    BY <2>1 DEF DpInv, MarksAsked
  <2>4. i = 1
    BY <2>2, <2>3
  <2>5. ctlQueue'[i].dev \in Devices
    BY <2>2 DEF Request, Requests
  <2> QED BY <1>b, <2>1, <2>4 DEF DpInv, MarksAsked, HasRule
<1>4. FlowsNamed'
  <2> SUFFICES ASSUME NEW d \in Devices, NEW m \in Mods
               PROVE  /\ flowObjs[d][m] <= markRules[d][m]
                      /\ \A i \in DOMAIN mail'[d] : Names(mail'[d][i], m) =>
                           /\ flowObjs[d][m] = 0 /\ markRules[d][m] = 1
                           /\ \A j \in DOMAIN mail'[d] : Names(mail'[d][j], m) => i = j
    BY DEF Bystander, FlowsNamed, Names
  <2>1. PICK n \in {0, 1} :
          \A i \in DOMAIN mail'[d] : mail'[d][i].type \in Telling =>
            i + n \in DOMAIN mail[d] /\ mail[d][i + n] = mail'[d][i]
    BY DEF Bystander, OldAnswers
  <2>2. \A i \in DOMAIN mail'[d] : Names(mail'[d][i], m) =>
          i + n \in DOMAIN mail[d] /\ Names(mail[d][i + n], m)
    BY <2>1 DEF Names, Telling
  <2>3. DOMAIN mail'[d] \subseteq Nat
    BY Parts DEF DeviceTypeOK
  <2> QED BY <2>2, <2>3 DEF DpInv, FlowsNamed
<1>5. ConfiguredIsMarked'
  BY DEF DpInv, Bystander, ConfiguredIsMarked
<1> QED BY <1>1, <1>2, <1>3, <1>4, <1>5, <1>6 DEF DpInv

\* The queues a step leaves behind.
LEMMA TailRequests ==
  ASSUME ControlTypeOK, ctlQueue # <<>>, ctlQueue' = Tail(ctlQueue),
         ctlAlive' => ctlAlive /\ Head(ctlQueue).type # "add-ip6tables"
  PROVE  OldRequests
<1>1. ctlQueue \in Seq(Request)
  BY DEF ControlTypeOK
<1>2. \A i \in DOMAIN Tail(ctlQueue) : i + 1 \in DOMAIN ctlQueue /\ ctlQueue[i + 1] = Tail(ctlQueue)[i]
  BY <1>1
<1>3. \A i \in DOMAIN ctlQueue : \/ ctlQueue[i] = Head(ctlQueue)
                                 \/ \E j \in DOMAIN Tail(ctlQueue) : Tail(ctlQueue)[j] = ctlQueue[i]
  <2>1. ASSUME NEW i \in DOMAIN ctlQueue, i # 1
        PROVE  i - 1 \in DOMAIN Tail(ctlQueue) /\ Tail(ctlQueue)[i - 1] = ctlQueue[i]
    BY <1>1, <2>1
  <2>2. Head(ctlQueue) = ctlQueue[1]
    BY <1>1
  <2> QED BY <2>1, <2>2
<1> QED BY <1>2, <1>3 DEF OldRequests

LEMMA AppendRequests ==
  ASSUME ControlTypeOK, NEW q \in Seq(Request), ctlQueue' = ctlQueue \o q,
         \A i \in DOMAIN q : q[i].type \notin Marking, ctlAlive' => ctlAlive
  PROVE  OldRequests
<1>1. ctlQueue \in Seq(Request)
  BY DEF ControlTypeOK
<1>2. ASSUME NEW i \in DOMAIN ctlQueue', ctlQueue'[i].type \in Marking
      PROVE  i + 0 \in DOMAIN ctlQueue /\ ctlQueue[i + 0] = ctlQueue'[i]
  <2>1. i \in 1 .. Len(ctlQueue) + Len(q)
    BY <1>1
  <2>2. CASE i <= Len(ctlQueue)
    BY <1>1, <2>1, <2>2
  <2>3. CASE i > Len(ctlQueue)
    <3>1. i - Len(ctlQueue) \in DOMAIN q /\ ctlQueue'[i] = q[i - Len(ctlQueue)]
      BY <1>1, <2>1, <2>3
    <3> QED BY <1>2, <3>1
  <2> QED BY <1>1, <2>1, <2>2, <2>3
<1>3. \A i \in DOMAIN ctlQueue : i \in DOMAIN ctlQueue' /\ ctlQueue'[i] = ctlQueue[i]
  BY <1>1
<1> QED BY <1>2, <1>3 DEF OldRequests

\* What Append leaves in a queue.
LEMMA AppendFacts ==
  ASSUME NEW S, NEW s \in Seq(S), NEW e \in S
  PROVE  \A i \in DOMAIN Append(s, e) :
           \/ i \in DOMAIN s /\ Append(s, e)[i] = s[i]
           \/ i = Len(s) + 1 /\ Append(s, e)[i] = e
  OBVIOUS

LEMMA AskRequests ==
  ASSUME ControlTypeOK, NEW r \in Request, ctlQueue' = Append(ctlQueue, r),
         r.type \notin Marking, ctlAlive' => ctlAlive
  PROVE  OldRequests
<1>1. ctlQueue \in Seq(Request) /\ <<r>> \in Seq(Request)
  BY SeqFacts DEF ControlTypeOK
<1>2. ctlQueue' = ctlQueue \o <<r>>
  BY <1>1, AppendJoins
<1>3. \A i \in DOMAIN <<r>> : <<r>>[i].type \notin Marking
  OBVIOUS
<1> QED BY <1>1, <1>2, <1>3, AppendRequests

LEMMA SameRequests ==
  ASSUME ControlTypeOK, ctlQueue' = ctlQueue, ctlAlive' = ctlAlive
  PROVE  OldRequests
<1>1. \A i \in DOMAIN ctlQueue : i + 0 = i
  <2>1. ctlQueue \in Seq(Request)
    BY DEF ControlTypeOK
  <2> QED BY <2>1
<1> QED BY <1>1 DEF OldRequests

LEMMA SameAnswers ==
  ASSUME DeviceTypeOK, NEW d \in Devices, mail'[d] = mail[d]
  PROVE  OldAnswers(d)
<1>1. DOMAIN mail[d] \subseteq Nat
  BY DEF DeviceTypeOK
<1> QED BY <1>1 DEF OldAnswers

LEMMA NoAnswers == DOMAIN <<>> = {}
OBVIOUS

LEMMA TailAnswers ==
  ASSUME DeviceTypeOK, NEW d \in Devices, mail[d] # <<>>, mail'[d] = Tail(mail[d])
  PROVE  OldAnswers(d)
<1>1. mail[d] \in Seq(Answer)
  BY DEF DeviceTypeOK
<1>2. \A i \in DOMAIN Tail(mail[d]) : i + 1 \in DOMAIN mail[d] /\ mail[d][i + 1] = Tail(mail[d])[i]
  BY <1>1
<1> QED BY <1>2 DEF OldAnswers

LEMMA AppendAnswers ==
  ASSUME DeviceTypeOK, NEW d \in Devices, NEW a \in Answer, a.type \notin Telling,
         mail'[d] = Append(mail[d], a)
  PROVE  OldAnswers(d)
<1>1. mail[d] \in Seq(Answer)
  BY DEF DeviceTypeOK
<1>2. \A i \in DOMAIN Append(mail[d], a) :
        \/ i \in DOMAIN mail[d] /\ mail[d][i] = Append(mail[d], a)[i]
        \/ Append(mail[d], a)[i] = a
  BY <1>1
<1>3. DOMAIN mail[d] \subseteq Nat
  BY <1>1
<1>4. \A i \in DOMAIN mail'[d] : mail'[d][i].type \in Telling =>
        i + 0 \in DOMAIN mail[d] /\ mail[d][i + 0] = mail'[d][i]
  BY <1>2, <1>3
<1> QED BY <1>4 DEF OldAnswers

\* The same for all devices, of which a step concerns one.
LEMMA AllSame ==
  ASSUME DeviceTypeOK, mail' = mail
  PROVE  \A d \in Devices : OldAnswers(d)
BY SameAnswers

LEMMA AllTold ==
  ASSUME DeviceTypeOK, NEW d \in Devices, NEW a \in Answer, a.type \notin Telling, Tell(d, a)
  PROVE  \A e \in Devices : OldAnswers(e)
<1> SUFFICES ASSUME NEW e \in Devices PROVE OldAnswers(e)
  OBVIOUS
<1>1. mail'[e] = IF e = d THEN Append(mail[d], a) ELSE mail[e]
  BY DEF Tell, DeviceTypeOK
<1> QED BY <1>1, AppendAnswers, SameAnswers

LEMMA AllRead ==
  ASSUME DeviceTypeOK, NEW d \in Devices, mail[d] # <<>>, Read(d)
  PROVE  \A e \in Devices : OldAnswers(e)
<1> SUFFICES ASSUME NEW e \in Devices PROVE OldAnswers(e)
  OBVIOUS
<1>1. mail'[e] = IF e = d THEN Tail(mail[d]) ELSE mail[e]
  BY DEF Read, DeviceTypeOK
<1> QED BY <1>1, TailAnswers, SameAnswers

\* A step that takes the head of the controller's queue.
LEMMA TakenRequest ==
  ASSUME TypeOK, ctlQueue # <<>>, ctlQueue' = Tail(ctlQueue),
         ctlAlive' => ctlAlive /\ Head(ctlQueue).type # "add-ip6tables",
         UNCHANGED <<tables, lastRoute, ipRules, markRules, number, flowObjs>>,
         \A e \in Devices : dpStatus'[e] = "CONFIGURED" => dpStatus[e] = "CONFIGURED",
         \A e \in Devices : OldAnswers(e)
  PROVE  Bystander
BY TailRequests, Parts DEF Bystander

\* The steps of the controller that prepare nothing.
LEMMA ControllerBystands ==
  ASSUME TypeOK, NEW d \in Devices,
         \/ HeadendNotify(d)
         \/ GetIfaces(d) \/ GetIfacesUnimplemented(d)
         \/ GetIfacesAgain(d) \/ GetIfacesFails(d)
         \/ ConfigureDropped(d) \/ ConfigureFails(d)
         \/ CreateRulesRefused(d) \/ CreateMarksFails(d)
  PROVE  Bystander
<1> USE Parts
<1>1. ctlQueue # <<>> /\ ctlQueue' = Tail(ctlQueue)
  BY DEF HeadendNotify, GetIfaces, GetIfacesUnimplemented, GetIfacesAgain, GetIfacesFails,
         ConfigureDropped, ConfigureFails, ConfigureRequest, CreateRulesRefused,
         CreateMarksFails, Serves, ControllerDies
<1>2. UNCHANGED <<tables, lastRoute, ipRules, markRules, number, flowObjs>>
  BY DEF HeadendNotify, GetIfaces, GetIfacesUnimplemented, GetIfacesAgain, GetIfacesFails,
         ConfigureDropped, ConfigureFails, CreateRulesRefused, CreateMarksFails,
         ControllerDies, agentVars, deviceVars
<1>3. \A e \in Devices : dpStatus'[e] = "CONFIGURED" => dpStatus[e] = "CONFIGURED"
  BY DEF HeadendNotify, GetIfaces, GetIfacesUnimplemented, GetIfacesAgain, GetIfacesFails,
         ConfigureDropped, ConfigureFails, CreateRulesRefused, CreateMarksFails,
         ControllerDies, ControlTypeOK
<1>4. \A e \in Devices : OldAnswers(e)
  <2>1. CASE HeadendNotify(d) \/ GetIfacesAgain(d)
    BY <2>1, AllTold, AnswerType DEF HeadendNotify, GetIfacesAgain, Telling
  <2>2. CASE GetIfaces(d)
    BY <2>2, AllTold, AnswerType DEF GetIfaces, Telling
  <2>3. CASE \/ GetIfacesUnimplemented(d) \/ GetIfacesFails(d)
             \/ ConfigureDropped(d) \/ ConfigureFails(d)
             \/ CreateRulesRefused(d) \/ CreateMarksFails(d)
    BY <2>3, AllSame DEF GetIfacesUnimplemented, GetIfacesFails, ConfigureDropped,
       ConfigureFails, CreateRulesRefused, CreateMarksFails, ControllerDies, deviceVars
  <2> QED BY <2>1, <2>2, <2>3
<1>5. ctlAlive' => ctlAlive /\ Head(ctlQueue).type # "add-ip6tables"
  BY DEF HeadendNotify, GetIfaces, GetIfacesUnimplemented, GetIfacesAgain, GetIfacesFails,
         ConfigureDropped, ConfigureFails, ConfigureRequest, CreateRulesRefused,
         CreateMarksFails, Serves, ControllerDies
<1> QED BY <1>1, <1>2, <1>3, <1>4, <1>5, TakenRequest

\* The steps of a device that learn nothing of tables and marks.
LEMMA DeviceBystands ==
  ASSUME TypeOK, NEW d \in Devices,
         \/ InterfaceInit(d)
         \/ ProcessDpInterface(d) \/ ProcessDpInterfaceFails(d)
         \/ ProcessTopology(d) \/ ProcessTopologyLinks(d)
  PROVE  Bystander
<1> USE Parts
<1>1. UNCHANGED <<tables, lastRoute, ipRules, markRules, number, flowObjs, dpStatus>>
  BY DEF InterfaceInit, ProcessDpInterface, ProcessDpInterfaceFails, ProcessTopology,
         ProcessTopologyLinks, DeviceDies, agentVars, controlVars
<1>2. OldRequests
  <2>1. CASE InterfaceInit(d)
    <3>1. [type |-> "get-interfaces", dev |-> d] \in Request
      BY RequestType DEF Requests
    <3> QED BY <2>1, <3>1, AskRequests DEF InterfaceInit, Ask, Marking
  <2>2. CASE ProcessDpInterface(d)
    <3>1. [type |-> "create-tables", dev |-> d] \in Request
      BY RequestType DEF Requests
    <3> QED BY <2>2, <3>1, AskRequests DEF ProcessDpInterface, Ask, Marking
  <2>3. CASE ProcessDpInterfaceFails(d) \/ ProcessTopology(d) \/ ProcessTopologyLinks(d)
    BY <2>3, SameRequests DEF ProcessDpInterfaceFails, ProcessTopology, ProcessTopologyLinks,
       DeviceDies, controlVars
  <2> QED BY <2>1, <2>2, <2>3
<1>3. \A e \in Devices : OldAnswers(e)
  <2>1. CASE InterfaceInit(d) \/ ProcessDpInterface(d) \/ ProcessTopology(d) \/ ProcessTopologyLinks(d)
    BY <2>1, AllRead DEF InterfaceInit, ProcessDpInterface, ProcessTopology,
       ProcessTopologyLinks, MailIs
  <2>2. CASE ProcessDpInterfaceFails(d)
    BY <2>2, AllSame DEF ProcessDpInterfaceFails, DeviceDies
  <2> QED BY <2>1, <2>2
<1> QED BY <1>1, <1>2, <1>3 DEF Bystander

LEMMA EnvironmentBystands ==
  ASSUME TypeOK, ProvEnvironment
  PROVE  Bystander
<1> USE Parts
<1>1. ASSUME NEW d \in Devices, Keepalive(d) PROVE Bystander
  <2>1. \A e \in Devices : OldAnswers(e)
    BY <1>1, AllTold, AnswerType DEF Keepalive, Telling
  <2> QED BY <1>1, <2>1, SameRequests DEF Keepalive, Bystander, agentVars, controlVars
<1>2. ASSUME NEW d \in Devices, Outage(d) \/ Recover(d) \/ GetsReady(d) PROVE Bystander
  <2>1. UNCHANGED <<agentVars, controlVars, deviceVars>>
    BY <1>2 DEF Outage, Recover, GetsReady
  <2> QED BY <2>1, SameRequests, AllSame DEF Bystander, agentVars, controlVars, deviceVars
<1>3. CASE BuildTopology
  <2>1. UNCHANGED <<agentVars, controlVars, deviceVars>>
    BY <1>3 DEF BuildTopology
  <2> QED BY <2>1, SameRequests, AllSame DEF Bystander, agentVars, controlVars, deviceVars
<1>4. CASE PutTopology
  <2>1. Head(topoToSend) \in [dev : Devices, msg : TopologyMessage]
    BY <1>4, SeqFacts DEF PutTopology, EnvTypeOK
  <2>2. \A e \in Devices : OldAnswers(e)
    BY <1>4, <2>1, AllTold, TopologyAnswers DEF PutTopology, Telling
  <2> QED BY <1>4, <2>2, SameRequests DEF PutTopology, Bystander, agentVars, controlVars
<1> QED BY <1>1, <1>2, <1>3, <1>4 DEF ProvEnvironment

LEMMA Associative ==
  ASSUME NEW S, NEW s \in Seq(S), NEW t \in Seq(S), NEW u \in Seq(S)
  PROVE  s \o t \o u = s \o (t \o u)
  OBVIOUS

\* The modules ask for paths only.
LEMMA ModuleBystands ==
  ASSUME TypeOK, NEW m \in Mods, ModuleStep(m)
  PROVE  Bystander
<1> USE Parts
<1>1. UNCHANGED <<agentVars, ctlAlive, dpStatus, deviceVars>>
  BY DEF ModuleStep
<1>2. \A k, n : Update(k, n).type = "par-update" /\ Update(k, n).type \notin Marking
  BY DEF Update, Marking
<1>3. \A i \in DOMAIN TakesOver(m) : TakesOver(m)[i].type \notin Marking
  BY <1>2 DEF TakesOver
<1>4. OldRequests
  <2>1. CASE ProcessAddRoute(m) \/ ProcessRemoveRoute(m)
    BY <1>1, <2>1, SameRequests DEF ProcessAddRoute, ProcessRemoveRoute, ModuleDies
  <2>2. CASE ProcessInitialRoute(m)
    <3> DEFINE n == Head(parMail[m]).node
    <3>1. Update(m, n) \in Request
      BY <2>2, ReadParType, RequestType DEF ProcessInitialRoute
    <3>2. ctlQueue' = ctlQueue \/ ctlQueue' = Append(ctlQueue, Update(m, n))
      BY <2>2 DEF ProcessInitialRoute
    <3> QED BY <1>1, <1>2, <3>1, <3>2, SameRequests, AskRequests
  <2>3. CASE DecideKeep(m)
    BY <1>1, <1>3, <2>3, TakesOverType, AppendRequests DEF DecideKeep
  <2>4. CASE DecideSwitch(m)
    <3>1. PICK n \in Nodes : ctlQueue' = ctlQueue \o TakesOver(m) \o <<Update(m, n)>>
      BY <2>4, BetterType DEF DecideSwitch
    <3> DEFINE q == TakesOver(m) \o <<Update(m, n)>>
    <3>2. TakesOver(m) \in Seq(Request) /\ <<Update(m, n)>> \in Seq(Request)
      BY <2>4, TakesOverType, RequestType, SeqFacts DEF DecideSwitch
    <3>3. q \in Seq(Request)
      BY <3>2, SeqFacts
    <3>4. ctlQueue' = ctlQueue \o q
      <4>1. ctlQueue \in Seq(Request)
        BY DEF ControlTypeOK
      <4>2. ctlQueue \o TakesOver(m) \o <<Update(m, n)>> = ctlQueue \o q
        BY <3>2, <4>1, Associative
      <4> QED BY <3>1, <4>2
    <3>5. \A i \in DOMAIN q : q[i].type \notin Marking
      BY <1>2 DEF TakesOver
    <3> QED BY <1>1, <3>3, <3>4, <3>5, AppendRequests
  <2>5. CASE DecideFails(m)
    <3>1. CASE UNCHANGED ctlQueue
      BY <1>1, <3>1, SameRequests
    <3>2. CASE InUse(m) # None /\ ctlQueue' = ctlQueue \o TakesOver(m)
      BY <1>1, <1>3, <3>2, TakesOverType, AppendRequests
    <3> QED BY <2>5, <3>1, <3>2 DEF DecideFails
  <2> QED BY <2>1, <2>2, <2>3, <2>4, <2>5 DEF ModuleStep
<1> QED BY <1>1, <1>4, AllSame DEF Bystander, agentVars, deviceVars

\* Paths and what leads to them.
LEMMA SteeringBystands ==
  ASSUME TypeOK,
         \/ ProcessPar
         \/ \E d \in Devices : \/ UpdateDatapath(d) \/ UpdateDatapathFails(d)
                               \/ ProcessParUpdate(d) \/ ParUpdateIgnored(d)
                               \/ ProcessParUpdateFails(d)
  PROVE  Bystander
<1> USE Parts
<1>1. CASE ProcessPar
  <2> DEFINE u == Head(ctlQueue)
             a == [type |-> "par", mod |-> u.mod, node |-> u.node]
  <2>1. u \in Request
    BY <1>1, SeqFacts DEF ProcessPar, ControlTypeOK
  <2>2. u.mod \in Mods /\ u.node \in Nodes
    BY <1>1, <2>1 DEF ProcessPar, Request, Requests
  <2>3. a \in Answer
    BY <2>2, AnswerType
  <2>4. \A d \in Devices : mail'[d] = Append(mail[d], a)
    BY <1>1 DEF ProcessPar
  <2>5. a.type \notin Telling
    BY DEF Telling
  <2> HIDE DEF a
  <2>6. \A d \in Devices : OldAnswers(d)
    BY <2>3, <2>4, <2>5, AppendAnswers
  <2> QED BY <1>1, <2>6, TakenRequest DEF ProcessPar, agentVars
<1>2. ASSUME NEW d \in Devices, UpdateDatapath(d) PROVE Bystander
  BY <1>2, AllSame, TakenRequest DEF UpdateDatapath, Serves, deviceVars
<1>3. ASSUME NEW d \in Devices, UpdateDatapathFails(d) PROVE Bystander
  BY <1>3, AllSame, TakenRequest DEF UpdateDatapathFails, ControllerDies, Serves, agentVars, deviceVars
<1>4. ASSUME NEW d \in Devices, ProcessParUpdate(d) PROVE Bystander
  <2> DEFINE u == Head(mail[d])
             q == PathTo(d, u.mod, u.node)
  <2>1. u.mod \in Mods /\ u.node \in Nodes
    BY <1>4, MailType DEF ProcessParUpdate
  <2>2. number[d][u.mod] \in Nat
    BY <2>1 DEF DeviceTypeOK
  <2>3. Steer(d, "Replace", number[d][u.mod], u.node) \in Request
    BY <2>1, <2>2, RequestType
  <2>4. q \in Seq(Request) /\ \A i \in DOMAIN q : q[i].type = "steer"
    <3> DEFINE r == Steer(d, "Replace", number[d][u.mod], u.node)
    <3>1. r.type = "steer"
      BY DEF Steer
    <3>2. q = <<>> \/ q = <<r>>
      BY DEF PathTo
    <3>3. r \in Request
      BY <2>3
    <3> HIDE DEF r, q
    <3>4. <<>> \in Seq(Request) /\ \A i \in DOMAIN <<>> : <<>>[i].type = "steer"
      OBVIOUS
    <3>5. <<r>> \in Seq(Request) /\ \A i \in DOMAIN <<r>> : <<r>>[i].type = "steer"
      BY <3>1, <3>3
    <3> QED BY <3>2, <3>4, <3>5
  <2>5. ctlQueue' = ctlQueue \o q
    BY <1>4 DEF ProcessParUpdate
  <2> HIDE DEF q
  <2>6. OldRequests
    BY <1>4, <2>4, <2>5, AppendRequests DEF ProcessParUpdate, Marking
  <2>7. \A e \in Devices : OldAnswers(e)
    BY <1>4, AllRead DEF ProcessParUpdate, MailIs
  <2> QED BY <1>4, <2>6, <2>7 DEF ProcessParUpdate, Bystander, agentVars
<1>5. ASSUME NEW d \in Devices, ProcessParUpdateFails(d) PROVE Bystander
  BY <1>5, AllSame, SameRequests
  DEF ProcessParUpdateFails, DeviceDies, Bystander, agentVars, controlVars
<1>6. ASSUME NEW d \in Devices, ParUpdateIgnored(d) PROVE Bystander
  <2>1. \A e \in Devices : OldAnswers(e)
    BY <1>6, AllRead DEF ParUpdateIgnored, MailIs
  <2> QED BY <1>6, <2>1, SameRequests DEF ParUpdateIgnored, Bystander, agentVars, controlVars
<1> QED BY <1>1, <1>2, <1>3, <1>4, <1>5, <1>6

LEMMA ExportBystands ==
  ASSUME TypeOK, ExportStep
  PROVE  Bystander
<1> USE Parts
<1>0. PICK p \in Devices \cup Nodes, n \in Nodes, marked \in BOOLEAN :
        \/ ExportQuietly(p, n, marked) \/ ExportAndSteer(p, n, marked)
        \/ ExportFails(p, n, marked) \/ ExportElsewhere(p, n, marked)
  BY DEF ExportStep
<1>1. CASE ExportQuietly(p, n, marked) \/ ExportElsewhere(p, n, marked)
  <2>1. UNCHANGED provVars
    BY <1>1 DEF ExportQuietly, ExportElsewhere
  <2> QED BY <2>1, AllSame, SameRequests DEF Bystander, provVars, agentVars, controlVars, deviceVars
<1>2. CASE ExportAndSteer(p, n, marked)
  <2> DEFINE q == PathsOf(p, n)
  <2>1. q \in Seq(Request)
    BY <1>2, PathsType DEF ExportAndSteer, Peers
  <2>2. \A i \in DOMAIN q : q[i].type = "steer"
    BY DEF PathsOf, Steer
  <2>3. ctlQueue' = ctlQueue \o q
    BY <1>2 DEF ExportAndSteer
  <2> HIDE DEF q
  <2>4. OldRequests
    BY <1>2, <2>1, <2>2, <2>3, AppendRequests DEF ExportAndSteer, Marking
  <2> QED BY <1>2, <2>4, AllSame DEF ExportAndSteer, Bystander, agentVars, deviceVars
<1>3. CASE ExportFails(p, n, marked)
  BY <1>3, AllSame, SameRequests DEF ExportFails, DeviceDies, Bystander, agentVars, controlVars
<1> QED BY <1>0, <1>1, <1>2, <1>3

\* Steps of routing and of the network alone.
LEMMA OthersBystand ==
  ASSUME TypeOK,
         \/ DelaysChange
         \/ \E d \in Devices : Negotiates(d)
         \/ \E n \in Nodes : Announce(n) \/ Withdraw(n)
         \/ UNCHANGED vars
  PROVE  Bystander
<1>1. UNCHANGED <<agentVars, controlVars, deviceVars>>
  BY DEF DelaysChange, Negotiates, Announce, Withdraw, vars, provVars
<1> QED BY <1>1, AllSame, SameRequests, Parts DEF Bystander, agentVars, controlVars, deviceVars
-----------------------------------------------------------------------------
(***************************************************************************)
(* The steps that make tables and marks, and those that learn of them.     *)
(***************************************************************************)
\* An answer appended to one mailbox, or read from it, and the others.
LEMMA ToldOne ==
  ASSUME DeviceTypeOK, NEW d \in Devices, NEW a \in Answer, Tell(d, a)
  PROVE  /\ mail'[d] = Append(mail[d], a)
         /\ \A e \in Devices \ {d} : mail'[e] = mail[e]
         /\ \A e \in Devices : DOMAIN mail[e] \subseteq Nat /\ mail[e] \in Seq(Answer)
BY DEF Tell, DeviceTypeOK

\* The request served is the first of the queue, and leaves it.
LEMMA ServedFirst ==
  ASSUME TypeOK, NEW d \in Devices, NEW t, Serves(t, d)
  PROVE  /\ 1 \in DOMAIN ctlQueue /\ ctlQueue[1] = Head(ctlQueue)
         /\ \A i \in DOMAIN Tail(ctlQueue) :
              i + 1 \in DOMAIN ctlQueue /\ ctlQueue[i + 1] = Tail(ctlQueue)[i]
<1>1. ctlQueue \in Seq(Request) /\ ctlQueue # <<>>
  BY Parts DEF ControlTypeOK, Serves
<1> QED BY <1>1

LEMMA ReadFirst ==
  ASSUME TypeOK, NEW d \in Devices, NEW t, MailIs(d, t)
  PROVE  /\ 1 \in DOMAIN mail[d] /\ mail[d][1] = Head(mail[d])
         /\ \A i \in DOMAIN Tail(mail[d]) :
              i \in Nat /\ i + 1 \in DOMAIN mail[d] /\ mail[d][i + 1] = Tail(mail[d])[i]
<1>1. mail[d] \in Seq(Answer) /\ mail[d] # <<>>
  BY Parts DEF DeviceTypeOK, MailIs
<1> QED BY <1>1

LEMMA ReadOthers ==
  ASSUME TypeOK, NEW d \in Devices, NEW t, MailIs(d, t), NEW e \in Devices,
         mail'[d] = Tail(mail[d]), \A f \in Devices \ {d} : mail'[f] = mail[f]
  PROVE  \A i \in DOMAIN mail'[e] : \E j \in DOMAIN mail[e] : mail[e][j] = mail'[e][i]
<1>1. CASE e = d
  <2>1. \A i \in DOMAIN Tail(mail[d]) :
          i + 1 \in DOMAIN mail[d] /\ mail[d][i + 1] = Tail(mail[d])[i]
    BY ReadFirst
  <2>2. ASSUME NEW i \in DOMAIN mail'[e]
        PROVE  \E j \in DOMAIN mail[e] : mail[e][j] = mail'[e][i]
    <3>1. i \in DOMAIN Tail(mail[d]) /\ mail'[e][i] = Tail(mail[d])[i]
      BY <1>1
    <3>2. i + 1 \in DOMAIN mail[d] /\ mail[d][i + 1] = mail'[e][i]
      BY <2>1, <3>1
    <3> QED BY <1>1, <3>2
  <2> QED BY <2>2
<1>2. CASE e # d
  BY <1>2
<1> QED BY <1>1, <1>2

\* A table keeps its number, and new numbers lie between old and new counter.
LEMMA CreateFacts ==
  ASSUME AgentTypeOK, Numbered, NEW d \in Devices, CreateRouteTable(d)
  PROVE  /\ \A e \in Devices, m \in Mods :
              tables[e][m] # 0 => tables'[e][m] = tables[e][m]
         /\ \A e \in Devices \ {d} : tables'[e] = tables[e] /\ lastRoute'[e] = lastRoute[e]
         /\ \A m \in NewOnDevice(d) :
              /\ tables'[d][m] = NextTable(d) + Cardinality(Earlier(d, m))
              /\ lastRoute'[d] = NextTable(d) + Cardinality(NewOnDevice(d))
         /\ NewOnDevice(d) = {} => lastRoute'[d] = lastRoute[d]
         /\ \A m \in Mods : Created(d)[m] \in {0, tables'[d][m]}
BY DEF AgentTypeOK, Numbered, CreateRouteTable, NewOnDevice, Created, NextTable, FirstTable

LEMMA CreateNumbers ==
  ASSUME AgentTypeOK, Numbered, NEW d \in Devices, CreateRouteTable(d)
  PROVE  Numbered'
<1> SUFFICES ASSUME NEW e \in Devices, NEW m \in Mods, tables'[e][m] # 0
             PROVE  /\ tables'[e][m] < lastRoute'[e]
                    /\ \A k \in Mods \ {m} : tables'[e][m] # tables'[e][k]
  BY DEF Numbered
<1>1. CASE e # d
  BY <1>1, CreateFacts DEF Numbered
<1>2. CASE e = d
  <2>1. \A k \in NewOnDevice(d) : /\ NextTable(d) <= tables'[d][k]
                                  /\ tables'[d][k] < lastRoute'[d]
    BY CreateFacts, EarlierType, CreatedType
  <2>2. \A k \in Mods \ NewOnDevice(d) :
          /\ tables'[d][k] = tables[d][k] /\ tables[d][k] # 0
          /\ tables[d][k] < NextTable(d)
    BY CreateFacts DEF NewOnDevice, Numbered, NextTable, AgentTypeOK
  <2>3. \A k \in Mods : tables'[d][k] \in Nat
    BY CreateType DEF AgentTypeOK
  <2>4. NextTable(d) \in Nat /\ lastRoute[d] \in Nat /\ lastRoute'[d] \in Nat
    BY CreatedType, CreateType DEF AgentTypeOK
  <2>5. CASE m \in NewOnDevice(d)
    <3>1. ASSUME NEW k \in NewOnDevice(d) \ {m} PROVE tables'[d][m] # tables'[d][k]
      BY <2>4, <2>5, EarlierType, EarlierDiffers, CreateFacts
    <3>2. ASSUME NEW k \in Mods \ NewOnDevice(d) PROVE tables'[d][m] # tables'[d][k]
      BY <2>1, <2>2, <2>3, <2>4, <2>5
    <3> QED BY <1>2, <2>1, <2>5, <3>1, <3>2
  <2>6. CASE m \notin NewOnDevice(d)
    <3>1. tables'[d][m] < lastRoute'[d]
      <4>1. CASE NewOnDevice(d) = {}
        BY <2>2, <2>6, <4>1, CreateFacts DEF Numbered
      <4>2. CASE NewOnDevice(d) # {}
        <5>1. PICK k \in NewOnDevice(d) : TRUE
          BY <4>2
        <5>2. k \in Mods
          BY DEF NewOnDevice
        <5> QED BY <2>1, <2>2, <2>3, <2>4, <2>6, <5>1, <5>2
      <4> QED BY <4>1, <4>2
    <3>2. ASSUME NEW k \in NewOnDevice(d) PROVE tables'[d][m] # tables'[d][k]
      <4>1. k \in Mods
        BY DEF NewOnDevice
      <4> QED BY <2>1, <2>2, <2>3, <2>4, <2>6, <4>1
    <3>3. ASSUME NEW k \in Mods \ NewOnDevice(d), k # m PROVE tables'[d][m] # tables'[d][k]
      BY <2>2, <2>6, <3>3 DEF Numbered
    <3> QED BY <1>2, <3>1, <3>2, <3>3
  <2> QED BY <2>5, <2>6
<1> QED BY <1>1, <1>2

\* What was known of the tables stays so.
LEMMA TablesStayKnown ==
  ASSUME AgentTypeOK, Numbered, NEW d \in Devices, CreateRouteTable(d),
         NEW e \in Devices, NEW n \in [Mods -> Nat], Known(e, n)
  PROVE  \A m \in Mods : n[m] \in {0, tables'[e][m]}
BY CreateFacts DEF Known

\* The controller tells d the numbers of the tables it made.
LEMMA CreateTablesKeeps ==
  ASSUME DpInv, TypeOK', NEW d \in Devices, CreateTables(d)
  PROVE  DpInv'
<1> USE Parts DEF DpInv
<1> DEFINE a == [type |-> "dp-tables", num |-> Created(d)]
<1>0. CreateRouteTable(d) /\ Serves("create-tables", d) /\ Tell(d, a) /\ ctlQueue' = Tail(ctlQueue)
  BY DEF CreateTables
<1>1. UNCHANGED <<ipRules, markRules, fib, dpStatus, number, flowObjs>>
  BY <1>0 DEF CreateTables, CreateRouteTable
<1>2. a \in Answer
  BY AnswerType, CreatedType
<1>3. Numbered'
  BY <1>0, CreateNumbers
<1>4. NumbersKnown'
  <2>1. ASSUME NEW e \in Devices, NEW m \in Mods
        PROVE  number'[e][m] \in {0, tables'[e][m]}
    BY <1>0, <1>1, TablesStayKnown DEF NumbersKnown, DeviceTypeOK
  <2>2. ASSUME NEW i \in DOMAIN ctlQueue', ctlQueue'[i].type = "create-flowmark-rules", NEW m \in Mods
        PROVE  ctlQueue'[i].num[m] \in {0, tables'[ctlQueue'[i].dev][m]}
    <3>1. i + 1 \in DOMAIN ctlQueue /\ ctlQueue[i + 1] = ctlQueue'[i]
      BY <1>0, <2>2, ServedFirst
    <3>2. ctlQueue'[i] \in Request
      <4>1. ctlQueue \in Seq(Request)
        BY DEF ControlTypeOK
      <4>2. ctlQueue[i + 1] \in Request
        BY <3>1, <4>1
      <4> QED BY <3>1, <4>2
    <3>3. ctlQueue'[i].dev \in Devices /\ ctlQueue'[i].num \in [Mods -> Nat]
      BY <2>2, <3>2 DEF Request, Requests
    <3>4. Known(ctlQueue'[i].dev, ctlQueue'[i].num)
      BY <2>2, <3>1 DEF NumbersKnown
    <3> QED BY <1>0, <3>3, <3>4, TablesStayKnown
  <2>3. ASSUME NEW e \in Devices, NEW i \in DOMAIN mail'[e], mail'[e][i].type = "dp-tables", NEW m \in Mods
        PROVE  mail'[e][i].num[m] \in {0, tables'[e][m]}
    <3>1. CASE i \in DOMAIN mail[e] /\ mail'[e][i] = mail[e][i]
      <4>1. mail[e][i] \in Answer
        BY <3>1 DEF DeviceTypeOK
      <4>2. mail[e][i].num \in [Mods -> Nat] /\ Known(e, mail[e][i].num)
        BY <2>3, <3>1, <4>1 DEF NumbersKnown, Answer
      <4> QED BY <1>0, <3>1, <4>2, TablesStayKnown
    <3>2. CASE e = d /\ mail'[e][i] = a
      BY <1>0, <3>2, CreateFacts
    <3>3. mail'[d] = Append(mail[d], a) /\ \A f \in Devices \ {d} : mail'[f] = mail[f]
      BY <1>0, <1>2, ToldOne
    <3>4. mail[d] \in Seq(Answer)
      BY DEF DeviceTypeOK
    <3>5. CASE e = d
      <4>1. \/ i \in DOMAIN mail[d] /\ Append(mail[d], a)[i] = mail[d][i]
            \/ i = Len(mail[d]) + 1 /\ Append(mail[d], a)[i] = a
        BY <1>2, <2>3, <3>3, <3>4, <3>5, AppendFacts
      <4> QED BY <3>1, <3>2, <3>3, <3>5, <4>1
    <3> QED BY <2>3, <3>1, <3>3, <3>5
  <2> QED BY <2>1, <2>2, <2>3 DEF NumbersKnown, Known
<1>5. \A e \in Devices, m \in Mods : tables[e][m] # 0 => tables'[e][m] = tables[e][m]
  BY <1>0, CreateFacts
<1>9. /\ UNCHANGED <<ctlAlive, markRules>>
      /\ \A e \in Devices, m \in Mods : HasRule(e, m)' <=> HasRule(e, m)
  <2>1. UNCHANGED ctlAlive
    BY DEF CreateTables
  <2>2. ASSUME NEW e \in Devices, NEW m \in Mods PROVE HasRule(e, m)' <=> HasRule(e, m)
    <3>1. ASSUME <<m, tables'[e][m]>> \in ipRules[e] PROVE tables'[e][m] = tables[e][m]
      BY <3>1 DEF RulesMarked
    <3>2. ASSUME <<m, tables[e][m]>> \in ipRules[e] PROVE tables'[e][m] = tables[e][m]
      BY <1>5, <3>2 DEF RulesMarked
    <3> QED BY <1>1, <3>1, <3>2 DEF HasRule
  <2> QED BY <1>1, <2>1, <2>2
<1>10. \A i \in DOMAIN ctlQueue : ctlQueue[i].type # "add-ip6tables"
  BY <1>0, ServedFirst DEF MarksAsked, Serves
<1>6. RulesMarked'
  <2>1. ASSUME NEW e \in Devices, NEW r \in ipRules'[e]
        PROVE  r[2] = tables'[e][r[1]] /\ r[2] # 0
    <3>1. r[1] \in Mods /\ r \in ipRules[e]
      BY <1>1 DEF AgentTypeOK
    <3> QED BY <1>5, <3>1 DEF RulesMarked
  <2>2. ASSUME NEW e \in Devices, NEW m \in Mods, HasRule(e, m), ctlAlive
        PROVE  markRules[e][m] = 1 \/ Lost(e, m)'
    <3>1. ~Unmarked(e, m)
      BY <1>10 DEF Unmarked
    <3>2. CASE Lost(e, m)
      <4>1. tables[e][m] # 0 /\ tables'[e][m] = tables[e][m] /\ number'[e][m] = 0
        BY <1>1, <1>5, <3>2 DEF Lost
      <4>2. \A i \in DOMAIN mail'[e] :
              \/ i \in DOMAIN mail[e] /\ mail'[e][i] = mail[e][i]
              \/ e = d /\ mail'[e][i] = a
        <5>1. mail'[d] = Append(mail[d], a) /\ \A f \in Devices \ {d} : mail'[f] = mail[f]
          BY <1>0, <1>2, ToldOne
        <5>2. mail[d] \in Seq(Answer)
          BY DEF DeviceTypeOK
        <5> HIDE DEF a
        <5> QED BY <1>2, <5>1, <5>2, AppendFacts
      <4>3. e = d => a.num[m] = 0
        BY <4>1 DEF Created, NewOnDevice
      <4>4. \A i \in DOMAIN ctlQueue' : \E j \in DOMAIN ctlQueue : ctlQueue[j] = ctlQueue'[i]
        BY <1>0, ServedFirst
      <4> HIDE DEF a
      <4> QED BY <3>2, <4>1, <4>2, <4>3, <4>4, LostStays
    <3> QED BY <2>2, <3>1, <3>2 DEF RulesMarked
  <2> QED BY <1>1, <1>9, <2>1, <2>2 DEF RulesMarked
<1>11. MarksAsked'
  BY <1>0, <1>10, ServedFirst DEF MarksAsked
<1>7. FlowsNamed'
  <2> SUFFICES ASSUME NEW e \in Devices, NEW m \in Mods
               PROVE  /\ flowObjs[e][m] <= markRules[e][m]
                      /\ \A i \in DOMAIN mail'[e] : Names(mail'[e][i], m) =>
                           /\ flowObjs[e][m] = 0 /\ markRules[e][m] = 1
                           /\ \A j \in DOMAIN mail'[e] : Names(mail'[e][j], m) => i = j
    BY <1>1 DEF FlowsNamed, Names
  <2>1. \A i \in DOMAIN mail'[e] : Names(mail'[e][i], m) =>
          i \in DOMAIN mail[e] /\ Names(mail[e][i], m)
    <3>1. mail'[d] = Append(mail[d], a) /\ \A f \in Devices \ {d} : mail'[f] = mail[f]
      BY <1>0, <1>2, ToldOne
    <3>2. ~Names(a, m)
      BY DEF Names
    <3>3. mail[d] \in Seq(Answer)
      BY DEF DeviceTypeOK
    <3> HIDE DEF a
    <3>4. \A i \in DOMAIN Append(mail[d], a) :
            \/ i \in DOMAIN mail[d] /\ Append(mail[d], a)[i] = mail[d][i]
            \/ Append(mail[d], a)[i] = a
      BY <1>2, <3>3, AppendFacts
    <3> QED BY <3>1, <3>2, <3>4 DEF Names
  <2> QED BY <2>1 DEF FlowsNamed
<1>8. ConfiguredIsMarked'
  <2>1. ASSUME NEW e \in Devices, dpStatus'[e] = "CONFIGURED", NEW m \in Mods
        PROVE  /\ markRules'[e][m] = 1
               /\ { r \in ipRules'[e] : r[1] = m } = {<<m, tables'[e][m]>>}
    <3>1. markRules[e][m] = 1 /\ { r \in ipRules[e] : r[1] = m } = {<<m, tables[e][m]>>}
      BY <1>1, <2>1 DEF ConfiguredIsMarked
    <3>2. tables[e][m] # 0
      BY <3>1 DEF RulesMarked
    <3> QED BY <1>1, <1>5, <3>1, <3>2
  <2> QED BY <2>1 DEF ConfiguredIsMarked
<1> QED BY <1>3, <1>4, <1>6, <1>7, <1>8, <1>11

\* The mark of a flow leads to the one table of its module.
LEMMA OneRule ==
  ASSUME AgentTypeOK, RulesMarked, NEW d \in Devices, NEW m \in Mods, HasRule(d, m)
  PROVE  { r \in ipRules[d] : r[1] = m } = {<<m, tables[d][m]>>}
<1> SUFFICES ASSUME NEW r \in ipRules[d], r[1] = m PROVE r = <<m, tables[d][m]>>
  BY DEF HasRule
<1>1. r \in Mods \X Nat
  BY DEF AgentTypeOK
<1>2. r[2] = tables[d][m]
  BY DEF RulesMarked
<1> QED BY <1>1, <1>2

LEMMA HeadReplaced ==
  ASSUME NEW S, NEW s \in Seq(S), s # <<>>, NEW e \in S
  PROVE  /\ DOMAIN (<<e>> \o Tail(s)) = DOMAIN s
         /\ 1 \in DOMAIN s /\ s[1] = Head(s) /\ (<<e>> \o Tail(s))[1] = e
         /\ \A i \in DOMAIN (<<e>> \o Tail(s)) :
              \/ i = 1 /\ (<<e>> \o Tail(s))[i] = e
              \/ i # 1 /\ i \in DOMAIN s /\ (<<e>> \o Tail(s))[i] = s[i]
  OBVIOUS

\* The first call: the flows that are not marked yet get their rules.
LEMMA CreateRulesKeeps ==
  ASSUME DpInv, TypeOK', NEW d \in Devices, CreateRules(d)
  PROVE  DpInv'
<1> USE Parts DEF DpInv
<1> DEFINE num == Head(ctlQueue).num
           new == MarkedNow(d, num)
           r == [type |-> "add-ip6tables", dev |-> d, mods |-> new]
<1>0. /\ Serves("create-flowmark-rules", d) /\ ~LacksTable /\ ctlAlive
      /\ ctlQueue' = <<r>> \o Tail(ctlQueue) /\ FlowMark(d, num)
  BY DEF CreateRules, Serves
<1>1. UNCHANGED <<tables, lastRoute, markRules, ctlAlive, dpStatus, mail, number, flowObjs>>
  BY DEF CreateRules, deviceVars
<1>2. num \in [Mods -> Nat] /\ Head(ctlQueue).type = "create-flowmark-rules"
  BY <1>0, ServesType DEF Serves
<1>3. \A m \in Mods : num[m] = tables[d][m] /\ tables[d][m] # 0
  <2>1. Known(d, num)
    BY <1>0, <1>2, ServedFirst, ServesType DEF NumbersKnown
  <2>2. \A m \in Mods : num[m] # 0
    BY <1>0, <1>2 DEF LacksTable
  <2> QED BY <2>1, <2>2 DEF Known
<1>4. new = { m \in Mods : ~HasRule(d, m) } /\ new \in SUBSET Mods
  BY <1>3 DEF MarkedNow, HasRule
<1>5. /\ 1 \in DOMAIN ctlQueue' /\ ctlQueue'[1] = r
      /\ \A i \in DOMAIN ctlQueue' :
           \/ i = 1 /\ ctlQueue'[i] = r
           \/ i # 1 /\ i \in DOMAIN ctlQueue /\ ctlQueue'[i] = ctlQueue[i]
  <2>1. ctlQueue \in Seq(Request) /\ ctlQueue # <<>>
    BY <1>0 DEF ControlTypeOK, Serves
  <2>2. r \in Request
    BY <1>4, RequestType
  <2> HIDE DEF r
  <2> QED BY <1>0, <2>1, <2>2, HeadReplaced
<1>6. r.type = "add-ip6tables" /\ r.dev = d /\ r.mods = new
  OBVIOUS
<1>7. \A i \in DOMAIN ctlQueue : ctlQueue[i].type # "add-ip6tables"
  BY <1>0, <1>2, ServedFirst DEF MarksAsked
<1>8. /\ ipRules'[d] = ipRules[d] \cup { <<m, tables[d][m]>> : m \in Mods }
      /\ \A e \in Devices \ {d} : ipRules'[e] = ipRules[e]
  <2>1. { <<m, num[m]>> : m \in Mods } = { <<m, tables[d][m]>> : m \in Mods }
    BY <1>3
  <2> HIDE DEF num
  <2>2. ipRules' = [ipRules EXCEPT ![d] = ipRules[d] \cup { <<m, num[m]>> : m \in Mods }]
    BY <1>0 DEF FlowMark
  <2> QED BY <2>1, <2>2 DEF AgentTypeOK
<1>9. \A m \in Mods : /\ HasRule(d, m)'
                      /\ markRules[d][m] = IF m \in new THEN 0 ELSE 1
  <2> SUFFICES ASSUME NEW m \in Mods
               PROVE  HasRule(d, m)' /\ markRules[d][m] = IF m \in new THEN 0 ELSE 1
    OBVIOUS
  <2>1. HasRule(d, m)'
    BY <1>1, <1>8 DEF HasRule
  <2>2. ~Unmarked(d, m)
    BY <1>7 DEF Unmarked
  <2>3. ~Lost(d, m)
    BY <1>0, <1>2, <1>3, ServedFirst DEF Lost, Serves
  <2> QED BY <1>0, <1>4, <2>1, <2>2, <2>3 DEF RulesMarked
<1> HIDE DEF num, new, r
<1>10. Numbered'
  BY <1>1 DEF Numbered
<1>11. NumbersKnown'
  BY <1>1, <1>5, <1>6 DEF NumbersKnown, Known
<1>12. MarksAsked'
  <2> SUFFICES ASSUME NEW i \in DOMAIN ctlQueue', ctlQueue'[i].type = "add-ip6tables"
               PROVE  i = 1 /\ \A m \in Mods :
                        /\ <<m, tables'[ctlQueue'[i].dev][m]>> \in
                             ipRules'[ctlQueue'[i].dev]
                        /\ markRules'[ctlQueue'[i].dev][m] =
                             IF m \in ctlQueue'[i].mods THEN 0 ELSE 1
    BY DEF MarksAsked, HasRule
  <2>1. i = 1 /\ ctlQueue'[i] = r
    BY <1>5, <1>7
  <2>2. \A m \in Mods : <<m, tables'[d][m]>> \in ipRules'[d]
    BY <1>9 DEF HasRule
  <2> QED BY <1>1, <1>6, <1>9, <2>1, <2>2
<1>13. RulesMarked'
  <2>1. ASSUME NEW e \in Devices, NEW q \in ipRules'[e]
        PROVE  q[2] = tables'[e][q[1]] /\ q[2] # 0
    <3>1. CASE q \in ipRules[e]
      BY <1>1, <3>1 DEF RulesMarked
    <3>2. CASE e = d /\ q \in { <<m, tables[d][m]>> : m \in Mods }
      BY <1>1, <1>3, <3>2
    <3> QED BY <1>8, <2>1, <3>1, <3>2
  <2>2. ASSUME NEW m \in Mods
        PROVE  markRules[d][m] = 1 \/ Unmarked(d, m)'
    <3>1. m \in new => Unmarked(d, m)'
      BY <1>5, <1>6 DEF Unmarked
    <3> QED BY <1>9, <3>1
  <2>3. ASSUME NEW e \in Devices \ {d}, NEW m \in Mods, HasRule(e, m)'
        PROVE  HasRule(e, m) /\ (markRules[e][m] = 1 \/ Lost(e, m)')
    <3>1. HasRule(e, m)
      BY <1>1, <1>8, <2>3 DEF HasRule
    <3>2. ~Unmarked(e, m)
      BY <1>7 DEF Unmarked
    <3>3. CASE Lost(e, m)
      <4>1. number'[e][m] = 0
        BY <1>1, <3>3 DEF Lost
      <4> QED BY <1>1, <1>5, <1>6, <3>1, <3>3, <4>1, LostStays
    <3> QED BY <1>0, <3>1, <3>2, <3>3 DEF RulesMarked
  <2>4. ASSUME NEW e \in Devices, NEW m \in Mods
        PROVE  /\ markRules[e][m] \in {0, 1}
               /\ markRules[e][m] = 1 => HasRule(e, m)'
    <3>1. HasRule(e, m) => HasRule(e, m)'
      BY <1>1, <1>8 DEF HasRule
    <3> QED BY <3>1 DEF RulesMarked
  <2> QED BY <1>1, <2>1, <2>2, <2>3, <2>4 DEF RulesMarked
<1>14. FlowsNamed'
  BY <1>1 DEF FlowsNamed
<1>15. ConfiguredIsMarked'
  <2>1. ASSUME NEW e \in Devices, dpStatus[e] = "CONFIGURED" PROVE ipRules'[e] = ipRules[e]
    <3>1. \A m \in Mods : <<m, tables[e][m]>> \in ipRules[e]
      BY <2>1 DEF ConfiguredIsMarked
    <3> QED BY <1>8, <3>1
  <2> QED BY <1>1, <2>1 DEF ConfiguredIsMarked
<1> QED BY <1>10, <1>11, <1>12, <1>13, <1>14, <1>15

\* The second call: d is told which flows are marked now.
LEMMA CreateMarksKeeps ==
  ASSUME DpInv, TypeOK', NEW d \in Devices, CreateMarks(d)
  PROVE  DpInv'
<1> USE Parts DEF DpInv
<1> DEFINE new == Head(ctlQueue).mods
           a == [type |-> "dp-flowmarks", mods |-> new]
<1>0. /\ Serves("add-ip6tables", d) /\ ctlQueue' = Tail(ctlQueue)
      /\ AddIp6tableRule(d, new) /\ Tell(d, a)
  BY DEF CreateMarks
<1>1. UNCHANGED <<tables, lastRoute, ipRules, ctlAlive, number, flowObjs>>
  BY DEF CreateMarks
<1>2. new \in SUBSET Mods /\ Head(ctlQueue).type = "add-ip6tables" /\ Head(ctlQueue).dev = d
  BY <1>0, ServesType DEF Serves
<1>3. a \in Answer
  BY <1>2, AnswerType
<1>4. \A m \in Mods : HasRule(d, m) /\ markRules[d][m] = IF m \in new THEN 0 ELSE 1
  BY <1>0, <1>2, ServedFirst DEF MarksAsked
<1>5. \A i \in DOMAIN ctlQueue' :
        /\ ctlQueue'[i].type # "add-ip6tables"
        /\ \E j \in DOMAIN ctlQueue : ctlQueue[j] = ctlQueue'[i]
  <2>1. \A i \in DOMAIN Tail(ctlQueue) : i + 1 \in DOMAIN ctlQueue /\ i + 1 # 1
                                         /\ ctlQueue[i + 1] = Tail(ctlQueue)[i]
    <3>1. ctlQueue \in Seq(Request) /\ ctlQueue # <<>>
      BY <1>0 DEF ControlTypeOK, Serves
    <3> QED BY <3>1
  <2> QED BY <1>0, <2>1 DEF MarksAsked
<1>6. /\ \A m \in Mods : markRules'[d][m] = 1
      /\ \A e \in Devices \ {d} : markRules'[e] = markRules[e]
  <2> HIDE DEF new
  <2>1. markRules' = [markRules EXCEPT ![d] =
                        [m \in Mods |-> markRules[d][m] + IF m \in new THEN 1 ELSE 0]]
    BY <1>0 DEF AddIp6tableRule
  <2>2. markRules \in [Devices -> [Mods -> Nat]]
    BY DEF AgentTypeOK
  <2> QED BY <1>4, <2>1, <2>2
<1>7. /\ mail'[d] = Append(mail[d], a) /\ \A f \in Devices \ {d} : mail'[f] = mail[f]
      /\ \A i \in DOMAIN Append(mail[d], a) :
           \/ i \in DOMAIN mail[d] /\ Append(mail[d], a)[i] = mail[d][i]
           \/ i = Len(mail[d]) + 1 /\ Append(mail[d], a)[i] = a
  <2>1. mail[d] \in Seq(Answer)
    BY DEF DeviceTypeOK
  <2> HIDE DEF a
  <2> QED BY <1>0, <1>3, <2>1, ToldOne, AppendFacts
<1>8. /\ a.type = "dp-flowmarks"
      /\ \A m \in Mods : Names(a, m) <=> m \in new
  BY DEF Names
<1> HIDE DEF new, a
<1>9. Numbered' /\ MarksAsked'
  BY <1>1, <1>5 DEF Numbered, MarksAsked
<1>10. \A e \in Devices : \A i \in DOMAIN mail'[e] : mail'[e][i].type = "dp-tables" =>
         \E j \in DOMAIN mail[e] : mail[e][j] = mail'[e][i]
  BY <1>7, <1>8
<1>11. NumbersKnown'
  BY <1>1, <1>5, <1>10 DEF NumbersKnown, Known
<1>12. RulesMarked'
  <2>1. ASSUME NEW e \in Devices \ {d}, NEW m \in Mods, HasRule(e, m), ctlAlive
        PROVE  markRules[e][m] = 1 \/ Lost(e, m)'
    <3>1. ~Unmarked(e, m)
      BY <1>0, <1>2, ServedFirst DEF MarksAsked, Unmarked
    <3>2. CASE Lost(e, m)
      BY <1>1, <1>5, <1>10, <3>2, LostStays DEF Lost
    <3> QED BY <2>1, <3>1, <3>2 DEF RulesMarked
  <2> QED BY <1>1, <1>4, <1>6, <2>1 DEF RulesMarked, HasRule
<1>13. FlowsNamed'
  <2> SUFFICES ASSUME NEW e \in Devices, NEW m \in Mods
               PROVE  /\ flowObjs[e][m] <= markRules'[e][m]
                      /\ \A i \in DOMAIN mail'[e] : Names(mail'[e][i], m) =>
                           /\ flowObjs[e][m] = 0 /\ markRules'[e][m] = 1
                           /\ \A j \in DOMAIN mail'[e] : Names(mail'[e][j], m) => i = j
    BY <1>1 DEF FlowsNamed, Names
  <2>1. CASE e # d
    BY <1>6, <1>7, <2>1 DEF FlowsNamed
  <2>2. CASE e = d /\ m \notin new
    <3>1. \A j \in DOMAIN mail'[d] : Names(mail'[d][j], m) =>
            j \in DOMAIN mail[d] /\ Names(mail[d][j], m)
      BY <1>7, <1>8, <2>2
    <3>2. markRules'[d][m] = markRules[d][m]
      BY <1>4, <1>6, <2>2
    <3> QED BY <2>2, <3>1, <3>2 DEF FlowsNamed
  <2>3. CASE e = d /\ m \in new
    <3>1. markRules[d][m] = 0
      BY <1>4, <2>3
    <3>2. flowObjs[d][m] = 0 /\ \A j \in DOMAIN mail[d] : ~Names(mail[d][j], m)
      BY <3>1 DEF FlowsNamed, DeviceTypeOK
    <3>3. \A j \in DOMAIN mail'[d] : Names(mail'[d][j], m) => j = Len(mail[d]) + 1
      BY <1>7, <3>2
    <3> QED BY <1>6, <2>3, <3>2, <3>3
  <2> QED BY <2>1, <2>2, <2>3
<1>14. ConfiguredIsMarked'
  <2>1. ASSUME NEW e \in Devices, dpStatus'[e] = "CONFIGURED", NEW m \in Mods
        PROVE  /\ markRules'[e][m] = 1
               /\ { r \in ipRules[e] : r[1] = m } = {<<m, tables[e][m]>>}
    <3>1. CASE e = d
      BY <1>4, <1>6, <3>1, OneRule
    <3>2. CASE e # d
      <4>1. dpStatus[e] = "CONFIGURED"
        BY <2>1, <3>2 DEF CreateMarks, ControlTypeOK
      <4> QED BY <1>6, <3>2, <4>1 DEF ConfiguredIsMarked
    <3> QED BY <3>1, <3>2
  <2> QED BY <1>1, <2>1 DEF ConfiguredIsMarked
<1> QED BY <1>9, <1>11, <1>12, <1>13, <1>14

\* The device learns numbers, and asks for the marks with those it knows.
LEMMA ProcessCreateDpTableKeeps ==
  ASSUME DpInv, TypeOK', NEW d \in Devices, ProcessCreateDpTable(d)
  PROVE  DpInv'
<1> USE Parts DEF DpInv
<1> DEFINE a == Head(mail[d])
           r == [type |-> "create-flowmark-rules", dev |-> d, num |-> number'[d]]
<1>0. MailIs(d, "dp-tables") /\ Read(d) /\ ctlQueue' = Append(ctlQueue, r)
  BY DEF ProcessCreateDpTable, Ask
<1>1. UNCHANGED <<tables, lastRoute, ipRules, markRules, ctlAlive, dpStatus, flowObjs>>
  BY DEF ProcessCreateDpTable, agentVars
<1>2. \A m \in Mods : a.num[m] \in {0, tables[d][m]}
  BY <1>0, ReadFirst DEF NumbersKnown, Known, MailIs
<1>3. \A e \in Devices, m \in Mods : number'[e][m] \in {0, tables[e][m]}
  <2>1. ASSUME NEW m \in Mods PROVE number'[d][m] \in {0, tables[d][m]}
    <3>1. number'[d][m] = IF number[d][m] = 0 THEN a.num[m] ELSE number[d][m]
      BY DEF ProcessCreateDpTable, DeviceTypeOK
    <3> QED BY <1>2, <3>1 DEF NumbersKnown, Known
  <2>2. \A e \in Devices \ {d} : number'[e] = number[e]
    BY DEF ProcessCreateDpTable, DeviceTypeOK
  <2> QED BY <2>1, <2>2 DEF NumbersKnown, Known
<1>4. mail'[d] = Tail(mail[d]) /\ \A e \in Devices \ {d} : mail'[e] = mail[e]
  BY <1>0 DEF Read, DeviceTypeOK
<1>5. NumbersKnown'
  <2>1. ASSUME NEW i \in DOMAIN ctlQueue', ctlQueue'[i].type = "create-flowmark-rules", NEW m \in Mods
        PROVE  ctlQueue'[i].num[m] \in {0, tables[ctlQueue'[i].dev][m]}
    <3>1. ctlQueue \in Seq(Request)
      BY DEF ControlTypeOK
    <3>2. number'[d] \in [Mods -> Nat]
      BY DEF DeviceTypeOK
    <3>3. r \in Request
      BY <3>2, RequestType
    <3>4. r.dev = d /\ r.num = number'[d]
      OBVIOUS
    <3> HIDE DEF r
    <3>5. \/ i \in DOMAIN ctlQueue /\ ctlQueue'[i] = ctlQueue[i]
          \/ ctlQueue'[i] = r
      BY <1>0, <2>1, <3>1, <3>3, AppendFacts
    <3> QED BY <1>3, <2>1, <3>4, <3>5 DEF NumbersKnown, Known
  <2>2. ASSUME NEW e \in Devices, NEW i \in DOMAIN mail'[e], mail'[e][i].type = "dp-tables", NEW m \in Mods
        PROVE  mail'[e][i].num[m] \in {0, tables[e][m]}
    <3>1. \E j \in DOMAIN mail[e] : mail[e][j] = mail'[e][i]
      <4>1. CASE e = d
        <5>1. i + 1 \in DOMAIN mail[d] /\ mail[d][i + 1] = mail'[d][i]
          <6>1. \A j \in DOMAIN Tail(mail[d]) :
                  j + 1 \in DOMAIN mail[d] /\ mail[d][j + 1] = Tail(mail[d])[j]
            BY <1>0, ReadFirst
          <6>2. i \in DOMAIN Tail(mail[d]) /\ mail'[d][i] = Tail(mail[d])[i]
            BY <1>4, <4>1
          <6> QED BY <6>1, <6>2
        <5> QED BY <4>1, <5>1
      <4>2. CASE e # d
        BY <1>4, <4>2
      <4> QED BY <4>1, <4>2
    <3> QED BY <2>2, <3>1 DEF NumbersKnown, Known
  <2> QED BY <1>1, <1>3, <2>1, <2>2 DEF NumbersKnown, Known
<1>6. FlowsNamed'
  <2> SUFFICES ASSUME NEW e \in Devices, NEW m \in Mods
               PROVE  /\ flowObjs[e][m] <= markRules[e][m]
                      /\ \A i \in DOMAIN mail'[e] : Names(mail'[e][i], m) =>
                           /\ flowObjs[e][m] = 0 /\ markRules[e][m] = 1
                           /\ \A j \in DOMAIN mail'[e] : Names(mail'[e][j], m) => i = j
    <3>1. flowObjs' = flowObjs /\ markRules' = markRules
      BY <1>1
    <3> QED BY <3>1 DEF FlowsNamed, Names
  <2>1. CASE e # d
    BY <1>4, <2>1 DEF FlowsNamed
  <2>2. CASE e = d
    <3>1. \A i \in DOMAIN mail'[d] :
            i \in Nat /\ i + 1 \in DOMAIN mail[d] /\ mail[d][i + 1] = mail'[d][i]
      BY <1>0, <1>4, ReadFirst
    <3>2. ASSUME NEW i \in DOMAIN mail'[d], NEW j \in DOMAIN mail'[d],
                 Names(mail'[d][i], m), Names(mail'[d][j], m)
          PROVE  i = j
      <4>1. i + 1 = j + 1
        BY <3>1, <3>2 DEF FlowsNamed
      <4> QED BY <3>1, <4>1
    <3> QED BY <2>2, <3>1, <3>2 DEF FlowsNamed
  <2> QED BY <2>1, <2>2
<1>7. /\ \A i \in DOMAIN ctlQueue' : \/ i \in DOMAIN ctlQueue /\ ctlQueue'[i] = ctlQueue[i]
                                    \/ ctlQueue'[i] = r
      /\ \A i \in DOMAIN ctlQueue : i \in DOMAIN ctlQueue' /\ ctlQueue'[i] = ctlQueue[i]
  <2>1. ctlQueue \in Seq(Request)
    BY DEF ControlTypeOK
  <2>2. r \in Request
    BY RequestType DEF DeviceTypeOK
  <2> HIDE DEF r
  <2> QED BY <1>0, <2>1, <2>2, AppendFacts
<1>8. \A e \in Devices, m \in Mods : HasRule(e, m)' <=> HasRule(e, m)
  BY <1>1 DEF HasRule
<1>9. RulesMarked'
  <2>1. ASSUME NEW e \in Devices, NEW m \in Mods, HasRule(e, m), ctlAlive
        PROVE  markRules[e][m] = 1 \/ Unmarked(e, m)' \/ Lost(e, m)'
    <3>1. CASE Unmarked(e, m)
      BY <1>7, <3>1 DEF Unmarked
    <3>2. CASE Lost(e, m)
      <4>1. \A i \in DOMAIN mail'[e] : \E j \in DOMAIN mail[e] : mail[e][j] = mail'[e][i]
        BY <1>0, <1>4, ReadOthers
      <4>2. number'[e][m] = 0
        <5>1. CASE e = d
          <6>1. number[d][m] = 0
            BY <3>2, <5>1 DEF Lost
          <6>2. a.num[m] = 0
            BY <1>0, <3>2, <5>1, ReadFirst DEF Lost, MailIs
          <6> QED BY <5>1, <6>1, <6>2 DEF ProcessCreateDpTable, DeviceTypeOK
        <5>2. CASE e # d
          BY <3>2, <5>2 DEF Lost, ProcessCreateDpTable, DeviceTypeOK
        <5> QED BY <5>1, <5>2
      <4>3. r.dev = e => r.num[m] = 0
        BY <4>2
      <4> HIDE DEF r
      <4> QED BY <1>1, <1>7, <3>2, <4>1, <4>2, <4>3, LostStays
    <3> QED BY <2>1, <3>1, <3>2 DEF RulesMarked
  <2> QED BY <1>1, <1>8, <2>1 DEF RulesMarked
<1>10. MarksAsked'
  <2> SUFFICES ASSUME NEW i \in DOMAIN ctlQueue', ctlQueue'[i].type = "add-ip6tables"
               PROVE  i = 1 /\ \A m \in Mods :
                        /\ <<m, tables'[ctlQueue'[i].dev][m]>> \in
                             ipRules'[ctlQueue'[i].dev]
                        /\ markRules'[ctlQueue'[i].dev][m] =
                             IF m \in ctlQueue'[i].mods THEN 0 ELSE 1
    BY DEF MarksAsked, HasRule
  <2>1. i \in DOMAIN ctlQueue /\ ctlQueue'[i] = ctlQueue[i]
    BY <1>7
  <2> QED BY <1>1, <2>1 DEF MarksAsked, HasRule
<1> QED BY <1>1, <1>5, <1>6, <1>9, <1>10 DEF Numbered, ConfiguredIsMarked

\* The device makes a flow object for each flow that the answer names.
LEMMA ProcessCreateFlowObjectsKeeps ==
  ASSUME DpInv, TypeOK', NEW d \in Devices, ProcessCreateFlowObjects(d)
  PROVE  DpInv'
<1> USE Parts DEF DpInv
<1> DEFINE a == Head(mail[d])
<1>0. MailIs(d, "dp-flowmarks") /\ Read(d)
  BY DEF ProcessCreateFlowObjects
<1>1. UNCHANGED <<tables, lastRoute, ipRules, markRules, ctlQueue, ctlAlive, dpStatus,
                  number>>
  BY DEF ProcessCreateFlowObjects, agentVars, controlVars
<1>2. mail'[d] = Tail(mail[d]) /\ \A e \in Devices \ {d} : mail'[e] = mail[e]
  BY <1>0 DEF Read, DeviceTypeOK
<1>3. NumbersKnown'
  <2>1. ASSUME NEW e \in Devices, NEW i \in DOMAIN mail'[e], mail'[e][i].type = "dp-tables", NEW m \in Mods
        PROVE  mail'[e][i].num[m] \in {0, tables[e][m]}
    <3>1. \E j \in DOMAIN mail[e] : mail[e][j] = mail'[e][i]
      <4>1. CASE e = d
        <5>1. i + 1 \in DOMAIN mail[d] /\ mail[d][i + 1] = mail'[d][i]
          <6>1. \A j \in DOMAIN Tail(mail[d]) :
                  j + 1 \in DOMAIN mail[d] /\ mail[d][j + 1] = Tail(mail[d])[j]
            BY <1>0, ReadFirst
          <6>2. i \in DOMAIN Tail(mail[d]) /\ mail'[d][i] = Tail(mail[d])[i]
            BY <1>2, <4>1
          <6> QED BY <6>1, <6>2
        <5> QED BY <4>1, <5>1
      <4>2. CASE e # d
        BY <1>2, <4>2
      <4> QED BY <4>1, <4>2
    <3> QED BY <2>1, <3>1 DEF NumbersKnown, Known
  <2> QED BY <1>1, <2>1 DEF NumbersKnown, Known
<1>4. FlowsNamed'
  <2> SUFFICES ASSUME NEW e \in Devices, NEW m \in Mods
               PROVE  /\ flowObjs'[e][m] <= markRules[e][m]
                      /\ \A i \in DOMAIN mail'[e] : Names(mail'[e][i], m) =>
                           /\ flowObjs'[e][m] = 0 /\ markRules[e][m] = 1
                           /\ \A j \in DOMAIN mail'[e] : Names(mail'[e][j], m) => i = j
    BY <1>1 DEF FlowsNamed, Names
  <2>1. CASE e # d
    <3>1. flowObjs'[e] = flowObjs[e]
      BY <2>1 DEF ProcessCreateFlowObjects, DeviceTypeOK
    <3> QED BY <1>2, <2>1, <3>1 DEF FlowsNamed
  <2>2. CASE e = d
    <3>1. \A i \in DOMAIN mail'[d] :
            i \in Nat /\ i + 1 \in DOMAIN mail[d] /\ mail[d][i + 1] = mail'[d][i]
      BY <1>0, <1>2, ReadFirst
    <3>2. 1 \in DOMAIN mail[d] /\ mail[d][1] = a /\ a.type = "dp-flowmarks"
      BY <1>0, ReadFirst DEF MailIs
    <3>3. flowObjs'[d][m] = flowObjs[d][m] + IF m \in a.mods THEN 1 ELSE 0
      BY DEF ProcessCreateFlowObjects, DeviceTypeOK
    <3>4. Names(a, m) <=> m \in a.mods
      BY <3>2 DEF Names
    <3>5. CASE m \in a.mods
      <4>1. flowObjs[d][m] = 0 /\ markRules[d][m] = 1
        BY <3>2, <3>4, <3>5 DEF FlowsNamed
      <4>2. ASSUME NEW i \in DOMAIN mail'[d], Names(mail'[d][i], m) PROVE FALSE
        <5>1. i + 1 = 1
          BY <3>1, <3>2, <3>4, <3>5, <4>2 DEF FlowsNamed
        <5>2. i \in 1 .. Len(mail'[d])
          BY DEF DeviceTypeOK
        <5> QED BY <3>1, <5>1, <5>2
      <4> QED BY <2>2, <3>3, <3>5, <4>1, <4>2
    <3>6. CASE m \notin a.mods
      <4>1. flowObjs'[d][m] = flowObjs[d][m]
        BY <3>3, <3>6 DEF DeviceTypeOK
      <4>2. ASSUME NEW i \in DOMAIN mail'[d], NEW j \in DOMAIN mail'[d],
                   Names(mail'[d][i], m), Names(mail'[d][j], m)
            PROVE  i = j
        <5>1. i + 1 = j + 1
          BY <3>1, <4>2 DEF FlowsNamed
        <5> QED BY <3>1, <5>1
      <4> QED BY <2>2, <3>1, <4>1, <4>2 DEF FlowsNamed
    <3> QED BY <3>5, <3>6
  <2> QED BY <2>1, <2>2
<1>5. RulesMarked'
  <2>1. ASSUME NEW e \in Devices, NEW m \in Mods, HasRule(e, m), ctlAlive
        PROVE  markRules[e][m] = 1 \/ Unmarked(e, m)' \/ Lost(e, m)'
    <3>1. CASE Unmarked(e, m)
      BY <1>1, <3>1 DEF Unmarked
    <3>2. CASE Lost(e, m)
      <4>1. \A i \in DOMAIN mail'[e] : \E j \in DOMAIN mail[e] : mail[e][j] = mail'[e][i]
        BY <1>0, <1>2, ReadOthers
      <4> QED BY <1>1, <3>2, <4>1, LostStays DEF Lost
    <3> QED BY <2>1, <3>1, <3>2 DEF RulesMarked
  <2> QED BY <1>1, <2>1 DEF RulesMarked, HasRule
<1>6. MarksAsked'
  BY <1>1 DEF MarksAsked, HasRule
<1> QED BY <1>1, <1>3, <1>4, <1>5, <1>6 DEF Numbered, ConfiguredIsMarked

\* A new controller knows nothing yet; the dataplanes keep what they have.
LEMMA RestartKeeps ==
  ASSUME DpInv, TypeOK', RestartAll
  PROVE  DpInv'
<1> USE Parts DEF DpInv
<1>0. /\ UNCHANGED <<tables, lastRoute, ipRules, markRules>>
      /\ number' = Start.number /\ flowObjs' = Start.number /\ ctlQueue' = Start.queue
      /\ mail' = [d \in Devices |-> <<>>]
      /\ dpStatus' = [d \in Devices |-> "NOT CONNECTED"]
  BY DEF RestartAll, Restart, agentVars
<1>1. NumbersKnown'
  <2>1. \A i \in DOMAIN ctlQueue' : ctlQueue'[i].type # "create-flowmark-rules"
    BY <1>0 DEF Start
  <2>2. \A d \in Devices, m \in Mods : number'[d][m] = 0
    BY <1>0 DEF Start
  <2>3. \A d \in Devices : mail'[d] = <<>> /\ DOMAIN mail'[d] = {}
    BY <1>0, NoAnswers
  <2> QED BY <2>1, <2>2, <2>3 DEF NumbersKnown, Known
<1>2. FlowsNamed'
  <2>1. \A d \in Devices : mail'[d] = <<>> /\ DOMAIN mail'[d] = {}
    BY <1>0, NoAnswers
  <2>2. \A d \in Devices, m \in Mods : flowObjs'[d][m] = 0 /\ markRules'[d][m] \in Nat
    BY <1>0 DEF Start, AgentTypeOK
  <2> QED BY <2>1, <2>2 DEF FlowsNamed
<1>3. ConfiguredIsMarked'
  BY <1>0 DEF ConfiguredIsMarked
<1>4. RulesMarked'
  <2>1. ASSUME NEW e \in Devices, NEW m \in Mods, HasRule(e, m) PROVE Lost(e, m)'
    <3>1. tables[e][m] # 0
      BY <2>1 DEF RulesMarked, HasRule
    <3>2. mail'[e] = <<>> /\ DOMAIN mail'[e] = {}
      BY <1>0, NoAnswers
    <3>3. \A i \in DOMAIN ctlQueue' : ctlQueue'[i].type # "create-flowmark-rules"
      BY <1>0 DEF Start
    <3>4. number'[e][m] = 0
      BY <1>0 DEF Start
    <3> QED BY <1>0, <3>1, <3>2, <3>3, <3>4 DEF Lost
  <2> QED BY <1>0, <2>1 DEF RulesMarked, HasRule
<1>5. MarksAsked'
  <2>1. \A i \in DOMAIN ctlQueue' : ctlQueue'[i].type # "add-ip6tables"
    BY <1>0 DEF Start
  <2> QED BY <2>1 DEF MarksAsked
<1> QED BY <1>0, <1>1, <1>2, <1>3, <1>4, <1>5 DEF Numbered
-----------------------------------------------------------------------------
LEMMA DpInit == Init => DpInv
<1> SUFFICES ASSUME Init PROVE DpInv
  OBVIOUS
<1> USE DEF Init, ProvInit, AgentInit
<1>1. Numbered
  BY DEF Numbered
<1>7. RulesMarked
  <2>1. \A d \in Devices : ipRules[d] = {}
    <3>1. ipRules = [d \in Devices |-> {}]
      OBVIOUS
    <3> HIDE DEF Init, ProvInit, AgentInit
    <3> QED BY <3>1
  <2>2. \A d \in Devices, m \in Mods : markRules[d][m] = 0
    <3>1. markRules = [d \in Devices |-> [m \in Mods |-> 0]]
      OBVIOUS
    <3> HIDE DEF Init, ProvInit, AgentInit
    <3> QED BY <3>1
  <2> HIDE DEF Init, ProvInit, AgentInit
  <2> QED BY <2>1, <2>2 DEF RulesMarked, HasRule
<1>6. MarksAsked
  <2>1. \A i \in DOMAIN ctlQueue : ctlQueue[i].type # "add-ip6tables"
    BY DEF Start
  <2> QED BY <2>1 DEF MarksAsked
<1>2. \A d \in Devices : mail[d] = <<>> /\ DOMAIN mail[d] = {}
  BY NoAnswers
<1>3. NumbersKnown
  <2>1. \A i \in DOMAIN ctlQueue : ctlQueue[i].type # "create-flowmark-rules"
    BY DEF Start
  <2> QED BY <1>2, <2>1 DEF NumbersKnown, Known, Start
<1>4. FlowsNamed
  <2>1. \A d \in Devices, m \in Mods : flowObjs[d][m] = 0 /\ markRules[d][m] = 0
    BY DEF Start
  <2> HIDE DEF Init, ProvInit, AgentInit
  <2>2. \A d \in Devices, m \in Mods : flowObjs[d][m] <= markRules[d][m]
    BY <2>1
  <2> QED BY <1>2, <2>2 DEF FlowsNamed
<1>5. ConfiguredIsMarked
  BY DEF ConfiguredIsMarked
<1> QED BY <1>1, <1>3, <1>4, <1>5, <1>6, <1>7, TypeInit DEF DpInv

LEMMA DpNext == DpInv /\ [Next]_vars => DpInv'
<1> SUFFICES ASSUME DpInv, [Next]_vars PROVE DpInv'
  OBVIOUS
<1>0. TypeOK /\ TypeOK'
  BY TypeNext DEF DpInv
<1>1. ASSUME NEW d \in Devices, ControllerProvision(d) PROVE DpInv'
  BY <1>0, <1>1, ControllerBystands, BystanderKeeps, CreateTablesKeeps, CreateRulesKeeps,
     CreateMarksKeeps
  DEF ControllerProvision
<1>2. ASSUME NEW d \in Devices, DeviceProvision(d) PROVE DpInv'
  BY <1>0, <1>2, DeviceBystands, BystanderKeeps, ProcessCreateDpTableKeeps,
     ProcessCreateFlowObjectsKeeps DEF DeviceProvision
<1>3. CASE RestartAll
  BY <1>0, <1>3, RestartKeeps
<1>4. CASE \/ ProcessPar
           \/ \E d \in Devices : \/ UpdateDatapath(d) \/ UpdateDatapathFails(d)
                                 \/ ProcessParUpdate(d) \/ ParUpdateIgnored(d)
                                 \/ ProcessParUpdateFails(d)
  BY <1>0, <1>4, SteeringBystands, BystanderKeeps
<1>5. ASSUME NEW m \in Mods, ModuleStep(m) PROVE DpInv'
  BY <1>0, <1>5, ModuleBystands, BystanderKeeps
<1>6. CASE ProvEnvironment
  BY <1>0, <1>6, EnvironmentBystands, BystanderKeeps
<1>7. CASE ExportStep
  BY <1>0, <1>7, ExportBystands, BystanderKeeps
<1>8. CASE \/ DelaysChange
           \/ \E d \in Devices : Negotiates(d)
           \/ \E n \in Nodes : Announce(n) \/ Withdraw(n)
           \/ UNCHANGED vars
  BY <1>0, <1>8, OthersBystand, BystanderKeeps
<1> QED
  BY <1>1, <1>2, <1>3, <1>4, <1>5, <1>6, <1>7, <1>8
  DEF Next, ControllerStep, DeviceStep, DecideStep

LEMMA DpInvariant == Spec => []DpInv
BY DpInit, DpNext, PTL DEF Spec

(***************************************************************************)
(* Attempts that overlap, answers that come late and controllers that are  *)
(* started again never leave a device process with the number of another   *)
(* module's table, nor two modules with one table (CreateRouteTable in the *)
(* manager, process_create_dp_table in Headend.py and Peer.py).            *)
(***************************************************************************)
THEOREM NumbersAlwaysAgree == Spec => []NumbersAgree
<1>1. DpInv => NumbersAgree
  BY DEF DpInv, Numbered, NumbersKnown, Known, NumbersAgree
<1> QED BY <1>1, DpInvariant, PTL

(***************************************************************************)
(* However often the marks of a device are asked for, the rules that mark  *)
(* the flow of a module exist once and the device process has at most one  *)
(* flow object for them (FlowMark and AddIp6tableRule in the manager,      *)
(* process_create_flow_objects in Headend.py and Peer.py).                 *)
(***************************************************************************)
THEOREM FlowsMarkedOnce == Spec => []MarksOnce
<1>1. DpInv => MarksOnce
  <2> SUFFICES ASSUME DpInv PROVE MarksOnce
    OBVIOUS
  <2>1. \A d \in Devices, m \in Mods : markRules[d][m] <= 1
    <3>1. \A d \in Devices, m \in Mods : markRules[d][m] \in {0, 1}
      BY DEF DpInv, RulesMarked
    <3> QED BY <3>1
  <2>2. \A d \in Devices, m \in Mods : flowObjs[d][m] <= markRules[d][m]
    BY DEF DpInv, FlowsNamed
  <2> QED BY <2>1, <2>2 DEF MarksOnce
<1> QED BY <1>1, DpInvariant, PTL

(***************************************************************************)
(* A dataplane the controller counts as configured marks the flow of every *)
(* module and leads the mark to the table of the module and to no other    *)
(* (process_config_dataplane in Controller.py).                            *)
(***************************************************************************)
THEOREM ConfiguredAlwaysMarked == Spec => []ConfiguredIsMarked
<1>1. DpInv => ConfiguredIsMarked
  BY DEF DpInv
<1> QED BY <1>1, DpInvariant, PTL
-----------------------------------------------------------------------------
(***************************************************************************)
(* What a device was told last.  Positions of a queue: the updates of a    *)
(* module, and the paths for a table.                                      *)
(***************************************************************************)
ParsIn(s, m) == { i \in DOMAIN s : s[i].type = "par" /\ s[i].mod = m }

LastPar(s, m, n) ==
  \E i \in ParsIn(s, m) : (\A j \in ParsIn(s, m) : j <= i) /\ s[i].node = n

SteersIn(q, d, k) ==
  { i \in DOMAIN q : q[i].type = "steer" /\ q[i].dev = d /\ q[i].tab = k }

LastSteer(q, d, k, n) ==
  \E i \in SteersIn(q, d, k) :
    (\A j \in SteersIn(q, d, k) : j <= i) /\ q[i].action = "Replace" /\ q[i].node = n

\* A path without a table ends the controller.
Doomed(q) == \E i \in DOMAIN q : q[i].type = "steer" /\ q[i].tab = 0

\* Once the controller has read its queue, table k of d leads to n.
WillSteer(d, k, n) ==
  \/ LastSteer(ctlQueue, d, k, n)
  \/ SteersIn(ctlQueue, d, k) = {} /\ fib[d][k] = n

\* The update m was told of last is in the mailbox of the device, or on its
\* way to the table of m, or there, or was ignored.
Arriving(d, m) ==
  \/ LastPar(mail[d], m, told[m])
  \/ /\ ParsIn(mail[d], m) = {}
     /\ \/ told[m] = d \/ <<d, m>> \in unheeded
        \/ Doomed(ctlQueue)
        \/ tables[d][m] # 0 /\ WillSteer(d, tables[d][m], told[m])

ToldInv ==
  ctlAlive => \A d \in Devices, m \in Mods :
                alive[d] /\ told[m] # None => Arriving(d, m)

\* The tables of the modules are all made at once.
TablesInv ==
  \A d \in Devices :
    \/ lastRoute[d] = 0 /\ \A m \in Mods : tables[d][m] = 0
    \/ /\ lastRoute[d] = FirstTable + Cardinality(Mods)
       /\ \A m \in Mods : tables[d][m] >= FirstTable

LEMMA ParAppended ==
  ASSUME NEW S, NEW s \in Seq(S), NEW e \in S, NEW m, NEW n
  PROVE  /\ ~(e.type = "par" /\ e.mod = m) =>
              /\ LastPar(s, m, n) => LastPar(Append(s, e), m, n)
              /\ ParsIn(s, m) = {} => ParsIn(Append(s, e), m) = {}
         /\ e.type = "par" /\ e.mod = m /\ e.node = n => LastPar(Append(s, e), m, n)
<1> DEFINE t == Append(s, e)
<1>1. /\ Len(s) \in Nat /\ DOMAIN s = 1 .. Len(s) /\ DOMAIN t = 1 .. Len(s) + 1
      /\ \A i \in 1 .. Len(s) : t[i] = s[i]
      /\ t[Len(s) + 1] = e
  OBVIOUS
<1> HIDE DEF t
<1>2. CASE ~(e.type = "par" /\ e.mod = m)
  <2>1. ParsIn(t, m) = ParsIn(s, m)
    BY <1>1, <1>2 DEF ParsIn
  <2>2. LastPar(s, m, n) => LastPar(t, m, n)
    <3> SUFFICES ASSUME LastPar(s, m, n) PROVE LastPar(t, m, n)
      OBVIOUS
    <3>1. PICK i \in ParsIn(s, m) : (\A j \in ParsIn(s, m) : j <= i) /\ s[i].node = n
      BY DEF LastPar
    <3>2. t[i] = s[i]
      BY <1>1 DEF ParsIn
    <3> QED BY <2>1, <3>1, <3>2 DEF LastPar
  <2> QED BY <1>2, <2>1, <2>2 DEF t
<1>3. CASE e.type = "par" /\ e.mod = m
  <2>1. Len(s) + 1 \in ParsIn(t, m)
    BY <1>1, <1>3 DEF ParsIn
  <2>2. \A j \in ParsIn(t, m) : j <= Len(s) + 1
    BY <1>1 DEF ParsIn
  <2>3. e.node = n => LastPar(t, m, n)
    BY <1>1, <2>1, <2>2 DEF LastPar
  <2> QED BY <1>3, <2>3 DEF t
<1> QED BY <1>2, <1>3

LEMMA ParTaken ==
  ASSUME NEW S, NEW s \in Seq(S), s # <<>>, NEW m, NEW n
  PROVE  /\ ~(Head(s).type = "par" /\ Head(s).mod = m) =>
              /\ LastPar(s, m, n) => LastPar(Tail(s), m, n)
              /\ ParsIn(s, m) = {} => ParsIn(Tail(s), m) = {}
         /\ LastPar(s, m, n) =>
              \/ LastPar(Tail(s), m, n)
              \/ ParsIn(Tail(s), m) = {} /\ Head(s).node = n
<1> DEFINE t == Tail(s)
<1>1. /\ Len(s) \in Nat \ {0} /\ DOMAIN s = 1 .. Len(s) /\ DOMAIN t = 1 .. Len(s) - 1
      /\ \A i \in 1 .. Len(s) - 1 : t[i] = s[i + 1]
      /\ s[1] = Head(s)
  OBVIOUS
<1> HIDE DEF t
<1>2. \A i \in Nat : i \in ParsIn(t, m) <=> i # 0 /\ i + 1 \in ParsIn(s, m)
  BY <1>1 DEF ParsIn
<1>3. ParsIn(s, m) \subseteq Nat \ {0} /\ ParsIn(t, m) \subseteq Nat \ {0}
  BY <1>1 DEF ParsIn
<1>4. 1 \in ParsIn(s, m) <=> (Head(s).type = "par" /\ Head(s).mod = m)
  BY <1>1 DEF ParsIn
<1>5. ASSUME NEW i \in ParsIn(s, m), \A j \in ParsIn(s, m) : j <= i, s[i].node = n, i # 1
      PROVE  LastPar(t, m, n)
  <2>1. i - 1 \in Nat /\ i - 1 # 0 /\ (i - 1) + 1 = i
    BY <1>3, <1>5
  <2>2. i - 1 \in ParsIn(t, m)
    BY <1>2, <1>5, <2>1
  <2>3. \A j \in ParsIn(t, m) : j <= i - 1
    <3> SUFFICES ASSUME NEW j \in ParsIn(t, m) PROVE j <= i - 1
      OBVIOUS
    <3>1. j \in Nat /\ j + 1 \in ParsIn(s, m)
      BY <1>2, <1>3
    <3>2. j + 1 <= i
      BY <1>5, <3>1
    <3> QED BY <1>3, <1>5, <3>1, <3>2
  <2>4. t[i - 1] = s[i]
    <3>1. i - 1 \in 1 .. Len(s) - 1
      BY <1>1, <2>2 DEF ParsIn
    <3> QED BY <1>1, <2>1, <3>1
  <2> QED BY <1>5, <2>2, <2>3, <2>4 DEF LastPar
<1>6. ASSUME NEW i \in ParsIn(s, m), \A j \in ParsIn(s, m) : j <= i, s[i].node = n, i = 1
      PROVE  ParsIn(t, m) = {} /\ Head(s).node = n
  <2>1. ParsIn(t, m) = {}
    <3> SUFFICES ASSUME NEW j \in ParsIn(t, m) PROVE FALSE
      OBVIOUS
    <3>1. j \in Nat \ {0} /\ j + 1 \in ParsIn(s, m)
      BY <1>2, <1>3
    <3>2. j + 1 <= 1
      BY <1>6, <3>1
    <3> QED BY <3>1, <3>2
  <2> QED BY <1>1, <1>6, <2>1
<1>7. LastPar(s, m, n) =>
        \/ LastPar(t, m, n)
        \/ 1 \in ParsIn(s, m) /\ ParsIn(t, m) = {} /\ Head(s).node = n
  BY <1>5, <1>6 DEF LastPar
<1>8. ParsIn(s, m) = {} => ParsIn(t, m) = {}
  BY <1>2, <1>3
<1> QED BY <1>4, <1>7, <1>8 DEF t

LEMMA SteersJoined ==
  ASSUME NEW S, NEW s \in Seq(S), NEW p \in Seq(S), NEW d, NEW k, NEW n,
         SteersIn(p, d, k) = {}
  PROVE  /\ LastSteer(s, d, k, n) => LastSteer(s \o p, d, k, n)
         /\ SteersIn(s, d, k) = {} => SteersIn(s \o p, d, k) = {}
<1> DEFINE t == s \o p
<1>1. /\ Len(s) \in Nat /\ DOMAIN s = 1 .. Len(s)
      /\ Len(p) \in Nat /\ DOMAIN p = 1 .. Len(p)
      /\ DOMAIN t = 1 .. Len(s) + Len(p)
      /\ \A i \in 1 .. Len(s) : t[i] = s[i]
      /\ \A i \in 1 .. Len(s) + Len(p) : i \notin 1 .. Len(s) => t[i] = p[i - Len(s)]
  OBVIOUS
<1> HIDE DEF t
<1>2. ASSUME NEW i \in SteersIn(t, d, k) PROVE i \in SteersIn(s, d, k)
  <2>1. i \in 1 .. Len(s) + Len(p) /\ t[i].type = "steer" /\ t[i].dev = d /\ t[i].tab = k
    BY <1>1, <1>2 DEF SteersIn
  <2>2. CASE i \in 1 .. Len(s)
    BY <1>1, <2>1, <2>2 DEF SteersIn
  <2>3. CASE i \notin 1 .. Len(s)
    <3>1. i - Len(s) \in 1 .. Len(p)
      BY <1>1, <2>1, <2>3
    <3>2. i - Len(s) \in SteersIn(p, d, k)
      BY <1>1, <2>1, <2>3, <3>1 DEF SteersIn
    <3> QED BY <3>2
  <2> QED BY <2>2, <2>3
<1>3. ASSUME NEW i \in SteersIn(s, d, k) PROVE i \in SteersIn(t, d, k) /\ t[i] = s[i]
  BY <1>1, <1>3 DEF SteersIn
<1>4. LastSteer(s, d, k, n) => LastSteer(t, d, k, n)
  BY <1>2, <1>3 DEF LastSteer
<1> QED BY <1>2, <1>4 DEF t

LEMMA SteerAppended ==
  ASSUME NEW S, NEW s \in Seq(S), NEW e \in S, NEW d, NEW k, NEW n,
         e.type = "steer", e.dev = d, e.tab = k, e.action = "Replace", e.node = n
  PROVE  LastSteer(Append(s, e), d, k, n)
<1> DEFINE t == Append(s, e)
<1>1. /\ Len(s) \in Nat /\ DOMAIN t = 1 .. Len(s) + 1 /\ t[Len(s) + 1] = e
  OBVIOUS
<1> HIDE DEF t
<1>2. Len(s) + 1 \in SteersIn(t, d, k)
  BY <1>1 DEF SteersIn
<1>3. \A j \in SteersIn(t, d, k) : j <= Len(s) + 1
  BY <1>1 DEF SteersIn
<1>4. LastSteer(t, d, k, n)
  BY <1>1, <1>2, <1>3 DEF LastSteer
<1> QED BY <1>4 DEF t

LEMMA SteerTaken ==
  ASSUME NEW S, NEW s \in Seq(S), s # <<>>, NEW d, NEW k, NEW n
  PROVE  /\ ~(Head(s).type = "steer" /\ Head(s).dev = d /\ Head(s).tab = k) =>
              /\ LastSteer(s, d, k, n) => LastSteer(Tail(s), d, k, n)
              /\ SteersIn(s, d, k) = {} => SteersIn(Tail(s), d, k) = {}
         /\ LastSteer(s, d, k, n) =>
              \/ LastSteer(Tail(s), d, k, n)
              \/ /\ SteersIn(Tail(s), d, k) = {}
                 /\ Head(s).action = "Replace" /\ Head(s).node = n
<1> DEFINE t == Tail(s)
<1>1. /\ Len(s) \in Nat \ {0} /\ DOMAIN s = 1 .. Len(s) /\ DOMAIN t = 1 .. Len(s) - 1
      /\ \A i \in 1 .. Len(s) - 1 : t[i] = s[i + 1]
      /\ s[1] = Head(s)
  OBVIOUS
<1> HIDE DEF t
<1>2. \A i \in Nat : i \in SteersIn(t, d, k) <=> i # 0 /\ i + 1 \in SteersIn(s, d, k)
  BY <1>1 DEF SteersIn
<1>3. SteersIn(s, d, k) \subseteq Nat \ {0} /\ SteersIn(t, d, k) \subseteq Nat \ {0}
  BY <1>1 DEF SteersIn
<1>4. 1 \in SteersIn(s, d, k)
        <=> (Head(s).type = "steer" /\ Head(s).dev = d /\ Head(s).tab = k)
  BY <1>1 DEF SteersIn
<1>5. ASSUME NEW i \in SteersIn(s, d, k), \A j \in SteersIn(s, d, k) : j <= i,
             s[i].action = "Replace", s[i].node = n, i # 1
      PROVE  LastSteer(t, d, k, n)
  <2>1. i - 1 \in Nat /\ i - 1 # 0 /\ (i - 1) + 1 = i
    BY <1>3, <1>5
  <2>2. i - 1 \in SteersIn(t, d, k)
    BY <1>2, <1>5, <2>1
  <2>3. \A j \in SteersIn(t, d, k) : j <= i - 1
    <3> SUFFICES ASSUME NEW j \in SteersIn(t, d, k) PROVE j <= i - 1
      OBVIOUS
    <3>1. j \in Nat /\ j + 1 \in SteersIn(s, d, k)
      BY <1>2, <1>3
    <3>2. j + 1 <= i
      BY <1>5, <3>1
    <3> QED BY <1>3, <1>5, <3>1, <3>2
  <2>4. t[i - 1] = s[i]
    <3>1. i - 1 \in 1 .. Len(s) - 1
      BY <1>1, <2>2 DEF SteersIn
    <3> QED BY <1>1, <2>1, <3>1
  <2> QED BY <1>5, <2>2, <2>3, <2>4 DEF LastSteer
<1>6. ASSUME NEW i \in SteersIn(s, d, k), \A j \in SteersIn(s, d, k) : j <= i,
             s[i].action = "Replace", s[i].node = n, i = 1
      PROVE  /\ SteersIn(t, d, k) = {}
             /\ Head(s).action = "Replace" /\ Head(s).node = n
  <2>1. SteersIn(t, d, k) = {}
    <3> SUFFICES ASSUME NEW j \in SteersIn(t, d, k) PROVE FALSE
      OBVIOUS
    <3>1. j \in Nat \ {0} /\ j + 1 \in SteersIn(s, d, k)
      BY <1>2, <1>3
    <3>2. j + 1 <= 1
      BY <1>6, <3>1
    <3> QED BY <3>1, <3>2
  <2> QED BY <1>1, <1>6, <2>1
<1>7. LastSteer(s, d, k, n) =>
        \/ LastSteer(t, d, k, n)
        \/ /\ 1 \in SteersIn(s, d, k) /\ SteersIn(t, d, k) = {}
           /\ Head(s).action = "Replace" /\ Head(s).node = n
  BY <1>5, <1>6 DEF LastSteer
<1>8. SteersIn(s, d, k) = {} => SteersIn(t, d, k) = {}
  BY <1>2, <1>3
<1> QED BY <1>4, <1>7, <1>8 DEF t

LEMMA DoomStays ==
  ASSUME NEW S, NEW s \in Seq(S), Doomed(s)
  PROVE  /\ \A p \in Seq(S) : Doomed(s \o p)
         /\ \A e \in S : Doomed(Append(s, e))
         /\ s # <<>> /\ ~(Head(s).type = "steer" /\ Head(s).tab = 0) => Doomed(Tail(s))
<1>1. PICK i \in 1 .. Len(s) : s[i].type = "steer" /\ s[i].tab = 0
  BY DEF Doomed
<1>2. ASSUME NEW p \in Seq(S) PROVE Doomed(s \o p)
  <2>1. i \in DOMAIN (s \o p) /\ (s \o p)[i] = s[i]
    OBVIOUS
  <2> QED BY <1>1, <2>1 DEF Doomed
<1>3. ASSUME NEW e \in S PROVE Doomed(Append(s, e))
  <2>1. i \in DOMAIN Append(s, e) /\ Append(s, e)[i] = s[i]
    OBVIOUS
  <2> QED BY <1>1, <2>1 DEF Doomed
<1>4. ASSUME s # <<>>, ~(Head(s).type = "steer" /\ Head(s).tab = 0) PROVE Doomed(Tail(s))
  <2>1. i # 1
    BY <1>1, <1>4
  <2>2. i - 1 \in DOMAIN Tail(s) /\ Tail(s)[i - 1] = s[i]
    BY <1>4, <2>1
  <2> QED BY <1>1, <2>2 DEF Doomed
<1> QED BY <1>2, <1>3, <1>4
-----------------------------------------------------------------------------
\* A step makes the tables of a device, or leaves all tables alone.
LEMMA TablesChange ==
  ASSUME TypeOK, [Next]_vars
  PROVE  \/ UNCHANGED <<tables, lastRoute>>
         \/ \E d \in Devices : CreateTables(d)
<1>1. ASSUME NEW d \in Devices, ControllerProvision(d), ~CreateTables(d)
      PROVE  UNCHANGED <<tables, lastRoute>>
  <2>1. CASE CreateRules(d) \/ CreateMarks(d)
    BY <2>1 DEF CreateRules, CreateMarks
  <2>2. CASE ~(CreateRules(d) \/ CreateMarks(d))
    BY <1>1, <2>2, ControllerBystands DEF ControllerProvision, Bystander
  <2> QED BY <2>1, <2>2
<1>2. ASSUME NEW d \in Devices, DeviceProvision(d) PROVE UNCHANGED <<tables, lastRoute>>
  <2>1. UNCHANGED agentVars
    BY <1>2, DeviceType
  <2> QED BY <2>1 DEF agentVars
<1>3. CASE RestartAll
  BY <1>3 DEF RestartAll, Restart, agentVars
<1>4. CASE \/ ProcessPar
           \/ \E d \in Devices : \/ UpdateDatapath(d) \/ UpdateDatapathFails(d)
                                 \/ ProcessParUpdate(d) \/ ParUpdateIgnored(d)
                                 \/ ProcessParUpdateFails(d)
  BY <1>4, SteeringBystands DEF Bystander
<1>5. ASSUME NEW m \in Mods, ModuleStep(m) PROVE UNCHANGED <<tables, lastRoute>>
  BY <1>5, ModuleBystands DEF Bystander
<1>6. CASE ProvEnvironment
  BY <1>6, EnvironmentBystands DEF Bystander
<1>7. CASE ExportStep
  BY <1>7, ExportBystands DEF Bystander
<1>8. CASE \/ DelaysChange
           \/ \E d \in Devices : Negotiates(d)
           \/ \E n \in Nodes : Announce(n) \/ Withdraw(n)
           \/ UNCHANGED vars
  BY <1>8, OthersBystand DEF Bystander
<1> QED
  BY <1>1, <1>2, <1>3, <1>4, <1>5, <1>6, <1>7, <1>8
  DEF Next, ControllerStep, DeviceStep, DecideStep

LEMMA TablesKept ==
  ASSUME DpInv, TablesInv, [Next]_vars
  PROVE  TablesInv'
<1>0. TypeOK /\ AgentTypeOK /\ Numbered
  BY Parts DEF DpInv
<1>1. CASE UNCHANGED <<tables, lastRoute>>
  BY <1>1 DEF TablesInv
<1>2. ASSUME NEW d \in Devices, CreateTables(d) PROVE TablesInv'
  <2>0. CreateRouteTable(d)
    BY <1>2 DEF CreateTables
  <2>1. \A e \in Devices \ {d} : tables'[e] = tables[e] /\ lastRoute'[e] = lastRoute[e]
    BY <1>0, <2>0, CreateFacts
  <2>2. CASE NewOnDevice(d) = {}
    <3>1. lastRoute'[d] = lastRoute[d]
      BY <1>0, <2>0, <2>2, CreateFacts
    <3>2. \A m \in Mods : tables'[d][m] = tables[d][m]
      BY <1>0, <2>0, <2>2, CreateFacts DEF NewOnDevice
    <3> QED BY <2>1, <3>1, <3>2 DEF TablesInv
  <2>3. CASE NewOnDevice(d) # {}
    <3>1. PICK k \in Mods : tables[d][k] = 0
      BY <2>3 DEF NewOnDevice
    <3>2. lastRoute[d] = 0 /\ \A m \in Mods : tables[d][m] = 0
      BY <3>1 DEF TablesInv, FirstTable
    <3>3. NewOnDevice(d) = Mods /\ NextTable(d) = FirstTable
      BY <3>2 DEF NewOnDevice, NextTable
    <3>4. lastRoute'[d] = FirstTable + Cardinality(Mods)
      BY <1>0, <2>0, <3>1, <3>3, CreateFacts
    <3>5. \A m \in Mods : tables'[d][m] = FirstTable + Cardinality(Earlier(d, m))
      BY <1>0, <2>0, <3>3, CreateFacts
    <3>6. \A m \in Mods : Cardinality(Earlier(d, m)) \in Nat
      BY <3>3, EarlierType
    <3>7. \A m \in Mods : tables'[d][m] >= FirstTable
      BY <3>5, <3>6 DEF FirstTable
    <3> QED BY <2>1, <3>4, <3>7 DEF TablesInv
  <2> QED BY <2>2, <2>3
<1> QED BY <1>0, <1>1, <1>2, TablesChange

LEMMA ModsAreFew ==
  Cardinality(Mods) \in Nat /\ Cardinality(Mods) <= Len(ModList)
<1>1. ModList \in Seq(Mods) /\ Len(ModList) \in Nat
  BY AgentAssumption
<1>2. IsFiniteSet(1 .. Len(ModList)) /\ Cardinality(1 .. Len(ModList)) = Len(ModList)
  <2>1. 1 - 1 = 0 /\ 1 \in Int
    OBVIOUS
  <2> DEFINE l == Len(ModList)
  <2>2. l \in Nat /\ l \in Int
    BY <1>1
  <2> HIDE DEF l
  <2>3. IsFiniteSet(1 .. l) /\ Cardinality(1 .. l) = l
    BY <2>1, <2>2, FS_Interval
  <2> QED BY <2>3 DEF l
<1>3. ModList \in Surjection(1 .. Len(ModList), Mods)
  BY <1>1 DEF Mods, Range, Surjection
<1> QED BY <1>1, <1>2, <1>3, FS_Surjection, ModsFinite, FS_CardinalityType

\* A table that is there is one of the kernel's, and not the main table.
LEMMA TableNumbers ==
  ASSUME DpInv, TablesInv, NEW d \in Devices, NEW m \in Mods, tables[d][m] # 0
  PROVE  tables[d][m] \in Tables \ {0, MainTable}
<1>1. tables[d][m] \in Nat /\ tables[d][m] < lastRoute[d]
  BY Parts DEF DpInv, AgentTypeOK, Numbered
<1>2. tables[d][m] >= FirstTable /\ lastRoute[d] = FirstTable + Cardinality(Mods)
  BY DEF TablesInv
<1>3. Len(ModList) \in Nat /\ FirstTable + Len(ModList) < MainTable
  BY AgentAssumption
<1>4. tables[d][m] \in FirstTable .. FirstTable + Len(ModList) /\ tables[d][m] < MainTable
  BY <1>1, <1>2, <1>3, ModsAreFew DEF FirstTable, MainTable
<1> QED BY <1>1, <1>4 DEF Tables, MainTable
-----------------------------------------------------------------------------
(***************************************************************************)
(* Steps that leave what is under way to the tables of the modules alone.  *)
(***************************************************************************)
SteersKept ==
  \A d \in Devices, k \in Nat \ {0, MainTable}, n \in Nodes :
    /\ LastSteer(ctlQueue, d, k, n) => LastSteer(ctlQueue', d, k, n)
    /\ SteersIn(ctlQueue, d, k) = {} => SteersIn(ctlQueue', d, k) = {}

DoomKept == Doomed(ctlQueue) => Doomed(ctlQueue')

ParsKept ==
  \A d \in Devices, m \in Mods, n \in Nodes :
    /\ LastPar(mail[d], m, n) => LastPar(mail'[d], m, n)
    /\ ParsIn(mail[d], m) = {} => ParsIn(mail'[d], m) = {}

TablesStay ==
  \A d \in Devices, m \in Mods : tables[d][m] # 0 => tables'[d][m] = tables[d][m]

Onlooker ==
  /\ ctlAlive' => ctlAlive /\ SteersKept /\ DoomKept
  /\ \A d \in Devices : alive'[d] => alive[d]
  /\ ParsKept /\ TablesStay
  /\ UNCHANGED <<told, unheeded, fib>>

LEMMA OnlookerKeeps ==
  ASSUME DpInv, TablesInv, ToldInv, Onlooker
  PROVE  ToldInv'
<1> SUFFICES ASSUME ctlAlive', NEW d \in Devices, NEW m \in Mods, alive'[d], told[m] # None
             PROVE  Arriving(d, m)'
  BY DEF ToldInv, Onlooker
<1>1. Arriving(d, m) /\ SteersKept /\ DoomKept /\ UNCHANGED <<told, unheeded, fib>>
  BY DEF ToldInv, Onlooker
<1>2. told[m] \in Nodes
  BY Parts DEF DpInv, ToldTypeOK
<1>3. CASE LastPar(mail[d], m, told[m])
  BY <1>1, <1>2, <1>3 DEF Onlooker, ParsKept, Arriving
<1>4. CASE ParsIn(mail[d], m) = {}
  <2>1. ParsIn(mail'[d], m) = {}
    BY <1>2, <1>4 DEF Onlooker, ParsKept
  <2>2. CASE told[m] = d \/ <<d, m>> \in unheeded \/ Doomed(ctlQueue)
    BY <1>1, <2>1, <2>2 DEF DoomKept, Arriving
  <2>3. CASE tables[d][m] # 0 /\ WillSteer(d, tables[d][m], told[m])
    <3>1. tables'[d][m] = tables[d][m] /\ tables[d][m] \in Nat \ {0, MainTable}
      <4>1. tables[d][m] \in Nat
        BY Parts DEF DpInv, AgentTypeOK
      <4> QED BY <2>3, <4>1, TableNumbers DEF Onlooker, TablesStay
    <3>2. WillSteer(d, tables[d][m], told[m])'
      <4>1. \/ LastSteer(ctlQueue', d, tables[d][m], told[m])
            \/ SteersIn(ctlQueue', d, tables[d][m]) = {} /\ fib[d][tables[d][m]] = told[m]
        BY <1>1, <1>2, <2>3, <3>1 DEF WillSteer, SteersKept
      <4> QED BY <1>1, <3>1, <4>1 DEF WillSteer
    <3> QED BY <2>1, <2>3, <3>1, <3>2 DEF Arriving
  <2>4. LastPar(mail[d], m, told[m]) => FALSE
    BY <1>4 DEF LastPar
  <2> QED BY <1>1, <2>2, <2>3, <2>4 DEF Arriving
<1> QED BY <1>1, <1>3, <1>4 DEF Arriving

LEMMA QueueSame ==
  ASSUME ctlQueue' = ctlQueue
  PROVE  SteersKept /\ DoomKept
BY DEF SteersKept, DoomKept

LEMMA QueueTaken ==
  ASSUME ControlTypeOK, ctlQueue # <<>>, ctlQueue' = Tail(ctlQueue),
         Head(ctlQueue).type # "steer"
  PROVE  SteersKept /\ DoomKept
<1>1. ctlQueue \in Seq(Request)
  BY DEF ControlTypeOK
<1> QED BY <1>1, SteerTaken, DoomStays DEF SteersKept, DoomKept

LEMMA QueueReplaced ==
  ASSUME ControlTypeOK, ctlQueue # <<>>, Head(ctlQueue).type # "steer",
         NEW r \in Request, r.type # "steer", ctlQueue' = <<r>> \o Tail(ctlQueue)
  PROVE  SteersKept /\ DoomKept
<1>1. ctlQueue \in Seq(Request)
  BY DEF ControlTypeOK
<1>2. /\ DOMAIN ctlQueue' = DOMAIN ctlQueue
      /\ \A i \in DOMAIN ctlQueue :
           \/ ctlQueue[i].type # "steer" /\ ctlQueue'[i].type # "steer"
           \/ ctlQueue'[i] = ctlQueue[i]
  BY <1>1, HeadReplaced
<1>3. \A d, k : SteersIn(ctlQueue', d, k) = SteersIn(ctlQueue, d, k)
  BY <1>2 DEF SteersIn
<1>4. SteersKept
  <2>1. \A d, k : \A i \in SteersIn(ctlQueue, d, k) : ctlQueue'[i] = ctlQueue[i]
    BY <1>2 DEF SteersIn
  <2> QED BY <1>3, <2>1 DEF SteersKept, LastSteer
<1>5. DoomKept
  BY <1>2 DEF DoomKept, Doomed
<1> QED BY <1>4, <1>5

LEMMA QueueJoined ==
  ASSUME ControlTypeOK, NEW q \in Seq(Request), ctlQueue' = ctlQueue \o q,
         \A i \in DOMAIN q : q[i].type = "steer" => q[i].tab = MainTable
  PROVE  SteersKept /\ DoomKept
<1>1. ctlQueue \in Seq(Request)
  BY DEF ControlTypeOK
<1>2. \A d \in Devices, k \in Nat \ {0, MainTable} : SteersIn(q, d, k) = {}
  BY DEF SteersIn
<1>3. SteersKept
  BY <1>1, <1>2, SteersJoined DEF SteersKept
<1> QED BY <1>1, <1>3, DoomStays DEF DoomKept

LEMMA QueueAsked ==
  ASSUME ControlTypeOK, NEW r \in Request, ctlQueue' = Append(ctlQueue, r),
         r.type # "steer"
  PROVE  SteersKept /\ DoomKept
<1>1. ctlQueue \in Seq(Request) /\ <<r>> \in Seq(Request)
  BY SeqFacts DEF ControlTypeOK
<1>2. Append(ctlQueue, r) = ctlQueue \o <<r>>
  BY <1>1
<1>3. \A i \in DOMAIN <<r>> : <<r>>[i].type # "steer"
  OBVIOUS
<1> QED BY <1>1, <1>2, <1>3, QueueJoined

LEMMA MailSame ==
  ASSUME mail' = mail
  PROVE  ParsKept
BY DEF ParsKept

LEMMA MailTold ==
  ASSUME DeviceTypeOK, NEW d \in Devices, NEW a \in Answer, a.type # "par", Tell(d, a)
  PROVE  ParsKept
<1>1. /\ mail'[d] = Append(mail[d], a)
      /\ \A e \in Devices \ {d} : mail'[e] = mail[e]
      /\ \A e \in Devices : mail[e] \in Seq(Answer)
  BY ToldOne
<1>2. \A m \in Mods, n \in Nodes :
        /\ LastPar(mail[d], m, n) => LastPar(mail'[d], m, n)
        /\ ParsIn(mail[d], m) = {} => ParsIn(mail'[d], m) = {}
  BY <1>1, ParAppended
<1> QED BY <1>1, <1>2 DEF ParsKept

LEMMA MailRead ==
  ASSUME DeviceTypeOK, NEW d \in Devices, mail[d] # <<>>, Head(mail[d]).type # "par", Read(d)
  PROVE  ParsKept
<1>1. /\ mail'[d] = Tail(mail[d])
      /\ \A e \in Devices \ {d} : mail'[e] = mail[e]
      /\ mail[d] \in Seq(Answer)
  BY DEF Read, DeviceTypeOK
<1>2. \A m \in Mods, n \in Nodes :
        /\ LastPar(mail[d], m, n) => LastPar(mail'[d], m, n)
        /\ ParsIn(mail[d], m) = {} => ParsIn(mail'[d], m) = {}
  BY <1>1, ParTaken
<1> QED BY <1>1, <1>2 DEF ParsKept

\* Tables that stay as they are.
LEMMA TablesSame ==
  ASSUME UNCHANGED <<tables, fib>>
  PROVE  TablesStay /\ UNCHANGED fib
BY DEF TablesStay

LEMMA ControllerOnlooker ==
  ASSUME DpInv, NEW d \in Devices, ControllerProvision(d), UNCHANGED toldVars, ctlAlive'
  PROVE  Onlooker
<1>0. TypeOK /\ AgentTypeOK /\ ControlTypeOK /\ DeviceTypeOK /\ Numbered
  BY Parts DEF DpInv
<1>1. /\ ctlQueue # <<>> /\ Head(ctlQueue).type # "steer"
      /\ ctlAlive /\ alive' = alive
      /\ CreateRules(d) \/ ctlQueue' = Tail(ctlQueue)
  BY DEF ControllerProvision, HeadendNotify, GetIfaces, GetIfacesUnimplemented,
         GetIfacesAgain, GetIfacesFails, ConfigureDropped, ConfigureFails, CreateTables,
         CreateRules, CreateRulesRefused, CreateMarks, CreateMarksFails,
         ConfigureRequest, Serves, ControllerDies, deviceVars
<1>2. SteersKept /\ DoomKept
  <2>1. CASE CreateRules(d)
    <3>1. PICK ms \in SUBSET Mods :
            ctlQueue' = << [type |-> "add-ip6tables", dev |-> d, mods |-> ms] >>
                          \o Tail(ctlQueue)
      BY <2>1 DEF CreateRules, MarkedNow
    <3> QED BY <1>0, <1>1, <3>1, QueueReplaced, RequestType
  <2> QED BY <1>0, <1>1, <2>1, QueueTaken
<1>3. ParsKept
  <2>1. CASE HeadendNotify(d) \/ GetIfacesAgain(d)
    BY <1>0, <2>1, MailTold, AnswerType DEF HeadendNotify, GetIfacesAgain
  <2>2. CASE GetIfaces(d)
    BY <1>0, <2>2, MailTold, AnswerType DEF GetIfaces
  <2>3. CASE \/ GetIfacesUnimplemented(d) \/ GetIfacesFails(d)
             \/ ConfigureDropped(d) \/ ConfigureFails(d)
             \/ CreateRules(d) \/ CreateRulesRefused(d) \/ CreateMarksFails(d)
    BY <2>3, MailSame DEF GetIfacesUnimplemented, GetIfacesFails, ConfigureDropped,
       ConfigureFails, CreateRules, CreateRulesRefused, CreateMarksFails, ControllerDies,
       deviceVars
  <2>4. CASE CreateTables(d)
    BY <1>0, <2>4, MailTold, AnswerType, CreatedType DEF CreateTables
  <2>5. CASE CreateMarks(d)
    <3>1. PICK ms \in SUBSET Mods : Tell(d, [type |-> "dp-flowmarks", mods |-> ms])
      BY <1>0, <2>5, ServesType DEF CreateMarks
    <3> QED BY <1>0, <3>1, MailTold, AnswerType
  <2> QED BY <2>1, <2>2, <2>3, <2>4, <2>5 DEF ControllerProvision
<1>4. TablesStay /\ UNCHANGED fib
  <2>1. CASE CreateTables(d)
    BY <1>0, <2>1, CreateFacts DEF CreateTables, CreateRouteTable, TablesStay
  <2>2. CASE ~CreateTables(d)
    <3>1. UNCHANGED <<tables, fib>>
      BY <2>2 DEF ControllerProvision, HeadendNotify, GetIfaces, GetIfacesUnimplemented,
         GetIfacesAgain, GetIfacesFails, ConfigureDropped, ConfigureFails,
         CreateRules, CreateRulesRefused, CreateMarks, CreateMarksFails, FlowMark,
         ControllerDies, agentVars
    <3> QED BY <3>1, TablesSame
  <2> QED BY <2>1, <2>2
<1> QED BY <1>1, <1>2, <1>3, <1>4 DEF Onlooker, toldVars

LEMMA DeviceOnlooker ==
  ASSUME TypeOK, NEW d \in Devices, DeviceProvision(d), UNCHANGED toldVars
  PROVE  Onlooker
<1>0. ControlTypeOK /\ DeviceTypeOK
  BY Parts
<1>1. UNCHANGED <<agentVars, ctlAlive>>
  BY DEF DeviceProvision, InterfaceInit, ProcessDpInterface, ProcessDpInterfaceFails,
         ProcessCreateDpTable, ProcessCreateFlowObjects, ProcessTopology,
         ProcessTopologyLinks, DeviceDies, controlVars
<1>2. \A e \in Devices : alive'[e] => alive[e]
  <2>1. CASE ProcessDpInterfaceFails(d)
    BY <1>0, <2>1 DEF ProcessDpInterfaceFails, DeviceDies, DeviceTypeOK
  <2>2. CASE ~ProcessDpInterfaceFails(d)
    <3>1. alive' = alive
      BY <2>2 DEF DeviceProvision, InterfaceInit, ProcessDpInterface, ProcessCreateDpTable,
         ProcessCreateFlowObjects, ProcessTopology, ProcessTopologyLinks
    <3> QED BY <3>1
  <2> QED BY <2>1, <2>2
<1>3. SteersKept /\ DoomKept
  <2>1. CASE InterfaceInit(d)
    <3>1. [type |-> "get-interfaces", dev |-> d] \in Request
      BY RequestType DEF Requests
    <3> QED BY <1>0, <2>1, <3>1, QueueAsked DEF InterfaceInit, Ask
  <2>2. CASE ProcessDpInterface(d)
    <3>1. [type |-> "create-tables", dev |-> d] \in Request
      BY RequestType DEF Requests
    <3> QED BY <1>0, <2>2, <3>1, QueueAsked DEF ProcessDpInterface, Ask
  <2>3. CASE ProcessCreateDpTable(d)
    <3> DEFINE r == [type |-> "create-flowmark-rules", dev |-> d, num |-> number'[d]]
    <3>1. number'[d] \in [Mods -> Nat]
      BY <2>3, DeviceType DEF DeviceTypeOK
    <3>2. r \in Request /\ r.type # "steer"
      BY <3>1, RequestType
    <3>3. ctlQueue' = Append(ctlQueue, r)
      BY <2>3 DEF ProcessCreateDpTable, Ask
    <3> HIDE DEF r
    <3> QED BY <1>0, <3>2, <3>3, QueueAsked
  <2>4. CASE \/ ProcessDpInterfaceFails(d) \/ ProcessCreateFlowObjects(d)
             \/ ProcessTopology(d) \/ ProcessTopologyLinks(d)
    BY <2>4, QueueSame DEF ProcessDpInterfaceFails, ProcessCreateFlowObjects,
       ProcessTopology, ProcessTopologyLinks, DeviceDies, controlVars
  <2> QED BY <2>1, <2>2, <2>3, <2>4 DEF DeviceProvision
<1>4. ParsKept
  <2>1. CASE ProcessDpInterfaceFails(d)
    BY <2>1, MailSame DEF ProcessDpInterfaceFails, DeviceDies
  <2>2. CASE ~ProcessDpInterfaceFails(d)
    <3>1. mail[d] # <<>> /\ Head(mail[d]).type # "par" /\ Read(d)
      BY <2>2 DEF DeviceProvision, InterfaceInit, ProcessDpInterface, ProcessCreateDpTable,
         ProcessCreateFlowObjects, ProcessTopology, ProcessTopologyLinks, MailIs
    <3> QED BY <1>0, <3>1, MailRead
  <2> QED BY <2>1, <2>2
<1> QED BY <1>1, <1>2, <1>3, <1>4, TablesSame DEF Onlooker, agentVars, toldVars

LEMMA EnvironmentOnlooker ==
  ASSUME TypeOK, ProvEnvironment, UNCHANGED toldVars
  PROVE  Onlooker
<1>0. DeviceTypeOK /\ EnvTypeOK
  BY Parts
<1>1. UNCHANGED <<agentVars, controlVars, alive>>
  BY DEF ProvEnvironment, Keepalive, Outage, Recover, GetsReady, BuildTopology, PutTopology,
         deviceVars
<1>2. ParsKept
  <2>1. ASSUME NEW d \in Devices, Keepalive(d) PROVE ParsKept
    BY <1>0, <2>1, MailTold, AnswerType DEF Keepalive
  <2>2. CASE BuildTopology \/ \E d \in Devices : Outage(d) \/ Recover(d) \/ GetsReady(d)
    BY <2>2, MailSame DEF Outage, Recover, GetsReady, BuildTopology, deviceVars
  <2>3. CASE PutTopology
    <3>1. Head(topoToSend) \in [dev : Devices, msg : TopologyMessage]
      BY <1>0, <2>3, SeqFacts DEF PutTopology, EnvTypeOK
    <3> QED BY <1>0, <2>3, <3>1, MailTold, TopologyAnswers DEF PutTopology
  <2> QED BY <2>1, <2>2, <2>3 DEF ProvEnvironment
<1> QED BY <1>1, <1>2, QueueSame, TablesSame
  DEF Onlooker, agentVars, controlVars, toldVars

LEMMA ModuleOnlooker ==
  ASSUME TypeOK, NEW m \in Mods, ModuleStep(m), UNCHANGED toldVars
  PROVE  Onlooker
<1> USE Parts
<1>1. UNCHANGED <<agentVars, ctlAlive, deviceVars>>
  BY DEF ModuleStep
<1>2. \A k, n : Update(k, n).type = "par-update"
  BY DEF Update
<1>3. \A i \in DOMAIN TakesOver(m) : TakesOver(m)[i].type = "par-update"
  BY <1>2 DEF TakesOver
<1>4. SteersKept /\ DoomKept
  <2>1. CASE ProcessAddRoute(m) \/ ProcessRemoveRoute(m)
    BY <2>1, QueueSame DEF ProcessAddRoute, ProcessRemoveRoute, ModuleDies
  <2>2. CASE ProcessInitialRoute(m)
    <3> DEFINE n == Head(parMail[m]).node
    <3>1. Update(m, n) \in Request
      BY <2>2, ReadParType, RequestType DEF ProcessInitialRoute
    <3>2. ctlQueue' = ctlQueue \/ ctlQueue' = Append(ctlQueue, Update(m, n))
      BY <2>2 DEF ProcessInitialRoute
    <3> QED BY <1>2, <3>1, <3>2, QueueSame, QueueAsked
  <2>3. CASE DecideKeep(m)
    BY <1>3, <2>3, TakesOverType, QueueJoined DEF DecideKeep
  <2>4. CASE DecideSwitch(m)
    <3>1. PICK n \in Nodes : ctlQueue' = ctlQueue \o TakesOver(m) \o <<Update(m, n)>>
      BY <2>4, BetterType DEF DecideSwitch
    <3> DEFINE q == TakesOver(m) \o <<Update(m, n)>>
    <3>2. TakesOver(m) \in Seq(Request) /\ <<Update(m, n)>> \in Seq(Request)
      BY <2>4, TakesOverType, RequestType, SeqFacts DEF DecideSwitch
    <3>3. q \in Seq(Request)
      BY <3>2, SeqFacts
    <3>4. ctlQueue' = ctlQueue \o q
      <4>1. ctlQueue \in Seq(Request)
        BY DEF ControlTypeOK
      <4>2. ctlQueue \o TakesOver(m) \o <<Update(m, n)>> = ctlQueue \o q
        BY <3>2, <4>1, Associative
      <4> QED BY <3>1, <4>2
    <3>5. \A i \in DOMAIN q : q[i].type = "par-update"
      BY <1>2 DEF TakesOver
    <3> HIDE DEF q
    <3> QED BY <3>3, <3>4, <3>5, QueueJoined
  <2>5. CASE DecideFails(m)
    <3>1. CASE UNCHANGED ctlQueue
      BY <3>1, QueueSame
    <3>2. CASE InUse(m) # None /\ ctlQueue' = ctlQueue \o TakesOver(m)
      BY <1>3, <3>2, TakesOverType, QueueJoined
    <3> QED BY <2>5, <3>1, <3>2 DEF DecideFails
  <2> QED BY <2>1, <2>2, <2>3, <2>4, <2>5 DEF ModuleStep
<1> QED BY <1>1, <1>4, MailSame, TablesSame DEF Onlooker, agentVars, deviceVars, toldVars

\* What a peer exports concerns the main table only.
LEMMA ExportOnlooker ==
  ASSUME TypeOK, ExportStep
  PROVE  Onlooker
<1> USE Parts
<1>0. PICK p \in Devices \cup Nodes, n \in Nodes, marked \in BOOLEAN :
        \/ ExportQuietly(p, n, marked) \/ ExportAndSteer(p, n, marked)
        \/ ExportFails(p, n, marked) \/ ExportElsewhere(p, n, marked)
  BY DEF ExportStep
<1>1. UNCHANGED <<agentVars, ctlAlive, mail, toldVars>>
  BY <1>0 DEF ExportQuietly, ExportAndSteer, ExportFails, ExportElsewhere, DeviceDies,
     provVars, controlVars, deviceVars
<1>2. SteersKept /\ DoomKept
  <2>1. CASE ExportAndSteer(p, n, marked)
    <3> DEFINE q == PathsOf(p, n)
    <3>1. q \in Seq(Request)
      BY <2>1, PathsType DEF ExportAndSteer, Peers
    <3>2. \A i \in DOMAIN q : q[i].tab = MainTable
      BY DEF PathsOf, Steer
    <3>3. ctlQueue' = ctlQueue \o q
      BY <2>1 DEF ExportAndSteer
    <3> HIDE DEF q
    <3> QED BY <3>1, <3>2, <3>3, QueueJoined
  <2>2. CASE ~ExportAndSteer(p, n, marked)
    <3>1. ctlQueue' = ctlQueue
      BY <1>0, <2>2 DEF ExportQuietly, ExportFails, ExportElsewhere, DeviceDies,
         provVars, controlVars
    <3> QED BY <3>1, QueueSame
  <2> QED BY <2>1, <2>2
<1>3. \A e \in Devices : alive'[e] => alive[e]
  <2>1. CASE ExportFails(p, n, marked)
    BY <2>1 DEF ExportFails, DeviceDies, DeviceTypeOK
  <2>2. CASE ~ExportFails(p, n, marked)
    <3>1. alive' = alive
      BY <1>0, <2>2 DEF ExportQuietly, ExportAndSteer, ExportElsewhere, provVars, deviceVars
    <3> QED BY <3>1
  <2> QED BY <2>1, <2>2
<1> QED BY <1>1, <1>2, <1>3, MailSame, TablesSame DEF Onlooker, agentVars, toldVars

LEMMA OthersOnlook ==
  ASSUME TypeOK,
         \/ DelaysChange /\ UNCHANGED toldVars
         \/ \E d \in Devices : Negotiates(d)
         \/ \E n \in Nodes : Announce(n) \/ Withdraw(n)
         \/ \E d \in Devices : ProcessParUpdateFails(d)
         \/ UNCHANGED vars
  PROVE  Onlooker
<1>1. UNCHANGED <<agentVars, controlVars, mail, toldVars>>
  BY DEF DelaysChange, Negotiates, Announce, Withdraw, vars, provVars, deviceVars,
         ProcessParUpdateFails, DeviceDies
<1>2. \A e \in Devices : alive'[e] => alive[e]
  <2>1. ASSUME NEW d \in Devices, ProcessParUpdateFails(d)
        PROVE  \A e \in Devices : alive'[e] => alive[e]
    BY <2>1, Parts DEF ProcessParUpdateFails, DeviceDies, DeviceTypeOK
  <2>2. CASE \/ DelaysChange
             \/ \E d \in Devices : Negotiates(d)
             \/ \E n \in Nodes : Announce(n) \/ Withdraw(n)
             \/ UNCHANGED vars
    BY <2>2 DEF DelaysChange, Negotiates, Announce, Withdraw, vars, provVars, deviceVars
  <2> QED BY <2>1, <2>2
<1> QED BY <1>1, <1>2, MailSame, QueueSame, TablesSame
  DEF Onlooker, agentVars, controlVars, toldVars
-----------------------------------------------------------------------------
(***************************************************************************)
(* The steps by which an update gets to the table of its module.           *)
(***************************************************************************)
LEMMA ProcessParTells ==
  ASSUME DpInv, TablesInv, ToldInv, ProcessPar
  PROVE  ToldInv'
<1>0. TypeOK /\ ControlTypeOK /\ DeviceTypeOK /\ ToldTypeOK
  BY Parts DEF DpInv
<1> DEFINE u == Head(ctlQueue)
           a == [type |-> "par", mod |-> u.mod, node |-> u.node]
<1>1. u \in Request
  BY <1>0, SeqFacts DEF ProcessPar, ControlTypeOK
<1>2. u.mod \in Mods /\ u.node \in Nodes
  BY <1>1 DEF ProcessPar, Request, Requests
<1>3. a \in Answer /\ a.type = "par" /\ a.mod = u.mod /\ a.node = u.node
  BY <1>2, AnswerType
<1>4. \A d \in Devices : mail'[d] = Append(mail[d], a) /\ mail[d] \in Seq(Answer)
  BY <1>0 DEF ProcessPar, DeviceTypeOK
<1>5. /\ told'[u.mod] = u.node
      /\ \A m \in Mods \ {u.mod} : told'[m] = told[m]
  BY <1>0, <1>2 DEF ProcessPar, ToldTypeOK
<1>6. /\ ctlAlive /\ UNCHANGED <<alive, tables, fib, unheeded>>
      /\ ctlQueue # <<>> /\ ctlQueue' = Tail(ctlQueue) /\ u.type # "steer"
  BY DEF ProcessPar, agentVars
<1>7. SteersKept /\ DoomKept
  BY <1>0, <1>6, QueueTaken
<1> HIDE DEF a
<1> SUFFICES ASSUME NEW d \in Devices, NEW m \in Mods, alive'[d], told'[m] # None
             PROVE  Arriving(d, m)'
  BY DEF ToldInv
<1>8. CASE m = u.mod
  <2>1. PICK n : n = u.node
    OBVIOUS
  <2>2. LastPar(Append(mail[d], a), m, n)
    BY <1>3, <1>4, <1>8, <2>1, ParAppended
  <2> QED BY <1>4, <1>5, <1>8, <2>1, <2>2 DEF Arriving
<1>9. CASE m # u.mod
  <2>1. told'[m] = told[m] /\ told[m] \in Nodes
    BY <1>0, <1>5, <1>9 DEF ToldTypeOK
  <2>2. Arriving(d, m)
    BY <1>6, <2>1 DEF ToldInv
  <2>3. /\ LastPar(mail[d], m, told[m]) => LastPar(mail'[d], m, told[m])
        /\ ParsIn(mail[d], m) = {} => ParsIn(mail'[d], m) = {}
    BY <1>3, <1>4, <1>9, ParAppended
  <2>4. Doomed(ctlQueue) => Doomed(ctlQueue')
    BY <1>7 DEF DoomKept
  <2>5. ASSUME tables[d][m] # 0, WillSteer(d, tables[d][m], told[m])
        PROVE  WillSteer(d, tables[d][m], told[m])'
    <3>1. tables[d][m] \in Nat \ {0, MainTable}
      BY <2>5, TableNumbers, <1>0, Parts DEF AgentTypeOK
    <3>2. \/ LastSteer(ctlQueue', d, tables[d][m], told[m])
          \/ SteersIn(ctlQueue', d, tables[d][m]) = {} /\ fib[d][tables[d][m]] = told[m]
      BY <1>7, <2>1, <2>5, <3>1 DEF WillSteer, SteersKept
    <3> QED BY <1>6, <2>1, <3>2 DEF WillSteer
  <2> QED BY <1>6, <2>1, <2>2, <2>3, <2>4, <2>5 DEF Arriving
<1> QED BY <1>8, <1>9

LEMMA UpdateDatapathSteers ==
  ASSUME DpInv, TablesInv, ToldInv, NEW d \in Devices, UpdateDatapath(d)
  PROVE  ToldInv'
<1>0. TypeOK /\ AgentTypeOK /\ ControlTypeOK /\ DeviceTypeOK /\ ToldTypeOK
  BY Parts DEF DpInv
<1> DEFINE r == Head(ctlQueue)
<1>1. /\ ctlAlive /\ ctlQueue # <<>> /\ ctlQueue' = Tail(ctlQueue)
      /\ r.type = "steer" /\ r.dev = d /\ r.tab # 0
      /\ UNCHANGED <<mail, alive, tables, told, unheeded>>
  BY DEF UpdateDatapath, Serves, CanSteer, deviceVars, toldVars
<1>2. /\ \A e \in Devices, k \in Tables : ~(e = d /\ k = r.tab) => fib'[e][k] = fib[e][k]
      /\ r.action = "Replace" /\ r.tab \in Tables => fib'[d][r.tab] = r.node
  BY <1>0 DEF UpdateDatapath, ReplacePath, RemovePath, AgentTypeOK
<1>3. ctlQueue \in Seq(Request)
  BY <1>0 DEF ControlTypeOK
<1>4. Doomed(ctlQueue) => Doomed(ctlQueue')
  BY <1>1, <1>3, DoomStays
<1>5. ASSUME NEW e \in Devices, NEW k \in Tables, NEW n, WillSteer(e, k, n)
      PROVE  WillSteer(e, k, n)'
  <2>1. CASE e = d /\ k = r.tab
    <3>1. SteersIn(ctlQueue, e, k) # {}
      <4>1. 1 \in DOMAIN ctlQueue /\ ctlQueue[1] = r
        BY <1>1, <1>3
      <4> QED BY <1>1, <2>1, <4>1 DEF SteersIn
    <3>2. LastSteer(ctlQueue, e, k, n)
      BY <1>5, <3>1 DEF WillSteer
    <3>3. \/ LastSteer(ctlQueue', e, k, n)
          \/ SteersIn(ctlQueue', e, k) = {} /\ r.action = "Replace" /\ r.node = n
      BY <1>1, <1>3, <3>2, SteerTaken
    <3> QED BY <1>2, <2>1, <3>3 DEF WillSteer
  <2>2. CASE ~(e = d /\ k = r.tab)
    <3>1. fib'[e][k] = fib[e][k]
      BY <1>2, <2>2
    <3>2. /\ LastSteer(ctlQueue, e, k, n) => LastSteer(ctlQueue', e, k, n)
          /\ SteersIn(ctlQueue, e, k) = {} => SteersIn(ctlQueue', e, k) = {}
      BY <1>1, <1>3, <2>2, SteerTaken
    <3> QED BY <1>5, <3>1, <3>2 DEF WillSteer
  <2> QED BY <2>1, <2>2
<1> HIDE DEF r
<1> SUFFICES ASSUME NEW e \in Devices, NEW m \in Mods, alive[e], told[m] # None
             PROVE  Arriving(e, m)'
  BY <1>1 DEF ToldInv
<1>6. Arriving(e, m)
  BY <1>1 DEF ToldInv
<1>7. ASSUME tables[e][m] # 0, WillSteer(e, tables[e][m], told[m])
      PROVE  WillSteer(e, tables[e][m], told[m])'
  <2>1. PICK k \in Tables : k = tables[e][m]
    BY <1>7, TableNumbers
  <2>2. PICK n : n = told[m]
    OBVIOUS
  <2>3. WillSteer(e, k, n)'
    BY <1>5, <1>7, <2>1, <2>2
  <2> QED BY <1>1, <2>1, <2>2, <2>3 DEF WillSteer
<1> QED BY <1>1, <1>4, <1>6, <1>7 DEF Arriving

\* The device takes an update out of its mailbox and asks for the path.
LEMMA ProcessParUpdateSteers ==
  ASSUME DpInv, TablesInv, ToldInv, NEW d \in Devices, ProcessParUpdate(d)
  PROVE  ToldInv'
<1>0. TypeOK /\ AgentTypeOK /\ ControlTypeOK /\ DeviceTypeOK /\ ToldTypeOK /\ Numbered
  BY Parts DEF DpInv
<1> DEFINE u == Head(mail[d])
           q == PathTo(d, u.mod, u.node)
<1>1. /\ ctlAlive /\ mail[d] # <<>> /\ u.type = "par"
      /\ UNCHANGED <<alive, tables, fib, told>>
  BY DEF ProcessParUpdate, MailIs, agentVars
<1>2. mail[d] \in Seq(Answer) /\ u.mod \in Mods /\ u.node \in Nodes
  BY <1>0, MailType DEF ProcessParUpdate
<1>3. /\ mail'[d] = Tail(mail[d])
      /\ \A e \in Devices \ {d} : mail'[e] = mail[e]
      /\ unheeded' = unheeded \ {<<d, u.mod>>}
  BY <1>0 DEF ProcessParUpdate, Read, DeviceTypeOK
<1>4. number[d][u.mod] \in Nat /\ number[d][u.mod] \in {0, tables[d][u.mod]}
  BY <1>0, <1>2 DEF DpInv, NumbersKnown, Known, DeviceTypeOK
<1>5. PICK r : r = Steer(d, "Replace", number[d][u.mod], u.node)
  OBVIOUS
<1>6. /\ r \in Request /\ r.type = "steer" /\ r.dev = d /\ r.tab = number[d][u.mod]
      /\ r.action = "Replace" /\ r.node = u.node
  <2>1. r \in Request
    BY <1>2, <1>4, <1>5, RequestType
  <2> QED BY <1>5, <2>1 DEF Steer
<1>7. q = IF u.node = d THEN <<>> ELSE <<r>>
  BY <1>5 DEF PathTo
<1>8. ctlQueue \in Seq(Request) /\ ctlQueue' = ctlQueue \o q /\ q \in Seq(Request)
  BY <1>0, <1>6, <1>7, SeqFacts DEF ProcessParUpdate, ControlTypeOK
<1>9. ASSUME u.node # d PROVE ctlQueue' = Append(ctlQueue, r)
  <2>1. ctlQueue' = ctlQueue \o <<r>>
    BY <1>7, <1>8, <1>9
  <2>2. Append(ctlQueue, r) = ctlQueue \o <<r>>
    BY <1>6, <1>8, AppendJoins
  <2> QED BY <2>1, <2>2
<1>10. Doomed(ctlQueue) => Doomed(ctlQueue')
  BY <1>8, DoomStays
<1>11. ASSUME NEW e \in Devices, NEW k, NEW n, WillSteer(e, k, n),
              k # 0, ~(e = d /\ k = tables[d][u.mod])
       PROVE  WillSteer(e, k, n)'
  <2>1. SteersIn(q, e, k) = {}
    <3>1. CASE u.node = d
      <4>1. q = <<>>
        BY <1>7, <3>1
      <4>2. DOMAIN q = {}
        BY <4>1
      <4> QED BY <4>2 DEF SteersIn
    <3>2. CASE u.node # d
      <4>1. q = <<r>>
        BY <1>7, <3>2
      <4>2. \A i \in DOMAIN q : q[i] = r
        BY <4>1
      <4> QED BY <1>4, <1>6, <1>11, <4>2 DEF SteersIn
    <3> QED BY <3>1, <3>2
  <2>2. /\ LastSteer(ctlQueue, e, k, n) => LastSteer(ctlQueue', e, k, n)
        /\ SteersIn(ctlQueue, e, k) = {} => SteersIn(ctlQueue', e, k) = {}
    BY <1>8, <2>1, SteersJoined
  <2> QED BY <1>1, <1>11, <2>2 DEF WillSteer
<1> HIDE DEF u, q
<1> SUFFICES ASSUME NEW e \in Devices, NEW m \in Mods, alive[e], told[m] # None
             PROVE  Arriving(e, m)'
  BY <1>1 DEF ToldInv
<1>12. Arriving(e, m)
  BY <1>1 DEF ToldInv
<1>13. PICK n \in Nodes, k \in Nat : n = told[m] /\ k = tables[e][m]
  BY <1>0 DEF ToldTypeOK, AgentTypeOK
<1>14. CASE e = d /\ m = u.mod
  <2>1. LastPar(mail[d], m, n)
    <3>1. ParsIn(mail[d], m) # {}
      <4>1. 1 \in DOMAIN mail[d] /\ mail[d][1] = u
        BY <1>1, <1>2 DEF u
      <4> QED BY <1>1, <1>14, <4>1 DEF ParsIn
    <3> QED BY <1>12, <1>13, <1>14, <3>1 DEF Arriving
  <2>2. \/ LastPar(mail'[d], m, n)
        \/ ParsIn(mail'[d], m) = {} /\ u.node = n
    BY <1>1, <1>2, <1>3, <2>1, ParTaken DEF u
  <2>3. CASE LastPar(mail'[d], m, n)
    BY <1>1, <1>13, <1>14, <2>3 DEF Arriving
  <2>4. CASE ParsIn(mail'[d], m) = {} /\ u.node = n
    <3>1. CASE n = d
      BY <1>1, <1>13, <1>14, <2>4, <3>1 DEF Arriving
    <3>2. CASE n # d /\ r.tab = 0
      <4>1. Len(ctlQueue) + 1 \in DOMAIN ctlQueue' /\ ctlQueue'[Len(ctlQueue) + 1] = r
        BY <1>6, <1>8, <1>9, <2>4, <3>2
      <4>2. Doomed(ctlQueue')
        BY <1>6, <3>2, <4>1 DEF Doomed
      <4> QED BY <1>14, <2>4, <4>2 DEF Arriving
    <3>3. CASE n # d /\ r.tab # 0
      <4>1. r.tab = k /\ k # 0
        BY <1>4, <1>6, <1>13, <1>14, <3>3
      <4>2. LastSteer(ctlQueue', d, k, n)
        BY <1>6, <1>8, <1>9, <2>4, <3>3, <4>1, SteerAppended
      <4> QED BY <1>1, <1>13, <1>14, <2>4, <4>1, <4>2 DEF Arriving, WillSteer
    <3> QED BY <3>1, <3>2, <3>3
  <2> QED BY <2>2, <2>3, <2>4
<1>15. CASE ~(e = d /\ m = u.mod)
  <2>1. /\ LastPar(mail[e], m, n) => LastPar(mail'[e], m, n)
        /\ ParsIn(mail[e], m) = {} => ParsIn(mail'[e], m) = {}
    <3>1. CASE e = d
      BY <1>1, <1>2, <1>3, <1>15, <3>1, ParTaken DEF u
    <3>2. CASE e # d
      BY <1>3, <3>2
    <3> QED BY <3>1, <3>2
  <2>2. ASSUME k # 0, WillSteer(e, k, n) PROVE WillSteer(e, k, n)'
    <3>1. ~(e = d /\ k = tables[d][u.mod])
      BY <1>0, <1>2, <1>13, <1>15, <2>2 DEF Numbered
    <3> QED BY <1>11, <2>2, <3>1
  <2>3. <<e, m>> \in unheeded => <<e, m>> \in unheeded'
    BY <1>3, <1>15
  <2> QED BY <1>1, <1>10, <1>12, <1>13, <2>1, <2>2, <2>3 DEF Arriving, WillSteer
<1> QED BY <1>14, <1>15

\* The device takes an update out of its mailbox and ignores it.
LEMMA ParUpdateIgnoredKeeps ==
  ASSUME DpInv, ToldInv, NEW d \in Devices, ParUpdateIgnored(d)
  PROVE  ToldInv'
<1>0. DeviceTypeOK /\ ToldTypeOK
  BY Parts DEF DpInv
<1> DEFINE u == Head(mail[d])
<1>1. /\ ctlAlive /\ mail[d] # <<>> /\ u.type = "par" /\ mail[d] \in Seq(Answer)
      /\ UNCHANGED <<agentVars, controlVars, alive, told>>
      /\ unheeded' = unheeded \cup {<<d, u.mod>>}
  BY <1>0 DEF ParUpdateIgnored, MailIs, DeviceTypeOK
<1>2. /\ mail'[d] = Tail(mail[d])
      /\ \A e \in Devices \ {d} : mail'[e] = mail[e]
  BY <1>0 DEF ParUpdateIgnored, Read, DeviceTypeOK
<1> HIDE DEF u
<1> SUFFICES ASSUME NEW e \in Devices, NEW m \in Mods, alive[e], told[m] # None
             PROVE  Arriving(e, m)'
  BY <1>1 DEF ToldInv
<1>3. Arriving(e, m)
  BY <1>1 DEF ToldInv
<1>4. PICK n : n = told[m]
  OBVIOUS
<1>5. /\ LastPar(mail[e], m, n) =>
           \/ LastPar(mail'[e], m, n)
           \/ ParsIn(mail'[e], m) = {} /\ <<e, m>> \in unheeded'
      /\ ParsIn(mail[e], m) = {} => ParsIn(mail'[e], m) = {}
  <2>1. CASE e # d
    BY <1>2, <2>1
  <2>2. CASE e = d /\ m # u.mod
    BY <1>1, <1>2, <2>2, ParTaken DEF u
  <2>3. CASE e = d /\ m = u.mod
    <3>1. ParsIn(mail[d], m) # {}
      <4>1. 1 \in DOMAIN mail[d] /\ mail[d][1] = u
        BY <1>1 DEF u
      <4> QED BY <1>1, <2>3, <4>1 DEF ParsIn
    <3>2. LastPar(mail[d], m, n) =>
            LastPar(mail'[d], m, n) \/ ParsIn(mail'[d], m) = {}
      BY <1>1, <1>2, ParTaken
    <3> QED BY <1>1, <2>3, <3>1, <3>2
  <2> QED BY <2>1, <2>2, <2>3
<1>6. UNCHANGED <<ctlQueue, tables, fib>>
  BY <1>1 DEF agentVars, controlVars
<1> QED BY <1>1, <1>3, <1>4, <1>5, <1>6 DEF Arriving, WillSteer
-----------------------------------------------------------------------------
SteerInv == DpInv /\ TablesInv /\ ToldInv

LEMMA SteerInit == Init => SteerInv
<1> SUFFICES ASSUME Init PROVE SteerInv
  OBVIOUS
<1>1. DpInv
  BY DpInit
<1>2. TablesInv
  BY DEF Init, ProvInit, AgentInit, TablesInv
<1>3. ToldInv
  BY DEF Init, ToldInv
<1> QED BY <1>1, <1>2, <1>3 DEF SteerInv

LEMMA SteerNext == SteerInv /\ [Next]_vars => SteerInv'
<1> SUFFICES ASSUME SteerInv, [Next]_vars PROVE SteerInv'
  OBVIOUS
<1>0. DpInv /\ TablesInv /\ ToldInv /\ TypeOK
  BY DEF SteerInv, DpInv
<1>1. DpInv' /\ TablesInv'
  BY <1>0, DpNext, TablesKept
<1> SUFFICES ToldInv'
  BY <1>1 DEF SteerInv
<1>2. Onlooker => ToldInv'
  BY <1>0, OnlookerKeeps
<1>3. ASSUME NEW d \in Devices, ControllerProvision(d), Unsteered PROVE ToldInv'
  <2>1. CASE ctlAlive'
    BY <1>0, <1>2, <1>3, <2>1, ControllerOnlooker DEF Unsteered
  <2>2. CASE ~ctlAlive'
    BY <2>2 DEF ToldInv
  <2> QED BY <2>1, <2>2
<1>4. ASSUME NEW d \in Devices, DeviceProvision(d), Unsteered PROVE ToldInv'
  BY <1>0, <1>2, <1>4, DeviceOnlooker DEF Unsteered
<1>5. CASE RestartAll
  BY <1>5 DEF RestartAll, ToldInv
<1>6. CASE ProcessPar
  BY <1>0, <1>6, ProcessParTells
<1>7. ASSUME NEW d \in Devices,
             UpdateDatapath(d) \/ ProcessParUpdate(d) \/ ParUpdateIgnored(d)
      PROVE  ToldInv'
  BY <1>0, <1>7, UpdateDatapathSteers, ProcessParUpdateSteers, ParUpdateIgnoredKeeps
<1>8. ASSUME NEW d \in Devices, UpdateDatapathFails(d) PROVE ToldInv'
  BY <1>8 DEF UpdateDatapathFails, ControllerDies, ToldInv
<1>9. ASSUME NEW m \in Mods, DecideStep(m) PROVE ToldInv'
  BY <1>0, <1>2, <1>9, ModuleOnlooker DEF DecideStep
<1>10. CASE ProvEnvironment /\ Unsteered
  BY <1>0, <1>2, <1>10, EnvironmentOnlooker DEF Unsteered
<1>11. CASE ExportStep
  BY <1>0, <1>2, <1>11, ExportOnlooker
<1>12. CASE \/ DelaysChange /\ UNCHANGED <<routeVars, toldVars>>
            \/ \E d \in Devices : Negotiates(d)
            \/ \E n \in Nodes : Announce(n) \/ Withdraw(n)
            \/ \E d \in Devices : ProcessParUpdateFails(d)
            \/ UNCHANGED vars
  BY <1>0, <1>2, <1>12, OthersOnlook
<1> QED
  BY <1>3, <1>4, <1>5, <1>6, <1>7, <1>8, <1>9, <1>10, <1>11, <1>12
  DEF Next, ControllerStep, DeviceStep

(***************************************************************************)
(* When the queues are empty, the table of a module on every device that   *)
(* heard of an update leads to the node of the last one, whatever was      *)
(* decided, exported and prepared meanwhile, unless the device is a peer   *)
(* that ignored this update because its neighbour had not offered the      *)
(* family of the prefix (process_par_message and process_update_datapath   *)
(* in Controller.py, _process_par_update in Headend.py and Peer.py,        *)
(* Replace in the manager).                                                *)
(***************************************************************************)
THEOREM AlwaysSteeredAsTold == Spec => []SteeredAsTold
<1>1. SteerInv => SteeredAsTold
  <2> SUFFICES ASSUME SteerInv, Quiet, NEW d \in Devices, NEW m \in Mods,
                      alive[d], told[m] \notin {None, d}, <<d, m>> \notin unheeded
               PROVE  fib[d][tables[d][m]] = told[m]
    BY DEF SteeredAsTold
  <2>1. ctlAlive /\ ctlQueue = <<>> /\ mail[d] = <<>>
    BY DEF Quiet
  <2>2. DOMAIN ctlQueue = {} /\ DOMAIN mail[d] = {}
    BY <2>1, NoAnswers
  <2>3. Arriving(d, m)
    BY <2>1 DEF SteerInv, ToldInv
  <2> QED BY <2>2, <2>3 DEF Arriving, LastPar, ParsIn, Doomed, WillSteer, LastSteer, SteersIn
<1> QED BY <1>1, SteerInit, SteerNext, PTL DEF Spec
=============================================================================
