--------------------------- MODULE DataplaneAgent ---------------------------
(***************************************************************************)
(* The dataplane manager of a device (srv6-controller/grpc), as far as the *)
(* controller calls it: a routing table and a mark for every PAR module,   *)
(* and the paths of the one prefix that is watched.  A call that reaches   *)
(* the device is carried out; the kernel does what it is told.             *)
(***************************************************************************)
EXTENDS Naturals, Sequences, FiniteSets, SequencesExt, FiniteSetsExt

CONSTANTS
  Devices,   \* the head ends and the PAR-enabled peers
  ModList,   \* the PAR modules, each with one flow, as they are configured
  Nodes,     \* the nodes at which traffic leaves the network
  None       \* no node

Mods == Range(ModList)

\* Numbers of tables: 0 is no table.
MainTable == 254
FirstTable == 10
Tables == {MainTable} \cup FirstTable .. FirstTable + Len(ModList)

ASSUME AgentAssumption ==
  /\ IsFiniteSet(Devices)
  /\ ModList \in Seq(Mods)
  /\ IsInjective(ModList)
  /\ FirstTable + Len(ModList) < MainTable
  /\ None \notin Nodes

VARIABLES
  tables,     \* ConfigureDataplaneHandler.tables: the number of a module's table
  lastRoute,  \* ConfigureDataplaneHandler.last_route
  ipRules,    \* rules in the kernel: <<m, n>>, the mark of m leads to table n
  markRules,  \* how many times the ip6tables rules that mark the flow of m exist
  fib         \* fib[d][n]: the node to which table n steers the prefix

agentVars == <<tables, lastRoute, ipRules, markRules, fib>>

AgentTypeOK ==
  /\ tables \in [Devices -> [Mods -> Nat]]
  /\ lastRoute \in [Devices -> Nat]
  /\ ipRules \in [Devices -> SUBSET (Mods \X Nat)]
  /\ markRules \in [Devices -> [Mods -> Nat]]
  /\ fib \in [Devices -> [Tables -> Nodes \cup {None}]]

AgentInit ==
  /\ tables = [d \in Devices |-> [m \in Mods |-> 0]]
  /\ lastRoute = [d \in Devices |-> 0]
  /\ ipRules = [d \in Devices |-> {}]
  /\ markRules = [d \in Devices |-> [m \in Mods |-> 0]]
  /\ fib = [d \in Devices |-> [n \in Tables |-> None]]
-----------------------------------------------------------------------------
\* A faulty variant: a table is made for every module that is named.
NewOnDeviceAll(d) == Mods

\* The modules that have no table yet.
NewOnDevice(d) == { m \in Mods : tables[d][m] = 0 }

\* The new modules that come before m in the request.
Earlier(d, m) ==
  { k \in NewOnDevice(d) :
      \E i, j \in DOMAIN ModList : i < j /\ ModList[i] = k /\ ModList[j] = m }

\* The number of the next table.
NextTable(d) == IF lastRoute[d] = 0 THEN FirstTable ELSE lastRoute[d]

\* What CreateRouteTable returns: only the tables it made now.
Created(d) ==
  [m \in Mods |-> IF m \in NewOnDevice(d) THEN NextTable(d) + Cardinality(Earlier(d, m))
                  ELSE 0]

CreateRouteTable(d) ==
  /\ tables' = [tables EXCEPT ![d] =
                  [m \in Mods |-> IF m \in NewOnDevice(d) THEN Created(d)[m] ELSE @[m]]]
  /\ lastRoute' = [lastRoute EXCEPT ![d] =
                     IF NewOnDevice(d) = {} THEN @
                     ELSE NextTable(d) + Cardinality(NewOnDevice(d))]
  /\ UNCHANGED <<ipRules, markRules, fib>>

\* A faulty variant: a rule that exists counts as made.
MarkedNowAll(d, num) == Mods

\* The flows of which FlowMark made the rule: one that exists is left out.
MarkedNow(d, num) == { m \in Mods : <<m, num[m]>> \notin ipRules[d] }

FlowMark(d, num) ==
  ipRules' = [ipRules EXCEPT ![d] = @ \cup { <<m, num[m]>> : m \in Mods }]

\* The rules are appended, whether they exist or not.
AddIp6tableRule(d, ms) ==
  markRules' = [markRules EXCEPT ![d] =
                  [m \in Mods |-> @[m] + IF m \in ms THEN 1 ELSE 0]]

\* A faulty variant: a path is only added where there is none.
AddPath(d, n, node) ==
  fib' = IF fib[d][n] = None THEN [fib EXCEPT ![d][n] = node] ELSE fib

\* SRv6ExplicitPathHandler.Replace: the path replaces the one in the table.
ReplacePath(d, n, node) == fib' = [fib EXCEPT ![d][n] = node]

\* SRv6ExplicitPathHandler.Remove
RemovePath(d, n) == fib' = [fib EXCEPT ![d][n] = None]
=============================================================================
