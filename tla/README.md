# A verification project for OvW-Sys-Research

Overwatch is a latency-aware BGP controller: it peers with the neighbours of an AS through ExaBGP, keeps their routes in
route tables, chooses per neighbour what to announce, measures the delay of the egress paths of selected prefixes and
steers those prefixes with SRv6 over the better path.  Its controller (`src/bgpcontroller/`) is a set of operating-system
processes that share nothing and talk through queues; around it run ExaBGP and its two helper scripts
(`src/bgpspeaker/`), a dataplane agent (`src/srv6-controller/grpc/`) and an OSPF listener with threads of its own
(`src/bgpcontroller/pyospf/`).

This directory holds TLA+ modules translated from that code, the TLC configurations that check them on small instances,
and theorems about them with TLAPS proofs.  Paths below are relative to the repository's `src/`.

To check a run: `tlc -config <run>.cfg <module>.tla`, with the pairs in the table of runs below.
To check the proofs: `tlapm RouteExchangeProofs.tla` and the other `*Proofs.tla`.

## 1. Inventory

### 1.1 The route exchange (modelled)

| Component | Code | State | Operations |
|---|---|---|---|
| Process loop | `bgpcontroller/PolicyObject.py` 62-106 | mailbox, callbacks, time of the oldest callback | read a message with a time-out of 1 s; run callbacks when the mailbox was empty or they are 10 s old; a callback that is already waiting is not added again |
| BGP peer | `BGPPeer.py`, `Peer.py` | session flags (`active`, `seen_eor`, `eor_true`, `afi_safi`), `received`, `adj_ribs_in`, `exported`, `degraded`, the topology | open, state, update, end-of-RIB from the neighbour; table update, status, topology from the controller; callbacks to update the tables and to export |
| Route table | `RouteTable.py` | routes by source, `update_source` | update and reload from peers; the callback that updates the export peers |
| Peer status | `Controller.py` 722-742, 782-804 | up or down for each peer and each speaker | count what is missing, tell peers |
| BGP speaker | `BGPSpeaker.py` | AS number, time of the last sign of life | translate gRPC calls into peer messages; encode announcements; report health |
| Controller loop | `Controller.py` 322-353, 454-484 | the internal queue | dispatch by kind of message |
| ExaBGP side | `bgpspeaker/receiver.py`, `sender.py` | none that lasts | turn ExaBGP's events into gRPC calls; poll for commands and print them to ExaBGP |

How they interact: neighbour -> ExaBGP -> `receiver.py` -> gRPC handler -> speaker mailbox -> controller queue -> peer
mailbox -> (callback) -> table mailbox -> (callback) -> mailboxes of the other peers -> (callback) -> controller queue ->
speaker mailbox -> outgoing queue -> `sender.py` -> ExaBGP -> neighbour.  Every arrow is an unbounded FIFO queue and every
process reads one queue.  Nothing is acknowledged and no process waits for another, so a request and what follows from it
can be separated by anything.

What is hard here: three queues and two delayed callbacks lie between a change and its announcement; callbacks read the
state of the moment they run in, not of the moment they were asked for; withdrawals name only a prefix; sessions end
while their routes are still under way; the table guesses from the order of updates which peer needs no copy.

What makes it correct: a table holds of each peer exactly what the peer stored after its end-of-RIB; a neighbour is never
told its own route or one through its AS; what a peer believes to have announced is what its neighbour was told; once all
is quiet every neighbour has the best of what the others announce; the number of missing peers, which is put on routes as
a community, is the true one.

### 1.2 Latency-aware steering (modelled)

| Component | Code | State | Operations |
|---|---|---|---|
| PAR modules | `bgpcontroller/PARMetricsModule.py` | candidate paths of PAR prefixes, measurement flows, delays | initial, add and remove route; routing rounds that compare delays with thresholds |
| Dataplane handshake | `Controller.py` 494-720, `Peer.py` 502-740, `Headend.py` | interfaces, tables and marks of each dataplane | configure, learn tables, steer a prefix in or out |
| Dataplane agent | `srv6-controller/grpc/dpserviceapi.py`, `srv6_manager.py` | kernel tables, rules, ip6tables | create tables, flow marks and SRv6 paths; delete them |
| Measurement client (not modelled) | `srv6-controller/grpc/parclient.py` | none | feeds delays |

What is hard here: the handshake crosses three processes and the kernel; the agent may outlive the controller; requests
are repeated although part of them was done, and several attempts for one device can be under way; thresholds meet the value
0.0 of failed paths; a better path can be found before the table to put it into is known.  What makes it correct: the numbers
of tables agree on both sides; each flow is marked once and led to its own table; a repeated configuration changes nothing;
every device gets configured; in a quiet state a device steers over the path it was told last; a module leaves a slow or
failed path when there is a good one.

### 1.3 OSPF listener and topology (modelled, without the election of designated routers)

| Component | Code | State | Operations |
|---|---|---|---|
| Timers | `bgpcontroller/pyospf/utils/timer.py` | three flags and an event per thread | start, reset, stop |
| Thread pool | `pyospf/utils/threadpool.py` | task list, busy flags, events | add a task, run tasks, sleep and wake |
| Flooding and topology changes | `pyospf/protocols/flood.py`, `pyospf/core/{ospfArea,ospfLsdb,ospfReceiver}.py` | the link-state database, the hold timer | install an LSA, delay and publish a change |
| Adjacency | `pyospf/core/neighborStateMachine.py`, `pyospf/protocols/{hello,exchange,flood}.py` | neighbour state, request list, resend timer | hello, database exchange, requests, updates, dead timer |
| Network manager | `Network.py` | links, shortest paths | build, compare, announce in two messages |

What is hard here: each timer is a thread; `reset` and the thread clear the same flags without a lock; a task can be added
between a worker's last look at its list and its wait; the database is read while it is written; packets of an earlier
exchange meet the lists and timers of a later one; the two ends can disagree about the state of the adjacency; a peer gets
paths and links in two messages.  What makes it correct: every lasting change of the database is published; timers and workers
do not die; the probe never waits for updates that nobody asks for; a probe that is Full has the router's database; the paths
handed out are least-cost and consistent hop by hop, and a peer never joins paths and links of two topologies.

### 1.4 Prefix filters (modelled)

`PrefixFilterRule` (`Filter.py` 244-379) compiles its patterns into a radix trie whose nodes carry a mask of accepted prefix
lengths, and judges a route by one node alone.  What is hard: patterns overlap and come in any order, so each has to leave its
mark on the nodes that are there and on those that come later.  What makes it correct: a prefix matches if and only if one of
the patterns accepts it.

Section 7 lists what is not modelled and why.

## 2. Modules

| Module | Models | Composes |
|---|---|---|
| `OvWMailboxes` | the queues and the messages in them | |
| `RouteTable` | `RouteTable.py` | mailboxes |
| `BGPPeer` | `BGPPeer.py`, `Peer.py` | mailboxes |
| `PeerStatus` | the controller's view of peers | mailboxes |
| `RouteExchange` | all of the route exchange with the neighbours as environment | the four above |
| `PeerChannels` | abstract: what the path between neighbour and peer promises | |
| `BGPSpeakers` | `BGPSpeaker.py`, the controller loop, `receiver.py`, `sender.py` | implements `PeerChannels` |
| `OspfTimer` | `pyospf/utils/timer.py`, statement by statement | |
| `OspfThreadPool` | `pyospf/utils/threadpool.py`, statement by statement | |
| `OspfFlooding` | from a link-state update to a published topology, with neighbours as environment | timer and pool |
| `OspfAdjacency` | neighbour state machine, database exchange, requests and updates, with a router as environment | |
| `Topology` | `Network.py`: shortest paths, segments, the two messages to the peers | |
| `DataplaneAgent` | `dpserviceapi.py`, `srv6_manager.py`: tables, marks, paths | |
| `Provisioning` | the handshake of controller and devices | the agent |
| `PathSelection` | `PARMetricsModule.py` | extends provisioning, with whose controller queue it shares |
| `SegmentRouting` | decisions, commands, exports and paths, end to end | all three above |
| `PrefixFilter` | `PrefixFilterRule` of `Filter.py` | |
| `MC...` | values for constants | |
| `...Proofs` | theorems | |

### 2.1 RouteExchange

State.  `peerMail[p]`, `tableMail` are mailboxes; `ctlMail` and `out[p]` are the two kinds of traffic on the controller's
queue that matter here.  A peer has `active`, `seenEor`, `eorTrue`, `negotiated`, `received`, `adjIn`, `exported`,
`degraded`, `topology`, `callbacks`, each the attribute of the same meaning; the table has `routes`, `rank` (the place of a
source in the Python dictionary, which decides ties), `updateSource` and `updatePending`.  The environment has `session`,
`offer` (what a neighbour announces), `ribOut` (what ExaBGP announces to it) and `topoSent`.

Actions.  One per handler and outcome: `ProcessOpen` is `_process_BGP_message` for an open message, `ProcessUp`,
`ProcessDown` and `ProcessStateSame` are `_state_change` and its early return, `ProcessAnnounce`, `ProcessWithdraw` and
`IgnoreUpdate` are the update handler, `ExportRoutes`, `ExportNothing`, `ExportSkipped` are `_do_export_routes` with its early
returns, `UpdateTables` is `_update_tables_with_routes`, and so on; the `map` of `PROJECT.json` has the lines.  Every action
is the whole handler: no process reads another's memory, so a handler is atomic except for what it puts on queues, and
queues keep its order.

Abstractions.
* A callback may run before any message: real time (1 s of silence or 10 s of age) decides when, and any time can be too
  early or too late for any message in flight.
* The path from a neighbour to its peer process, and back, is one queue each.  `BGPSpeakers` justifies it: with one
  speaker the real path implements that promise.
* Attributes are model values with a preference and an AS path; import and export filters say which attributes pass.
* An export writes one message per prefix; the model groups those of one kind, as prefixes within differ.
* No PAR prefix, no add-path neighbour, no aggregate: their branches are left out (section 7).  One route table, which
  imports from and exports to all peers; `config.yaml` has six, each with its own peers and filters, and what one of them
  does to a peer that another feeds too is not modelled.  The topology is known or not; shortest paths matter only to PAR
  prefixes.
* A withdrawal names one prefix.  Of two withdrawn prefixes in one update that contain the same stored one, the second ends
  the process with an exception (`BGPPeer.py` 214-260: the stored prefix is listed twice and deleted twice).
* A neighbour outside `GrPeers` never sends an end-of-RIB.

### 2.2 BGPSpeakers

State.  `inbox[s]`, `queue`, `outgoing`, `peerMail[p]` are the queues between the processes, `heard[s]` is the age of
`keepalived_time`, `asnKnown[s]` says whether the speaker learned its AS number, `status` and `speakerStatus` are the two
dictionaries of the controller.  `present[s]` says whether the ExaBGP process runs.

Actions.  `SpeakerHears` is `_process_receive_update`, `_process_peer_state`, `_process_peer_capabilities` and
`_process_speaker_healthcheck` for a message received from a configured peer, by what they put on the queue and in which
order; `SpeakerHearsOther` is the same four for all else, that is open messages that ExaBGP sent and whatever a peer that is
not configured says: each refreshes `keepalived_time`, but open messages and keepalives return before anything is put on the
queue.  What the controller drops of the rest (`process_bgp_message`, an unknown peer) is left out.  `SpeakerSends` the two
handlers for commands; `SpeakerSilent` is `_destruct`; `ProcessBgp`, `ProcessStatus`, `ProcessHealthcheck`, `ProcessEncode`
are the controller's handlers; `PeerHears` and `PeerStatus` are the part of a peer that these messages reach; `SenderFetches`
is `GetCtlrMsg`.

Two lines near this code do not parse as Python in the committed tree (`Controller.py` 690-692 and `Headend.py` 153-157 end
in an `else` without a body); the models read them as an empty `else`.

### 2.3 OspfTimer, OspfThreadPool, OspfFlooding

Unlike the controller, the OSPF listener is one process whose threads share objects, so these modules go statement by
statement: an action is what the interpreter may do between two switches of threads and another thread can notice.

State.  `timerAt[t]` and `workerAt[w]` are program counters; `resetFlag`, `stopFlag`, `event` are the attributes of a timer,
`tasks`, `busy`, `bell` those of the pool and its workers (`bell` is `_event`, "none" before it is created).  `lsdb` is the
dictionary of router LSAs, `holdTimer` the area's attribute, `callAt[c]` the place in `topo_change` of caller `c`, a worker or
the aging timer.  `todo`, `size`, `links` are the iteration of `_compute_change` over the dictionary, which fails when the
number of entries changes; `published` is the last topology put on the queue of the network manager.  `raced` is a history
variable: a signal met a timer that had ceased to look at its flag or was reading, or a second timer was made while one ran.

Actions.  `InnerTest` to `End` are the lines of `Timer.run`, `ResetRaise` and `ResetSignal` the two assignments of `reset`;
`AddTask`, `ChooseWorker`, `Work` are `_add_task` in the receiver's thread; `WorkerStarts` to `WorkerClears` the lines of
`WorkerThread.run`; `CheckLsu`, `InstallLsa`, `SendLsack` the parts of `check_lsu` that the lock and the call of `topo_change`
separate; `TestHoldTimer` to `SignalHoldTimer` the statements of `topo_change`, each of which reads `self.holdTimer` again;
`StartAgain` is the exception of a second `start()`, which ends the calling thread.

Abstractions.
* Neighbours are Full, so every update is handled and signals a change.  Database exchange and the states before Full are
  in `OspfAdjacency`.
* An instance of an LSA is a number; newer is larger.  An LSA that is flushed (MaxAge) is removed.  What links it has is
  left out: a topology is published right if it was computed from the right instances.
* The wait of a timer can end at any time: time is not modelled, and the event can only make it end earlier.
* A timer object that ended and that nobody refers to stands for a new one, so two or three serve any number of changes.
* A packet is sent again only when the pool neither has it in its list nor handles it, or when all workers sleep: handling
  a packet takes less than the five seconds after which a neighbour retransmits.
* The `MinLSArrival` test (`flood.py` 103) takes the seconds of a negative time difference, which are close to a day, so it
  never refuses an LSA; the model has no such test.

### 2.4 OspfAdjacency

State.  `state`, `ddSeq`, `lsReq`, `resend`, `lsdb` are `NSM.state`, `dd_seqnum`, `ls_req`, `lsr_resend_timer` and the
database. A repeating timer is given the list `ls_req` when it is made; `_seq_mismatch_or_bad_lsr` puts a new list into its
place, so `resend.live` says whether the timer still has the one that is in use, and `orphans` are the lists of timers that
run and that nobody refers to.  `greeting` says whether `_dd_exstart_timer` runs.  `receiver` is what is left of `_loading`
in the receiver's thread (the test of the list, then the timer), `finishing` the updates of which a worker took the last LSA
off the list and has yet to look at the timer.  `lsReq` counts, as an LSA can be in the list twice.  `deadWorkers` counts the
threads of the pool that met an exception, of which there are two.  `late` is a history variable: the LSAs of which the
instance in the database was, when it was installed, older than what the router had and was not about to flood.  `overtaken`
is another: the LSAs that a description put on the list while a worker was about to end the requests.  The rest is the
router, which follows the standard, and the packets under way.

Actions.  `HelloTwoWay` and `HelloOneWay` are `check_active_router`, `Dead` the dead timer, `CheckDd` is the whole of `check_dd`
with one disjunct per state (`DdIgnored`, `DdInInit`, `DdNegotiates`, `DdExchange`, `DdMismatch`) and two for `_loading`
(`Loads`, the test at `neighborStateMachine.py` 216 with the first request, and `Starts`, the timer at 218), `CheckLsu` the whole
of `check_lsu` with its early ends and exceptions and the end of the requests at `flood.py` 146-153 as steps of their own
(`LsuFinished`, `LsuEndsWorker`), `Overtakes` the second worker being faster than the first, `FirstDdAgain` and `RequestAgain` the
firing of repeating timers, `RequestsEnd` that of one with an empty list, which ends in an exception (`timer.py` 33 passes no
argument then).

Abstractions.
* The link is point-to-point, so two-way leads to ExStart and there is no designated router.
* The router sends one LSA in each update; the options and the MTU of both ends agree; an instance is a number.
* `check_dd` runs in the receiver while a worker may run `check_lsu`, without a common lock.  They share the list of
  requests, its timer and the state, and the model has the switches of threads that can part a test of these from what
  depends on it: between the list and the timer in `_loading`, between the list and the timer in `check_lsu`, and between the
  first part of `check_dd`, which fills the list, and `_loading`.  A handler is one step up to there: a mismatch met by two
  threads at once, and the request that is sent from a list which shrinks meanwhile, are not interleaved further (the
  statements of the pool and the hold timer are, in 2.3).  Two workers take updates from the list of tasks and can overtake
  each other (`Overtakes`) as long as both are free.
* There is one neighbour, so a reset empties the whole database, as the code does with one neighbour of several.
* Sequence numbers are taken modulo `SeqLimit`; four tell a packet from its predecessor and its successor.
* A timer fires when the packet it would repeat has been dealt with (`InTime`), or against the bound `MaxFaults`: the interval
  is five seconds.

### 2.5 Topology

State.  `links` and `topology` are the attributes of `Network` in the network manager, `mail[p]` what is under way to a peer or
head end, `peerTopology` and `peerGraph` its own copies.  `Adjacent` is the initial matrix of `_all_pairs_shortest_path`, in
which the last of parallel links counts (`LinkTo`); `Rounds` is its outer loop, a function from the number of routers that
were considered to the matrix so far, and `AllPairs` the last one.  A pair without a path raises an exception that resets
everything (`Connected`, `Paths`, `LinksLeft`).  `Result` is a function over all
topologies that can be read, so that TLC computes each once.

Actions.  `Start` is `run` with the static topology, `BuildTopology` the whole of `_build_topo` with the two puts for each
peer, `Unchanged` its comparison with the links it had, `PeerGetsTopology` and `PeerGetsLinks` the handlers of the peer.

### 2.6 DataplaneAgent, Provisioning, PathSelection, SegmentRouting

State.  `tables`, `lastRoute`, `ipRules`, `markRules`, `fib` are the manager's dictionary and counter and what it has the
kernel hold.  `ctlQueue` and `mail[d]` are the queue of the controller and the mailboxes of the devices, `dpStatus` the state
in `Controller.datapath`, `refused` a history of the devices whose kernel refused rules, `number[d]` and `flowObjs[d]` what
the process of a device knows of its tables and flows, `network[d]` and `hasIfaces[d]` whether it has topology and
interfaces.  `ctlAlive`, `alive[d]`, `parAlive[m]` become false when a process meets an exception; nothing starts it again
but `RestartAll`, the start of the whole controller.  `routes`, `current`, `preferred` are the dictionaries of a PAR module,
`delay` what the client measures.  `negotiated[d]` says whether `afi_safi` of a peer has the family of the prefix, which it
keeps from the first session in which its neighbour offers it; the neighbours in `Offering` do.

Actions.  One per handler and outcome; the ones whose names end in `Fails` are exceptions: a call to a device out of reach
that is not guarded, a table without a number in a message, an interface that is looked up before there are any, the removal
of a route with a key that is never sent (`PARMetricsModule.py` 566).  A request for flow marks is two calls: `CreateRules`
is `FlowMark` and leaves the rest of the request, `add-ip6tables`, at the head of the controller's queue, where nothing else
is served before it; `CreateMarks` is `AddIp6tableRule` with what follows it.  `CreateRulesRefused` is the guarded exception
of the first (`Controller.py` 607-612), `CreateMarksFails` the unguarded one of the second (634), which ends the controller
with rules and without marks.  `ParUpdateIgnored` is the return of a peer that cannot import the prefix (`Peer.py` 514-518);
a head end has that test commented out.  `GetIfacesAgain` is the retry of a head end, `Keepalive` that of a peer, which does
not look whether an attempt is under way.  `Outage`, `Recover`, `GetsReady` and `RestartAll` are the faults.

Abstractions.
* One prefix is watched; a route to it is the node at which traffic leaves, and every node is a neighbour of every device.
* Which interfaces and segments there are is left out, only whether they can be found.
* A measurement covers all nodes, so a decision depends on the last one alone; the average over a period is left out.
* Which route a peer exports is any that another node announced; `RouteExchange` has the choice.
* A kernel refuses all new rules of a request or none, and the commands for ip6tables succeed: the code marks a dataplane as
  CONFIGURED without looking at what the second call reports as failed (`Controller.py` 636-657).
* A neighbour that offers the family does so for good; which families it offers does not change with the session.

### 2.7 PrefixFilter

State.  `trie` maps a node to the set of lengths it accepts, `zero` is `_zero`, `todo` and `low` are the pattern and the turn of
the loop over its supernets, `added` is a history of the patterns added.  A netmask stands for the set of its bits, bit n for
length n.

Actions.  `StartPattern` begins a pattern of the list, `AddSupernet` is one turn of the loop at 302-307, `AddPrefix` the rest of
the constructor's body for it.  `Matches` is `match`.  The trie is py-radix, external: a search for the longest
node that covers a prefix.

Two of the patterns' dimensions are reduced: addresses have `Width` bits instead of 32 or 128, and the numbers of a pattern are
in order (low at most high), as the comment of the class has them.

## 3. What the runs check

| Run (module) | Instance | Properties | Shows |
|---|---|---|---|
| RouteExchangeColdStart (MCRouteExchange) | two peers from nothing, one session each, topology at any time, one announcement | TypeOK, ExportsCurrent, DegradedCounts | nothing that arrives before a peer may export is forgotten; once all is quiet the exported routes carry the right count of missing peers |
| RouteExchangeFlap (MCRouteExchange) | p1 comes up, goes down, comes up; two attributes | TableFollowsPeers, ExportedIsAnnounced | in every state, with anything in flight, the table follows the peers, and what a peer thinks is announced is or will be |
| RouteExchangeOneSource (MCRouteExchange) | three peers, nested prefixes, one announces and changes, an attribute went through p2's AS, p3 does not export another | NoEcho, ChangesReachPeers, NeighboursTold, Settles, OffersArrive | nobody is told its own route or one through its AS; with one source every change gets through, from what a peer stored to what the neighbours are told, and the processes come to rest (liveness) |
| SpeakerChannels (MCBGPSpeakers) | sessions, commands, ExaBGP lost and back | TypeOK, ConnectedIsAlive, CommandsDelivered, ImplementsChannels, SilenceIsNoticed | refinement of `PeerChannels` with its fairness; no command is lost; the speaker of a peer with an open session is not believed silent for good, although some of what it hears it does not report; silence is reported (liveness) |
| OspfFlooding (MCOspfFlooding) | one LSA with two instances, two workers, two timers, one aging | TypeOK, PublishedUnlessRaced | in any interleaving of statements, flag and event of a reset can come apart, LSAs can be installed, flushed and aged during the wait, and the last state is published, unless a signal came too late for its timer |
| OspfRetransmission (MCOspfFlooding) | two LSAs, two workers, three timers | HoldTimersEnd, LsusHandled | no hold timer runs for ever; updates are handled although the pool can miss a task (liveness) |
| OspfAdjacency (MCOspfAdjacency) | two LSAs described in the first packet, of which one changes, one loss or early packet, one restart or silence, the probe as master and as slave | TypeOK, LoadingIsAsking, Complete, Synced, Adjacent | receiver and workers change requests, timer and state in turn; what is wanted in Loading is asked for by a timer with the list of now; as slave a Full probe lacks no LSA but one put on the list while a worker was ending it, and when the router floods nothing has its database but for those and LSAs whose update was late; the adjacency comes up unless the threads raced (liveness) |
| Topology (MCTopology) | 32 topologies of four routers after a static link, two publications | TypeOK, ShortestPaths, AllOrNothing, GraphMatchesPaths, PeersFollow | paths are least-cost and consistent hop by hop; without a path for a pair there is nothing; a peer never joins two topologies and has the last one in the end (liveness) |
| Provisioning (MCSegmentRouting) | a head end and a peer, two modules, an old manager, one outage, refusal of rules or restart, overlapping attempts | NumbersAgree, MarksOnce, ConfiguredIsMarked, Provisioned | tables keep their numbers and modules; each flow is marked once and led to its table; every device gets configured (liveness) |
| SegmentRouting (MCSegmentRouting) | one PAR peer, two exits, one module, three delays that change twice, one change of a route | TypeOK, SteeredAsTold, GoodPathPreferred | in a quiet state a device steers as it was told last, unless it read that before its neighbour had offered the family; a module leaves a slow or failed path for a good one (liveness) |
| PrefixFilter (MCPrefixFilter) | addresses of three bits, up to three of 24 patterns of all four kinds and of both families, in any order | TypeOK, MatchesPatterns | the node that is looked at decides as the patterns do |
| ChangeNotPublished (MCOspfFlooding) | two LSAs, two timers | ChangesPublished, violated | section 6 |

Bounds.  All are constants and guards of the environment only: how often a neighbour changes its routes (`MaxChanges`), how
often it opens and ends sessions (`MaxSessions`), how much unread mail a peer may have when its neighbour speaks (`MaxMail`),
the same in `BGPSpeakers` (`MaxCommands`, `MaxSilences`, `MaxQueue`, the last of which also limits how many reports of
silence of one speaker wait, as these come in every round of its loop without end, and `MaxOther` for messages that are not
reported).  No process of the controller is bounded, so no queue is cut off and a state without successors is one in which
all is quiet and the environment has used up its moves; that is why deadlock is not checked.  In `OspfFlooding` neighbours
originate at most `MaxInstances` instances of an LSA and `MaxAgings` removals happen; two workers are all that
`ThreadPool(1)` creates (`threadpool.py` 82 compares with `<=`).  The bounds are enough for the cases that matter: two
messages in a mailbox suffice for every pair to meet in either order, two changes of a route for a replaced and an overtaken
one, three session events for the routes of a dead session to meet a new one, two sources to confuse `update_source`.  Peers
are not declared symmetric, as bounds and filters tell them apart.  The proofs of section 5 remove the bounds for the
invariants listed there.

In `OspfAdjacency` the first packet of a description names both LSAs, the middle and the last are empty: so a worker can
empty the list of requests while the exchange goes on, before and after `_loading` looks at it, and one LSA is requested
while the other changes.  In `Topology` the 32 topologies include all that matter of four routers: unreachable pairs,
parallel and one-way links, a dearer link that is shorter, routers without links.  `Provisioning` leaves out decisions
(`MaxChanges`, `MaxRouteChanges` are 0), `SegmentRouting` leaves out the faults, which have nothing to do with its properties
except that they reset them.  Two larger instances of `OspfAdjacency` were run once, for the invariants alone, and hold: each
LSA described in a packet of its own (`Parts <- TwoParts`, 0.7 million states), and that with two faults (6.4 million).  In
`PrefixFilter` three bits give a node something above, at and below it; the proof is for any width.

Quiet states.  ExportsCurrent, DegradedCounts, ChangesReachPeers, NeighboursTold, CommandsDelivered and SteeredAsTold speak
of states in which every queue is empty and no callback waits, Synced of states in which the router has nothing to flood.
They are end-to-end properties: what such a state must look like does not follow from any one handler.  `Settles` shows that
such states are reached again and again.

## 4. Fairness

`RouteExchange!Fairness` and `BGPSpeakers!Fairness` are weak fairness of each process: a process is a loop over a blocking
queue with a time-out of a second (`PolicyObject.py` 77), `sender.py` polls ten times a second, the operating system runs
every process, so a process that has something to do does some of it.  Weak fairness of a peer's step does not choose between
its callback and its mail, as the code does not while mail keeps coming; neighbours are bounded, so mail ends.  `TimePasses` is
fair as time passes.  Nothing is assumed of neighbours, of ExaBGP or of how long it stays away.

`OspfFlooding!Fairness` is weak fairness of each thread, a wait with a time-out included, as the interpreter runs every
thread that can run; and strong fairness of the arrival of a packet that is not acknowledged, as OSPF neighbours send it again
every `rxmt_interval` and some of what they send arrives.  `LsusHandled` needs the second: without retransmission the task that
a worker misses at `threadpool.py` 55 would wait for the next update.

`OspfAdjacency!Fairness` is weak fairness of hellos, of the receiver and the workers, each with what is left of a handler,
and of the router, and strong fairness of the timers: a timer fires every five seconds while it runs, but in the model only
when the last packet has been dealt with, which comes and goes.  `Topology!Fairness` is weak fairness of the manager and of
each peer.

`ProvisionFairness` is weak fairness of the controller, of each device and of the puts of the network manager, which are
processes as above; of keepalives, which a neighbour sends as long as its session is up; and of the end of an outage, without
which nothing can be promised.  `DecisionFairness` is weak fairness of the modules: the client measures without end.

## 5. What is proved

For every value of the constants: any sets of peers, prefixes and attributes, any AS numbers, paths, preferences and filters,
any set of established sessions; any speakers; any routers and links; any database, any cut of its description, any number of
timers and workers; any devices and modules; any width of addresses and any patterns; and any bounds.

| Theorem (module) | States | Inductive invariant |
|---|---|---|
| TypeCorrect (RouteExchangeProofs) | `Spec => []TypeOK` | TypeOK |
| NeverEchoes (RouteExchangeProofs) | `Spec => []NoEcho` | TypeOK and EchoFree |
| TableAlwaysFollows (RoutesFollowProofs) | `Spec => []TableFollowsPeers` | TypeOK, FlagsAgree, TableFollowsPeers |
| ExportedAlwaysAnnounced (RoutesFollowProofs) | `Spec => []ExportedIsAnnounced` | TypeOK, Tidy, Ann |
| CountsAlwaysAgree (RoutesFollowProofs) | `Spec => []DegradedCounts` | StatusInv |
| ExportsAlwaysCurrent (RoutesFollowProofs) | `Spec => []ExportsCurrent` | StatusInv |
| ChangesAlwaysReach (RoutesFollowProofs) | `OneSource(s)` implies `Spec => []ChangesReachPeers` | ReachInv(s) |
| AlwaysTold (RoutesFollowProofs) | `OneSource(s)` implies `Spec => []NeighboursTold` | ReachInv(s), and the theorems above on table, exports and counts |
| TypeCorrect (BGPSpeakersProofs) | `Spec => []TypeOK` | TypeOK |
| ConnectedAlwaysAlive (BGPSpeakersProofs) | `Spec => []ConnectedIsAlive` | TypeOK, ConnectedInv |
| StepsOfChannels (BGPSpeakersProofs) | `Spec => Channels!Init /\ [][Channels!Next]_channels` | TypeOK, OwnMail |
| CommandsArrive (BGPSpeakersProofs) | `OfFirst` implies `Spec => []CommandsDelivered` | TypeOK, OwnMail, Counted |
| TypeCorrect (OspfFloodingProofs) | `Spec => []TypeOK` | TypeInv |
| PublishedOrRaced (OspfFloodingProofs) | `Spec => []PublishedUnlessRaced` | FloodingInv |
| TypeCorrect (OspfAdjacencyProofs) | `Spec => []TypeOK` | TypeOK, Threads, Sent |
| LoadingAlwaysAsks (OspfAdjacencyProofs) | `Spec => []LoadingIsAsking` | the same |
| FullIsComplete (OspfAdjacencyProofs) | `[]NotRound` implies `Spec => []Complete` | DescribedInv |
| FullIsSynced (OspfAdjacencyProofs) | `[]NotRound` implies `Spec => []Synced` | NewestInv |
| TypeCorrect (TopologyProofs) | `Spec => []TypeOK` | TopologyInv, ManagerInv |
| AlwaysShortest (TopologyProofs) | `Spec => []ShortestPaths` | the same |
| AlwaysAllOrNothing (TopologyProofs) | `Spec => []AllOrNothing` | the same |
| GraphAlwaysMatches (TopologyProofs) | `Spec => []GraphMatchesPaths` | TopologyInv |
| PeersHaveNewest (TopologyProofs) | `Spec => []ReadIsNewest` | TopologyInv |
| TypeCorrect (SegmentRoutingProofs) | `Spec => []TypeOK` | TypeOK |
| NumbersAlwaysAgree (SegmentRoutingProofs) | `Spec => []NumbersAgree` | DpInv |
| FlowsMarkedOnce (SegmentRoutingProofs) | `Spec => []MarksOnce` | DpInv |
| ConfiguredAlwaysMarked (SegmentRoutingProofs) | `Spec => []ConfiguredIsMarked` | DpInv |
| AlwaysSteeredAsTold (SegmentRoutingProofs) | `Spec => []SteeredAsTold` | SteerInv |
| TypeCorrect (PrefixFilterProofs) | `Spec => []TypeOK` | TypeOK, Judged, ZeroFlag, LoopBounds |
| AlwaysMatchesPatterns (PrefixFilterProofs) | `Spec => []MatchesPatterns` | the same |

Assumptions: those each module names (`MailboxAssumption`, `PeerAssumption`, `ExchangeAssumption`, `SpeakerAssumption`,
`TopologyAssumption`, `FloodingAssumption`, `AdjacencyAssumption`, `FilterAssumption`, `AgentAssumption`,
`ProvisioningAssumption`, `DelayAssumption`, `SteeringAssumption`), which say that constants have the type their comment gives,
that peers, speakers, LSAs and devices are finitely many, that timers are numbers other than 0, that no module is configured
twice, that a prefix contains itself, that a pattern's lengths are in order, and that the sessions a behaviour starts with
belong to neighbours with graceful restart.  TLC evaluates them in every run.

Five theorems have a hypothesis besides, without which TLC refutes their property.  *CommandsArrive* takes all
neighbours to belong to the first speaker of the list (`OfFirst`), since
the loop in `Controller.py` 762-780 looks no further.  *ChangesAlwaysReach* and *AlwaysTold* take one neighbour to change anything
(`OneSource`), since `update_source` cannot tell two (section 6).  *FullIsComplete*
and *FullIsSynced* end when the router's sequence number, of 32 bits, comes round (`NotRound`: it has a successor): with
`SeqLimit = 3`, two losses and two restarts TLC finds that an answer of long ago passes for the one to a packet that was lost.

*TypeCorrect* is proved first, one lemma per module, since all else needs the ranges of the variables.  Its only step that is
not immediate is the export: a peer's full routes are chosen with `CHOOSE` among candidates that no other beats.

*NeverEchoes*.  The table filters, but what it filtered is in a mailbox, then in `adjIn`, then in `exported`, then in a
command, and only then in what ExaBGP announces.  NoEcho speaks of the last of these; EchoFree says the same of all five, and
so each step moves an echo-free route one place on.

*TableAlwaysFollows*.  That a table holds nothing of a peer before its end-of-RIB is not inductive: it must be known that no
callback waits while `seen_eor` is false, that `seen_eor` implies that an end-of-RIB arrived in some session, and that every
open message has a graceful-restart entry, so that an open message cannot set `seen_eor` by itself.  FlagsAgree says so.  The
lemmas about `Holds` state how the last update in a mailbox decides what the table will hold.

*ExportedAlwaysAnnounced*.  A withdrawal names a prefix, so a command could undo a later one's work.  The last command that
names a prefix decides; Tidy says that `exported` and each command have one route per prefix and that a peer without a
session has exported nothing, so that the withdrawals of an export, all of which precede its announcements, concern
routes that are replaced or gone.

*CountsAlwaysAgree*, *ExportsAlwaysCurrent*.  The properties speak of quiet states; StatusInv says what holds in all others.  Of
each kind of message the last one in a queue decides (`LastIn`).  NotesFollow: the last note about a peer on the controller's
queue is its session's state, or there is none and the controller has it.  CountsFollow: the last count in a peer's mailbox is
the controller's, or there is none and the peer has it.  AllCounted: this is so for every peer once the controller counts one
as up.  ExportsFollow: a peer that may export has exported what it should, or an export waits, or something that makes it
export is on its way: a count that differs, the topology, or a note the controller has yet to answer.  So each handler hands
the obligation on, and none may return early without it.

*ChangesAlwaysReach*.  ReachInv(s) says that every peer but s is silent (no session that can change, no routes of its own in the
table, only mail from inside), that all updates of the table come from s and that `update_source` is s or `None`.  Then for
every other peer the view of the table it has, or the last one in its mailbox, is the table's, or the callback that sends it
waits.

*AlwaysTold*.  The end-to-end theorem of the exchange, and a conclusion from the others: in a quiet state the table holds
what the peer of s stored (*TableAlwaysFollows*), every other peer holds what the table has for it (*ChangesAlwaysReach*),
where the route of s is the only candidate and so the best; the peer exports it with the true count (*ExportsAlwaysCurrent*,
*CountsAlwaysAgree*) and ExaBGP announces it (*ExportedAlwaysAnnounced*).  The converse, that nothing else is announced, is
refuted: AnnouncedIsExported and WithdrawalsReachPeers in section 6.

*ConnectedAlwaysAlive*, *StepsOfChannels*, *CommandsArrive*.  That the last report on a speaker that heard something is a
good one does not hold: some messages refresh the age and are not reported (HeardIsAlive in section 6).  What holds is that a
speaker that has read all its peers said reported after all of it, and that only a speaker without its ExaBGP grows silent.
So ConnectedInv: while the session of a peer is open, the speaker's ExaBGP is there, and the speaker has either something of
a configured peer to read or heard something lately and reported last that it is alive, in the queue or read. The refinement
maps the one channel to a peer to the concatenation of what is in its mailbox, on the controller's queue and in the speaker's
inbox, and the one from it to outgoing queue, inbox and queue; *OwnMail* says that messages are with the speaker of their
peer.  Each step of the implementation moves one message over one boundary, and then the concatenation stays, or puts one in
at the end or takes one out at the front.  Taking the messages for one peer out of a queue of many is an operator on
sequences, so the lemmas about it (`NamedUpTo`) are inductions over the length. *CommandsArrive* counts: what was sent is
what was delivered and the length of that channel.

*PublishedOrRaced*.  While no threads raced there is one timer at work, the one the area holds, it acts only with its flag
lowered, and a timer just made has one caller that will start it (OneTimerInv).  Then a change is always on its way: a caller
of `topo_change` has not signalled it, or the timer has not read the database, or it is reading and all it has read is still
there, or it has arrived (PendingInv).  The rest of FloodingInv relates program counters, flags and the targets of calls.

*AlwaysShortest*, *AlwaysAllOrNothing*.  The algorithm is proved correct for any number of routers and any positive costs:
after n rounds the cost of a pair is that of a best path whose inner nodes are among the first n routers, the costs of
neighbours along the next hops agree, and a pair has a next hop if and only if it has such a path.  Neither the library's
induction nor RECURSIVE operators are usable here; the induction over rounds is *FromZeroUp*, which follows from the
cardinality of finite sets: in a set of numbers with 0 and with each successor, a gap at m would make the successor an
injection of the numbers below m into fewer.  ManagerInv then says that what the manager has is the result for what was
published last.

*GraphAlwaysMatches*, *PeersHaveNewest*.  A peer reads paths and links in two steps, and any number of topologies can wait in its
mailbox.  TopologyInv says that messages come in pairs of a topology and the links it was computed from, that the peer either
has no graph or the one that matches its paths, and that the last message under way, or else the peer's state, is the
manager's.

*LoadingAlwaysAsks*.  Threads says what receiver, workers and timers leave each other: in ExStart the timer of the greeting
runs; a neighbour that is reset has no timer and no handler under way; in Loading the receiver is about to start the timer of
the requests, or it runs with the list of now, or it ended because that list is empty.  It needs TypeOK and Sent (in Exchange
the router has sent a part of its description).  That something is left to ask for in Loading does not hold: LoadingIsWanting
in section 6.

*FullIsComplete*.  As slave the probe never knows whether it has the whole description; the router does, as it sends the next
packet only when the last one was answered.  Evidence(k) is what shows that the probe has read the k-th packet: the router is
past it, or the answer to it is under way.  Then no earlier packet is under way, and each LSA the packet names is in the
database or wanted, as long as the probe is in the exchange (ReadInOrder).  For this the packets under way are in order,
describe the parts their numbers say and are no newer than the router (Packets, InOrder), and no answer is newer either
(Replies); a new exchange takes numbers nothing under way has.  Full is reached when a worker ends the requests, and by then
a description may have put more on the list: Emptied says that what is still wanted is in `overtaken`.  A worker may also
make the state Full while the receiver begins the exchange again; what was read before then proves nothing, so Reading asks
that there is no greeting.

*FullIsSynced*.  Of an LSA that was read the probe has the router's instance, or wants it, or the router is about to flood
it, or its update was late (ReadSettled).  A packet under way may describe what is no longer true; then the router floods
what changed, or has had it acknowledged, and then the database has it, has nothing of it, or something late (Clean,
FreshPackets).  Neither the database nor an update is ahead of the router (NotAhead), and an update whose worker has yet to
acknowledge it is in the database if the router still floods it (Pending); a router that does not list the probe floods
nothing (Unheard).  The only step that unsettles an LSA is an update that is older than what was asked for and takes it off
the list.  Synced first spoke of runs with one fault and no restart; the attempt to prove it showed that this held only
because LSAs changed once in the run, and a next attempt that it held only as long as workers do not overtake each other. Now
they do, and `late` says what is really needed.

*AlwaysMatchesPatterns*.  Judged says of a prefix and the longest node that covers it that the node's mask holds the prefix's
length exactly if one of the patterns added accepts it, or the pattern that is being added does and the loop has come to
it.  *Grown* is the lemma behind it: when a node is added, the longest node for a prefix is the new one, or the one it was, or
there was none and is none.  So one must know only what a new node takes over from the longest node above it.

*NumbersAlwaysAgree*, *FlowsMarkedOnce*, *ConfiguredAlwaysMarked*.  What a device knows of its tables came by mail, and what
the controller asks of the manager came back by the queue, both from attempts that may be over.  DpInv says the same of
messages as of the processes: a number that is known, in an answer or in a request is 0 or the table's number (NumbersKnown),
numbers are distinct and below the manager's counter (Numbered), a rule in the kernel is of a table that is there, and a flow
that has one is marked once, or is named by the second call, which the controller has yet to make, or is of a table whose
number the controller can never learn again (RulesMarked, as long as the controller lives).  The second call comes next on
the queue, and names exactly the flows with a rule and no mark (MarksAsked).  An answer that names a flow is the only one
that does, comes before the flow object and after the mark (FlowsNamed).  Six actions touch this: `CreateTables`,
`CreateRules`, `CreateMarks`, the two that read the answers, and `RestartAll`.  All others are *bystanders*: they leave
tables, marks and numbers alone, and what they leave in the queues of requests for marks and of answers was there before.
That the new tables of a request get different numbers is an argument about cardinalities (*EarlierDiffers*): of two modules
one comes first in the list, and has fewer before it.  DpInv was model-checked first, on the instance of `Provisioning` and
on one device with up to three faults.

*AlwaysSteeredAsTold*.  ToldInv: the update a device was told of last is the last one for its module in the mailbox, or it is
the last one for the module's table on the controller's queue, or the table leads there, or the device itself is the exit, or
a message without a table is on the queue, which ends the controller; or the device has read its last update before its
neighbour had offered the family (`unheeded`), and no update for the module is in its mailbox.  It needs of DpInv that tables
have different numbers, since an update for one table must not be taken for one of another, and TablesInv, that all tables of
a device are made at once.

Every leaf is proved with 15 % of the provers' default time limits as well (`tlapm --stretch 0.15`).  Out of the prover's
reach, and checked by TLC only: everything under fairness (`Settles`, `OffersArrive`, `SilenceIsNoticed`, `HoldTimersEnd`,
`LsusHandled`, `Adjacent`, `PeersFollow`, `Provisioned`, `GoodPathPreferred`, and of `ImplementsChannels` that the
implementation has the fairness of the abstract specification; its steps are proved).  All invariants the runs check are
proved; *ImplementsChannels* but for its fairness.

## 6. Where the code does not do what it says

The violation run is a disagreement between the code and its own comment, quoted in `findings` of `PROJECT.json`.
* *ChangeNotPublished*: `timer.py` 31: a `reset()` between the end of the wait and this line makes the hold timer skip its
  action, and as it is a once timer it then ends.  Neither the change that it waited for nor the one that reset it is
  published, until another change makes a new timer.

The modules define more formulas that are not part of a run, because TLC refutes them for the code as it is.  Each can be
tried as an INVARIANT or PROPERTY of a copy of the cfg named, with the constants given.

| Formula | Configuration | What the code does |
|---|---|---|
| `AnnouncedIsExported` | `RouteExchangeFlap.cfg` with `ExportOk <- MCExportOk`, `ImportOk <- MCAll`, `Established = {p1, p2}`, `MaxChanges <- Bound200`, `MaxSessions <- Bound000` | `Peer.py` 185-194: when nothing is left to export, the record of exported routes is cleared and no withdrawal is sent |
| `ChangesReachPeers` | `RouteExchangeOneSource.cfg` with p2 allowed a change too | `RouteTable.py` 98: the first update in a window records its source, a second one of any source sets it to `None`, a third one records again; that source is not sent what the other changed |
| `WithdrawalsReachPeers` | `RouteExchangeOneSource.cfg` | `Peer.py` 476: a table update without routes is dropped |
| `NonGrIsNotHeldBack` | `RouteExchangeColdStart.cfg`, `GrPeers = {p2}` | `BGPPeer.py` 414: the capability is looked up by a key that is always there |
| `HeardIsAlive` | `SpeakerChannels.cfg`, safety only | `BGPSpeaker.py` 336-350, 566-568: open messages that ExaBGP sent, and open messages and keepalives of unknown peers, refresh the age and return before a report of being alive is put on the queue |
| `DegradedCountsPeers` | `SpeakerChannels.cfg`, safety only | `Controller.py` 804: the count of silent speakers is sent as the same message as the count of missing peers |
| `CommandsDelivered` | `SpeakerChannels.cfg`, safety only, with `Speakers = {s1, s2}`, `SpeakerList <- MCTwo`, `SpeakerOf <- MCOfTwo`, `MaxSessions <- Bound11`, `MaxCommands <- Bound11`, `MaxOther = 0`, `MaxSilences = 0`, `MaxQueue = 1` | `Controller.py` 762-780: the loop that looks for the speaker of a peer returns after the first one |
| `SilenceIsTold` | `SpeakerChannels.cfg`, safety only, with `MaxSessions <- Bound11`, `MaxCommands <- Bound00` | `Controller.py` 802: the peers of a silent speaker are looked up with the AS number of the speaker |
| `NewestInstalled` | `OspfFlooding.cfg` | `flood.py` 96: LSAs are compared outside the lock, so an older instance can replace a newer one |
| `SyncedAlways` | `OspfAdjacency.cfg` | `flood.py` 144: an update takes its LSA off the request list even if it is older than what was asked for |
| `CompleteAsMaster`, `AdjacentAsMaster` | `OspfAdjacency.cfg` | `exchange.py` 124: as master the probe does not read the router's first answer and does not send a description again |
| `WorkersLive` | `OspfAdjacency.cfg` | `flood.py` 147: the last update stops a timer that may not be there; the exception ends the worker |
| `LoadingIsWanting` | `OspfAdjacency.cfg` | `neighborStateMachine.py` 216-218 tests the list and then makes the timer; a worker at `flood.py` 144-147 can empty it in between, finds no timer to stop and ends, and the probe stays in Loading with nothing to ask for |
| `CompleteAtRest` | `OspfAdjacency.cfg` | `flood.py` 146-153: a worker ends the requests after a description has put more on the list; the probe is Full and nobody asks for them |
| `FullAsksNothing` | `OspfAdjacency.cfg` | a timer of an earlier exchange goes on in Full |
| `SegmentsAreCheapest` | `Topology.cfg` | `Network.py` 191: segments follow the path with the fewest links, not the cheapest |
| `CheapestLinkUsed` | `Topology.cfg` | `Network.py` 126-130: of parallel links the last one counts |
| `RepeatedIsNotSent` | `Topology.cfg` | `Network.py` 252: a loop variable shadows the saved links, so that every rebuild counts as a change |
| `ControllerKeepsRunning` | `SegmentRouting.cfg` | `Controller.py` 672: an update before the number of the table is known puts None into a message |
| `SteeredOnceNegotiated` | `SegmentRouting.cfg` | `Peer.py` 514-518: an update for a family that is not negotiated is dropped, and not repeated when it is |
| `ToldAsPreferred` | `SegmentRouting.cfg`, `MaxRouteChanges = 2` | `PARMetricsModule.py`: the initial route is told again after a decision for another one |
| `FailedPathLeft` | `SegmentRouting.cfg`, `Delays = {0, 1, 3}` | `PARMetricsModule.py` 354: the delay 0.0 of a failed path is below the threshold for a merely acceptable one |
| `StaysConfigured` | `Provisioning.cfg` | an overlapping attempt sets a configured dataplane back to CONNECTED |
| `MatchesFamilies` | `PrefixFilter.cfg` | `Filter.py` 284: the flag for length zero does not know the family, so the default route of one matches for the other |

Seen by reading, without a formula: `exchange.py` 208 never sends a description again, since what was sent last is not kept,
and 91-94 does not recognise a duplicate; `flood.py` 103 (`MinLSArrival`) takes the seconds of a negative time difference and
never holds; in `Filter.py` an inverted REJECT filter and a rule with `onmatch=False` never match, and the no-export filter
at 452 lists one community twice and misses NO_ADVERTISE; `BGPPeer.py` 214-260 deletes a stored prefix twice when two
withdrawn prefixes of one update contain it, which is a KeyError; of several rules, `dpserviceapi.py` 356-368 counts one that
was refused after one that was made as made, as `out` still has the earlier answer, and a first one that is refused is an
exception.

## 7. Not modelled

* Add-path neighbours and aggregates (`BGPPeer.py` 240-300, `PolicyObject.py` aggregation).  Both can be configured:
  `config.yaml` has `aggregate_prefix` for its tables, and `README.md` 211 names add-path.  The aggregation code takes routes
  where its callers pass pairs of route and preference, so it ends in an exception as soon as a route falls into an aggregate;
  add-path is a second key of every dictionary of routes.
* Filter actions and the other rules: each is a comparison or an assignment, without state.
* `Prefix.c` and `RouteEntry.c` beyond the netmask: comparison, containment, hashing and attributes of single objects.  In
  the models they are the constants `Contains`, `PrefOf`, `PathOf`.  Containment is called for every withdrawal (`BGPPeer.py`
  221) and for aggregates; the hazard at `Prefix.c` 448 is therefore not covered.
* The interface state machine of OSPF with the election of designated routers.  The probe has priority 0,
  and the election is a stub in the code (`interfaceStateMachine.py`, `_elect_dr`); only point-to-point links are modelled.
* The control and BGP connections (a debug interface; the first shares a queue with `sender.py`, listed as a hazard), the GoBGP
  proxy (no configuration selects it), packets (`pyospf/basic/`: translation without state), configuration (its result is the
  constants), the measurement client, experiments and emulation.
* Most lines of the repository are generated `*_pb2*` code, three copies of it, the vendored `multiprocessing36`, emulation and
  evaluation scripts, and `srv6-controller/{netconf,rest,ssh,topology}`, which the controller does not use.  None of it is this
  program's logic, and so the map covers a small share of all lines.

As master the probe is promised nothing by the exchange, not even the parts of the description after the first, which it does not
read: it does not compare the router's sequence number with its own, so with two parts and one restart a packet of an
earlier exchange passes for an answer, and both sides can be Full without what that part names.  TLC finds this also with
nothing of the exchange under way, after one lost packet more.  So `Complete` and `Synced` speak of the slave.

What could follow: the sessions of a neighbour joined with its dataplane.
