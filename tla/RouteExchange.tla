--------------------------- MODULE RouteExchange ---------------------------
(***************************************************************************)
(* The route exchange: peer processes, the route table and the controller  *)
(* composed, with the BGP neighbours on the other side of ExaBGP as the    *)
(* environment.  What a neighbour does reaches its peer process as the     *)
(* messages BGPSpeaker makes of ExaBGP's events; what the peer exports     *)
(* reaches ExaBGP through sender.py, one command after the other.          *)
(***************************************************************************)
EXTENDS RouteTable, BGPPeer, PeerStatus

CONSTANTS
  GrPeers,     \* neighbours that have the graceful-restart capability and so
               \* end their initial routes with an end-of-RIB marker
  Established, \* neighbours whose sessions exist when the behaviour starts
  MaxChanges,  \* bound: announcements and withdrawals by each neighbour
  MaxSessions, \* bound: sessions opened and sessions ended by each neighbour
  MaxMail      \* bound: a neighbour waits while its peer has so much mail

ASSUME ExchangeAssumption ==
  /\ GrPeers \subseteq Peers
  /\ Established \subseteq GrPeers
  /\ MaxChanges \in [Peers -> Nat]
  /\ MaxSessions \in [Peers -> Nat]
  /\ MaxMail \in Nat

VARIABLES
  session,    \* session[p]: "down", "open" (capabilities sent) or "up"
  offer,      \* offer[p]: the routes neighbour p currently announces
  eorSent,    \* eorSent[p]: p ended its initial routes in this session
  ribOut,     \* ribOut[p]: what ExaBGP currently announces to neighbour p
  topoSent,   \* NetworkManager has sent the topology to every peer
  changes,    \* changes[p]: announcements and withdrawals of p so far
  sessions    \* sessions[p]: sessions opened and ended so far

envVars == <<session, offer, eorSent, ribOut, topoSent, changes, sessions>>
vars == <<mailVars, tableVars, peerVars, status, envVars>>

EnvTypeOK ==
  /\ session \in [Peers -> {"down", "open", "up"}]
  /\ offer \in [Peers -> RoutesOf]
  /\ eorSent \in [Peers -> BOOLEAN]
  /\ ribOut \in [Peers -> [Prefixes -> Exported \cup {None}]]
  /\ topoSent \in BOOLEAN
  /\ changes \in [Peers -> Nat]
  /\ sessions \in [Peers -> Nat]

TypeOK == MailTypeOK /\ TableTypeOK /\ PeerTypeOK /\ StatusTypeOK /\ EnvTypeOK

EnvColdInit ==
  /\ session = [p \in Peers |-> "down"]
  /\ offer = [p \in Peers |-> NoRoutes]
  /\ eorSent = [p \in Peers |-> FALSE]
  /\ ribOut = [p \in Peers |-> NoRoutes]
  /\ topoSent = FALSE
  /\ changes = [p \in Peers |-> 0]
  /\ sessions = [p \in Peers |-> 0]

\* All processes just started.
ColdInit == MailInit /\ TableInit /\ PeerInit /\ StatusInit /\ EnvColdInit

\* The neighbours in Established came up, ended an empty initial table, and
\* every process caught up with that; the topology is known.
WarmInit ==
  LET up == [p \in Peers |-> p \in Established]
  IN /\ MailInit
     /\ routes = [p \in Peers |-> NoRoutes]
     /\ rank \in { r \in [Peers -> 0 .. Cardinality(Established)] :
                     /\ \A p \in Peers : r[p] = 0 <=> p \notin Established
                     /\ \A p, q \in Established : p # q => r[p] # r[q] }
     /\ updateSource = None
     /\ updatePending = FALSE
     /\ active = up
     /\ seenEor = up
     /\ eorTrue = up
     /\ negotiated = up
     /\ received = [p \in Peers |-> NoRoutes]
     /\ adjIn = [p \in Peers |-> NoCandidates]
     /\ exported = [p \in Peers |-> {}]
     /\ degraded = [p \in Peers |-> Cardinality(Peers \ Established)]
     /\ topology = [p \in Peers |-> TRUE]
     /\ callbacks = [p \in Peers |-> <<>>]
     /\ status = up
     /\ session = [p \in Peers |-> IF up[p] THEN "up" ELSE "down"]
     /\ offer = [p \in Peers |-> NoRoutes]
     /\ eorSent = up
     /\ ribOut = [p \in Peers |-> NoRoutes]
     /\ topoSent = TRUE
     /\ changes = [p \in Peers |-> 0]
     /\ sessions = [p \in Peers |-> 0]

Init == IF Established = {} THEN ColdInit ELSE WarmInit
-----------------------------------------------------------------------------
\* BGPSpeaker._process_peer_capabilities: the message always has an entry for
\* every capability, whatever its value.
CapabilitiesOf(p) == {"multiprotocol", "gracefulrestart"}

ToPeer(p, m) ==
  /\ Len(peerMail[p]) < MaxMail
  /\ peerMail' = PostTo(p, m)
  /\ UNCHANGED <<tableMail, ctlMail, out, tableVars, peerVars, status>>

NeighbourOpen(p) ==
  /\ session[p] = "down"
  /\ sessions[p] < MaxSessions[p]
  /\ session' = [session EXCEPT ![p] = "open"]
  /\ sessions' = [sessions EXCEPT ![p] = @ + 1]
  /\ ToPeer(p, [type |-> "open", caps |-> CapabilitiesOf(p)])
  /\ UNCHANGED <<offer, eorSent, ribOut, topoSent, changes>>

NeighbourUp(p) ==
  /\ session[p] = "open"
  /\ session' = [session EXCEPT ![p] = "up"]
  /\ ToPeer(p, [type |-> "state", up |-> TRUE])
  /\ UNCHANGED <<offer, eorSent, ribOut, topoSent, changes, sessions>>

\* The session ends and with it everything either side announced.
NeighbourDown(p) ==
  /\ session[p] # "down"
  /\ sessions[p] < MaxSessions[p]
  /\ session' = [session EXCEPT ![p] = "down"]
  /\ offer' = [offer EXCEPT ![p] = NoRoutes]
  /\ eorSent' = [eorSent EXCEPT ![p] = FALSE]
  /\ ribOut' = [ribOut EXCEPT ![p] = NoRoutes]
  /\ sessions' = [sessions EXCEPT ![p] = @ + 1]
  /\ ToPeer(p, [type |-> "state", up |-> FALSE])
  /\ UNCHANGED <<topoSent, changes>>

NeighbourAnnounce(p, x, a) ==
  /\ session[p] = "up"
  /\ changes[p] < MaxChanges[p]
  /\ offer[p][x] # a
  /\ offer' = [offer EXCEPT ![p][x] = a]
  /\ changes' = [changes EXCEPT ![p] = @ + 1]
  /\ ToPeer(p, [type |-> "announce", pfx |-> x, attr |-> a])
  /\ UNCHANGED <<session, eorSent, ribOut, topoSent, sessions>>

NeighbourWithdraw(p, x) ==
  /\ session[p] = "up"
  /\ changes[p] < MaxChanges[p]
  /\ offer[p][x] # None
  /\ offer' = [offer EXCEPT ![p][x] = None]
  /\ changes' = [changes EXCEPT ![p] = @ + 1]
  /\ ToPeer(p, [type |-> "withdraw", pfx |-> x])
  /\ UNCHANGED <<session, eorSent, ribOut, topoSent, sessions>>

NeighbourEor(p) ==
  /\ session[p] = "up"
  /\ p \in GrPeers
  /\ ~eorSent[p]
  /\ eorSent' = [eorSent EXCEPT ![p] = TRUE]
  /\ ToPeer(p, [type |-> "eor"])
  /\ UNCHANGED <<session, offer, ribOut, topoSent, changes, sessions>>

\* NetworkManager._update, once the topology is built.
SendTopology ==
  /\ ~topoSent
  /\ topoSent' = TRUE
  /\ peerMail' = [p \in Peers |-> Append(peerMail[p], [type |-> "topology"])]
  /\ UNCHANGED <<tableMail, ctlMail, out, tableVars, peerVars, status,
                 session, offer, eorSent, ribOut, changes, sessions>>

\* sender.py hands ExaBGP the encoded commands in order; a withdrawal names
\* only the prefix.
DeliverEncode(p) ==
  /\ out[p] # <<>>
  /\ out' = [out EXCEPT ![p] = Tail(@)]
  /\ LET m == Head(out[p])
         touched == {r.pfx : r \in m.routes}
     IN ribOut' = [ribOut EXCEPT ![p] =
          [x \in Prefixes |->
             IF x \notin touched THEN ribOut[p][x]
             ELSE IF m.op = "withdraw" THEN None
             ELSE CHOOSE r \in m.routes : r.pfx = x]]
  /\ UNCHANGED <<peerMail, tableMail, ctlMail, tableVars, peerVars, status,
                 session, offer, eorSent, topoSent, changes, sessions>>

Neighbour(p) ==
  \/ NeighbourOpen(p)
  \/ NeighbourUp(p)
  \/ NeighbourDown(p)
  \/ \E x \in Prefixes, a \in Attrs : NeighbourAnnounce(p, x, a)
  \/ \E x \in Prefixes : NeighbourWithdraw(p, x)
  \/ NeighbourEor(p)

\* The steps of the processes, each with its own variables and the mailboxes.
TableStep == TableNext /\ UNCHANGED <<peerVars, status, envVars>>
PeerStep(p) == PeerNext(p) /\ UNCHANGED <<tableVars, status, envVars>>
StatusStep == StatusNext /\ UNCHANGED <<tableVars, peerVars, envVars>>

Next ==
  \/ TableStep
  \/ StatusStep
  \/ SendTopology
  \/ \E p \in Peers : PeerStep(p) \/ DeliverEncode(p) \/ Neighbour(p)

Spec == Init /\ [][Next]_vars

(***************************************************************************)
(* Every process is a loop over a blocking queue that wakes up at least    *)
(* once a second, and sender.py polls ten times a second: a process with   *)
(* work to do does some of it.  Nothing is assumed of the neighbours.      *)
(***************************************************************************)
Fairness ==
  /\ WF_vars(TableStep)
  /\ WF_vars(StatusStep)
  /\ \A p \in Peers : WF_vars(PeerStep(p)) /\ WF_vars(DeliverEncode(p))

FairSpec == Spec /\ Fairness
-----------------------------------------------------------------------------
\* Nothing is left to do for any process of the controller.
Quiescent ==
  /\ MailEmpty
  /\ \A p \in Peers : callbacks[p] = <<>>
  /\ ~updatePending

\* Once the table has read its mail, it holds rts as the routes of p.
TableWillHold(p, rts) ==
  LET U == {i \in DOMAIN tableMail : /\ tableMail[i].type = "update"
                                     /\ tableMail[i].from = p}
  IN  \/ U = {} /\ routes[p] = rts
      \/ \E i \in U : (\A j \in U : j <= i) /\ tableMail[i].routes = rts

\* Callback c of p waits in its process loop.
Pending(p, c) == \E i \in DOMAIN callbacks[p] : callbacks[p][i] = c

\* The table follows every peer: before the end-of-RIB it holds nothing of a
\* peer, afterwards what the peer stored, unless the hand-over is pending.  A
\* neighbour's session loss, late updates and the debounced callbacks of
\* BGPPeer and Peer may come in any order.
TableFollowsPeers ==
  \A p \in Peers :
    IF seenEor[p] THEN Pending(p, "tables") \/ TableWillHold(p, received[p])
                  ELSE TableWillHold(p, NoRoutes)

\* Once ExaBGP has executed the queued commands, it announces e to p.
WillAnnounce(p, e) ==
  LET T == {i \in DOMAIN out[p] : \E r \in out[p][i].routes : r.pfx = e.pfx}
  IN  \/ T = {} /\ ribOut[p][e.pfx] = e
      \/ \E i \in T : /\ \A j \in T : j <= i
                      /\ out[p][i].op = "advertise"
                      /\ e \in out[p][i].routes

DownPending(p) ==
  \E i \in DOMAIN peerMail[p] :
    peerMail[p][i].type = "state" /\ ~peerMail[p][i].up

\* What a peer records as exported its neighbour has or will get, unless the
\* end of the session is still in its mailbox.  Withdrawals name only a
\* prefix, so this depends on the order of the commands in _do_export_routes
\* and on exported being cleared exactly when a session is lost.
ExportedIsAnnounced ==
  \A p \in Peers :
    ~DownPending(p) => \A e \in exported[p] : WillAnnounce(p, e)

\* No neighbour is offered its own route back, nor one that went through its
\* AS: RouteTable._update_peer filters, two queues and a stored copy later.
NoEcho ==
  \A p \in Peers : \A x \in Prefixes :
    ribOut[p][x] # None => /\ ribOut[p][x].src # p
                           /\ Asn[p] \notin PathOf[ribOut[p][x].attr]

\* When all is quiet, a connected peer exports the best of what it was given,
\* marked with the current degraded count: no table update, status note or
\* topology that arrived while the peer could not export is forgotten.
ExportsCurrent ==
  Quiescent => \A p \in Peers :
                 active[p] /\ topology[p] => exported[p] = FullRoutes(p)

\* When all is quiet, the peers agree with the controller's count of sessions
\* that are down, and the controller's view is the true one.
DegradedCounts ==
  Quiescent => /\ status = active
               /\ \A p, q \in Peers : active[q] => degraded[p] = Missing(active)

\* The processes do not feed each other work for ever.
Settles == []<>Quiescent

\* The filters let a route of p with attributes a reach the neighbour of q.
Passes(p, q, a) == /\ p # q
                   /\ a \in ImportOk[p] \cap ExportOk[q]
                   /\ Asn[q] \notin PathOf[a]

\* Where one neighbour announces and no session is lost, what it announces in
\* the end is what every other neighbour it may reach is told in the end,
\* through three queues, two debounced callbacks and the table's choice of
\* whom to skip.
OffersArrive ==
  <>[](\A p, q \in Peers : \A x \in Prefixes :
         offer[p][x] # None /\ Passes(p, q, offer[p][x]) =>
           ribOut[q][x] # None /\ ribOut[q][x].attr = offer[p][x])
-----------------------------------------------------------------------------
\* When all is quiet, a peer holds what the table has for it, if the table has
\* anything for it.
ChangesReachPeers ==
  Quiescent => \A q \in Peers :
    negotiated[q] /\ Combined(q) # NoCandidates => adjIn[q] = Combined(q)

\* When all is quiet, what the peer process of p stored of its neighbour is
\* announced to the neighbour of every connected peer q whose AS and filters
\* allow it, with the number of sessions that are down: nothing is lost or
\* overtaken in the table, in what q holds and records as exported, in two
\* debounced callbacks, or in the commands to ExaBGP, whatever sessions p loses
\* in between.  For where only one neighbour changes.
NeighboursTold ==
  Quiescent => \A p, q \in Peers : \A x \in Prefixes :
    /\ p # q /\ received[p][x] # None /\ seenEor[p]
    /\ active[q] /\ negotiated[q] /\ topology[q]
    /\ received[p][x] \in ExportOk[q]
    /\ Asn[q] \notin PathOf[received[p][x]]
    => ribOut[q][x] = [pfx |-> x, src |-> p, attr |-> received[p][x],
                       deg |-> Missing(active)]

\* When all is quiet, a peer holds no route if the table has none for it.
WithdrawalsReachPeers ==
  Quiescent => \A q \in Peers :
    negotiated[q] /\ Combined(q) = NoCandidates => adjIn[q] = NoCandidates

\* When all is quiet, ExaBGP announces to a connected neighbour only what its
\* peer process knows it exports.
AnnouncedIsExported ==
  Quiescent => \A p \in Peers : \A x \in Prefixes :
    active[p] /\ ribOut[p][x] # None => ribOut[p][x] \in exported[p]

\* When all is quiet, the table has the routes of a connected neighbour that
\* does not have the graceful-restart capability.
NonGrIsNotHeldBack ==
  Quiescent => \A p \in Peers \ GrPeers : active[p] => routes[p] = received[p]
=============================================================================
