------------------------------ MODULE BGPPeer ------------------------------
(***************************************************************************)
(* The BGPPeer processes (bgpcontroller/BGPPeer.py on top of Peer.py): one *)
(* per configured neighbour.  A peer stores what its neighbour announces   *)
(* and hands it to the route table, and stores what the table hands back   *)
(* and exports the best of it to its neighbour.  Both hand-overs are       *)
(* callbacks of the PolicyObject loop; callbacks[p] is its list, oldest    *)
(* first, in which a callback never appears twice.                         *)
(*                                                                         *)
(* No PAR module is configured here and no neighbour uses add-path, so a   *)
(* prefix has one route per neighbour.                                     *)
(***************************************************************************)
EXTENDS OvWMailboxes

CONSTANTS
  Contains,   \* pairs <<w, x>>: Prefix(w).contains(Prefix(x))
  ImportOk,   \* ImportOk[p]: the attributes the import filters of p let pass
  ExportOk    \* ExportOk[p]: the attributes the export filters of p let pass

ASSUME PeerAssumption ==
  /\ Contains \subseteq Prefixes \X Prefixes
  /\ \A x \in Prefixes : <<x, x>> \in Contains
  /\ ImportOk \in [Peers -> SUBSET Attrs]
  /\ ExportOk \in [Peers -> SUBSET Attrs]

VARIABLES
  active,      \* Peer.active: the session is established
  seenEor,     \* BGPPeer.seen_eor
  eorTrue,     \* BGPPeer.eor_true is set: an end-of-RIB did arrive once
  negotiated,  \* BGPPeer.afi_safi holds the address family
  received,    \* Peer.received
  adjIn,       \* Peer.adj_ribs_in, the entry of the one table
  exported,    \* Peer.exported
  degraded,    \* Peer.degraded
  topology,    \* Peer.routing.topology is set
  callbacks    \* pending callbacks of the process loop

peerVars == <<active, seenEor, eorTrue, negotiated, received, adjIn,
              exported, degraded, topology, callbacks>>

Callback == {"tables", "export"}

PeerTypeOK ==
  /\ active \in [Peers -> BOOLEAN]
  /\ seenEor \in [Peers -> BOOLEAN]
  /\ eorTrue \in [Peers -> BOOLEAN]
  /\ negotiated \in [Peers -> BOOLEAN]
  /\ received \in [Peers -> RoutesOf]
  /\ adjIn \in [Peers -> [Prefixes -> SUBSET Candidate]]
  /\ exported \in [Peers -> SUBSET Exported]
  /\ degraded \in [Peers -> Nat]
  /\ topology \in [Peers -> BOOLEAN]
  /\ callbacks \in [Peers -> Seq(Callback)]

NoCandidates == [x \in Prefixes |-> {}]

PeerInit ==
  /\ active = [p \in Peers |-> FALSE]
  /\ seenEor = [p \in Peers |-> FALSE]
  /\ eorTrue = [p \in Peers |-> FALSE]
  /\ negotiated = [p \in Peers |-> FALSE]
  /\ received = [p \in Peers |-> NoRoutes]
  /\ adjIn = [p \in Peers |-> NoCandidates]
  /\ exported = [p \in Peers |-> {}]
  /\ degraded = [p \in Peers |-> 0]
  /\ topology = [p \in Peers |-> FALSE]
  /\ callbacks = [p \in Peers |-> <<>>]

-----------------------------------------------------------------------------
\* Faulty variants, with which the checks are shown to notice a change of the
\* code: any pending callback stands for the new one; routes are handed over
\* before the end-of-RIB; announcements are sent before withdrawals.
WithCallbackIfIdle(p, c) ==
  [callbacks EXCEPT ![p] = IF @ = <<>> THEN <<c>> ELSE @]

RoutesChangedEarly(p) == callbacks' = [callbacks EXCEPT ![p] = <<"tables">>]

MessagesSwapped(old, new) ==
  (IF new \ old = {} THEN <<>>
   ELSE << [op |-> "advertise", routes |-> new \ old] >>)
  \o
  (IF old \ new = {} THEN <<>>
   ELSE << [op |-> "withdraw", routes |-> old \ new] >>)

\* The callbacks of p after an action returned c.
WithCallback(p, c) ==
  [callbacks EXCEPT ![p] = IF \E i \in DOMAIN @ : @[i] = c
                           THEN @ ELSE Append(@, c)]

\* Peer._update_tables_with_routes: the table gets all the routes of p.
TableGets(p, rts) ==
  tableMail' = Append(tableMail, [type |-> "update", from |-> p, routes |-> rts])

\* What follows a change of received: nothing before the end-of-RIB, so that
\* the tables never see a neighbour's routes half loaded.
RoutesChanged(p) ==
  callbacks' = IF seenEor[p] THEN WithCallback(p, "tables") ELSE callbacks

ProcessOpen(p) ==
  /\ NextIs(p, "open")
  /\ peerMail' = Taken(p)
  /\ LET caps == Head(peerMail[p]).caps
     IN  /\ seenEor' = [seenEor EXCEPT ![p] =
                          IF "gracefulrestart" \in caps
                          THEN eorTrue[p] /\ seenEor[p]
                          ELSE TRUE]
         /\ IF "multiprotocol" \in caps
            THEN /\ negotiated' = [negotiated EXCEPT ![p] = TRUE]
                 /\ tableMail' = Append(tableMail,
                                        [type |-> "reload", from |-> p])
            ELSE UNCHANGED <<negotiated, tableMail>>
  /\ UNCHANGED <<ctlMail, out, active, eorTrue, received, adjIn, exported,
                 degraded, topology, callbacks>>

\* A state message that repeats what is known (keepalives do) is ignored.
ProcessStateSame(p) ==
  /\ NextIs(p, "state")
  /\ Head(peerMail[p]).up = active[p]
  /\ peerMail' = Taken(p)
  /\ UNCHANGED <<tableMail, ctlMail, out, peerVars>>

ProcessUp(p) ==
  /\ NextIs(p, "state")
  /\ Head(peerMail[p]).up
  /\ ~active[p]
  /\ peerMail' = Taken(p)
  /\ active' = [active EXCEPT ![p] = TRUE]
  /\ ctlMail' = Append(ctlMail, [peer |-> p, up |-> TRUE])
  /\ UNCHANGED <<tableMail, out, seenEor, eorTrue, negotiated, received,
                 adjIn, exported, degraded, topology, callbacks>>

\* The routes of a neighbour that went down leave the tables at once, without
\* waiting for a callback.
ProcessDown(p) ==
  /\ NextIs(p, "state")
  /\ ~Head(peerMail[p]).up
  /\ active[p]
  /\ peerMail' = Taken(p)
  /\ active' = [active EXCEPT ![p] = FALSE]
  /\ received' = [received EXCEPT ![p] = NoRoutes]
  /\ exported' = [exported EXCEPT ![p] = {}]
  /\ TableGets(p, NoRoutes)
  /\ ctlMail' = Append(ctlMail, [peer |-> p, up |-> FALSE])
  /\ UNCHANGED <<out, seenEor, eorTrue, negotiated, adjIn, degraded,
                 topology, callbacks>>

\* Updates count only for a negotiated address family.
IgnoreUpdate(p) ==
  /\ NextIs(p, "announce") \/ NextIs(p, "withdraw")
  /\ ~negotiated[p]
  /\ peerMail' = Taken(p)
  /\ UNCHANGED <<tableMail, ctlMail, out, peerVars>>

\* A route the import filters refuse is not stored; an earlier route of the
\* neighbour to the prefix stays.
ProcessAnnounce(p) ==
  /\ NextIs(p, "announce")
  /\ negotiated[p]
  /\ peerMail' = Taken(p)
  /\ LET m == Head(peerMail[p])
     IN received' = IF m.attr \in ImportOk[p]
                    THEN [received EXCEPT ![p][m.pfx] = m.attr]
                    ELSE received
  /\ RoutesChanged(p)
  /\ UNCHANGED <<tableMail, ctlMail, out, active, seenEor, eorTrue,
                 negotiated, adjIn, exported, degraded, topology>>

\* Every stored prefix the withdrawn one contains goes.  A message stands for one
\* withdrawn prefix: two of one update that contain the same stored one end the
\* process, as that is deleted twice.
ProcessWithdraw(p) ==
  /\ NextIs(p, "withdraw")
  /\ negotiated[p]
  /\ peerMail' = Taken(p)
  /\ LET w == Head(peerMail[p]).pfx
     IN received' = [received EXCEPT ![p] =
                       [x \in Prefixes |-> IF <<w, x>> \in Contains
                                           THEN None ELSE received[p][x]]]
  /\ RoutesChanged(p)
  /\ UNCHANGED <<tableMail, ctlMail, out, active, seenEor, eorTrue,
                 negotiated, adjIn, exported, degraded, topology>>

ProcessEor(p) ==
  /\ NextIs(p, "eor")
  /\ peerMail' = Taken(p)
  /\ seenEor' = [seenEor EXCEPT ![p] = TRUE]
  /\ eorTrue' = [eorTrue EXCEPT ![p] = TRUE]
  /\ callbacks' = WithCallback(p, "tables")
  /\ UNCHANGED <<tableMail, ctlMail, out, active, negotiated, received,
                 adjIn, exported, degraded, topology>>

\* Nothing to import: no family negotiated yet, or the table sent no route.
\* The routes stored from the table stay as they are.
IgnoreTableUpdate(p) ==
  /\ NextIs(p, "update")
  /\ ~negotiated[p] \/ Head(peerMail[p]).routes = NoCandidates
  /\ peerMail' = Taken(p)
  /\ UNCHANGED <<tableMail, ctlMail, out, peerVars>>

ProcessTableUpdate(p) ==
  /\ NextIs(p, "update")
  /\ negotiated[p]
  /\ Head(peerMail[p]).routes # NoCandidates
  /\ peerMail' = Taken(p)
  /\ adjIn' = [adjIn EXCEPT ![p] = Head(peerMail[p]).routes]
  /\ callbacks' = WithCallback(p, "export")
  /\ UNCHANGED <<tableMail, ctlMail, out, active, seenEor, eorTrue,
                 negotiated, received, exported, degraded, topology>>

ProcessStatus(p) ==
  /\ NextIs(p, "status")
  /\ peerMail' = Taken(p)
  /\ degraded' = [degraded EXCEPT ![p] = Head(peerMail[p]).degraded]
  /\ callbacks' = WithCallback(p, "export")
  /\ UNCHANGED <<tableMail, ctlMail, out, active, seenEor, eorTrue,
                 negotiated, received, adjIn, exported, topology>>

ProcessTopology(p) ==
  /\ NextIs(p, "topology")
  /\ peerMail' = Taken(p)
  /\ topology' = [topology EXCEPT ![p] = TRUE]
  /\ callbacks' = IF adjIn[p] # NoCandidates
                  THEN WithCallback(p, "export") ELSE callbacks
  /\ UNCHANGED <<tableMail, ctlMail, out, active, seenEor, eorTrue,
                 negotiated, received, adjIn, exported, degraded>>
-----------------------------------------------------------------------------
\* BGPDefaultRouting.apply: a stable sort by preference, so the candidate
\* that comes first in the list wins a tie.
Better(a, b) ==
  \/ PrefOf[a.attr] > PrefOf[b.attr]
  \/ PrefOf[a.attr] = PrefOf[b.attr] /\ a.rank < b.rank

\* The candidates of S that come first: exactly one if S is not empty, as ranks
\* differ and S is finite.
Best(S) == { a \in S : \A b \in S : ~Better(b, a) }

Preferred(S) == CHOOSE a \in S : a \in Best(S)

\* Peer.filter_export_routes for one prefix.
Exportable(p, x) == { a \in adjIn[p][x] : a.attr \in ExportOk[p] }

\* full_routes: at most one route per prefix, marked with the degraded count.
FullRoutes(p) ==
  { [pfx |-> x, src |-> Preferred(Exportable(p, x)).src,
     attr |-> Preferred(Exportable(p, x)).attr, deg |-> degraded[p]] :
       x \in { x \in Prefixes : Best(Exportable(p, x)) # {} } }

\* The encode messages for a change from the exported routes to the new ones:
\* all withdrawals come before the first announcement.
Messages(old, new) ==
  (IF old \ new = {} THEN <<>>
   ELSE << [op |-> "withdraw", routes |-> old \ new] >>)
  \o
  (IF new \ old = {} THEN <<>>
   ELSE << [op |-> "advertise", routes |-> new \ old] >>)

CallbackIs(p, c) == callbacks[p] # <<>> /\ Head(callbacks[p]) = c

CallbackDone(p) == callbacks' = [callbacks EXCEPT ![p] = Tail(@)]

\* The callback _update_tables_with_routes.
UpdateTables(p) ==
  /\ CallbackIs(p, "tables")
  /\ CallbackDone(p)
  /\ TableGets(p, received[p])
  /\ UNCHANGED <<peerMail, ctlMail, out, active, seenEor, eorTrue,
                 negotiated, received, adjIn, exported, degraded, topology>>

\* The callback _do_export_routes without a session or without a topology.
ExportSkipped(p) ==
  /\ CallbackIs(p, "export")
  /\ ~active[p] \/ ~topology[p]
  /\ CallbackDone(p)
  /\ UNCHANGED <<mailVars, active, seenEor, eorTrue, negotiated, received,
                 adjIn, exported, degraded, topology>>

\* With nothing left to export the record of the exported routes is cleared
\* and no message is sent.
ExportNothing(p) ==
  /\ CallbackIs(p, "export")
  /\ active[p] /\ topology[p]
  /\ FullRoutes(p) = {}
  /\ CallbackDone(p)
  /\ exported' = [exported EXCEPT ![p] = {}]
  /\ UNCHANGED <<mailVars, active, seenEor, eorTrue, negotiated, received,
                 adjIn, degraded, topology>>

ExportRoutes(p) ==
  /\ CallbackIs(p, "export")
  /\ active[p] /\ topology[p]
  /\ FullRoutes(p) # {}
  /\ CallbackDone(p)
  /\ exported' = [exported EXCEPT ![p] = FullRoutes(p)]
  /\ out' = [out EXCEPT ![p] = @ \o Messages(exported[p], FullRoutes(p))]
  /\ UNCHANGED <<peerMail, tableMail, ctlMail, active, seenEor, eorTrue,
                 negotiated, received, adjIn, degraded, topology>>

PeerNext(p) ==
  \/ ProcessOpen(p)
  \/ ProcessStateSame(p)
  \/ ProcessUp(p)
  \/ ProcessDown(p)
  \/ IgnoreUpdate(p)
  \/ ProcessAnnounce(p)
  \/ ProcessWithdraw(p)
  \/ ProcessEor(p)
  \/ IgnoreTableUpdate(p)
  \/ ProcessTableUpdate(p)
  \/ ProcessStatus(p)
  \/ ProcessTopology(p)
  \/ UpdateTables(p)
  \/ ExportSkipped(p)
  \/ ExportNothing(p)
  \/ ExportRoutes(p)
=============================================================================
