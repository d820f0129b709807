----------------------------- MODULE RouteTable -----------------------------
(***************************************************************************)
(* The RouteTable process (bgpcontroller/RouteTable.py) in the process     *)
(* loop it inherits from PolicyObject: it replaces all the routes of the   *)
(* peer an update comes from, remembers whom to leave out, and sends every *)
(* export peer its view later, from a callback that the loop runs when the *)
(* mailbox stays empty for a second or the callback is ten seconds old.    *)
(* Time is abstracted: a pending callback may run before any message.      *)
(***************************************************************************)
EXTENDS OvWMailboxes

VARIABLES
  routes,        \* routes[p]: the routes peer p contributed, by prefix
  rank,          \* rank[p]: position of p in the routes dict, 0 if absent
  updateSource,  \* RouteTable.update_source
  updatePending  \* the callback _update_peers waits in the process loop

tableVars == <<routes, rank, updateSource, updatePending>>

TableTypeOK ==
  /\ routes \in [Peers -> RoutesOf]
  /\ rank \in [Peers -> Nat]
  /\ updateSource \in Peers \cup {None}
  /\ updatePending \in BOOLEAN

TableInit ==
  /\ routes = [p \in Peers |-> NoRoutes]
  /\ rank = [p \in Peers |-> 0]
  /\ updateSource = None
  /\ updatePending = FALSE

\* Faulty variants, with which the checks are shown to notice a change of the
\* code: the AS path is not looked at; the table is sent as it is; the source
\* is the only one updated; the callback stays pending.
CombinedAnyPath(q) ==
  [x \in Prefixes |->
     { [src |-> s, attr |-> routes[s][x], rank |-> rank[s]] :
         s \in { s \in Peers : s # q /\ routes[s][x] # None } }]

UpdateForRaw(q) == [type |-> "update", routes |-> routes]

\* What _update_peer collects for peer q: every route but q's own and those
\* that already went through q's AS.
Combined(q) ==
  [x \in Prefixes |->
     { [src |-> s, attr |-> routes[s][x], rank |-> rank[s]] :
         s \in { s \in Peers : /\ s # q
                               /\ routes[s][x] # None
                               /\ Asn[q] \notin PathOf[routes[s][x]] } }]

UpdateFor(q) == [type |-> "update", routes |-> Combined(q)]

NextRank == 1 + Cardinality({s \in Peers : rank[s] # 0})

TableUpdate ==
  /\ tableMail # <<>>
  /\ Head(tableMail).type = "update"
  /\ LET m == Head(tableMail)
     IN  /\ routes' = [routes EXCEPT ![m.from] = m.routes]
         /\ rank' = [rank EXCEPT ![m.from] = IF @ = 0 THEN NextRank ELSE @]
         /\ updateSource' = IF updateSource = None THEN m.from ELSE None
  /\ updatePending' = TRUE
  /\ tableMail' = Tail(tableMail)
  /\ UNCHANGED <<peerMail, ctlMail, out>>

\* A peer that just learnt its neighbour's capabilities asks for everything.
TableReload ==
  /\ tableMail # <<>>
  /\ Head(tableMail).type = "reload"
  /\ LET q == Head(tableMail).from IN peerMail' = PostTo(q, UpdateFor(q))
  /\ tableMail' = Tail(tableMail)
  /\ UNCHANGED <<ctlMail, out, tableVars>>

UpdatePeersOnlySource ==
  /\ updatePending
  /\ peerMail' = [q \in Peers |-> IF q # updateSource
                                  THEN peerMail[q]
                                  ELSE Append(peerMail[q], UpdateFor(q))]
  /\ updateSource' = None
  /\ updatePending' = FALSE
  /\ UNCHANGED <<tableMail, ctlMail, out, routes, rank>>

UpdatePeersAgain ==
  /\ updatePending
  /\ peerMail' = [q \in Peers |-> IF q = updateSource
                                  THEN peerMail[q]
                                  ELSE Append(peerMail[q], UpdateFor(q))]
  /\ updateSource' = None
  /\ UNCHANGED <<tableMail, ctlMail, out, routes, rank, updatePending>>

\* The callback _update_peers.
UpdatePeers ==
  /\ updatePending
  /\ peerMail' = [q \in Peers |-> IF q = updateSource
                                  THEN peerMail[q]
                                  ELSE Append(peerMail[q], UpdateFor(q))]
  /\ updateSource' = None
  /\ updatePending' = FALSE
  /\ UNCHANGED <<tableMail, ctlMail, out, routes, rank>>

TableNext == TableUpdate \/ TableReload \/ UpdatePeers
=============================================================================
