------------------------- MODULE RoutesFollowProofs -------------------------
(***************************************************************************)
(* What the processes of RouteExchange hold follows what they were told:   *)
(* the route table follows the peers, the neighbours follow what the peers *)
(* record as exported, the counts follow the sessions and the exports the  *)
(* routes and the counts, and the peers follow the table.                  *)
(***************************************************************************)
EXTENDS RouteExchangeProofs

-----------------------------------------------------------------------------
(***************************************************************************)
(* The route table follows every peer.  TableFollowsPeers is not inductive *)
(* alone: that a peer is held back until its end-of-RIB, and only until    *)
(* then, rests on the flags of BGPPeer agreeing with each other, on every  *)
(* open message having a graceful-restart entry, and on no hand-over       *)
(* waiting before the end-of-RIB.                                          *)
(***************************************************************************)

FlagsAgree ==
  \A p \in Peers :
    /\ seenEor[p] => eorTrue[p]
    /\ Pending(p, "tables") => seenEor[p]
    /\ \A i \in DOMAIN peerMail[p] :
         peerMail[p][i].type = "open" => "gracefulrestart" \in peerMail[p][i].caps

TableInv == TypeOK /\ FlagsAgree /\ TableFollowsPeers
-----------------------------------------------------------------------------
\* The updates of p that the table has not read yet.
UpdatesOf(p, mail) == {i \in DOMAIN mail : mail[i].type = "update" /\ mail[i].from = p}

\* TableWillHold for given mail and a given entry of the table.
Holds(p, rts, mail, held) ==
  \/ UpdatesOf(p, mail) = {} /\ held = rts
  \/ \E i \in UpdatesOf(p, mail) :
       (\A j \in UpdatesOf(p, mail) : j <= i) /\ mail[i].routes = rts

LEMMA WillHoldIs ==
  \A p, rts : TableWillHold(p, rts) <=> Holds(p, rts, tableMail, routes[p])
BY DEF TableWillHold, Holds, UpdatesOf

\* The last update counts.
LEMMA HoldsLast ==
  ASSUME NEW mail \in Seq(TableMessage), NEW m \in TableMessage, NEW held,
         m.type = "update"
  PROVE  Holds(m.from, m.routes, Append(mail, m), held)
<1> DEFINE n == Len(mail) + 1
           new == Append(mail, m)
<1>1. n \in DOMAIN new /\ new[n] = m /\ \A j \in DOMAIN new : j <= n
  BY AppendElements
<1> HIDE DEF n, new
<1>2. n \in UpdatesOf(m.from, new) /\ \A j \in UpdatesOf(m.from, new) : j <= n
  BY <1>1 DEF UpdatesOf
<1>3. Holds(m.from, m.routes, new, held)
  BY <1>1, <1>2 DEF Holds
<1> QED BY <1>3 DEF new

\* A message that is no update of p does not change what is held of p.
LEMMA HoldsOther ==
  ASSUME NEW mail \in Seq(TableMessage), NEW m \in TableMessage, NEW held,
         NEW p, NEW rts, ~(m.type = "update" /\ m.from = p),
         Holds(p, rts, mail, held)
  PROVE  Holds(p, rts, Append(mail, m), held)
<1> DEFINE n == Len(mail) + 1
           new == Append(mail, m)
<1>1. /\ DOMAIN new = DOMAIN mail \cup {n} /\ new[n] = m
      /\ \A i \in DOMAIN mail : new[i] = mail[i]
  BY AppendElements
<1> HIDE DEF n, new
<1>2. UpdatesOf(p, new) = UpdatesOf(p, mail)
  BY <1>1 DEF UpdatesOf
<1>3. Holds(p, rts, new, held)
  BY <1>1, <1>2 DEF Holds, UpdatesOf
<1> QED BY <1>3 DEF new

\* Reading a message puts into the table what it announced.
LEMMA HoldsTail ==
  ASSUME NEW mail \in Seq(TableMessage), mail # <<>>, NEW held, NEW p, NEW rts,
         Holds(p, rts, mail, held), NEW held2,
         held2 = IF Head(mail).type = "update" /\ Head(mail).from = p
                 THEN Head(mail).routes ELSE held
  PROVE  Holds(p, rts, Tail(mail), held2)
<1> DEFINE rest == Tail(mail)
<1>1. /\ \A i \in DOMAIN rest : i + 1 \in DOMAIN mail /\ rest[i] = mail[i + 1]
      /\ \A i \in DOMAIN mail : i # 1 => i - 1 \in DOMAIN rest
      /\ \A i \in DOMAIN mail : i \in Nat /\ 1 <= i
      /\ \A i \in DOMAIN rest : i \in Nat
      /\ 1 \in DOMAIN mail /\ Head(mail) = mail[1]
  BY TailElements
<1> HIDE DEF rest
<1>2. \A i \in UpdatesOf(p, rest) : i + 1 \in UpdatesOf(p, mail)
  BY <1>1 DEF UpdatesOf
<1>3. \A i \in UpdatesOf(p, mail) : i # 1 => /\ i - 1 \in UpdatesOf(p, rest)
                                             /\ rest[i - 1] = mail[i]
  <2> SUFFICES ASSUME NEW i \in UpdatesOf(p, mail), i # 1
               PROVE  i - 1 \in UpdatesOf(p, rest) /\ rest[i - 1] = mail[i]
    OBVIOUS
  <2> DEFINE k == i - 1
  <2>1. i \in DOMAIN mail
    BY DEF UpdatesOf
  <2>2. k \in DOMAIN rest /\ k + 1 = i
    BY <1>1, <2>1
  <2> HIDE DEF k
  <2>3. rest[k] = mail[i]
    BY <1>1, <2>2
  <2>4. k \in UpdatesOf(p, rest)
    BY <2>2, <2>3 DEF UpdatesOf
  <2> QED BY <2>3, <2>4 DEF k
<1>4. CASE UpdatesOf(p, mail) = {} /\ held = rts
  <2>1. UpdatesOf(p, rest) = {}
    BY <1>2, <1>4
  <2>2. held2 = held
    <3>1. 1 \notin UpdatesOf(p, mail) /\ 1 \in DOMAIN mail
      BY <1>1, <1>4
    <3>2. ~(mail[1].type = "update" /\ mail[1].from = p)
      BY <3>1, Zenon DEF UpdatesOf
    <3> QED BY <1>1, <3>2
  <2> QED BY <1>4, <2>1, <2>2 DEF Holds, rest
<1>5. CASE \E i \in UpdatesOf(p, mail) :
             (\A j \in UpdatesOf(p, mail) : j <= i) /\ mail[i].routes = rts
  <2> PICK i \in UpdatesOf(p, mail) :
             (\A j \in UpdatesOf(p, mail) : j <= i) /\ mail[i].routes = rts
    BY <1>5
  <2>0. i \in Nat /\ 1 <= i /\ i \in DOMAIN mail
    BY <1>1 DEF UpdatesOf
  <2>1. CASE i = 1
    <3>1. UpdatesOf(p, rest) = {}
      <4> SUFFICES ASSUME NEW j \in UpdatesOf(p, rest) PROVE FALSE
        OBVIOUS
      <4>1. j \in Nat /\ j \in DOMAIN rest /\ j + 1 <= 1
        BY <1>1, <1>2, <2>1 DEF UpdatesOf
      <4>2. j + 1 \in DOMAIN mail /\ j # 0
        BY <1>1, <4>1, TailElements DEF rest
      <4> QED BY <4>1, <4>2
    <3>2. held2 = rts
      BY <1>1, <2>1 DEF UpdatesOf
    <3> QED BY <3>1, <3>2 DEF Holds, rest
  <2>2. CASE i # 1
    <3>1. i - 1 \in UpdatesOf(p, rest) /\ rest[i - 1].routes = rts
      BY <1>3, <2>2
    <3>2. \A j \in UpdatesOf(p, rest) : j <= i - 1
      BY <1>1, <1>2, <2>0 DEF UpdatesOf
    <3> QED BY <3>1, <3>2 DEF Holds, rest
  <2> QED BY <2>1, <2>2
<1> QED BY <1>4, <1>5 DEF Holds
-----------------------------------------------------------------------------
\* A callback waits after it was returned, and no other callback is lost.
LEMMA WithCallbackPending ==
  ASSUME TypeOK, NEW p \in Peers, NEW c \in Callback,
         callbacks' = WithCallback(p, c)
  PROVE  /\ Pending(p, c)'
         /\ \A q \in Peers, d \in Callback :
              q # p \/ d # c => (Pending(q, d)' <=> Pending(q, d))
<1>1. callbacks \in [Peers -> Seq(Callback)]
  BY DEF TypeOK, PeerTypeOK
<1>2. CASE \E i \in DOMAIN callbacks[p] : callbacks[p][i] = c
  <2>1. WithCallback(p, c) = [callbacks EXCEPT ![p] = callbacks[p]]
    BY <1>2 DEF WithCallback
  <2>2. callbacks' = callbacks
    BY <1>1, <2>1
  <2> QED BY <1>2, <2>2 DEF Pending
<1>3. CASE ~ \E i \in DOMAIN callbacks[p] : callbacks[p][i] = c
  <2>1. callbacks' = [callbacks EXCEPT ![p] = Append(callbacks[p], c)]
    BY <1>1, <1>3 DEF WithCallback
  <2>2. /\ DOMAIN Append(callbacks[p], c) = DOMAIN callbacks[p] \cup {Len(callbacks[p]) + 1}
        /\ Append(callbacks[p], c)[Len(callbacks[p]) + 1] = c
        /\ \A i \in DOMAIN callbacks[p] : Append(callbacks[p], c)[i] = callbacks[p][i]
    BY <1>1, AppendElements
  <2>3. callbacks'[p] = Append(callbacks[p], c)
    BY <1>1, <2>1
  <2>4. \A q \in Peers \ {p} : callbacks'[q] = callbacks[q]
    BY <1>1, <2>1
  <2> DEFINE n == Len(callbacks[p]) + 1
             cbs == Append(callbacks[p], c)
  <2>5. DOMAIN cbs = DOMAIN callbacks[p] \cup {n} /\ cbs[n] = c
        /\ \A i \in DOMAIN callbacks[p] : cbs[i] = callbacks[p][i]
    BY <2>2
  <2>6. callbacks'[p] = cbs
    BY <2>3
  <2> HIDE DEF n, cbs
  <2>7. Pending(p, c)'
    BY <2>5, <2>6 DEF Pending
  <2>8. ASSUME NEW d \in Callback, d # c PROVE Pending(p, d)' <=> Pending(p, d)
    BY <2>5, <2>6, <2>8 DEF Pending
  <2>9. ASSUME NEW q \in Peers, NEW d \in Callback, q # p
        PROVE  Pending(q, d)' <=> Pending(q, d)
    BY <2>4, <2>9 DEF Pending
  <2> QED BY <2>7, <2>8, <2>9
<1> QED BY <1>2, <1>3

\* Running the first callback of p leaves every other one waiting.
LEMMA CallbackDonePending ==
  ASSUME TypeOK, NEW p \in Peers, NEW c \in Callback, CallbackIs(p, c), CallbackDone(p)
  PROVE  \A q \in Peers, d \in Callback :
           /\ Pending(q, d)' => Pending(q, d)
           /\ q # p \/ d # c => (Pending(q, d)' <=> Pending(q, d))
<1>1. callbacks \in [Peers -> Seq(Callback)] /\ callbacks[p] # <<>> /\ Head(callbacks[p]) = c
  BY DEF TypeOK, PeerTypeOK, CallbackIs
<1>2. callbacks'[p] = Tail(callbacks[p]) /\ \A q \in Peers \ {p} : callbacks'[q] = callbacks[q]
  BY <1>1 DEF CallbackDone
<1>3. /\ \A i \in DOMAIN Tail(callbacks[p]) :
           i + 1 \in DOMAIN callbacks[p] /\ Tail(callbacks[p])[i] = callbacks[p][i + 1]
      /\ \A i \in DOMAIN callbacks[p] :
           i # 1 => i - 1 \in DOMAIN Tail(callbacks[p]) /\ i \in Nat
      /\ callbacks[p][1] = c
  BY <1>1, TailElements
<1>4. \A i \in DOMAIN callbacks[p] : i # 1 => Tail(callbacks[p])[i - 1] = callbacks[p][i]
  BY <1>3
<1>5. ASSUME NEW d \in Callback, Pending(p, d)' PROVE Pending(p, d)
  <2> PICK i \in DOMAIN callbacks'[p] : callbacks'[p][i] = d
    BY <1>5 DEF Pending
  <2> QED BY <1>2, <1>3 DEF Pending
<1>6. ASSUME NEW d \in Callback, d # c, Pending(p, d) PROVE Pending(p, d)'
  <2> PICK i \in DOMAIN callbacks[p] : callbacks[p][i] = d
    BY <1>6 DEF Pending
  <2>1. i # 1
    BY <1>3, <1>6
  <2> QED BY <1>2, <1>3, <1>4, <2>1 DEF Pending
<1>7. \A q \in Peers \ {p}, d \in Callback : Pending(q, d)' <=> Pending(q, d)
  BY <1>2 DEF Pending
<1> QED BY <1>5, <1>6, <1>7
-----------------------------------------------------------------------------
LEMMA TableInvInit == Init => TableInv
<1> SUFFICES ASSUME Init PROVE FlagsAgree /\ TableFollowsPeers
  BY InitType DEF TableInv
<1>1. ASSUME NEW p \in Peers
      PROVE  /\ peerMail[p] = <<>> /\ tableMail = <<>> /\ callbacks[p] = <<>>
             /\ seenEor[p] = eorTrue[p]
             /\ routes[p] = NoRoutes /\ received[p] = NoRoutes
  <2>1. CASE ColdInit
    BY <2>1 DEF ColdInit, MailInit, TableInit, PeerInit
  <2>2. CASE WarmInit
    BY <2>2 DEF WarmInit, MailInit
  <2> QED BY <2>1, <2>2 DEF Init
<1> QED BY <1>1 DEF FlagsAgree, Pending, TableFollowsPeers, TableWillHold

\* What peer p must find in the table, if anything.
Follows(p) ==
  IF seenEor[p] THEN Pending(p, "tables") \/ Holds(p, received[p], tableMail, routes[p])
                ELSE Holds(p, NoRoutes, tableMail, routes[p])

LEMMA FollowsIs == TableFollowsPeers <=> \A p \in Peers : Follows(p)
BY WillHoldIs DEF TableFollowsPeers, Follows

LEMMA FollowsNext == (\A p \in Peers : Follows(p)') => TableFollowsPeers'
BY DEF TableFollowsPeers, Follows, TableWillHold, Holds, UpdatesOf, Pending

\* A new message for a peer keeps the flags in agreement.
LEMMA FlagsAgreePost ==
  ASSUME TableInv, UNCHANGED <<seenEor, eorTrue, callbacks>>,
         \A p \in Peers :
            \/ peerMail'[p] = peerMail[p]
            \/ \E m \in PeerMessage :
                 /\ peerMail'[p] = Append(peerMail[p], m)
                 /\ m.type = "open" => "gracefulrestart" \in m.caps
  PROVE  FlagsAgree'
<1> SUFFICES ASSUME NEW p \in Peers, NEW i \in DOMAIN peerMail'[p],
                    peerMail'[p][i].type = "open"
             PROVE  "gracefulrestart" \in peerMail'[p][i].caps
  BY DEF TableInv, FlagsAgree, Pending
<1>1. CASE peerMail'[p] = peerMail[p]
  BY <1>1 DEF TableInv, FlagsAgree
<1>2. ASSUME NEW m \in PeerMessage, peerMail'[p] = Append(peerMail[p], m),
             m.type = "open" => "gracefulrestart" \in m.caps
      PROVE  "gracefulrestart" \in peerMail'[p][i].caps
  <2>1. peerMail[p] \in Seq(PeerMessage)
    BY DEF TableInv, TypeOK, MailTypeOK
  <2>2. i \in DOMAIN peerMail[p] \/ i = Len(peerMail[p]) + 1
    BY <1>2, <2>1, AppendElements
  <2> QED BY <1>2, <2>1, <2>2, AppendElements DEF TableInv, FlagsAgree
<1> QED BY <1>1, <1>2

\* A step that touches none of the variables Follows reads.
LEMMA FollowsSame ==
  ASSUME TableInv,
         UNCHANGED <<seenEor, received, callbacks, tableMail, routes>>
  PROVE  TableFollowsPeers'
<1>1. \A p \in Peers : Follows(p)
  BY FollowsIs DEF TableInv
<1>2. \A p \in Peers : Follows(p)'
  BY <1>1 DEF Follows, Pending, Holds, UpdatesOf
<1> QED BY <1>2, FollowsNext

LEMMA TableInvTable == TableInv /\ TableStep => TableInv'
<1> SUFFICES ASSUME TableInv, TableStep PROVE TableInv'
  OBVIOUS
<1>0. TypeOK /\ TypeOK'
  BY TableStepType DEF TableInv
<1>1. UNCHANGED <<seenEor, eorTrue, callbacks, received>>
  BY DEF TableStep, peerVars
<1>2. FlagsAgree'
  <2>1. \A q \in Peers : UpdateFor(q) \in PeerMessage /\ UpdateFor(q).type = "update"
    BY <1>0, UpdateForType DEF TypeOK, UpdateFor
  <2>2. \A q \in Peers : \/ peerMail'[q] = peerMail[q]
                         \/ peerMail'[q] = Append(peerMail[q], UpdateFor(q))
    BY <1>0 DEF TableStep, TableNext, TableUpdate, TableReload, UpdatePeers,
       PostTo, TypeOK, MailTypeOK
  <2> QED BY <1>1, <2>1, <2>2, FlagsAgreePost
<1>3. TableFollowsPeers'
  <2>1. CASE UpdatePeers
    BY <1>1, <2>1, FollowsSame DEF UpdatePeers
  <2>2. CASE TableUpdate \/ TableReload
    <3>1. /\ tableMail \in Seq(TableMessage) /\ tableMail # <<>>
          /\ tableMail' = Tail(tableMail)
      BY <1>0, <2>2 DEF TypeOK, MailTypeOK, TableUpdate, TableReload
    <3>2. ASSUME NEW p \in Peers
          PROVE  routes'[p] = IF Head(tableMail).type = "update" /\ Head(tableMail).from = p
                              THEN Head(tableMail).routes ELSE routes[p]
      BY <1>0, <2>2 DEF TypeOK, TableTypeOK, TableUpdate, TableReload, tableVars
    <3>3. ASSUME NEW p \in Peers, NEW rts, Holds(p, rts, tableMail, routes[p])
          PROVE  Holds(p, rts, tableMail', routes'[p])
      BY <3>1, <3>2, <3>3, HoldsTail
    <3>4. ASSUME NEW p \in Peers PROVE Follows(p)'
      BY <1>1, <3>3, FollowsIs DEF TableInv, Follows, Pending
    <3> QED BY <3>4, FollowsNext
  <2> QED BY <2>1, <2>2 DEF TableStep, TableNext
<1> QED BY <1>0, <1>2, <1>3 DEF TableInv

LEMMA TableInvStatus == TableInv /\ StatusStep => TableInv'
<1> SUFFICES ASSUME TableInv, StatusStep PROVE TableInv'
  OBVIOUS
<1>0. TypeOK /\ TypeOK'
  BY StatusStepType DEF TableInv
<1>1. UNCHANGED <<seenEor, eorTrue, callbacks, received, tableMail, routes>>
  BY DEF StatusStep, StatusNext, StatusUnchanged, StatusChanged, tableVars, peerVars
<1> DEFINE m == [type |-> "status", degraded |-> Missing(status')]
<1>2. m \in PeerMessage /\ m.type # "open"
  BY MissingType DEF PeerMessage
<1>3. \A q \in Peers : \/ peerMail'[q] = peerMail[q]
                       \/ peerMail'[q] = Append(peerMail[q], m)
  BY DEF StatusStep, StatusNext, StatusUnchanged, StatusChanged
<1> HIDE DEF m
<1>4. FlagsAgree'
  BY <1>1, <1>2, <1>3, FlagsAgreePost
<1>5. TableFollowsPeers'
  BY <1>1, FollowsSame
<1> QED BY <1>0, <1>4, <1>5 DEF TableInv

LEMMA TableInvTopology == TableInv /\ SendTopology => TableInv'
<1> SUFFICES ASSUME TableInv, SendTopology PROVE TableInv'
  OBVIOUS
<1>0. TypeOK /\ TypeOK'
  BY SendTopologyType DEF TableInv
<1>1. UNCHANGED <<seenEor, eorTrue, callbacks, received, tableMail, routes>>
  BY DEF SendTopology, tableVars, peerVars
<1>2. [type |-> "topology"] \in PeerMessage /\ [type |-> "topology"].type # "open"
  BY DEF PeerMessage
<1>3. \A q \in Peers : peerMail'[q] = Append(peerMail[q], [type |-> "topology"])
  BY DEF SendTopology
<1>4. FlagsAgree'
  BY <1>1, <1>2, <1>3, FlagsAgreePost
<1>5. TableFollowsPeers'
  BY <1>1, FollowsSame
<1> QED BY <1>0, <1>4, <1>5 DEF TableInv

LEMMA TableInvDeliver ==
  ASSUME TableInv, NEW q \in Peers, DeliverEncode(q) PROVE TableInv'
<1>0. TypeOK /\ TypeOK'
  BY DeliverEncodeType DEF TableInv
<1>1. UNCHANGED <<peerMail, seenEor, eorTrue, callbacks, received, tableMail, routes>>
  BY DEF DeliverEncode, tableVars, peerVars
<1>4. FlagsAgree'
  BY <1>1, FlagsAgreePost
<1>5. TableFollowsPeers'
  BY <1>1, FollowsSame
<1> QED BY <1>0, <1>4, <1>5 DEF TableInv

LEMMA TableInvNeighbour ==
  ASSUME TableInv, NEW q \in Peers, Neighbour(q) PROVE TableInv'
<1>0. TypeOK /\ TypeOK'
  BY NeighbourType DEF TableInv
<1>1. PICK m \in PeerMessage : /\ m.type = "open" => "gracefulrestart" \in m.caps
                               /\ ToPeer(q, m)
  <2>1. /\ [type |-> "open", caps |-> CapabilitiesOf(q)] \in PeerMessage
        /\ "gracefulrestart" \in CapabilitiesOf(q)
        /\ [type |-> "state", up |-> TRUE] \in PeerMessage
        /\ [type |-> "state", up |-> FALSE] \in PeerMessage
        /\ [type |-> "eor"] \in PeerMessage
    BY DEF CapabilitiesOf, PeerMessage, Capability
  <2>2. \A x \in Prefixes : [type |-> "withdraw", pfx |-> x] \in PeerMessage
    BY DEF PeerMessage
  <2>3. \A x \in Prefixes, a \in Attrs :
          [type |-> "announce", pfx |-> x, attr |-> a] \in PeerMessage
    BY DEF PeerMessage
  <2> QED BY <2>1, <2>2, <2>3 DEF Neighbour, NeighbourOpen, NeighbourUp,
          NeighbourDown, NeighbourAnnounce, NeighbourWithdraw, NeighbourEor
<1>2. UNCHANGED <<seenEor, eorTrue, callbacks, received, tableMail, routes>>
  BY <1>1 DEF ToPeer, tableVars, peerVars
<1>3. \A p \in Peers : \/ peerMail'[p] = peerMail[p]
                       \/ peerMail'[p] = Append(peerMail[p], m)
  BY <1>0, <1>1 DEF ToPeer, PostTo, TypeOK, MailTypeOK
<1>4. FlagsAgree'
  BY <1>1, <1>2, <1>3, FlagsAgreePost
<1>5. TableFollowsPeers'
  BY <1>2, FollowsSame
<1> QED BY <1>0, <1>4, <1>5 DEF TableInv
-----------------------------------------------------------------------------
\* Taking a message from a mailbox adds no open message to it.
LEMMA OpensTaken ==
  ASSUME TableInv, NEW q \in Peers,
         peerMail' = peerMail \/ (peerMail[q] # <<>> /\ peerMail' = Taken(q)),
         NEW p \in Peers, NEW i \in DOMAIN peerMail'[p],
         peerMail'[p][i].type = "open"
  PROVE  "gracefulrestart" \in peerMail'[p][i].caps
<1>1. peerMail \in [Peers -> Seq(PeerMessage)]
  BY DEF TableInv, TypeOK, MailTypeOK
<1>2. peerMail'[p] = peerMail[p] \/ (peerMail[p] # <<>> /\ peerMail'[p] = Tail(peerMail[p]))
  BY <1>1 DEF Taken
<1>3. CASE peerMail'[p] = peerMail[p]
  BY <1>3 DEF TableInv, FlagsAgree
<1>4. CASE peerMail[p] # <<>> /\ peerMail'[p] = Tail(peerMail[p])
  <2>1. i + 1 \in DOMAIN peerMail[p] /\ peerMail'[p][i] = peerMail[p][i + 1]
    BY <1>1, <1>4, TailElements
  <2> QED BY <2>1 DEF TableInv, FlagsAgree
<1> QED BY <1>2, <1>3, <1>4

\* The flags of a peer after each of its steps.
FlagsOf(p) ==
  /\ seenEor[p] => eorTrue[p]
  /\ Pending(p, "tables") => seenEor[p]

LEMMA PeerOpenFollows ==
  ASSUME TableInv, NEW q \in Peers, ProcessOpen(q), routes' = routes
  PROVE  \A p \in Peers : FlagsOf(p)' /\ Follows(p)'
<1>0. TypeOK
  BY DEF TableInv
<1>1. UNCHANGED <<eorTrue, callbacks, received, routes>>
  BY DEF ProcessOpen
<1>2. seenEor' = seenEor
  <2>1. 1 \in DOMAIN peerMail[q] /\ Head(peerMail[q]) = peerMail[q][1]
    BY <1>0, TailElements DEF ProcessOpen, NextIs, TypeOK, MailTypeOK
  <2>2. "gracefulrestart" \in Head(peerMail[q]).caps
    BY <2>1 DEF ProcessOpen, NextIs, TableInv, FlagsAgree
  <2>3. (eorTrue[q] /\ seenEor[q]) = seenEor[q]
    BY <1>0 DEF TableInv, FlagsAgree, TypeOK, PeerTypeOK
  <2> QED BY <1>0, <2>2, <2>3 DEF ProcessOpen, TypeOK, PeerTypeOK
<1> DEFINE m == [type |-> "reload", from |-> q]
<1>3. m \in TableMessage /\ m.type # "update"
  BY DEF TableMessage
<1>4. tableMail' = tableMail \/ tableMail' = Append(tableMail, m)
  BY DEF ProcessOpen
<1> HIDE DEF m
<1>5. ASSUME NEW p \in Peers, NEW rts, Holds(p, rts, tableMail, routes[p])
      PROVE  Holds(p, rts, tableMail', routes[p])
  BY <1>0, <1>3, <1>4, <1>5, HoldsOther DEF TypeOK, MailTypeOK
<1>6. ASSUME NEW p \in Peers PROVE Follows(p)'
  BY <1>1, <1>2, <1>5, FollowsIs DEF TableInv, Follows, Pending
<1> QED BY <1>1, <1>2, <1>6 DEF TableInv, FlagsAgree, FlagsOf, Pending

\* Announcements and withdrawals wait for the end-of-RIB or a hand-over.
LEMMA PeerRoutesFollows ==
  ASSUME TableInv, NEW q \in Peers, ProcessAnnounce(q) \/ ProcessWithdraw(q),
         routes' = routes
  PROVE  \A p \in Peers : FlagsOf(p)' /\ Follows(p)'
<1>0. TypeOK /\ "tables" \in Callback
  BY DEF TableInv, Callback
<1>1. UNCHANGED <<seenEor, eorTrue, tableMail, routes>> /\ RoutesChanged(q)
  BY DEF ProcessAnnounce, ProcessWithdraw
<1>2. \A p \in Peers \ {q} : received'[p] = received[p]
  BY <1>0 DEF ProcessAnnounce, ProcessWithdraw, TypeOK, PeerTypeOK
<1>3. CASE seenEor[q]
  <2>1. callbacks' = WithCallback(q, "tables")
    BY <1>1, <1>3 DEF RoutesChanged
  <2>2. /\ Pending(q, "tables")'
        /\ \A p \in Peers \ {q} : Pending(p, "tables")' <=> Pending(p, "tables")
    BY <1>0, <2>1, WithCallbackPending
  <2>3. ASSUME NEW p \in Peers PROVE Follows(p)'
    BY <1>1, <1>2, <1>3, <2>2, FollowsIs DEF TableInv, Follows
  <2> QED BY <1>1, <1>3, <2>2, <2>3 DEF TableInv, FlagsAgree, FlagsOf
<1>4. CASE ~seenEor[q]
  <2>1. callbacks' = callbacks
    BY <1>1, <1>4 DEF RoutesChanged
  <2>2. ASSUME NEW p \in Peers PROVE Follows(p)'
    BY <1>1, <1>2, <1>4, <2>1, FollowsIs DEF TableInv, Follows, Pending
  <2> QED BY <1>1, <2>1, <2>2 DEF TableInv, FlagsAgree, FlagsOf, Pending
<1> QED BY <1>3, <1>4

LEMMA PeerEorFollows ==
  ASSUME TableInv, NEW q \in Peers, ProcessEor(q), routes' = routes
  PROVE  \A p \in Peers : FlagsOf(p)' /\ Follows(p)'
<1>0. TypeOK /\ "tables" \in Callback
  BY DEF TableInv, Callback
<1>1. /\ UNCHANGED <<received, tableMail, routes>>
      /\ seenEor'[q] = TRUE /\ eorTrue'[q] = TRUE
      /\ \A p \in Peers \ {q} : seenEor'[p] = seenEor[p] /\ eorTrue'[p] = eorTrue[p]
  BY <1>0 DEF ProcessEor, TypeOK, PeerTypeOK
<1>2. /\ Pending(q, "tables")'
      /\ \A p \in Peers \ {q} : Pending(p, "tables")' <=> Pending(p, "tables")
  BY <1>0, WithCallbackPending DEF ProcessEor
<1>3. ASSUME NEW p \in Peers PROVE Follows(p)'
  BY <1>1, <1>2, FollowsIs DEF TableInv, Follows
<1> QED BY <1>1, <1>2, <1>3 DEF TableInv, FlagsAgree, FlagsOf

\* The callback of the export does not matter to the table.
LEMMA PeerExportFollows ==
  ASSUME TableInv, NEW q \in Peers,
         \/ ProcessTableUpdate(q) \/ ProcessStatus(q) \/ ProcessTopology(q)
         \/ ExportSkipped(q) \/ ExportNothing(q) \/ ExportRoutes(q),
         routes' = routes
  PROVE  \A p \in Peers : FlagsOf(p)' /\ Follows(p)'
<1>0. TypeOK /\ "tables" \in Callback /\ "export" \in Callback /\ "export" # "tables"
  BY DEF TableInv, Callback
<1>1. UNCHANGED <<seenEor, eorTrue, received, tableMail, routes>>
  BY DEF ProcessTableUpdate, ProcessStatus, ProcessTopology, ExportSkipped,
     ExportNothing, ExportRoutes, mailVars
<1>2. \A p \in Peers : Pending(p, "tables")' <=> Pending(p, "tables")
  <2>1. CASE callbacks' = WithCallback(q, "export")
    BY <1>0, <2>1, WithCallbackPending
  <2>2. CASE callbacks' = callbacks
    BY <2>2 DEF Pending
  <2>3. CASE CallbackIs(q, "export") /\ CallbackDone(q)
    BY <1>0, <2>3, CallbackDonePending
  <2> QED BY <2>1, <2>2, <2>3 DEF ProcessTableUpdate, ProcessStatus,
             ProcessTopology, ExportSkipped, ExportNothing, ExportRoutes
<1>3. ASSUME NEW p \in Peers PROVE Follows(p)'
  BY <1>1, <1>2, FollowsIs DEF TableInv, Follows
<1> QED BY <1>1, <1>2, <1>3 DEF TableInv, FlagsAgree, FlagsOf

\* A lost session withdraws everything from the table at once.
LEMMA PeerDownFollows ==
  ASSUME TableInv, NEW q \in Peers, ProcessDown(q), routes' = routes
  PROVE  \A p \in Peers : FlagsOf(p)' /\ Follows(p)'
<1>0. TypeOK
  BY DEF TableInv
<1>1. /\ UNCHANGED <<seenEor, eorTrue, callbacks, routes>>
      /\ received'[q] = NoRoutes
      /\ \A p \in Peers \ {q} : received'[p] = received[p]
  BY <1>0 DEF ProcessDown, TypeOK, PeerTypeOK
<1> DEFINE m == [type |-> "update", from |-> q, routes |-> NoRoutes]
<1>2. m \in TableMessage /\ m.type = "update" /\ m.from = q /\ m.routes = NoRoutes
  BY DEF TableMessage, RoutesOf, NoRoutes
<1>3. tableMail' = Append(tableMail, m)
  BY DEF ProcessDown, TableGets
<1> HIDE DEF m
<1>4. Holds(q, NoRoutes, tableMail', routes[q])
  BY <1>0, <1>2, <1>3, HoldsLast DEF TypeOK, MailTypeOK
<1>5. ASSUME NEW p \in Peers \ {q}, NEW rts, Holds(p, rts, tableMail, routes[p])
      PROVE  Holds(p, rts, tableMail', routes[p])
  BY <1>0, <1>2, <1>3, <1>5, HoldsOther DEF TypeOK, MailTypeOK
<1>6. ASSUME NEW p \in Peers PROVE Follows(p)'
  BY <1>1, <1>4, <1>5, FollowsIs DEF TableInv, Follows, Pending
<1> QED BY <1>1, <1>6 DEF TableInv, FlagsAgree, FlagsOf, Pending

\* The hand-over leaves in the table's mailbox what the peer stored.
LEMMA PeerUpdateTablesFollows ==
  ASSUME TableInv, NEW q \in Peers, UpdateTables(q), routes' = routes
  PROVE  \A p \in Peers : FlagsOf(p)' /\ Follows(p)'
<1>0. TypeOK /\ "tables" \in Callback
  BY DEF TableInv, Callback
<1>1. UNCHANGED <<seenEor, eorTrue, received, routes>>
  BY DEF UpdateTables
<1>2. /\ \A p \in Peers : Pending(p, "tables")' => Pending(p, "tables")
      /\ \A p \in Peers \ {q} : Pending(p, "tables")' <=> Pending(p, "tables")
  BY <1>0, CallbackDonePending DEF UpdateTables
<1>3. seenEor[q]
  <2>1. callbacks[q] \in Seq(Callback) /\ callbacks[q] # <<>> /\ Head(callbacks[q]) = "tables"
    BY <1>0 DEF UpdateTables, CallbackIs, TypeOK, PeerTypeOK
  <2>2. Pending(q, "tables")
    BY <2>1, TailElements DEF Pending
  <2> QED BY <2>2 DEF TableInv, FlagsAgree
<1> DEFINE m == [type |-> "update", from |-> q, routes |-> received[q]]
<1>4. m \in TableMessage /\ m.type = "update" /\ m.from = q /\ m.routes = received[q]
  BY <1>0 DEF TableMessage, TypeOK, PeerTypeOK
<1>5. tableMail' = Append(tableMail, m)
  BY DEF UpdateTables, TableGets
<1> HIDE DEF m
<1>6. Holds(q, received[q], tableMail', routes[q])
  BY <1>0, <1>4, <1>5, HoldsLast DEF TypeOK, MailTypeOK
<1>7. ASSUME NEW p \in Peers \ {q}, NEW rts, Holds(p, rts, tableMail, routes[p])
      PROVE  Holds(p, rts, tableMail', routes[p])
  BY <1>0, <1>4, <1>5, <1>7, HoldsOther DEF TypeOK, MailTypeOK
<1>8. ASSUME NEW p \in Peers PROVE Follows(p)'
  BY <1>1, <1>2, <1>3, <1>6, <1>7, FollowsIs DEF TableInv, Follows
<1> QED BY <1>1, <1>2, <1>8 DEF TableInv, FlagsAgree, FlagsOf

LEMMA TableInvPeer ==
  ASSUME TableInv, NEW q \in Peers, PeerStep(q) PROVE TableInv'
<1>0. TypeOK' /\ routes' = routes
  BY PeerStepType DEF TableInv, PeerStep, tableVars
<1>1. \A p \in Peers : FlagsOf(p)' /\ Follows(p)'
  <2>1. CASE \/ ProcessStateSame(q) \/ ProcessUp(q) \/ IgnoreUpdate(q)
             \/ IgnoreTableUpdate(q)
    <3>1. UNCHANGED <<seenEor, eorTrue, received, callbacks, tableMail, routes>>
      BY <1>0, <2>1 DEF ProcessStateSame, ProcessUp, IgnoreUpdate,
         IgnoreTableUpdate, peerVars
    <3>2. \A p \in Peers : FlagsOf(p) /\ Follows(p)
      BY FollowsIs DEF TableInv, FlagsAgree, FlagsOf
    <3> QED BY <3>1, <3>2 DEF FlagsOf, Follows, Pending, Holds, UpdatesOf
  <2> QED BY <1>0, <2>1, PeerOpenFollows, PeerRoutesFollows, PeerEorFollows,
          PeerExportFollows, PeerDownFollows, PeerUpdateTablesFollows
          DEF PeerStep, PeerNext
<1>2. ASSUME NEW p \in Peers, NEW i \in DOMAIN peerMail'[p],
             peerMail'[p][i].type = "open"
      PROVE  "gracefulrestart" \in peerMail'[p][i].caps
  BY <1>2, TakesOne, OpensTaken
<1>3. FlagsAgree'
  BY <1>1, <1>2 DEF FlagsAgree, FlagsOf, Pending
<1>4. TableFollowsPeers'
  BY <1>1, FollowsNext
<1> QED BY <1>0, <1>3, <1>4 DEF TableInv
-----------------------------------------------------------------------------
\* Whatever the order of updates, end-of-RIB markers, session losses and
\* callbacks, the table holds of a peer nothing before its end-of-RIB and
\* afterwards what the peer stored, once the pending hand-over and the table's
\* mail are done.
THEOREM TableAlwaysFollows == Spec => []TableFollowsPeers
<1>1. TableInv /\ UNCHANGED vars => TableInv'
  <2> SUFFICES ASSUME TableInv, UNCHANGED vars PROVE TableInv'
    OBVIOUS
  <2>1. TypeOK'
    BY NextType DEF TableInv
  <2>2. UNCHANGED <<peerMail, tableMail, routes, seenEor, eorTrue, received, callbacks>>
    BY DEF vars, mailVars, tableVars, peerVars
  <2>3. FlagsAgree'
    BY <2>2 DEF TableInv, FlagsAgree, Pending
  <2>4. TableFollowsPeers'
    BY <2>2, FollowsSame
  <2> QED BY <2>1, <2>3, <2>4 DEF TableInv
<1>2. TableInv /\ Next => TableInv'
  BY TableInvTable, TableInvStatus, TableInvTopology, TableInvPeer,
     TableInvDeliver, TableInvNeighbour DEF Next
<1>3. TableInv => TableFollowsPeers
  BY DEF TableInv
<1> QED BY TableInvInit, <1>1, <1>2, <1>3, PTL DEF Spec
-----------------------------------------------------------------------------
(***************************************************************************)
(* What a peer records as exported its neighbour has or will get.          *)
(* ExportedIsAnnounced is not inductive alone: it rests on exported and    *)
(* every queued command having one route per prefix, and on exported being *)
(* empty without a session.                                                *)
(***************************************************************************)

OnePerPrefix(S) == \A e, f \in S : e.pfx = f.pfx => e = f

Tidy(p) ==
  /\ ~active[p] => exported[p] = {}
  /\ OnePerPrefix(exported[p])
  /\ \A i \in DOMAIN out[p] : OnePerPrefix(out[p][i].routes)

\* The commands in a queue that name prefix x.
Naming(x, queue) == {i \in DOMAIN queue : \E r \in queue[i].routes : r.pfx = x}

\* WillAnnounce for a given queue of commands and a given table of ExaBGP.
Announces(e, queue, rib) ==
  \/ Naming(e.pfx, queue) = {} /\ rib[e.pfx] = e
  \/ \E i \in Naming(e.pfx, queue) :
       /\ \A j \in Naming(e.pfx, queue) : j <= i
       /\ queue[i].op = "advertise"
       /\ e \in queue[i].routes

Ann(p) ==
  ~DownPending(p) => \A e \in exported[p] : Announces(e, out[p], ribOut[p])

AnnInv == TypeOK /\ \A p \in Peers : Tidy(p) /\ Ann(p)

LEMMA AnnIs == ExportedIsAnnounced <=> \A p \in Peers : Ann(p)
BY DEF ExportedIsAnnounced, Ann, WillAnnounce, Announces, Naming
-----------------------------------------------------------------------------
\* A command that announces e comes last, so ExaBGP will announce e.
LEMMA AnnouncesLast ==
  ASSUME NEW queue \in Seq(Encode), NEW m \in Encode, NEW rib, NEW e \in m.routes,
         m.op = "advertise"
  PROVE  Announces(e, Append(queue, m), rib)
<1> DEFINE n == Len(queue) + 1
           new == Append(queue, m)
<1>1. n \in DOMAIN new /\ new[n] = m /\ \A j \in DOMAIN new : j <= n
  BY AppendElements
<1> HIDE DEF n, new
<1>2. n \in Naming(e.pfx, new) /\ \A j \in Naming(e.pfx, new) : j <= n
  BY <1>1 DEF Naming
<1>3. Announces(e, new, rib)
  BY <1>1, <1>2 DEF Announces
<1> QED BY <1>3 DEF new

\* A command that does not name the prefix of e changes nothing for e.
LEMMA AnnouncesOther ==
  ASSUME NEW queue \in Seq(Encode), NEW m \in Encode, NEW rib, NEW e,
         \A r \in m.routes : r.pfx # e.pfx, Announces(e, queue, rib)
  PROVE  Announces(e, Append(queue, m), rib)
<1> DEFINE n == Len(queue) + 1
           new == Append(queue, m)
<1>1. /\ DOMAIN new = DOMAIN queue \cup {n} /\ new[n] = m
      /\ \A i \in DOMAIN queue : new[i] = queue[i]
  BY AppendElements
<1> HIDE DEF n, new
<1>2. Naming(e.pfx, new) = Naming(e.pfx, queue)
  <2>1. ~ \E r \in new[n].routes : r.pfx = e.pfx
    BY <1>1
  <2>2. \A i : i \in Naming(e.pfx, new) <=> i \in Naming(e.pfx, queue)
    BY <1>1, <2>1, Zenon DEF Naming
  <2> QED BY <2>2 DEF Naming
<1>3. Announces(e, new, rib)
  BY <1>1, <1>2 DEF Announces, Naming
<1> QED BY <1>3 DEF new

\* Executing the first command puts into ExaBGP's table what it says.
LEMMA AnnouncesTail ==
  ASSUME NEW queue \in Seq(Encode), queue # <<>>, NEW rib, NEW e,
         Announces(e, queue, rib), OnePerPrefix(Head(queue).routes), NEW rib2,
         rib2[e.pfx] =
           IF e.pfx \notin {r.pfx : r \in Head(queue).routes} THEN rib[e.pfx]
           ELSE IF Head(queue).op = "withdraw" THEN None
           ELSE CHOOSE r \in Head(queue).routes : r.pfx = e.pfx
  PROVE  Announces(e, Tail(queue), rib2)
<1> DEFINE rest == Tail(queue)
<1>1. /\ \A i \in DOMAIN rest : i + 1 \in DOMAIN queue /\ rest[i] = queue[i + 1]
      /\ \A i \in DOMAIN queue : i # 1 => i - 1 \in DOMAIN rest
      /\ \A i \in DOMAIN queue : i \in Nat /\ 1 <= i
      /\ \A i \in DOMAIN rest : i \in Nat /\ 1 <= i
      /\ 1 \in DOMAIN queue /\ Head(queue) = queue[1]
  BY TailElements
<1> HIDE DEF rest
<1>2. \A i \in Naming(e.pfx, rest) : i + 1 \in Naming(e.pfx, queue)
  BY <1>1 DEF Naming
<1>3. \A i \in Naming(e.pfx, queue) : i # 1 => /\ i - 1 \in Naming(e.pfx, rest)
                                               /\ rest[i - 1] = queue[i]
  <2> SUFFICES ASSUME NEW i \in Naming(e.pfx, queue), i # 1
               PROVE  i - 1 \in Naming(e.pfx, rest) /\ rest[i - 1] = queue[i]
    OBVIOUS
  <2> DEFINE k == i - 1
  <2>1. i \in DOMAIN queue
    BY DEF Naming
  <2>2. k \in DOMAIN rest /\ k + 1 = i
    BY <1>1, <2>1
  <2> HIDE DEF k
  <2>3. rest[k] = queue[i]
    BY <1>1, <2>2
  <2>4. k \in Naming(e.pfx, rest)
    BY <2>2, <2>3 DEF Naming
  <2> QED BY <2>3, <2>4 DEF k
<1>4. CASE Naming(e.pfx, queue) = {} /\ rib[e.pfx] = e
  <2>1. Naming(e.pfx, rest) = {}
    BY <1>2, <1>4
  <2>2. e.pfx \notin {r.pfx : r \in Head(queue).routes}
    BY <1>1, <1>4 DEF Naming
  <2> QED BY <1>4, <2>1, <2>2 DEF Announces, rest
<1>5. CASE \E i \in Naming(e.pfx, queue) :
             /\ \A j \in Naming(e.pfx, queue) : j <= i
             /\ queue[i].op = "advertise" /\ e \in queue[i].routes
  <2> PICK i \in Naming(e.pfx, queue) :
             /\ \A j \in Naming(e.pfx, queue) : j <= i
             /\ queue[i].op = "advertise" /\ e \in queue[i].routes
    BY <1>5
  <2>0. i \in Nat /\ 1 <= i /\ i \in DOMAIN queue
    BY <1>1 DEF Naming
  <2>1. CASE i = 1
    <3>1. Naming(e.pfx, rest) = {}
      <4> SUFFICES ASSUME NEW j \in Naming(e.pfx, rest) PROVE FALSE
        OBVIOUS
      <4>1. j \in Nat /\ 1 <= j /\ j + 1 <= 1
        BY <1>1, <1>2, <2>1 DEF Naming
      <4> QED BY <4>1
    <3>2. e \in Head(queue).routes /\ Head(queue).op = "advertise"
      BY <1>1, <2>1
    <3>3. (CHOOSE r \in Head(queue).routes : r.pfx = e.pfx) = e
      BY <3>2 DEF OnePerPrefix
    <3>4. rib2[e.pfx] = e
      BY <3>2, <3>3
    <3> QED BY <3>1, <3>4 DEF Announces, rest
  <2>2. CASE i # 1
    <3>1. /\ i - 1 \in Naming(e.pfx, rest) /\ rest[i - 1].op = "advertise"
          /\ e \in rest[i - 1].routes
      BY <1>3, <2>2
    <3>2. \A j \in Naming(e.pfx, rest) : j <= i - 1
      BY <1>1, <1>2, <2>0 DEF Naming
    <3> QED BY <3>1, <3>2 DEF Announces, rest
  <2> QED BY <2>1, <2>2
<1> QED BY <1>4, <1>5 DEF Announces
-----------------------------------------------------------------------------
LEMMA AnnInvInit == Init => AnnInv
<1> SUFFICES ASSUME Init, NEW p \in Peers PROVE Tidy(p) /\ Ann(p)
  BY InitType DEF AnnInv
<1>1. out[p] = <<>> /\ exported[p] = {}
  <2>1. CASE ColdInit
    BY <2>1 DEF ColdInit, MailInit, PeerInit
  <2>2. CASE WarmInit
    BY <2>2 DEF WarmInit, MailInit
  <2> QED BY <2>1, <2>2 DEF Init
<1> QED BY <1>1 DEF Tidy, Ann, OnePerPrefix

\* A message put into a mailbox takes no session loss out of it.
LEMMA DownPendingPost ==
  ASSUME TypeOK, NEW p \in Peers, NEW m \in PeerMessage,
         peerMail'[p] = Append(peerMail[p], m), DownPending(p)
  PROVE  DownPending(p)'
<1>1. peerMail[p] \in Seq(PeerMessage)
  BY DEF TypeOK, MailTypeOK
<1>2. PICK i \in DOMAIN peerMail[p] :
        peerMail[p][i].type = "state" /\ ~peerMail[p][i].up
  BY DEF DownPending
<1>3. i \in DOMAIN peerMail'[p] /\ peerMail'[p][i] = peerMail[p][i]
  BY <1>1, AppendElements
<1> QED BY <1>2, <1>3 DEF DownPending

\* Steps that only put messages into the mailbox of p.
LEMMA AnnMail ==
  ASSUME AnnInv, NEW p \in Peers, UNCHANGED <<active, exported, out>>,
         ribOut'[p] = ribOut[p],
         \/ peerMail'[p] = peerMail[p]
         \/ \E m \in PeerMessage : peerMail'[p] = Append(peerMail[p], m)
  PROVE  Tidy(p)' /\ Ann(p)'
<1>1. Tidy(p)'
  BY DEF AnnInv, Tidy, OnePerPrefix
<1>2. DownPending(p) => DownPending(p)'
  BY DownPendingPost DEF AnnInv, DownPending
<1>3. Ann(p)'
  BY <1>2 DEF AnnInv, Ann, Announces, Naming
<1> QED BY <1>1, <1>3

LEMMA AnnTable == ASSUME AnnInv, TableStep PROVE AnnInv'
<1>1. UNCHANGED <<active, exported, out, ribOut>>
  BY DEF TableStep, TableNext, TableUpdate, TableReload, UpdatePeers, peerVars, envVars
<1>2. \A q \in Peers : UpdateFor(q) \in PeerMessage
  BY UpdateForType DEF AnnInv, TypeOK
<1>3. \A q \in Peers : \/ peerMail'[q] = peerMail[q]
                       \/ peerMail'[q] = Append(peerMail[q], UpdateFor(q))
  BY DEF TableStep, TableNext, TableUpdate, TableReload, UpdatePeers, PostTo,
     AnnInv, TypeOK, MailTypeOK
<1>4. \A p \in Peers : Tidy(p)' /\ Ann(p)'
  BY <1>1, <1>2, <1>3, AnnMail
<1>5. TypeOK'
  BY TableStepType DEF AnnInv
<1> QED BY <1>4, <1>5 DEF AnnInv

LEMMA AnnStatus == ASSUME AnnInv, StatusStep PROVE AnnInv'
<1>1. UNCHANGED <<active, exported, out, ribOut>>
  BY DEF StatusStep, StatusNext, StatusUnchanged, StatusChanged, peerVars, envVars
<1> DEFINE m == [type |-> "status", degraded |-> Missing(status')]
<1>2. m \in PeerMessage
  BY MissingType DEF PeerMessage
<1>3. \A q \in Peers : peerMail'[q] = peerMail[q] \/ peerMail'[q] = Append(peerMail[q], m)
  BY DEF StatusStep, StatusNext, StatusUnchanged, StatusChanged
<1> HIDE DEF m
<1>4. \A p \in Peers : Tidy(p)' /\ Ann(p)'
  BY <1>1, <1>2, <1>3, AnnMail
<1>5. TypeOK'
  BY StatusStepType DEF AnnInv
<1> QED BY <1>4, <1>5 DEF AnnInv

LEMMA AnnTopology == ASSUME AnnInv, SendTopology PROVE AnnInv'
<1>1. UNCHANGED <<active, exported, out, ribOut>>
  BY DEF SendTopology, peerVars
<1>2. [type |-> "topology"] \in PeerMessage
  BY DEF PeerMessage
<1>3. \A q \in Peers : peerMail'[q] = Append(peerMail[q], [type |-> "topology"])
  BY DEF SendTopology
<1>4. \A p \in Peers : Tidy(p)' /\ Ann(p)'
  BY <1>1, <1>2, <1>3, AnnMail
<1>5. TypeOK'
  BY SendTopologyType DEF AnnInv
<1> QED BY <1>4, <1>5 DEF AnnInv

\* A neighbour that goes down leaves the news of it in the mailbox.
LEMMA AnnNeighbour == ASSUME AnnInv, NEW q \in Peers, Neighbour(q) PROVE AnnInv'
<1>0. TypeOK /\ TypeOK'
  BY NeighbourType DEF AnnInv
<1>1. PICK m \in PeerMessage :
        /\ ToPeer(q, m)
        /\ \/ ribOut' = ribOut
           \/ /\ m = [type |-> "state", up |-> FALSE]
              /\ ribOut' = [ribOut EXCEPT ![q] = NoRoutes]
  <2>1. /\ [type |-> "open", caps |-> CapabilitiesOf(q)] \in PeerMessage
        /\ [type |-> "state", up |-> TRUE] \in PeerMessage
        /\ [type |-> "state", up |-> FALSE] \in PeerMessage
        /\ [type |-> "eor"] \in PeerMessage
    BY DEF CapabilitiesOf, PeerMessage, Capability
  <2>2. \A x \in Prefixes : [type |-> "withdraw", pfx |-> x] \in PeerMessage
    BY DEF PeerMessage
  <2>3. \A x \in Prefixes, a \in Attrs :
          [type |-> "announce", pfx |-> x, attr |-> a] \in PeerMessage
    BY DEF PeerMessage
  <2> QED BY <2>1, <2>2, <2>3 DEF Neighbour, NeighbourOpen, NeighbourUp,
          NeighbourDown, NeighbourAnnounce, NeighbourWithdraw, NeighbourEor
<1>2. UNCHANGED <<active, exported, out>>
  BY <1>1 DEF ToPeer, peerVars
<1>3. \A p \in Peers : \/ peerMail'[p] = peerMail[p]
                       \/ peerMail'[p] = Append(peerMail[p], m)
  BY <1>0, <1>1 DEF ToPeer, PostTo, TypeOK, MailTypeOK
<1>4. ASSUME NEW p \in Peers, ribOut'[p] = ribOut[p]
      PROVE  Tidy(p)' /\ Ann(p)'
  BY <1>2, <1>3, <1>4, AnnMail
<1>5. ASSUME ribOut'[q] # ribOut[q] PROVE Tidy(q)' /\ Ann(q)'
  <2>1. m = [type |-> "state", up |-> FALSE]
    BY <1>1, <1>5
  <2>2. peerMail[q] \in Seq(PeerMessage) /\ peerMail'[q] = Append(peerMail[q], m)
    BY <1>0, <1>1 DEF ToPeer, PostTo, TypeOK, MailTypeOK
  <2>3. /\ Len(peerMail[q]) + 1 \in DOMAIN peerMail'[q]
        /\ peerMail'[q][Len(peerMail[q]) + 1] = m
    BY <2>2, AppendElements
  <2>4. DownPending(q)'
    BY <2>1, <2>3 DEF DownPending
  <2> QED BY <1>2, <2>4 DEF AnnInv, Tidy, Ann, OnePerPrefix
<1>6. \A p \in Peers : ribOut'[p] = ribOut[p] \/ p = q
  BY <1>0, <1>1 DEF TypeOK, EnvTypeOK
<1>7. \A p \in Peers : Tidy(p)' /\ Ann(p)'
  BY <1>4, <1>5, <1>6
<1> QED BY <1>0, <1>7 DEF AnnInv

LEMMA AnnDeliver == ASSUME AnnInv, NEW q \in Peers, DeliverEncode(q) PROVE AnnInv'
<1>0. TypeOK /\ TypeOK'
  BY DeliverEncodeType DEF AnnInv
<1>1. UNCHANGED <<peerMail, active, exported>>
  BY DEF DeliverEncode, peerVars
<1>2. \A p \in Peers \ {q} : out'[p] = out[p] /\ ribOut'[p] = ribOut[p]
  <2>1. out' = [out EXCEPT ![q] = Tail(@)]
    BY DEF DeliverEncode
  <2>2. \E t : ribOut' = [ribOut EXCEPT ![q] = t]
    BY DEF DeliverEncode
  <2> QED BY <2>1, <2>2
<1>3. ASSUME NEW p \in Peers \ {q} PROVE Tidy(p)' /\ Ann(p)'
  <2>1. Tidy(p) /\ Ann(p)
    BY DEF AnnInv
  <2>2. DownPending(p)' <=> DownPending(p)
    BY <1>1 DEF DownPending
  <2>3. out'[p] = out[p] /\ ribOut'[p] = ribOut[p]
    BY <1>2
  <2>4. Tidy(p)'
    BY <1>1, <2>1, <2>3 DEF Tidy, OnePerPrefix
  <2>5. \A e : Announces(e, out'[p], ribOut'[p]) <=> Announces(e, out[p], ribOut[p])
    BY <2>3
  <2>6. Ann(p)'
    BY <1>1, <2>1, <2>2, <2>5 DEF Ann
  <2> QED BY <2>4, <2>6
<1>4. out[q] \in Seq(Encode) /\ out[q] # <<>> /\ out'[q] = Tail(out[q])
  BY <1>0 DEF DeliverEncode, TypeOK, MailTypeOK
<1>5. /\ \A i \in DOMAIN out'[q] : i + 1 \in DOMAIN out[q] /\ out'[q][i] = out[q][i + 1]
      /\ 1 \in DOMAIN out[q] /\ Head(out[q]) = out[q][1]
  BY <1>4, TailElements
<1>6. Tidy(q)'
  BY <1>1, <1>5 DEF AnnInv, Tidy, OnePerPrefix
<1>7. ASSUME ~DownPending(q)', NEW e \in exported'[q]
      PROVE  Announces(e, out'[q], ribOut'[q])
  <2>1. e \in exported[q] /\ ~DownPending(q)
    BY <1>1, <1>7 DEF DownPending
  <2>2. Announces(e, out[q], ribOut[q])
    BY <2>1 DEF AnnInv, Ann
  <2>3. OnePerPrefix(Head(out[q]).routes)
    BY <1>5 DEF AnnInv, Tidy
  <2>4. e.pfx \in Prefixes
    BY <1>0, <2>1 DEF TypeOK, PeerTypeOK, Exported
  <2>5. ribOut'[q][e.pfx] =
           IF e.pfx \notin {r.pfx : r \in Head(out[q]).routes} THEN ribOut[q][e.pfx]
           ELSE IF Head(out[q]).op = "withdraw" THEN None
           ELSE CHOOSE r \in Head(out[q]).routes : r.pfx = e.pfx
    BY <1>0, <2>4 DEF DeliverEncode, TypeOK, EnvTypeOK
  <2> QED BY <1>4, <2>2, <2>3, <2>5, AnnouncesTail
<1>8. Ann(q)'
  BY <1>7 DEF Ann
<1> QED BY <1>0, <1>3, <1>6, <1>8 DEF AnnInv
-----------------------------------------------------------------------------
\* When the last session loss was read, nothing is recorded as exported.
LEMMA DownRead ==
  ASSUME AnnInv, NEW q \in Peers, PeerStep(q), DownPending(q), ~DownPending(q)'
  PROVE  exported'[q] = {} /\ out' = out
<1>0. TypeOK
  BY DEF AnnInv
<1>1. peerMail[q] # <<>> /\ peerMail' = Taken(q)
  BY TakesOne DEF DownPending
<1>2. peerMail[q] \in Seq(PeerMessage) /\ peerMail'[q] = Tail(peerMail[q])
  BY <1>0, <1>1 DEF Taken, TypeOK, MailTypeOK
<1>3. PICK i \in DOMAIN peerMail[q] :
        peerMail[q][i].type = "state" /\ ~peerMail[q][i].up
  BY DEF DownPending
<1>4. i = 1
  <2> SUFFICES ASSUME i # 1 PROVE FALSE
    OBVIOUS
  <2>1. i - 1 \in DOMAIN Tail(peerMail[q]) /\ i \in Nat
    BY <1>1, <1>2, TailElements
  <2>2. Tail(peerMail[q])[i - 1] = peerMail[q][(i - 1) + 1]
    BY <1>1, <1>2, <2>1, TailElements
  <2>3. Tail(peerMail[q])[i - 1] = peerMail[q][i]
    BY <2>1, <2>2
  <2> QED BY <1>2, <1>3, <2>1, <2>3 DEF DownPending
<1>5. Head(peerMail[q]).type = "state" /\ ~Head(peerMail[q]).up
  BY <1>1, <1>2, <1>3, <1>4
<1>6. CASE ProcessStateSame(q)
  <2>1. ~active[q] /\ exported' = exported /\ out' = out
    BY <1>5, <1>6 DEF ProcessStateSame, peerVars
  <2> QED BY <2>1 DEF AnnInv, Tidy
<1>7. CASE ProcessDown(q)
  BY <1>0, <1>7 DEF ProcessDown, TypeOK, PeerTypeOK
<1>8. ProcessStateSame(q) \/ ProcessDown(q)
  <2>1. ~ \/ NextIs(q, "open") \/ NextIs(q, "announce") \/ NextIs(q, "withdraw")
          \/ NextIs(q, "eor") \/ NextIs(q, "update") \/ NextIs(q, "status")
          \/ NextIs(q, "topology")
    BY <1>5 DEF NextIs
  <2>2. ~ProcessUp(q)
    BY <1>5 DEF ProcessUp
  <2>3. peerMail' # peerMail
    <3>1. Len(Tail(peerMail[q])) = Len(peerMail[q]) - 1 /\ Len(peerMail[q]) \in Nat
      BY <1>1, <1>2
    <3>2. Len(peerMail'[q]) # Len(peerMail[q])
      BY <1>2, <3>1
    <3> QED BY <3>2
  <2>4. ~ \/ UpdateTables(q) \/ ExportSkipped(q) \/ ExportNothing(q) \/ ExportRoutes(q)
    BY <2>3 DEF UpdateTables, ExportSkipped, ExportNothing, ExportRoutes, mailVars
  <2> QED BY <2>1, <2>2, <2>4 DEF PeerStep, PeerNext, ProcessOpen, IgnoreUpdate,
          ProcessAnnounce, ProcessWithdraw, ProcessEor, IgnoreTableUpdate,
          ProcessTableUpdate, ProcessStatus, ProcessTopology
<1> QED BY <1>6, <1>7, <1>8

\* The routes exported have one entry per prefix.
LEMMA FullRoutesOnePerPrefix == \A p \in Peers : OnePerPrefix(FullRoutes(p))
BY DEF OnePerPrefix, FullRoutes

\* The queue after the commands of one export, one after the other.
Appended(queue, old, new) ==
  LET w == [op |-> "withdraw", routes |-> old \ new]
      a == [op |-> "advertise", routes |-> new \ old]
      q1 == IF old \ new = {} THEN queue ELSE Append(queue, w)
  IN  IF new \ old = {} THEN q1 ELSE Append(q1, a)

LEMMA MessagesAppended ==
  ASSUME NEW queue \in Seq(Encode), NEW old \in SUBSET Exported,
         NEW new \in SUBSET Exported
  PROVE  queue \o Messages(old, new) = Appended(queue, old, new)
<1> DEFINE w == [op |-> "withdraw", routes |-> old \ new]
           a == [op |-> "advertise", routes |-> new \ old]
<1>1. w \in Encode /\ a \in Encode
  BY DEF Encode
<1>2. Appended(queue, old, new) =
         IF new \ old = {} THEN (IF old \ new = {} THEN queue ELSE Append(queue, w))
         ELSE IF old \ new = {} THEN Append(queue, a)
         ELSE Append(Append(queue, w), a)
  BY DEF Appended
<1>3. \A s \in Seq(Encode) : \A m \in Encode : s \o <<m>> = Append(s, m)
  OBVIOUS
<1>5. \A s \in Seq(Encode) : s \o <<>> = s /\ <<>> \o s = s
  OBVIOUS
<1>6. \A s, t, u \in Seq(Encode) : s \o (t \o u) = (s \o t) \o u
  OBVIOUS
<1>7. <<>> \in Seq(Encode) /\ <<w>> \in Seq(Encode) /\ <<a>> \in Seq(Encode)
  BY <1>1
<1>8. /\ queue \o (<<>> \o <<>>) = queue
      /\ queue \o (<<w>> \o <<>>) = Append(queue, w)
      /\ queue \o (<<>> \o <<a>>) = Append(queue, a)
      /\ queue \o (<<w>> \o <<a>>) = Append(Append(queue, w), a)
  <2>1. Append(queue, w) \in Seq(Encode)
    BY <1>1
  <2>2. queue \o (<<w>> \o <<a>>) = (queue \o <<w>>) \o <<a>>
    BY <1>6, <1>7
  <2>3. <<>> \o <<>> = <<>> /\ <<w>> \o <<>> = <<w>> /\ <<>> \o <<a>> = <<a>>
    BY <1>5, <1>7
  <2>4. /\ queue \o <<>> = queue /\ queue \o <<w>> = Append(queue, w)
        /\ queue \o <<a>> = Append(queue, a)
        /\ Append(queue, w) \o <<a>> = Append(Append(queue, w), a)
    BY <1>1, <1>3, <1>5, <2>1
  <2>5. queue \o (<<w>> \o <<a>>) = Append(Append(queue, w), a)
    BY <2>2, <2>4
  <2> QED BY <2>3, <2>4, <2>5, Zenon
<1>4. Messages(old, new) = (IF old \ new = {} THEN <<>> ELSE <<w>>)
                           \o (IF new \ old = {} THEN <<>> ELSE <<a>>)
  BY DEF Messages
<1> HIDE DEF w, a
<1> QED BY <1>2, <1>4, <1>8

\* After an export the queue announces every exported route: one that was
\* exported before is named by no new command, a new one by the last.
LEMMA AnnExport ==
  ASSUME AnnInv, NEW q \in Peers, PeerStep(q), ExportRoutes(q)
  PROVE  Tidy(q)' /\ Ann(q)'
<1>0. TypeOK
  BY DEF AnnInv
<1> DEFINE old == exported[q]
           new == FullRoutes(q)
           w == [op |-> "withdraw", routes |-> old \ new]
           a == [op |-> "advertise", routes |-> new \ old]
           q1 == IF old \ new = {} THEN out[q] ELSE Append(out[q], w)
           q2 == IF new \ old = {} THEN q1 ELSE Append(q1, a)
<1>1. old \in SUBSET Exported /\ new \in SUBSET Exported /\ out[q] \in Seq(Encode)
  BY <1>0, FullRoutesType DEF TypeOK, PeerTypeOK, MailTypeOK
<1>2. OnePerPrefix(old) /\ OnePerPrefix(new)
  BY FullRoutesOnePerPrefix DEF AnnInv, Tidy
<1>3. /\ exported'[q] = new /\ active'[q] = active[q] /\ active[q]
      /\ out'[q] = out[q] \o Messages(old, new)
      /\ peerMail' = peerMail
  BY <1>0 DEF ExportRoutes, TypeOK, PeerTypeOK, MailTypeOK
<1> HIDE DEF old, new
<1>6. w.op = "withdraw" /\ w.routes = old \ new /\ a.op = "advertise" /\ a.routes = new \ old
  OBVIOUS
<1>13. /\ w = [op |-> "withdraw", routes |-> old \ new]
       /\ a = [op |-> "advertise", routes |-> new \ old]
       /\ q1 = IF old \ new = {} THEN out[q] ELSE Append(out[q], w)
  OBVIOUS
<1> HIDE DEF w, a, q1
<1>15. w \in Encode /\ a \in Encode /\ Append(out[q], w) \in Seq(Encode)
  BY <1>1, <1>13 DEF Encode
<1>16. q1 \in Seq(Encode)
  BY <1>1, <1>13, <1>15
<1>17. out[q] \o Messages(old, new) = Appended(out[q], old, new)
  BY <1>1, MessagesAppended
<1>18. Appended(out[q], old, new) = q2
  BY <1>13 DEF Appended
<1>14. /\ w \in Encode /\ a \in Encode /\ q1 \in Seq(Encode)
       /\ out[q] \o Messages(old, new) = q2
  BY <1>15, <1>16, <1>17, <1>18
<1>4. w \in Encode /\ a \in Encode /\ q1 \in Seq(Encode)
  BY <1>14
<1>5. out'[q] = q2
  BY <1>3, <1>14
<1>7. \A i \in DOMAIN out[q] : OnePerPrefix(out[q][i].routes)
  BY DEF AnnInv, Tidy
<1>8. \A i \in DOMAIN q1 : OnePerPrefix(q1[i].routes)
  <2>1. CASE old \ new = {}
    BY <1>7, <1>13, <2>1
  <2>2. CASE old \ new # {}
    <3>1. q1 = Append(out[q], w)
      BY <1>13, <2>2
    <3>2. OnePerPrefix(w.routes)
      BY <1>2, <1>6 DEF OnePerPrefix
    <3> QED BY <1>1, <1>4, <1>7, <3>1, <3>2, AppendElements
  <2> QED BY <2>1, <2>2
<1>9. ASSUME NEW e \in old, e \in new, NEW rib, Announces(e, out[q], rib)
      PROVE  Announces(e, q1, rib)
  <2>1. \A r \in w.routes : r.pfx # e.pfx
    BY <1>2, <1>6, <1>9 DEF OnePerPrefix
  <2>2. Announces(e, Append(out[q], w), rib)
    BY <1>1, <1>4, <1>9, <2>1, AnnouncesOther
  <2> QED BY <1>9, <1>13, <2>2
<1>10. Tidy(q)'
  <2>1. \A i \in DOMAIN q2 : OnePerPrefix(q2[i].routes)
    <3>1. CASE new \ old = {}
      BY <1>8, <3>1
    <3>2. CASE new \ old # {}
      <4>1. q2 = Append(q1, a)
        BY <3>2
      <4>2. OnePerPrefix(a.routes)
        BY <1>2, <1>6 DEF OnePerPrefix
      <4> QED BY <1>4, <1>8, <4>1, <4>2, AppendElements
    <3> QED BY <3>1, <3>2
  <2> HIDE DEF q2
  <2>2. OnePerPrefix(exported'[q])
    BY <1>2, <1>3
  <2> QED BY <1>3, <1>5, <2>1, <2>2 DEF Tidy, OnePerPrefix
<1>11. ASSUME ~DownPending(q), NEW e \in new, NEW rib,
              \A f \in old : Announces(f, out[q], rib)
       PROVE  Announces(e, q2, rib)
  <2>1. CASE e \in old
    <3>1. Announces(e, q1, rib)
      BY <1>9, <1>11, <2>1
    <3>2. \A r \in a.routes : r.pfx # e.pfx
      BY <1>2, <1>6, <2>1 DEF OnePerPrefix
    <3> QED BY <1>4, <3>1, <3>2, AnnouncesOther
  <2>2. CASE e \notin old
    <3>1. q2 = Append(q1, a) /\ e \in a.routes
      BY <1>6, <2>2
    <3> QED BY <1>4, <1>6, <3>1, AnnouncesLast
  <2> QED BY <2>1, <2>2
<1> HIDE DEF q2
<1>12. Ann(q)'
  <2> SUFFICES ASSUME ~DownPending(q)', NEW e \in exported'[q]
               PROVE  Announces(e, out'[q], ribOut'[q])
    BY DEF Ann
  <2>1. ~DownPending(q)
    BY <1>3 DEF DownPending
  <2>2. \A f \in old : Announces(f, out[q], ribOut[q])
    BY <2>1 DEF AnnInv, Ann, old
  <2>3. ribOut' = ribOut
    BY DEF PeerStep, envVars
  <2> QED BY <1>3, <1>5, <1>11, <2>1, <2>2, <2>3
<1> QED BY <1>10, <1>12

\* Any other step of a peer leaves its commands alone; what it recorded as
\* exported stays, or is cleared.
LEMMA AnnNoExport ==
  ASSUME AnnInv, NEW q \in Peers, PeerStep(q), ~ExportRoutes(q)
  PROVE  Tidy(q)' /\ Ann(q)'
<1>0. TypeOK
  BY DEF AnnInv
<1>1. out' = out /\ ribOut' = ribOut
  BY DEF PeerStep, PeerNext, ProcessOpen, ProcessUp, ProcessDown,
     ProcessStateSame, IgnoreUpdate, ProcessAnnounce, ProcessWithdraw,
     ProcessEor, IgnoreTableUpdate, ProcessTableUpdate, ProcessStatus,
     ProcessTopology, UpdateTables, ExportSkipped, ExportNothing,
     mailVars, envVars
<1>2. \/ exported'[q] = {}
      \/ exported'[q] = exported[q] /\ (active'[q] = active[q] \/ active'[q])
  BY <1>0 DEF PeerStep, PeerNext, ProcessOpen, ProcessUp, ProcessDown,
     ProcessStateSame, IgnoreUpdate, ProcessAnnounce, ProcessWithdraw,
     ProcessEor, IgnoreTableUpdate, ProcessTableUpdate, ProcessStatus,
     ProcessTopology, UpdateTables, ExportSkipped, ExportNothing,
     peerVars, TypeOK, PeerTypeOK
<1>3. DownPending(q) /\ ~DownPending(q)' => exported'[q] = {}
  BY DownRead
<1>4. Tidy(q)'
  BY <1>1, <1>2 DEF AnnInv, Tidy, OnePerPrefix
<1>5. Ann(q)'
  BY <1>1, <1>2, <1>3 DEF AnnInv, Ann, Announces, Naming
<1> QED BY <1>4, <1>5

LEMMA AnnPeer == ASSUME AnnInv, NEW q \in Peers, PeerStep(q) PROVE AnnInv'
<1>0. TypeOK /\ TypeOK'
  BY PeerStepType DEF AnnInv
<1>1. Tidy(q)' /\ Ann(q)'
  BY AnnExport, AnnNoExport
<1>2. ASSUME NEW p \in Peers \ {q} PROVE Tidy(p)' /\ Ann(p)'
  <2>1. /\ active'[p] = active[p] /\ exported'[p] = exported[p] /\ out'[p] = out[p]
        /\ ribOut'[p] = ribOut[p]
    <3>1. active' = active \/ \E b : active' = [active EXCEPT ![q] = b]
      BY DEF PeerStep, PeerNext, ProcessOpen, ProcessUp, ProcessDown,
         ProcessStateSame, IgnoreUpdate, ProcessAnnounce, ProcessWithdraw,
         ProcessEor, IgnoreTableUpdate, ProcessTableUpdate, ProcessStatus,
         ProcessTopology, UpdateTables, ExportSkipped, ExportNothing, ExportRoutes,
         peerVars
    <3>2. exported' = exported \/ \E s : exported' = [exported EXCEPT ![q] = s]
      BY DEF PeerStep, PeerNext, ProcessOpen, ProcessUp, ProcessDown,
         ProcessStateSame, IgnoreUpdate, ProcessAnnounce, ProcessWithdraw,
         ProcessEor, IgnoreTableUpdate, ProcessTableUpdate, ProcessStatus,
         ProcessTopology, UpdateTables, ExportSkipped, ExportNothing, ExportRoutes,
         peerVars
    <3>3. out' = out \/ \E s : out' = [out EXCEPT ![q] = s]
      BY DEF PeerStep, PeerNext, ProcessOpen, ProcessUp, ProcessDown,
         ProcessStateSame, IgnoreUpdate, ProcessAnnounce, ProcessWithdraw,
         ProcessEor, IgnoreTableUpdate, ProcessTableUpdate, ProcessStatus,
         ProcessTopology, UpdateTables, ExportSkipped, ExportNothing, ExportRoutes,
         mailVars
    <3>4. ribOut' = ribOut
      BY DEF PeerStep, envVars
    <3>5. p \in DOMAIN active /\ p \in DOMAIN exported /\ p \in DOMAIN out /\ p # q
      BY <1>0 DEF TypeOK, PeerTypeOK, MailTypeOK
    <3>6. active'[p] = active[p]
      BY <3>1, <3>5
    <3>7. exported'[p] = exported[p]
      BY <3>2, <3>5
    <3>8. out'[p] = out[p]
      BY <3>3, <3>5
    <3> QED BY <3>4, <3>6, <3>7, <3>8
  <2>2. peerMail'[p] = peerMail[p]
    BY <1>0, TakesOne DEF Taken, TypeOK, MailTypeOK
  <2> QED BY <2>1, <2>2 DEF AnnInv, Tidy, Ann, OnePerPrefix, DownPending
<1> QED BY <1>0, <1>1, <1>2 DEF AnnInv
-----------------------------------------------------------------------------
\* What a peer records as exported, its neighbour has or will get from the
\* commands already queued, unless the end of the session is still to be read.
THEOREM ExportedAlwaysAnnounced == Spec => []ExportedIsAnnounced
<1>1. AnnInv /\ UNCHANGED vars => AnnInv'
  <2> SUFFICES ASSUME AnnInv, UNCHANGED vars PROVE AnnInv'
    OBVIOUS
  <2>1. TypeOK'
    BY NextType DEF AnnInv
  <2>2. UNCHANGED <<peerMail, out, active, exported, ribOut>>
    BY DEF vars, mailVars, peerVars, envVars
  <2>3. \A p \in Peers : Tidy(p)' /\ Ann(p)'
    BY <2>2, AnnMail
  <2> QED BY <2>1, <2>3 DEF AnnInv
<1>2. AnnInv /\ Next => AnnInv'
  BY AnnTable, AnnStatus, AnnTopology, AnnPeer, AnnDeliver, AnnNeighbour DEF Next
<1>3. AnnInv => ExportedIsAnnounced
  BY AnnIs DEF AnnInv
<1> QED BY AnnInvInit, <1>1, <1>2, <1>3, PTL DEF Spec
-----------------------------------------------------------------------------
(***************************************************************************)
(* What the controller counts and what a peer exports follow the peers.    *)
(* A peer exports the best of what it was given, or is going to: its       *)
(* callback waits, or the news of a count, or a note of its session that   *)
(* the controller does not know yet and will answer with a count.          *)
(***************************************************************************)

\* The positions in queue s of messages of a kind; the last of them is good.
At(s, kind) == { i \in DOMAIN s : s[i] \in kind }

LastIn(s, kind, good) ==
  \E i \in At(s, kind) : (\A j \in At(s, kind) : j <= i) /\ s[i] \in good

LEMMA KindAppended ==
  ASSUME NEW S, NEW s \in Seq(S), NEW e \in S, NEW kind, NEW good
  PROVE  /\ e \in kind /\ e \in good => LastIn(Append(s, e), kind, good)
         /\ e \notin kind => /\ At(Append(s, e), kind) = At(s, kind)
                             /\ LastIn(s, kind, good) => LastIn(Append(s, e), kind, good)
         /\ At(s, kind) \subseteq At(Append(s, e), kind)
         /\ e \in kind => At(Append(s, e), kind) # {}
<1> DEFINE t == Append(s, e)
<1>1. /\ DOMAIN t = DOMAIN s \cup {Len(s) + 1} /\ t[Len(s) + 1] = e
      /\ \A i \in DOMAIN s : t[i] = s[i] /\ i \in Nat /\ i < Len(s) + 1
      /\ Len(s) + 1 \in Nat
  BY AppendElements
<1> HIDE DEF t
<1>2. ASSUME e \in kind
      PROVE  /\ Len(s) + 1 \in At(t, kind)
             /\ e \in good => LastIn(t, kind, good)
  <2>1. Len(s) + 1 \in At(t, kind)
    BY <1>1, <1>2 DEF At
  <2>2. \A j \in At(t, kind) : j <= Len(s) + 1
    BY <1>1 DEF At
  <2> QED BY <1>1, <2>1, <2>2 DEF LastIn
<1>3. ASSUME e \notin kind
      PROVE  /\ At(t, kind) = At(s, kind)
             /\ LastIn(s, kind, good) => LastIn(t, kind, good)
  <2>1. At(t, kind) = At(s, kind)
    BY <1>1, <1>3 DEF At
  <2>2. \A i \in At(s, kind) : t[i] = s[i]
    BY <1>1 DEF At
  <2> QED BY <2>1, <2>2 DEF LastIn
<1>4. At(s, kind) \subseteq At(t, kind)
  BY <1>1 DEF At
<1> QED BY <1>2, <1>3, <1>4 DEF t

LEMMA KindTaken ==
  ASSUME NEW S, NEW s \in Seq(S), s # <<>>, NEW kind, NEW good
  PROVE  /\ Head(s) \notin kind => /\ At(s, kind) # {} => At(Tail(s), kind) # {}
                                   /\ LastIn(s, kind, good) => LastIn(Tail(s), kind, good)
         /\ At(s, kind) = {} => At(Tail(s), kind) = {}
         /\ LastIn(s, kind, good) =>
              \/ LastIn(Tail(s), kind, good)
              \/ At(Tail(s), kind) = {} /\ Head(s) \in kind /\ Head(s) \in good
<1> DEFINE t == Tail(s)
<1>1. /\ \A i \in DOMAIN t : i + 1 \in DOMAIN s /\ t[i] = s[i + 1]
      /\ \A i \in DOMAIN s : i # 1 => i - 1 \in DOMAIN t
      /\ \A i \in DOMAIN s : i \in Nat /\ 1 <= i
      /\ \A i \in DOMAIN t : i \in Nat /\ 1 <= i
      /\ 1 \in DOMAIN s /\ Head(s) = s[1]
  BY TailElements
<1> HIDE DEF t
<1>2. \A i \in At(t, kind) : i + 1 \in At(s, kind) /\ i \in Nat /\ 1 <= i
  BY <1>1 DEF At
<1>3. ASSUME NEW i \in At(s, kind), i # 1
      PROVE  i - 1 \in At(t, kind) /\ t[i - 1] = s[i] /\ i \in Nat
  <2>1. i \in DOMAIN s /\ i \in Nat /\ i - 1 \in DOMAIN t
    BY <1>1, <1>3 DEF At
  <2>2. t[i - 1] = s[(i - 1) + 1] /\ (i - 1) + 1 = i
    BY <1>1, <2>1
  <2> QED BY <1>3, <2>1, <2>2 DEF At
<1>4. 1 \in At(s, kind) <=> Head(s) \in kind
  BY <1>1 DEF At
<1>5. ASSUME NEW i \in At(s, kind), \A j \in At(s, kind) : j <= i, s[i] \in good
      PROVE  \/ LastIn(t, kind, good)
             \/ At(t, kind) = {} /\ Head(s) \in kind /\ Head(s) \in good
  <2>1. CASE i = 1
    <3>1. At(t, kind) = {}
      <4> SUFFICES ASSUME NEW j \in At(t, kind) PROVE FALSE
        OBVIOUS
      <4>1. j + 1 <= 1 /\ j \in Nat /\ 1 <= j
        BY <1>2, <1>5, <2>1
      <4> QED BY <4>1
    <3> QED BY <1>1, <1>4, <1>5, <2>1, <3>1
  <2>2. CASE i # 1
    <3>1. i - 1 \in At(t, kind) /\ t[i - 1] = s[i] /\ i \in Nat
      BY <1>3, <2>2
    <3>2. \A j \in At(t, kind) : j <= i - 1
      <4> SUFFICES ASSUME NEW j \in At(t, kind) PROVE j <= i - 1
        OBVIOUS
      <4>1. j + 1 <= i /\ j \in Nat
        BY <1>2, <1>5
      <4> QED BY <3>1, <4>1
    <3> QED BY <1>5, <3>1, <3>2 DEF LastIn
  <2> QED BY <2>1, <2>2
<1>6. LastIn(s, kind, good) =>
        \/ LastIn(t, kind, good)
        \/ At(t, kind) = {} /\ Head(s) \in kind /\ Head(s) \in good
  BY <1>5 DEF LastIn
<1>7. ASSUME Head(s) \notin kind, At(s, kind) # {} PROVE At(t, kind) # {}
  <2>1. PICK i : i \in At(s, kind)
    BY <1>7
  <2> QED BY <1>3, <1>4, <1>7, <2>1
<1>8. At(s, kind) = {} => At(t, kind) = {}
  BY <1>2
<1> QED BY <1>6, <1>7, <1>8 DEF t

\* What is put into a queue or taken out of it of another kind changes nothing.
LEMMA KindKept ==
  ASSUME NEW S, NEW s \in Seq(S), NEW kind, NEW t,
         \/ t = s
         \/ \E m \in S \ kind : t = Append(s, m)
         \/ s # <<>> /\ Head(s) \notin kind /\ t = Tail(s)
  PROVE  /\ At(s, kind) = {} <=> At(t, kind) = {}
         /\ \A good : LastIn(s, kind, good) => LastIn(t, kind, good)
<1>1. CASE t = s
  BY <1>1
<1>2. ASSUME NEW m \in S \ kind, t = Append(s, m)
      PROVE  /\ At(s, kind) = {} <=> At(t, kind) = {}
             /\ \A good : LastIn(s, kind, good) => LastIn(t, kind, good)
  <2>1. At(Append(s, m), kind) = At(s, kind)
    BY KindAppended
  <2>2. \A good : LastIn(s, kind, good) => LastIn(Append(s, m), kind, good)
    BY KindAppended
  <2> QED BY <1>2, <2>1, <2>2
<1>3. CASE s # <<>> /\ Head(s) \notin kind /\ t = Tail(s)
  <2>1. At(s, kind) = {} <=> At(Tail(s), kind) = {}
    BY <1>3, KindTaken
  <2>2. \A good : LastIn(s, kind, good) => LastIn(Tail(s), kind, good)
    BY <1>3, KindTaken
  <2> QED BY <1>3, <2>1, <2>2
<1> QED BY <1>1, <1>2, <1>3

LEMMA KindEmpty == \A kind, good : At(<<>>, kind) = {} /\ ~LastIn(<<>>, kind, good)
<1>1. DOMAIN <<>> = {}
  OBVIOUS
<1> QED BY <1>1 DEF At, LastIn

LEMMA LastIsThere ==
  ASSUME NEW s, NEW kind, NEW good, LastIn(s, kind, good)
  PROVE  At(s, kind) # {} /\ At(s, kind \cap good) # {}
BY DEF At, LastIn
-----------------------------------------------------------------------------
NotesOf(p) == { n \in StatusNote : n.peer = p }
Saying(b) == { n \in StatusNote : n.up = b }
Counts == { m \in PeerMessage : m.type = "status" }
Counting(n) == { m \in Counts : m.degraded = n }

\* The last note the controller has got or gets of a peer is the truth.
NotesFollow(p) ==
  \/ At(ctlMail, NotesOf(p)) = {} /\ status[p] = active[p]
  \/ LastIn(ctlMail, NotesOf(p), Saying(active[p]))

\* The last count a peer has got or gets is the one the controller has.
CountsFollow(p) ==
  \/ At(peerMail[p], Counts) = {} /\ degraded[p] = Missing(status)
  \/ LastIn(peerMail[p], Counts, Counting(Missing(status)))

WillExport(p) ==
  \/ exported[p] = FullRoutes(p)
  \/ Pending(p, "export")
  \/ At(peerMail[p], Counts) # {}
  \/ At(ctlMail, NotesOf(p) \cap Saying(~status[p])) # {}

ExportsFollow(p) ==
  IF active[p] /\ topology[p] THEN WillExport(p) ELSE exported[p] = {}

\* Peers start with a count of their own, until a session is up.
AllCounted == (\E q \in Peers : status[q]) => \A p \in Peers : CountsFollow(p)

StatusInv ==
  /\ TypeOK
  /\ AllCounted
  /\ \A p \in Peers : NotesFollow(p) /\ ExportsFollow(p)

\* Without candidates there is nothing to export.
LEMMA NothingToExport ==
  ASSUME NEW p \in Peers, adjIn[p] = NoCandidates
  PROVE  FullRoutes(p) = {}
<1>1. \A x \in Prefixes : Exportable(p, x) = {}
  BY DEF Exportable, NoCandidates
<1>2. \A x \in Prefixes : Best(Exportable(p, x)) = {}
  BY <1>1 DEF Best
<1> QED BY <1>2 DEF FullRoutes

LEMMA StatusInvInit == Init => StatusInv
<1> SUFFICES ASSUME Init PROVE StatusInv
  OBVIOUS
<1>1. TypeOK
  BY InitType
<1>2. ctlMail = <<>> /\ \A p \in Peers : peerMail[p] = <<>> /\ exported[p] = {}
  <2>1. CASE ColdInit
    BY <2>1 DEF ColdInit, MailInit, PeerInit
  <2>2. CASE WarmInit
    BY <2>2 DEF WarmInit, MailInit
  <2> QED BY <2>1, <2>2 DEF Init
<1>3. \A p \in Peers : status[p] = active[p] /\ adjIn[p] = NoCandidates
  <2>1. CASE ColdInit
    BY <2>1 DEF ColdInit, PeerInit, StatusInit
  <2>2. CASE WarmInit
    BY <2>2 DEF WarmInit
  <2> QED BY <2>1, <2>2 DEF Init
<1>4. ASSUME NEW q \in Peers, status[q] PROVE \A p \in Peers : degraded[p] = Missing(status)
  <2>1. CASE ColdInit
    BY <1>4, <2>1 DEF ColdInit, StatusInit
  <2>2. CASE WarmInit
    <3>1. \A p \in Peers : degraded[p] = Cardinality(Peers \ Established)
      BY <2>2 DEF WarmInit
    <3>2. { p \in Peers : ~status[p] } = Peers \ Established
      BY <2>2 DEF WarmInit
    <3> QED BY <3>1, <3>2 DEF Missing
  <2> QED BY <2>1, <2>2 DEF Init
<1>5. AllCounted
  BY <1>2, <1>4, KindEmpty DEF AllCounted, CountsFollow
<1>6. \A p \in Peers : NotesFollow(p) /\ ExportsFollow(p)
  BY <1>2, <1>3, KindEmpty, NothingToExport DEF NotesFollow, ExportsFollow, WillExport
<1> QED BY <1>1, <1>5, <1>6 DEF StatusInv
-----------------------------------------------------------------------------
\* What a peer would export is read from what it was given and the count.
LEMMA FullRoutesSame ==
  ASSUME NEW p \in Peers, adjIn'[p] = adjIn[p], degraded'[p] = degraded[p]
  PROVE  FullRoutes(p)' = FullRoutes(p)
BY DEF FullRoutes, Exportable

\* Messages to a peer that are no counts change nothing.
LEMMA CountsKept ==
  ASSUME StatusInv, NEW p \in Peers, UNCHANGED status, degraded'[p] = degraded[p],
         \/ peerMail'[p] = peerMail[p]
         \/ \E m \in PeerMessage \ Counts : peerMail'[p] = Append(peerMail[p], m)
         \/ /\ peerMail[p] # <<>> /\ Head(peerMail[p]) \notin Counts
            /\ peerMail'[p] = Tail(peerMail[p])
  PROVE  /\ CountsFollow(p) => CountsFollow(p)'
         /\ At(peerMail[p], Counts) # {} => At(peerMail'[p], Counts) # {}
<1> DEFINE n == Missing(status)
<1>1. peerMail[p] \in Seq(PeerMessage)
  BY DEF StatusInv, TypeOK, MailTypeOK
<1>2. Missing(status)' = n
  OBVIOUS
<1> HIDE DEF n
<1>3. /\ At(peerMail[p], Counts) = {} => At(peerMail'[p], Counts) = {}
      /\ At(peerMail[p], Counts) # {} => At(peerMail'[p], Counts) # {}
      /\ LastIn(peerMail[p], Counts, Counting(n)) => LastIn(peerMail'[p], Counts, Counting(n))
  BY <1>1, KindKept
<1>4. CountsFollow(p) <=>
        \/ At(peerMail[p], Counts) = {} /\ degraded[p] = n
        \/ LastIn(peerMail[p], Counts, Counting(n))
  BY DEF CountsFollow, n
<1>5. CountsFollow(p)' <=>
        \/ At(peerMail'[p], Counts) = {} /\ degraded'[p] = n
        \/ LastIn(peerMail'[p], Counts, Counting(n))
  BY <1>2 DEF CountsFollow
<1> QED BY <1>3, <1>4, <1>5

\* Steps that touch neither sessions nor counts nor exports.
LEMMA StatusMail ==
  ASSUME StatusInv, TypeOK',
         UNCHANGED <<ctlMail, status, active, degraded, callbacks, exported, topology, adjIn>>,
         \A p \in Peers :
           \/ peerMail'[p] = peerMail[p]
           \/ \E m \in PeerMessage \ Counts : peerMail'[p] = Append(peerMail[p], m)
  PROVE  StatusInv'
<1>1. \A p \in Peers : /\ CountsFollow(p) => CountsFollow(p)'
                       /\ At(peerMail[p], Counts) # {} => At(peerMail'[p], Counts) # {}
  BY CountsKept
<1>2. AllCounted'
  BY <1>1 DEF AllCounted, StatusInv
<1>3. ASSUME NEW p \in Peers PROVE NotesFollow(p)'
  BY DEF StatusInv, NotesFollow
<1>4. ASSUME NEW p \in Peers PROVE ExportsFollow(p)'
  BY <1>1, FullRoutesSame DEF StatusInv, ExportsFollow, WillExport, Pending
<1> QED BY <1>2, <1>3, <1>4 DEF StatusInv

LEMMA StatusTable == ASSUME StatusInv, TableStep PROVE StatusInv'
<1>0. TypeOK /\ TypeOK'
  BY TableStepType DEF StatusInv
<1>1. UNCHANGED <<ctlMail, status, active, degraded, callbacks, exported, topology, adjIn>>
  BY DEF TableStep, TableNext, TableUpdate, TableReload, UpdatePeers, peerVars
<1>2. \A q \in Peers : UpdateFor(q) \in PeerMessage \ Counts
  BY <1>0, UpdateForType DEF TypeOK, UpdateFor, Counts
<1>3. \A q \in Peers : \/ peerMail'[q] = peerMail[q]
                       \/ peerMail'[q] = Append(peerMail[q], UpdateFor(q))
  BY <1>0 DEF TableStep, TableNext, TableUpdate, TableReload, UpdatePeers,
     PostTo, TypeOK, MailTypeOK
<1> QED BY <1>0, <1>1, <1>2, <1>3, StatusMail

LEMMA StatusTopology == ASSUME StatusInv, SendTopology PROVE StatusInv'
<1>0. TypeOK'
  BY SendTopologyType DEF StatusInv
<1>1. UNCHANGED <<ctlMail, status, active, degraded, callbacks, exported, topology, adjIn>>
  BY DEF SendTopology, peerVars
<1>2. [type |-> "topology"] \in PeerMessage \ Counts
  BY DEF PeerMessage, Counts
<1>3. \A q \in Peers : peerMail'[q] = Append(peerMail[q], [type |-> "topology"])
  BY DEF SendTopology
<1> QED BY <1>0, <1>1, <1>2, <1>3, StatusMail

LEMMA StatusDeliver == ASSUME StatusInv, NEW q \in Peers, DeliverEncode(q) PROVE StatusInv'
<1>0. TypeOK'
  BY DeliverEncodeType DEF StatusInv
<1>1. /\ UNCHANGED <<ctlMail, status, active, degraded, callbacks, exported, topology, adjIn>>
      /\ UNCHANGED peerMail
  BY DEF DeliverEncode, peerVars
<1> QED BY <1>0, <1>1, StatusMail

LEMMA StatusNeighbour == ASSUME StatusInv, NEW q \in Peers, Neighbour(q) PROVE StatusInv'
<1>0. TypeOK /\ TypeOK'
  BY NeighbourType DEF StatusInv
<1>1. PICK m \in PeerMessage \ Counts : ToPeer(q, m)
  <2>1. CASE NeighbourOpen(q)
    <3>1. [type |-> "open", caps |-> CapabilitiesOf(q)] \in PeerMessage \ Counts
      BY DEF PeerMessage, Counts, CapabilitiesOf, Capability
    <3> QED BY <2>1, <3>1 DEF NeighbourOpen
  <2>2. CASE NeighbourUp(q) \/ NeighbourDown(q)
    <3>1. \A b \in BOOLEAN : [type |-> "state", up |-> b] \in PeerMessage \ Counts
      BY DEF PeerMessage, Counts
    <3> QED BY <2>2, <3>1 DEF NeighbourUp, NeighbourDown
  <2>3. ASSUME NEW x \in Prefixes, NEW a \in Attrs, NeighbourAnnounce(q, x, a)
        PROVE  \E m \in PeerMessage \ Counts : ToPeer(q, m)
    <3>1. [type |-> "announce", pfx |-> x, attr |-> a] \in PeerMessage \ Counts
      BY DEF PeerMessage, Counts
    <3> QED BY <2>3, <3>1 DEF NeighbourAnnounce
  <2>4. ASSUME NEW x \in Prefixes, NeighbourWithdraw(q, x)
        PROVE  \E m \in PeerMessage \ Counts : ToPeer(q, m)
    <3>1. [type |-> "withdraw", pfx |-> x] \in PeerMessage \ Counts
      BY DEF PeerMessage, Counts
    <3> QED BY <2>4, <3>1 DEF NeighbourWithdraw
  <2>5. CASE NeighbourEor(q)
    <3>1. [type |-> "eor"] \in PeerMessage \ Counts
      BY DEF PeerMessage, Counts
    <3> QED BY <2>5, <3>1 DEF NeighbourEor
  <2> QED BY <2>1, <2>2, <2>3, <2>4, <2>5 DEF Neighbour
<1>2. \A p \in Peers : \/ peerMail'[p] = peerMail[p]
                       \/ peerMail'[p] = Append(peerMail[p], m)
  BY <1>0, <1>1 DEF ToPeer, PostTo, TypeOK, MailTypeOK
<1>3. UNCHANGED <<ctlMail, status, active, degraded, callbacks, exported, topology, adjIn>>
  BY <1>1 DEF ToPeer, peerVars
<1> QED BY <1>0, <1>1, <1>2, <1>3, StatusMail
-----------------------------------------------------------------------------
\* The controller reads a note: the count goes to all peers if it changes.
LEMMA StatusStatus == ASSUME StatusInv, StatusStep PROVE StatusInv'
<1>0. TypeOK /\ TypeOK'
  BY StatusStepType DEF StatusInv
<1>1. /\ UNCHANGED <<active, degraded, callbacks, exported, topology, adjIn>>
      /\ ctlMail \in Seq(StatusNote) /\ ctlMail # <<>> /\ ctlMail' = Tail(ctlMail)
  BY <1>0 DEF StatusStep, StatusNext, StatusUnchanged, StatusChanged, peerVars,
     TypeOK, MailTypeOK
<1> DEFINE m == Head(ctlMail)
<1>2. m \in StatusNote /\ m.peer \in Peers /\ m.up \in BOOLEAN
  <2>1. m \in StatusNote
    BY <1>1, SeqFacts
  <2> QED BY <2>1 DEF StatusNote
<1>3. /\ status'[m.peer] = m.up
      /\ \A p \in Peers \ {m.peer} : status'[p] = status[p]
  BY <1>0, <1>2 DEF StatusStep, StatusNext, StatusUnchanged, StatusChanged, TypeOK,
     StatusTypeOK
<1> HIDE DEF m
<1>4. ASSUME NEW p \in Peers PROVE NotesFollow(p)'
  <2> DEFINE b == active[p]
  <2>1. \/ At(ctlMail, NotesOf(p)) = {} /\ status[p] = b
        \/ LastIn(ctlMail, NotesOf(p), Saying(b))
    BY DEF StatusInv, NotesFollow
  <2>2. active'[p] = b
    BY <1>1
  <2> HIDE DEF b
  <2>3. CASE At(ctlMail, NotesOf(p)) = {} /\ status[p] = b
    <3>1. m \notin NotesOf(p)
      <4>1. 1 \in DOMAIN ctlMail /\ ctlMail[1] = m
        BY <1>1, TailElements DEF m
      <4> QED BY <2>3, <4>1 DEF At
    <3>2. m.peer # p
      BY <1>2, <3>1 DEF NotesOf
    <3>3. At(ctlMail', NotesOf(p)) = {}
      BY <1>1, <2>3, KindTaken
    <3> QED BY <1>3, <2>2, <2>3, <3>2, <3>3 DEF NotesFollow
  <2>4. CASE LastIn(ctlMail, NotesOf(p), Saying(b))
    <3>1. \/ LastIn(ctlMail', NotesOf(p), Saying(b))
          \/ At(ctlMail', NotesOf(p)) = {} /\ m \in NotesOf(p) /\ m \in Saying(b)
      BY <1>1, <2>4, KindTaken DEF m
    <3>2. m \in NotesOf(p) /\ m \in Saying(b) => status'[p] = b
      BY <1>3 DEF NotesOf, Saying
    <3> QED BY <2>2, <3>1, <3>2 DEF NotesFollow
  <2> QED BY <2>1, <2>3, <2>4
<1>5. CASE StatusUnchanged
  <2>1. /\ UNCHANGED <<peerMail, status>> /\ m.up = status[m.peer]
    BY <1>5 DEF StatusUnchanged, m
  <2>2. AllCounted'
    BY <1>1, <2>1 DEF StatusInv, AllCounted, CountsFollow
  <2>3. ASSUME NEW p \in Peers PROVE ExportsFollow(p)'
    <3> DEFINE kind == NotesOf(p) \cap Saying(~status[p])
    <3>1. m \notin kind
      BY <2>1 DEF NotesOf, Saying
    <3>2. (NotesOf(p) \cap Saying(~status[p]))' = kind
      BY <2>1
    <3> HIDE DEF kind
    <3>3. At(ctlMail, kind) # {} => At(ctlMail', kind) # {}
      BY <1>1, <3>1, KindTaken DEF m
    <3>4. WillExport(p) <=> \/ exported[p] = FullRoutes(p)
                            \/ Pending(p, "export")
                            \/ At(peerMail[p], Counts) # {}
                            \/ At(ctlMail, kind) # {}
      BY DEF WillExport, kind
    <3>5. WillExport(p)' <=> \/ exported'[p] = FullRoutes(p)'
                             \/ Pending(p, "export")'
                             \/ At(peerMail'[p], Counts) # {}
                             \/ At(ctlMail', kind) # {}
      BY <3>2 DEF WillExport
    <3>6. FullRoutes(p)' = FullRoutes(p) /\ (Pending(p, "export")' <=> Pending(p, "export"))
      BY <1>1, FullRoutesSame DEF Pending
    <3>7. WillExport(p) => WillExport(p)'
      BY <1>1, <2>1, <3>3, <3>4, <3>5, <3>6
    <3> QED BY <1>1, <3>7 DEF StatusInv, ExportsFollow
  <2> QED BY <1>0, <1>4, <2>2, <2>3 DEF StatusInv
<1>6. CASE StatusChanged
  <2> DEFINE c == [type |-> "status", degraded |-> Missing(status')]
             n == Missing(status')
  <2>1. c \in PeerMessage /\ c \in Counts /\ c \in Counting(n)
    BY MissingType DEF PeerMessage, Counts, Counting
  <2>2. \A p \in Peers : /\ peerMail'[p] = Append(peerMail[p], c)
                         /\ peerMail[p] \in Seq(PeerMessage)
    BY <1>0, <1>6 DEF StatusChanged, TypeOK, MailTypeOK
  <2>3. Missing(status)' = n
    OBVIOUS
  <2> HIDE DEF c, n
  <2>4. \A p \in Peers : /\ LastIn(peerMail'[p], Counts, Counting(n))
                         /\ At(peerMail'[p], Counts) # {}
    <3> SUFFICES ASSUME NEW p \in Peers
                 PROVE  /\ LastIn(peerMail'[p], Counts, Counting(n))
                        /\ At(peerMail'[p], Counts) # {}
      OBVIOUS
    <3>1. /\ LastIn(Append(peerMail[p], c), Counts, Counting(n))
          /\ At(Append(peerMail[p], c), Counts) # {}
      BY <2>1, <2>2, KindAppended
    <3> QED BY <2>2, <3>1
  <2>5. AllCounted'
    BY <2>3, <2>4 DEF AllCounted, CountsFollow
  <2>6. \A p \in Peers : ExportsFollow(p)'
    BY <1>1, <2>4 DEF StatusInv, ExportsFollow, WillExport
  <2> QED BY <1>0, <1>4, <2>5, <2>6 DEF StatusInv
<1> QED BY <1>5, <1>6 DEF StatusStep, StatusNext
-----------------------------------------------------------------------------
\* What the steps of peer q leave alone.
LEMMA PeerLeaves ==
  ASSUME TypeOK, NEW q \in Peers, PeerStep(q)
  PROVE  /\ UNCHANGED status
         /\ \A p \in Peers \ {q} :
              /\ peerMail'[p] = peerMail[p] /\ active'[p] = active[p]
              /\ degraded'[p] = degraded[p] /\ exported'[p] = exported[p]
              /\ topology'[p] = topology[p] /\ adjIn'[p] = adjIn[p]
              /\ callbacks'[p] = callbacks[p]
         /\ \/ UNCHANGED <<ctlMail, active>>
            \/ ProcessUp(q) \/ ProcessDown(q)
<1>0. MailTypeOK /\ PeerTypeOK /\ UNCHANGED status
  BY DEF TypeOK, PeerStep
<1> USE DEF MailTypeOK, PeerTypeOK
<1>1. \A p \in Peers \ {q} : peerMail'[p] = peerMail[p]
  BY <1>0, TakesOne DEF Taken
<1>2. \A c : \A p \in Peers \ {q} :
        callbacks' = WithCallback(q, c) \/ CallbackDone(q) => callbacks'[p] = callbacks[p]
  BY <1>0 DEF WithCallback, CallbackDone
<1>3. CASE ProcessOpen(q) \/ ProcessStateSame(q) \/ IgnoreUpdate(q) \/ IgnoreTableUpdate(q)
  BY <1>0, <1>1, <1>3 DEF ProcessOpen, ProcessStateSame, IgnoreUpdate, IgnoreTableUpdate, peerVars
<1>4. CASE ProcessUp(q) \/ ProcessDown(q)
  BY <1>0, <1>1, <1>4 DEF ProcessUp, ProcessDown
<1>5. CASE ProcessAnnounce(q) \/ ProcessWithdraw(q) \/ ProcessEor(q)
  BY <1>0, <1>1, <1>2, <1>5 DEF ProcessAnnounce, ProcessWithdraw, ProcessEor, RoutesChanged
<1>6. CASE ProcessTableUpdate(q) \/ ProcessStatus(q) \/ ProcessTopology(q)
  BY <1>0, <1>1, <1>2, <1>6 DEF ProcessTableUpdate, ProcessStatus, ProcessTopology
<1>7. CASE UpdateTables(q) \/ ExportSkipped(q) \/ ExportNothing(q) \/ ExportRoutes(q)
  BY <1>0, <1>1, <1>2, <1>7 DEF UpdateTables, ExportSkipped, ExportNothing, ExportRoutes, mailVars
<1> QED BY <1>3, <1>4, <1>5, <1>6, <1>7 DEF PeerStep, PeerNext

\* The note of q about its session, and the notes of the others.
LEMMA NoteGiven ==
  ASSUME StatusInv, NEW q \in Peers, PeerStep(q), ProcessUp(q) \/ ProcessDown(q)
  PROVE  /\ active'[q] = ~active[q] /\ \A p \in Peers : NotesFollow(p)'
         /\ \A p \in Peers, b \in BOOLEAN :
              At(ctlMail, NotesOf(p) \cap Saying(b)) # {} => At(ctlMail', NotesOf(p) \cap Saying(b)) # {}
         /\ At(ctlMail', NotesOf(q) \cap Saying(~status[q])) # {}
<1>0. MailTypeOK /\ PeerTypeOK /\ StatusTypeOK
  BY DEF StatusInv, TypeOK
<1>1. /\ UNCHANGED status /\ active'[q] = ~active[q] /\ active[q] \in BOOLEAN
      /\ status[q] \in BOOLEAN
      /\ \A p \in Peers \ {q} : active'[p] = active[p]
  BY <1>0 DEF ProcessUp, ProcessDown, PeerStep, PeerTypeOK, StatusTypeOK
<1> DEFINE n == [peer |-> q, up |-> ~active[q]]
<1>2. n \in StatusNote /\ n.peer = q /\ n.up = ~active[q]
  BY <1>1 DEF StatusNote
<1>3. ctlMail \in Seq(StatusNote) /\ ctlMail' = Append(ctlMail, n)
  BY <1>0 DEF ProcessUp, ProcessDown, MailTypeOK, PeerTypeOK
<1> HIDE DEF n
<1>4. ASSUME NEW p \in Peers PROVE NotesFollow(p)'
  <2>1. CASE p = q
    <3>1. n \in NotesOf(q) /\ n \in Saying(~active[q])
      BY <1>2 DEF NotesOf, Saying
    <3>2. LastIn(Append(ctlMail, n), NotesOf(q), Saying(~active[q]))
      BY <1>2, <1>3, <3>1, KindAppended
    <3>3. LastIn(ctlMail', NotesOf(q), Saying(active'[q]))
      BY <1>1, <1>3, <3>2
    <3> QED BY <2>1, <3>3 DEF NotesFollow
  <2>2. CASE p # q
    <3>1. n \notin NotesOf(p)
      BY <1>2, <2>2 DEF NotesOf
    <3>2. PICK b : b = active[p]
      OBVIOUS
    <3>3. /\ At(ctlMail', NotesOf(p)) = At(ctlMail, NotesOf(p))
          /\ LastIn(ctlMail, NotesOf(p), Saying(b)) => LastIn(ctlMail', NotesOf(p), Saying(b))
      BY <1>2, <1>3, <3>1, KindAppended
    <3>4. active'[p] = b /\ NotesFollow(p)
      BY <1>1, <2>2, <3>2 DEF StatusInv
    <3> QED BY <1>1, <3>2, <3>3, <3>4 DEF NotesFollow
  <2> QED BY <2>1, <2>2
<1>5. ASSUME NEW kind PROVE At(ctlMail, kind) # {} => At(ctlMail', kind) # {}
  BY <1>2, <1>3, KindAppended
<1>6. At(ctlMail', NotesOf(q) \cap Saying(~status[q])) # {}
  <2>1. CASE status[q] = active[q]
    <3>1. n \in NotesOf(q) \cap Saying(~status[q])
      BY <1>2, <2>1 DEF NotesOf, Saying
    <3>2. \A kind : n \in kind => At(Append(ctlMail, n), kind) # {}
      BY <1>2, <1>3, KindAppended
    <3> QED BY <1>3, <3>1, <3>2
  <2>2. CASE status[q] # active[q]
    <3>1. LastIn(ctlMail, NotesOf(q), Saying(active[q]))
      BY <2>2 DEF StatusInv, NotesFollow
    <3>2. active[q] = ~status[q]
      BY <1>1, <2>2
    <3>3. At(ctlMail, NotesOf(q) \cap Saying(~status[q])) # {}
      BY <3>1, <3>2, LastIsThere
    <3> QED BY <1>5, <3>3
  <2> QED BY <2>1, <2>2
<1> QED BY <1>1, <1>4, <1>5, <1>6

\* A count or a session that changes is not lost on the others.
LEMMA StatusOthers ==
  ASSUME StatusInv, NEW q \in Peers, PeerStep(q), NEW p \in Peers, p # q
  PROVE  /\ CountsFollow(p) => CountsFollow(p)'
         /\ NotesFollow(p)' /\ ExportsFollow(p)'
<1>0. TypeOK /\ NotesFollow(p) /\ ExportsFollow(p) /\ status[p] \in BOOLEAN
  BY DEF StatusInv, TypeOK, StatusTypeOK
<1>1. /\ UNCHANGED status
      /\ peerMail'[p] = peerMail[p] /\ active'[p] = active[p]
      /\ degraded'[p] = degraded[p] /\ exported'[p] = exported[p]
      /\ topology'[p] = topology[p] /\ adjIn'[p] = adjIn[p]
      /\ callbacks'[p] = callbacks[p]
  BY <1>0, PeerLeaves
<1>2. CountsFollow(p) => CountsFollow(p)'
  BY <1>1, CountsKept
<1>3. /\ NotesFollow(p)'
      /\ At(ctlMail, NotesOf(p) \cap Saying(~status[p])) # {}
           => At(ctlMail', NotesOf(p) \cap Saying(~status[p])) # {}
  <2>1. CASE UNCHANGED <<ctlMail, active>>
    BY <1>0, <1>1, <2>1 DEF NotesFollow
  <2>2. CASE ProcessUp(q) \/ ProcessDown(q)
    BY <1>0, <2>2, NoteGiven
  <2> QED BY <1>0, <2>1, <2>2, PeerLeaves
<1>4. FullRoutes(p)' = FullRoutes(p) /\ (Pending(p, "export")' <=> Pending(p, "export"))
  BY <1>1, FullRoutesSame DEF Pending
<1>5. ExportsFollow(p)'
  BY <1>0, <1>1, <1>3, <1>4 DEF ExportsFollow, WillExport
<1> QED BY <1>2, <1>3, <1>5

\* The first message of q, if it is read and no count, leaves the counts alone.
LEMMA StatusRead ==
  ASSUME StatusInv, NEW q \in Peers, PeerStep(q), degraded' = degraded,
         \/ peerMail' = peerMail
         \/ /\ peerMail[q] # <<>> /\ Head(peerMail[q]).type # "status"
            /\ peerMail' = Taken(q)
  PROVE  /\ CountsFollow(q) => CountsFollow(q)'
         /\ At(peerMail[q], Counts) # {} => At(peerMail'[q], Counts) # {}
<1>1. MailTypeOK /\ PeerTypeOK /\ UNCHANGED status
  BY DEF StatusInv, TypeOK, PeerStep
<1>2. \/ peerMail'[q] = peerMail[q]
      \/ /\ peerMail[q] # <<>> /\ Head(peerMail[q]) \notin Counts
         /\ peerMail'[q] = Tail(peerMail[q])
  BY <1>1 DEF Taken, MailTypeOK, Counts
<1> QED BY <1>1, <1>2, CountsKept

\* Steps that neither change what q would export nor its callback for it.
LEMMA StatusCalm ==
  ASSUME StatusInv, NEW q \in Peers, PeerStep(q),
         \/ ProcessOpen(q) \/ ProcessStateSame(q) \/ IgnoreUpdate(q) \/ ProcessAnnounce(q)
         \/ ProcessWithdraw(q) \/ ProcessEor(q) \/ IgnoreTableUpdate(q) \/ UpdateTables(q)
  PROVE  (CountsFollow(q) => CountsFollow(q)') /\ NotesFollow(q)' /\ ExportsFollow(q)'
<1>0. TypeOK /\ UNCHANGED status /\ NotesFollow(q) /\ ExportsFollow(q)
  BY DEF StatusInv, PeerStep
<1>1. UNCHANGED <<ctlMail, active, topology, adjIn, degraded, exported>>
  BY DEF ProcessOpen, ProcessStateSame, IgnoreUpdate, ProcessAnnounce, ProcessWithdraw,
     ProcessEor, IgnoreTableUpdate, UpdateTables, peerVars
<1>2. Pending(q, "export") => Pending(q, "export")'
  <2>0. "tables" \in Callback /\ "export" \in Callback
    BY DEF Callback
  <2>1. \/ callbacks' = callbacks
        \/ callbacks' = WithCallback(q, "tables")
        \/ CallbackIs(q, "tables") /\ CallbackDone(q)
    BY DEF ProcessOpen, ProcessStateSame, IgnoreUpdate, ProcessAnnounce, ProcessWithdraw,
       ProcessEor, IgnoreTableUpdate, UpdateTables, peerVars, RoutesChanged
  <2>2. CASE callbacks' = callbacks
    BY <2>2 DEF Pending
  <2>3. CASE callbacks' = WithCallback(q, "tables")
    BY <1>0, <2>0, <2>3, WithCallbackPending
  <2>4. CASE CallbackIs(q, "tables") /\ CallbackDone(q)
    BY <1>0, <2>0, <2>4, CallbackDonePending
  <2> QED BY <2>1, <2>2, <2>3, <2>4
<1>3. \/ peerMail' = peerMail
      \/ peerMail[q] # <<>> /\ Head(peerMail[q]).type # "status" /\ peerMail' = Taken(q)
  BY DEF ProcessOpen, ProcessStateSame, IgnoreUpdate, ProcessAnnounce, ProcessWithdraw,
     ProcessEor, IgnoreTableUpdate, UpdateTables, NextIs
<1>4. /\ CountsFollow(q) => CountsFollow(q)'
      /\ At(peerMail[q], Counts) # {} => At(peerMail'[q], Counts) # {}
  BY <1>1, <1>3, StatusRead
<1>5. NotesFollow(q)'
  BY <1>0, <1>1 DEF NotesFollow
<1>6. FullRoutes(q)' = FullRoutes(q)
  BY <1>1, FullRoutesSame
<1>7. ExportsFollow(q)'
  BY <1>0, <1>1, <1>2, <1>4, <1>6 DEF ExportsFollow, WillExport
<1> QED BY <1>4, <1>5, <1>7

\* A session that comes or goes.
LEMMA StatusSession ==
  ASSUME StatusInv, NEW q \in Peers, PeerStep(q), ProcessUp(q) \/ ProcessDown(q)
  PROVE  (CountsFollow(q) => CountsFollow(q)') /\ NotesFollow(q)' /\ ExportsFollow(q)'
<1>0. TypeOK /\ UNCHANGED status /\ ExportsFollow(q) /\ PeerTypeOK
  BY DEF StatusInv, PeerStep, TypeOK
<1>1. CountsFollow(q) => CountsFollow(q)'
  <2>1. /\ degraded' = degraded /\ peerMail' = Taken(q)
        /\ peerMail[q] # <<>> /\ Head(peerMail[q]).type # "status"
    BY DEF ProcessUp, ProcessDown, NextIs
  <2> QED BY <2>1, StatusRead
<1>2. /\ NotesFollow(q)'
      /\ At(ctlMail', NotesOf(q) \cap Saying(~status[q])) # {}
  BY NoteGiven
<1>3. ExportsFollow(q)'
  <2>1. CASE ProcessUp(q)
    <3>1. WillExport(q)'
      BY <1>0, <1>2 DEF WillExport
    <3>2. ~active[q] /\ exported' = exported
      BY <2>1 DEF ProcessUp
    <3> QED BY <1>0, <3>1, <3>2 DEF ExportsFollow
  <2>2. CASE ProcessDown(q)
    BY <1>0, <2>2 DEF ProcessDown, ExportsFollow, PeerTypeOK
  <2> QED BY <2>1, <2>2
<1> QED BY <1>1, <1>2, <1>3

\* Steps after which the export waits.
LEMMA StatusCalled ==
  ASSUME StatusInv, NEW q \in Peers, PeerStep(q),
         \/ ProcessTableUpdate(q) \/ ProcessStatus(q)
         \/ ProcessTopology(q) /\ adjIn[q] # NoCandidates
  PROVE  (CountsFollow(q) => CountsFollow(q)') /\ NotesFollow(q)' /\ ExportsFollow(q)'
<1>0. /\ TypeOK /\ MailTypeOK /\ PeerTypeOK
      /\ UNCHANGED status /\ NotesFollow(q) /\ ExportsFollow(q)
  BY DEF StatusInv, PeerStep, TypeOK
<1>1. /\ UNCHANGED <<ctlMail, active, exported>> /\ callbacks' = WithCallback(q, "export")
      /\ topology[q] => topology'[q]
  BY <1>0 DEF ProcessTableUpdate, ProcessStatus, ProcessTopology, PeerTypeOK
<1>2. Pending(q, "export")'
  BY <1>0, <1>1, WithCallbackPending DEF Callback
<1>3. ExportsFollow(q)'
  BY <1>0, <1>1, <1>2 DEF ExportsFollow, WillExport
<1>4. NotesFollow(q)'
  BY <1>0, <1>1 DEF NotesFollow
<1>5. CASE ProcessTableUpdate(q) \/ ProcessTopology(q)
  <2>1. /\ degraded' = degraded /\ peerMail' = Taken(q)
        /\ peerMail[q] # <<>> /\ Head(peerMail[q]).type # "status"
    BY <1>5 DEF ProcessTableUpdate, ProcessTopology, NextIs
  <2> QED BY <1>3, <1>4, <2>1, StatusRead
<1>6. ASSUME ProcessStatus(q), CountsFollow(q) PROVE CountsFollow(q)'
  <2> DEFINE n == Missing(status)
             mail == peerMail[q]
  <2>1. /\ mail \in Seq(PeerMessage) /\ mail # <<>> /\ Head(mail).type = "status"
        /\ peerMail'[q] = Tail(mail) /\ degraded'[q] = Head(mail).degraded
    BY <1>0, <1>6 DEF ProcessStatus, NextIs, Taken, MailTypeOK, PeerTypeOK
  <2>2. Missing(status)' = n
    BY <1>0
  <2>3. \/ At(mail, Counts) = {} /\ degraded[q] = n
        \/ LastIn(mail, Counts, Counting(n))
    BY <1>6 DEF CountsFollow
  <2>4. CountsFollow(q)' <=> \/ At(peerMail'[q], Counts) = {} /\ degraded'[q] = n
                             \/ LastIn(peerMail'[q], Counts, Counting(n))
    BY <2>2 DEF CountsFollow
  <2> HIDE DEF n, mail
  <2>5. Head(mail) \in Counts /\ 1 \in DOMAIN mail /\ mail[1] = Head(mail)
    BY <2>1, SeqFacts, TailElements DEF Counts
  <2>6. At(mail, Counts) # {}
    BY <2>5 DEF At
  <2>7. \/ LastIn(Tail(mail), Counts, Counting(n))
        \/ At(Tail(mail), Counts) = {} /\ Head(mail) \in Counting(n)
    BY <2>1, <2>3, <2>6, KindTaken
  <2>8. Head(mail) \in Counting(n) => Head(mail).degraded = n
    BY DEF Counting
  <2> QED BY <2>1, <2>4, <2>7, <2>8
<1> QED BY <1>3, <1>4, <1>5, <1>6

\* The topology arrives and there is nothing to export.
LEMMA StatusNoTopology ==
  ASSUME StatusInv, NEW q \in Peers, PeerStep(q), ProcessTopology(q), adjIn[q] = NoCandidates
  PROVE  (CountsFollow(q) => CountsFollow(q)') /\ NotesFollow(q)' /\ ExportsFollow(q)'
<1>0. TypeOK /\ PeerTypeOK /\ UNCHANGED status /\ NotesFollow(q) /\ ExportsFollow(q)
  BY DEF StatusInv, PeerStep, TypeOK
<1>1. /\ UNCHANGED <<ctlMail, active, exported, callbacks, adjIn, degraded>>
      /\ topology'[q] /\ peerMail' = Taken(q)
      /\ peerMail[q] # <<>> /\ Head(peerMail[q]).type # "status"
  BY <1>0 DEF ProcessTopology, PeerTypeOK, NextIs
<1>2. /\ CountsFollow(q) => CountsFollow(q)'
      /\ At(peerMail[q], Counts) # {} => At(peerMail'[q], Counts) # {}
  BY <1>1, StatusRead
<1>3. NotesFollow(q)'
  BY <1>0, <1>1 DEF NotesFollow
<1>4. FullRoutes(q) = {} /\ FullRoutes(q)' = {}
  BY <1>1, NothingToExport, FullRoutesSame
<1>5. ExportsFollow(q)'
  <2>1. CASE topology[q]
    BY <1>0, <1>1, <1>2, <1>4, <2>1 DEF ExportsFollow, WillExport, Pending
  <2>2. CASE ~topology[q]
    BY <1>0, <1>1, <1>4, <2>2 DEF ExportsFollow, WillExport
  <2> QED BY <2>1, <2>2
<1> QED BY <1>2, <1>3, <1>5

\* The export runs.
LEMMA StatusExport ==
  ASSUME StatusInv, NEW q \in Peers, PeerStep(q),
         ExportSkipped(q) \/ ExportNothing(q) \/ ExportRoutes(q)
  PROVE  (CountsFollow(q) => CountsFollow(q)') /\ NotesFollow(q)' /\ ExportsFollow(q)'
<1>0. TypeOK /\ PeerTypeOK /\ UNCHANGED status /\ NotesFollow(q) /\ ExportsFollow(q)
  BY DEF StatusInv, PeerStep, TypeOK
<1>1. UNCHANGED <<ctlMail, active, adjIn, degraded, topology, peerMail>>
  BY DEF ExportSkipped, ExportNothing, ExportRoutes, mailVars
<1>2. CountsFollow(q) => CountsFollow(q)'
  BY <1>1, StatusRead
<1>3. NotesFollow(q)'
  BY <1>0, <1>1 DEF NotesFollow
<1>4. FullRoutes(q)' = FullRoutes(q)
  BY <1>1, FullRoutesSame
<1>5. ExportsFollow(q)'
  <2>1. CASE ExportSkipped(q)
    BY <1>0, <1>1, <2>1 DEF ExportSkipped, ExportsFollow
  <2>2. CASE ExportNothing(q) \/ ExportRoutes(q)
    <3>1. exported'[q] = FullRoutes(q) /\ active[q] /\ topology[q]
      BY <1>0, <2>2 DEF ExportNothing, ExportRoutes, PeerTypeOK
    <3>2. WillExport(q)'
      BY <1>4, <3>1 DEF WillExport
    <3> QED BY <1>1, <3>1, <3>2 DEF ExportsFollow
  <2> QED BY <2>1, <2>2
<1> QED BY <1>2, <1>3, <1>5

LEMMA StatusPeer == ASSUME StatusInv, NEW q \in Peers, PeerStep(q) PROVE StatusInv'
<1>1. (CountsFollow(q) => CountsFollow(q)') /\ NotesFollow(q)' /\ ExportsFollow(q)'
  BY StatusCalm, StatusSession, StatusCalled, StatusNoTopology, StatusExport
     DEF PeerStep, PeerNext
<1>2. ASSUME NEW p \in Peers
      PROVE  (CountsFollow(p) => CountsFollow(p)') /\ NotesFollow(p)' /\ ExportsFollow(p)'
  BY <1>1, StatusOthers
<1>3. AllCounted'
  BY <1>2 DEF PeerStep, StatusInv, AllCounted
<1>4. TypeOK'
  BY PeerStepType DEF StatusInv
<1> QED BY <1>2, <1>3, <1>4 DEF StatusInv

LEMMA StatusInvNext == StatusInv /\ [Next]_vars => StatusInv'
<1> SUFFICES ASSUME StatusInv, [Next]_vars PROVE StatusInv'
  OBVIOUS
<1>1. CASE Next
  BY <1>1, StatusTable, StatusStatus, StatusTopology, StatusPeer, StatusDeliver,
     StatusNeighbour DEF Next
<1>2. CASE UNCHANGED vars
  <2>1. /\ UNCHANGED <<ctlMail, status, active, degraded, callbacks, exported, topology, adjIn>>
        /\ UNCHANGED peerMail
    BY <1>2 DEF vars, mailVars, peerVars
  <2>2. TypeOK'
    BY <1>2, NextType DEF StatusInv
  <2> QED BY <2>1, <2>2, StatusMail
<1> QED BY <1>1, <1>2

\* When all is quiet the controller knows every session, and every connected
\* peer has the controller's count: no note and no count is lost, overtaken or
\* read by one peer only, whatever Controller.py and the peers do in between.
THEOREM CountsAlwaysAgree == Spec => []DegradedCounts
<1>1. StatusInv => DegradedCounts
  <2> SUFFICES ASSUME StatusInv, Quiescent
               PROVE  /\ status = active
                      /\ \A p, q \in Peers : active[q] => degraded[p] = Missing(active)
    BY DEF DegradedCounts
  <2>1. ctlMail = <<>> /\ \A p \in Peers : peerMail[p] = <<>>
    BY DEF Quiescent, MailEmpty
  <2>2. \A p \in Peers : status[p] = active[p]
    BY <2>1, KindEmpty DEF StatusInv, NotesFollow
  <2>3. status = active
    BY <2>2 DEF StatusInv, TypeOK, StatusTypeOK, PeerTypeOK
  <2>4. ASSUME NEW p \in Peers, NEW q \in Peers, active[q] PROVE degraded[p] = Missing(active)
    <3>1. CountsFollow(p)
      BY <2>3, <2>4 DEF StatusInv, AllCounted
    <3> QED BY <2>1, <2>3, <3>1, KindEmpty DEF CountsFollow
  <2> QED BY <2>3, <2>4
<1> QED BY <1>1, StatusInvInit, StatusInvNext, PTL DEF Spec

\* When all is quiet a connected peer that has the topology exports the best
\* of what it was given, marked with the current count: nothing that arrived
\* while it could not export is forgotten.
THEOREM ExportsAlwaysCurrent == Spec => []ExportsCurrent
<1>1. StatusInv => ExportsCurrent
  <2> SUFFICES ASSUME StatusInv, Quiescent, NEW p \in Peers, active[p], topology[p]
               PROVE  exported[p] = FullRoutes(p)
    BY DEF ExportsCurrent
  <2>1. ctlMail = <<>> /\ peerMail[p] = <<>> /\ callbacks[p] = <<>>
    BY DEF Quiescent, MailEmpty
  <2>2. ~Pending(p, "export")
    <3>1. DOMAIN <<>> = {}
      OBVIOUS
    <3> QED BY <2>1, <3>1 DEF Pending
  <2> QED BY <2>1, <2>2, KindEmpty DEF StatusInv, ExportsFollow, WillExport
<1> QED BY <1>1, StatusInvInit, StatusInvNext, PTL DEF Spec
-----------------------------------------------------------------------------
(***************************************************************************)
(* What the table has reaches the peers, as long as only one neighbour     *)
(* changes.  With two, update_source may name a peer whose routes were     *)
(* in the table before the last update, and that peer is left out; the     *)
(* hypothesis OneSource below is what the code needs.                      *)
(***************************************************************************)

\* No neighbour but s opens, ends or changes anything.
OneSource(s) == \A p \in Peers \ {s} : MaxChanges[p] = 0 /\ MaxSessions[p] = 0

TableUpdates == { m \in PeerMessage : m.type = "update" }
Bearing(r) == { m \in TableUpdates : m.routes = r }

\* What the other processes send to a peer, and what s makes its peer send.
FromInside == { m \in PeerMessage : m.type \in {"update", "status", "topology"} }
FromPeer(s) == { m \in TableMessage : m.from = s }

\* A peer that the table has nothing to do for: its neighbour does nothing.
Silent(q) ==
  /\ sessions[q] = 0 /\ changes[q] = 0 /\ session[q] \in {"down", "up"}
  /\ session[q] = "up" => eorSent[q]
  /\ routes[q] = NoRoutes /\ ~Pending(q, "tables")
  /\ peerMail[q] \in Seq(FromInside)

\* The last view of the table that q has got, gets or will be sent is current.
ChangesFollow(q) ==
  \/ /\ At(peerMail[q], TableUpdates) = {}
     /\ Combined(q) # NoCandidates => adjIn[q] = Combined(q)
  \/ LastIn(peerMail[q], TableUpdates, Bearing(Combined(q)))
  \/ updatePending

ReachInv(s) ==
  /\ TypeOK
  /\ updateSource \in {s, None}
  /\ tableMail \in Seq(FromPeer(s))
  /\ \A q \in Peers \ {s} : Silent(q) /\ (negotiated[q] => ChangesFollow(q))

\* Whom only s has routes for: for s itself there is nothing in the table.
LEMMA OnlyOwnRoutes ==
  ASSUME NEW s \in Peers, \A q \in Peers \ {s} : routes[q] = NoRoutes
  PROVE  /\ Combined(s) = NoCandidates
         /\ routes[s] = NoRoutes => \A q \in Peers : Combined(q) = NoCandidates
<1>1. \A q \in Peers, x \in Prefixes : routes[q] = NoRoutes => routes[q][x] = None
  BY DEF NoRoutes
<1>2. \A x \in Prefixes : { t \in Peers : /\ t # s /\ routes[t][x] # None
                                          /\ Asn[s] \notin PathOf[routes[t][x]] } = {}
  BY <1>1
<1>3. Combined(s) = NoCandidates
  BY <1>2 DEF Combined, NoCandidates
<1>4. ASSUME routes[s] = NoRoutes, NEW q \in Peers PROVE Combined(q) = NoCandidates
  <2>1. \A x \in Prefixes : { t \in Peers : /\ t # q /\ routes[t][x] # None
                                            /\ Asn[q] \notin PathOf[routes[t][x]] } = {}
    BY <1>1, <1>4
  <2> QED BY <2>1 DEF Combined, NoCandidates
<1> QED BY <1>3, <1>4

LEMMA ReachInit == ASSUME NEW s \in Peers, Init PROVE ReachInv(s)
<1>1. TypeOK
  BY InitType
<1>2. /\ updateSource = None /\ tableMail = <<>>
      /\ \A q \in Peers : /\ sessions[q] = 0 /\ changes[q] = 0 /\ routes[q] = NoRoutes
                          /\ peerMail[q] = <<>> /\ callbacks[q] = <<>>
  <2>1. CASE ColdInit
    BY <2>1 DEF ColdInit, TableInit, MailInit, EnvColdInit, PeerInit
  <2>2. CASE WarmInit
    BY <2>2 DEF WarmInit, MailInit
  <2> QED BY <2>1, <2>2 DEF Init
<1>3. \A q \in Peers : session[q] \in {"down", "up"} /\ (session[q] = "up" => eorSent[q])
  <2>1. CASE ColdInit
    BY <2>1 DEF ColdInit, EnvColdInit
  <2>2. CASE WarmInit
    BY <2>2 DEF WarmInit
  <2> QED BY <2>1, <2>2 DEF Init
<1>4. \A S : <<>> \in Seq(S)
  OBVIOUS
<1>5. \A q \in Peers : ~Pending(q, "tables")
  <2>1. DOMAIN <<>> = {}
    OBVIOUS
  <2> QED BY <1>2, <2>1 DEF Pending
<1>6. \A q \in Peers : Combined(q) = NoCandidates
  BY <1>2, OnlyOwnRoutes
<1>7. \A q \in Peers : ChangesFollow(q)
  BY <1>2, <1>6, KindEmpty DEF ChangesFollow
<1> QED BY <1>1, <1>2, <1>3, <1>4, <1>5, <1>7 DEF ReachInv, Silent

\* The table's view of a peer is read from its routes and their ranks.
LEMMA CombinedSame ==
  ASSUME NEW q \in Peers, UNCHANGED <<routes, rank>>
  PROVE  Combined(q)' = Combined(q)
BY DEF Combined

\* Messages to a peer that are no views of the table change nothing.
LEMMA ChangesKept ==
  ASSUME TypeOK, NEW q \in Peers, UNCHANGED <<routes, rank, updatePending>>,
         adjIn'[q] = adjIn[q],
         \/ peerMail'[q] = peerMail[q]
         \/ \E m \in PeerMessage \ TableUpdates : peerMail'[q] = Append(peerMail[q], m)
         \/ /\ peerMail[q] # <<>> /\ Head(peerMail[q]) \notin TableUpdates
            /\ peerMail'[q] = Tail(peerMail[q]),
         ChangesFollow(q)
  PROVE  ChangesFollow(q)'
<1>1. peerMail[q] \in Seq(PeerMessage)
  BY DEF TypeOK, MailTypeOK
<1>2. PICK r : r = Combined(q) /\ r = Combined(q)'
  BY CombinedSame
<1>3. /\ At(peerMail[q], TableUpdates) = {} => At(peerMail'[q], TableUpdates) = {}
      /\ LastIn(peerMail[q], TableUpdates, Bearing(r))
           => LastIn(peerMail'[q], TableUpdates, Bearing(r))
  BY <1>1, KindKept
<1>4. \/ At(peerMail[q], TableUpdates) = {} /\ (r # NoCandidates => adjIn[q] = r)
      \/ LastIn(peerMail[q], TableUpdates, Bearing(r))
      \/ updatePending
  BY <1>2 DEF ChangesFollow
<1>5. ChangesFollow(q)' <=>
        \/ At(peerMail'[q], TableUpdates) = {} /\ (r # NoCandidates => adjIn'[q] = r)
        \/ LastIn(peerMail'[q], TableUpdates, Bearing(r))
        \/ updatePending'
  BY <1>2 DEF ChangesFollow
<1> QED BY <1>3, <1>4, <1>5

\* What leaves the peers but s and the table alone.
LEMMA ReachMail ==
  ASSUME NEW s \in Peers, ReachInv(s), TypeOK',
         UNCHANGED <<tableMail, tableVars>>,
         \A q \in Peers \ {s} :
           /\ sessions'[q] = sessions[q] /\ changes'[q] = changes[q]
           /\ session'[q] = session[q] /\ eorSent'[q] = eorSent[q]
           /\ negotiated'[q] = negotiated[q] /\ adjIn'[q] = adjIn[q]
           /\ callbacks'[q] = callbacks[q]
           /\ \/ peerMail'[q] = peerMail[q]
              \/ \E m \in FromInside \ TableUpdates : peerMail'[q] = Append(peerMail[q], m)
  PROVE  ReachInv(s)'
<1>1. ASSUME NEW q \in Peers \ {s} PROVE Silent(q)'
  <2>1. Silent(q) /\ peerMail[q] \in Seq(FromInside)
    BY DEF ReachInv, Silent
  <2>2. peerMail'[q] \in Seq(FromInside)
    <3>1. \A m \in FromInside : Append(peerMail[q], m) \in Seq(FromInside)
      BY <2>1, SeqFacts
    <3> QED BY <2>1, <3>1
  <2> QED BY <2>1, <2>2 DEF Silent, Pending, tableVars
<1>2. ASSUME NEW q \in Peers \ {s}, negotiated'[q] PROVE ChangesFollow(q)'
  <2>1. FromInside \ TableUpdates \subseteq PeerMessage \ TableUpdates
    BY DEF FromInside
  <2> QED BY <1>2, <2>1, ChangesKept DEF ReachInv, tableVars
<1> QED BY <1>1, <1>2 DEF ReachInv, tableVars

LEMMA ReachStatus == ASSUME NEW s \in Peers, ReachInv(s), StatusStep PROVE ReachInv(s)'
<1>0. TypeOK /\ TypeOK'
  BY StatusStepType DEF ReachInv
<1>1. UNCHANGED <<tableMail, tableVars, sessions, changes, session, eorSent, negotiated,
                  adjIn, callbacks>>
  BY DEF StatusStep, StatusNext, StatusUnchanged, StatusChanged, peerVars, envVars
<1>2. PICK n \in Nat : n = Missing(status')
  BY MissingType
<1>3. [type |-> "status", degraded |-> n] \in FromInside \ TableUpdates
  BY DEF FromInside, PeerMessage, TableUpdates
<1>4. \A q \in Peers :
        \/ peerMail'[q] = peerMail[q]
        \/ peerMail'[q] = Append(peerMail[q], [type |-> "status", degraded |-> n])
  BY <1>2 DEF StatusStep, StatusNext, StatusUnchanged, StatusChanged
<1> QED BY <1>0, <1>1, <1>3, <1>4, ReachMail

LEMMA ReachTopology == ASSUME NEW s \in Peers, ReachInv(s), SendTopology PROVE ReachInv(s)'
<1>0. TypeOK'
  BY SendTopologyType DEF ReachInv
<1>1. UNCHANGED <<tableMail, tableVars, sessions, changes, session, eorSent, negotiated,
                  adjIn, callbacks>>
  BY DEF SendTopology, peerVars
<1>2. [type |-> "topology"] \in FromInside \ TableUpdates
  BY DEF FromInside, PeerMessage, TableUpdates
<1>3. \A q \in Peers : peerMail'[q] = Append(peerMail[q], [type |-> "topology"])
  BY DEF SendTopology
<1> QED BY <1>0, <1>1, <1>2, <1>3, ReachMail

LEMMA ReachDeliver ==
  ASSUME NEW s \in Peers, ReachInv(s), NEW p \in Peers, DeliverEncode(p)
  PROVE  ReachInv(s)'
<1>0. TypeOK'
  BY DeliverEncodeType DEF ReachInv
<1>1. UNCHANGED <<tableMail, tableVars, peerMail, sessions, changes, session, eorSent,
                  negotiated, adjIn, callbacks>>
  BY DEF DeliverEncode, peerVars
<1> QED BY <1>0, <1>1, ReachMail

\* The only neighbour that does anything is that of s.
LEMMA ReachNeighbour ==
  ASSUME NEW s \in Peers, OneSource(s), ReachInv(s), NEW p \in Peers, Neighbour(p)
  PROVE  ReachInv(s)'
<1>0. TypeOK /\ MailTypeOK /\ EnvTypeOK /\ TypeOK'
  BY NeighbourType DEF ReachInv, TypeOK
<1>1. p = s
  <2> SUFFICES ASSUME p # s PROVE FALSE
    OBVIOUS
  <2>1. /\ MaxChanges[p] = 0 /\ MaxSessions[p] = 0 /\ sessions[p] = 0 /\ changes[p] = 0
        /\ session[p] \in {"down", "up"} /\ (session[p] = "up" => eorSent[p])
    BY DEF OneSource, ReachInv, Silent
  <2> QED BY <2>1 DEF Neighbour, NeighbourOpen, NeighbourUp, NeighbourDown,
             NeighbourAnnounce, NeighbourWithdraw, NeighbourEor
<1>2. \E m : ToPeer(p, m)
  BY DEF Neighbour, NeighbourOpen, NeighbourUp, NeighbourDown, NeighbourAnnounce,
     NeighbourWithdraw, NeighbourEor
<1>3. /\ UNCHANGED <<tableMail, tableVars, negotiated, adjIn, callbacks>>
      /\ \A q \in Peers \ {s} : peerMail'[q] = peerMail[q]
  BY <1>0, <1>1, <1>2 DEF ToPeer, PostTo, peerVars, MailTypeOK
<1>4. \A q \in Peers \ {s} :
        /\ sessions'[q] = sessions[q] /\ changes'[q] = changes[q]
        /\ session'[q] = session[q] /\ eorSent'[q] = eorSent[q]
  BY <1>0, <1>1 DEF Neighbour, NeighbourOpen, NeighbourUp, NeighbourDown,
     NeighbourAnnounce, NeighbourWithdraw, NeighbourEor, EnvTypeOK
<1> QED BY <1>0, <1>3, <1>4, ReachMail
-----------------------------------------------------------------------------
\* The table reads a message of s: it will send its view to all others.
LEMMA ReachTableUpdate ==
  ASSUME NEW s \in Peers, ReachInv(s), TableStep, TableUpdate
  PROVE  ReachInv(s)'
<1>0. TypeOK /\ TableTypeOK /\ TypeOK'
  BY TableStepType DEF ReachInv, TypeOK
<1>1. /\ UNCHANGED <<peerMail, peerVars, envVars>> /\ updatePending' = TRUE
      /\ tableMail # <<>> /\ tableMail' = Tail(tableMail)
  BY DEF TableStep, TableUpdate
<1>2. Head(tableMail).from = s /\ tableMail' \in Seq(FromPeer(s))
  <2>1. Head(tableMail) \in FromPeer(s) /\ Tail(tableMail) \in Seq(FromPeer(s))
    BY <1>1, SeqFacts DEF ReachInv
  <2> QED BY <1>1, <2>1 DEF FromPeer
<1>3. /\ updateSource' \in {s, None}
      /\ \A q \in Peers \ {s} : routes'[q] = routes[q]
  BY <1>0, <1>2 DEF TableUpdate, TableTypeOK
<1>4. ASSUME NEW q \in Peers \ {s} PROVE Silent(q)' /\ ChangesFollow(q)'
  BY <1>1, <1>3 DEF ReachInv, Silent, Pending, ChangesFollow, peerVars, envVars
<1> QED BY <1>0, <1>2, <1>3, <1>4 DEF ReachInv

\* Only s asks for the table again.
LEMMA ReachTableReload ==
  ASSUME NEW s \in Peers, ReachInv(s), TableStep, TableReload
  PROVE  ReachInv(s)'
<1>0. TypeOK /\ MailTypeOK /\ TypeOK'
  BY TableStepType DEF ReachInv, TypeOK
<1>1. /\ UNCHANGED <<tableVars, peerVars, envVars>>
      /\ tableMail # <<>> /\ tableMail' = Tail(tableMail)
  BY DEF TableStep, TableReload
<1>2. Head(tableMail).from = s /\ tableMail' \in Seq(FromPeer(s))
  <2>1. Head(tableMail) \in FromPeer(s) /\ Tail(tableMail) \in Seq(FromPeer(s))
    BY <1>1, SeqFacts DEF ReachInv
  <2> QED BY <1>1, <2>1 DEF FromPeer
<1>3. \A q \in Peers \ {s} : peerMail'[q] = peerMail[q]
  BY <1>0, <1>2 DEF TableReload, PostTo, MailTypeOK
<1>4. ASSUME NEW q \in Peers \ {s} PROVE Silent(q)' /\ (negotiated'[q] => ChangesFollow(q)')
  <2>1. Silent(q)'
    BY <1>1, <1>3 DEF ReachInv, Silent, Pending, tableVars, peerVars, envVars
  <2>2. negotiated'[q] => ChangesFollow(q)'
    BY <1>0, <1>1, <1>3, ChangesKept DEF ReachInv, tableVars, peerVars
  <2> QED BY <2>1, <2>2
<1> QED BY <1>0, <1>1, <1>2, <1>4 DEF ReachInv, tableVars

\* The table sends its view, and leaves out s or nobody.
LEMMA ReachTableSends ==
  ASSUME NEW s \in Peers, ReachInv(s), TableStep, UpdatePeers
  PROVE  ReachInv(s)'
<1>0. TypeOK /\ MailTypeOK /\ TypeOK' /\ TableTypeOK
  BY TableStepType DEF ReachInv, TypeOK
<1>1. UNCHANGED <<tableMail, routes, rank, peerVars, envVars>> /\ updateSource' = None
  BY DEF TableStep, UpdatePeers
<1>2. ASSUME NEW q \in Peers \ {s}
      PROVE  /\ peerMail[q] \in Seq(FromInside) /\ UpdateFor(q) \in FromInside
             /\ peerMail'[q] = Append(peerMail[q], UpdateFor(q))
  <2>1. q # updateSource
    BY MailboxAssumption DEF ReachInv
  <2>2. UpdateFor(q) \in FromInside
    BY <1>0, UpdateForType DEF FromInside, UpdateFor
  <2> QED BY <2>1, <2>2 DEF UpdatePeers, ReachInv, Silent
<1>3. ASSUME NEW q \in Peers \ {s} PROVE Silent(q)' /\ ChangesFollow(q)'
  <2>1. peerMail'[q] \in Seq(FromInside)
    BY <1>2, SeqFacts
  <2>2. Silent(q)'
    BY <1>1, <2>1 DEF ReachInv, Silent, Pending, peerVars, envVars
  <2>3. PICK r : r = Combined(q) /\ r = Combined(q)'
    BY <1>1, CombinedSame
  <2>4. UpdateFor(q) \in TableUpdates /\ UpdateFor(q) \in Bearing(r)
    BY <1>2, <2>3 DEF FromInside, TableUpdates, Bearing, UpdateFor
  <2>5. LastIn(Append(peerMail[q], UpdateFor(q)), TableUpdates, Bearing(r))
    BY <1>2, <2>4, KindAppended
  <2>6. LastIn(peerMail'[q], TableUpdates, Bearing(r))
    BY <1>2, <2>5
  <2>7. ChangesFollow(q)'
    BY <2>3, <2>6 DEF ChangesFollow
  <2> QED BY <2>2, <2>7
<1> QED BY <1>0, <1>1, <1>3 DEF ReachInv
-----------------------------------------------------------------------------
\* Only peer s writes to the table; the other peers are left alone.
LEMMA ReachPeerSource ==
  ASSUME NEW s \in Peers, ReachInv(s), PeerStep(s) PROVE ReachInv(s)'
<1>0. TypeOK /\ PeerTypeOK /\ TypeOK' /\ UNCHANGED <<tableVars, envVars>>
  BY PeerStepType DEF ReachInv, TypeOK, PeerStep
<1>1. tableMail' \in Seq(FromPeer(s))
  <2>1. \A m \in FromPeer(s) : Append(tableMail, m) \in Seq(FromPeer(s))
    BY SeqFacts DEF ReachInv
  <2>2. [type |-> "reload", from |-> s] \in FromPeer(s)
    BY DEF FromPeer, TableMessage
  <2>3. \A rts \in RoutesOf : [type |-> "update", from |-> s, routes |-> rts] \in FromPeer(s)
    BY DEF FromPeer, TableMessage
  <2>4. NoRoutes \in RoutesOf /\ received[s] \in RoutesOf
    BY <1>0 DEF PeerTypeOK, NoRoutes, RoutesOf
  <2>5. \/ tableMail' = tableMail
        \/ tableMail' = Append(tableMail, [type |-> "reload", from |-> s])
        \/ TableGets(s, NoRoutes) \/ TableGets(s, received[s])
    BY DEF PeerStep, PeerNext, ProcessOpen, ProcessStateSame, ProcessUp, ProcessDown,
       IgnoreUpdate, ProcessAnnounce, ProcessWithdraw, ProcessEor, IgnoreTableUpdate,
       ProcessTableUpdate, ProcessStatus, ProcessTopology, UpdateTables, ExportSkipped,
       ExportNothing, ExportRoutes, mailVars
  <2> QED BY <2>1, <2>2, <2>3, <2>4, <2>5 DEF TableGets, ReachInv
<1>2. \A q \in Peers \ {s} : negotiated'[q] = negotiated[q]
  BY <1>0 DEF PeerStep, PeerNext, ProcessOpen, ProcessStateSame, ProcessUp, ProcessDown,
     IgnoreUpdate, ProcessAnnounce, ProcessWithdraw, ProcessEor, IgnoreTableUpdate,
     ProcessTableUpdate, ProcessStatus, ProcessTopology, UpdateTables, ExportSkipped,
     ExportNothing, ExportRoutes, peerVars, PeerTypeOK
<1>3. ASSUME NEW q \in Peers \ {s} PROVE Silent(q)' /\ (negotiated'[q] => ChangesFollow(q)')
  <2>1. /\ peerMail'[q] = peerMail[q] /\ adjIn'[q] = adjIn[q] /\ callbacks'[q] = callbacks[q]
    BY <1>0, PeerLeaves
  <2>2. Silent(q)'
    BY <1>0, <2>1 DEF ReachInv, Silent, Pending, tableVars, envVars
  <2>3. negotiated'[q] => ChangesFollow(q)'
    BY <1>0, <1>2, <2>1, ChangesKept DEF ReachInv, tableVars
  <2> QED BY <2>2, <2>3
<1> QED BY <1>0, <1>1, <1>3 DEF ReachInv, tableVars

\* What a peer can do whose neighbour does nothing.
LEMMA SilentSteps ==
  ASSUME NEW q \in Peers, TypeOK, Silent(q), PeerStep(q)
  PROVE  \/ IgnoreTableUpdate(q) \/ ProcessTableUpdate(q) \/ ProcessStatus(q)
         \/ ProcessTopology(q) \/ ExportSkipped(q) \/ ExportNothing(q) \/ ExportRoutes(q)
<1>1. peerMail[q] # <<>> => Head(peerMail[q]).type \in {"update", "status", "topology"}
  <2>1. peerMail[q] # <<>> => Head(peerMail[q]) \in FromInside
    BY SeqFacts DEF Silent
  <2> QED BY <2>1 DEF FromInside
<1>2. ~CallbackIs(q, "tables")
  <2>1. callbacks[q] \in Seq(Callback)
    BY DEF TypeOK, PeerTypeOK
  <2>2. callbacks[q] # <<>> => 1 \in DOMAIN callbacks[q] /\ callbacks[q][1] = Head(callbacks[q])
    BY <2>1, TailElements
  <2> QED BY <2>2 DEF Silent, Pending, CallbackIs
<1> QED BY <1>1, <1>2 DEF PeerStep, PeerNext, NextIs, ProcessOpen, ProcessStateSame, ProcessUp,
           ProcessDown, IgnoreUpdate, ProcessAnnounce, ProcessWithdraw, ProcessEor, UpdateTables

\* The peer reads the table's view of it, or one that says there is none.
LEMMA ReachRead ==
  ASSUME TypeOK, NEW q \in Peers, PeerStep(q), negotiated[q], ChangesFollow(q),
         IgnoreTableUpdate(q) \/ ProcessTableUpdate(q)
  PROVE  ChangesFollow(q)'
<1> DEFINE mail == peerMail[q]
<1>1. PICK r : r = Combined(q) /\ r = Combined(q)'
  BY CombinedSame DEF PeerStep, tableVars
<1>2. /\ mail \in Seq(PeerMessage) /\ mail # <<>> /\ Head(mail).type = "update"
      /\ peerMail'[q] = Tail(mail) /\ updatePending' = updatePending
      /\ Head(mail).routes # NoCandidates => adjIn'[q] = Head(mail).routes
  BY DEF IgnoreTableUpdate, ProcessTableUpdate, NextIs, Taken, TypeOK, MailTypeOK,
     PeerTypeOK, PeerStep, tableVars
<1>3. \/ At(mail, TableUpdates) = {} /\ (r # NoCandidates => adjIn[q] = r)
      \/ LastIn(mail, TableUpdates, Bearing(r))
      \/ updatePending
  BY <1>1 DEF ChangesFollow
<1>4. ChangesFollow(q)' <=>
        \/ At(peerMail'[q], TableUpdates) = {} /\ (r # NoCandidates => adjIn'[q] = r)
        \/ LastIn(peerMail'[q], TableUpdates, Bearing(r))
        \/ updatePending'
  BY <1>1 DEF ChangesFollow
<1> HIDE DEF mail
<1>5. Head(mail) \in TableUpdates /\ 1 \in DOMAIN mail /\ mail[1] = Head(mail)
  BY <1>2, SeqFacts, TailElements DEF TableUpdates
<1>6. At(mail, TableUpdates) # {}
  BY <1>5 DEF At
<1>7. LastIn(mail, TableUpdates, Bearing(r)) =>
        \/ LastIn(Tail(mail), TableUpdates, Bearing(r))
        \/ At(Tail(mail), TableUpdates) = {} /\ Head(mail) \in Bearing(r)
  BY <1>2, KindTaken
<1>8. Head(mail) \in Bearing(r) => Head(mail).routes = r
  BY DEF Bearing
<1> QED BY <1>2, <1>3, <1>4, <1>6, <1>7, <1>8

LEMMA ReachPeerOther ==
  ASSUME NEW s \in Peers, ReachInv(s), NEW p \in Peers \ {s}, PeerStep(p)
  PROVE  ReachInv(s)'
<1>0. TypeOK /\ PeerTypeOK /\ MailTypeOK /\ TypeOK' /\ UNCHANGED <<tableVars, envVars>>
  BY PeerStepType DEF ReachInv, TypeOK, PeerStep
<1>1. Silent(p) /\ (negotiated[p] => ChangesFollow(p))
  BY DEF ReachInv
<1>2. \/ IgnoreTableUpdate(p) \/ ProcessTableUpdate(p) \/ ProcessStatus(p)
      \/ ProcessTopology(p) \/ ExportSkipped(p) \/ ExportNothing(p) \/ ExportRoutes(p)
  BY <1>0, <1>1, SilentSteps
<1>3. UNCHANGED <<tableMail, negotiated>>
  BY <1>2 DEF IgnoreTableUpdate, ProcessTableUpdate, ProcessStatus, ProcessTopology,
     ExportSkipped, ExportNothing, ExportRoutes, mailVars, peerVars
<1>4. ASSUME NEW q \in Peers \ {s, p} PROVE Silent(q)' /\ (negotiated'[q] => ChangesFollow(q)')
  <2>1. /\ peerMail'[q] = peerMail[q] /\ adjIn'[q] = adjIn[q] /\ callbacks'[q] = callbacks[q]
    BY <1>0, PeerLeaves
  <2>2. Silent(q)'
    BY <1>0, <2>1 DEF ReachInv, Silent, Pending, tableVars, envVars
  <2>3. negotiated'[q] => ChangesFollow(q)'
    BY <1>0, <1>3, <2>1, ChangesKept DEF ReachInv, tableVars
  <2> QED BY <2>2, <2>3
<1>5. Silent(p)'
  <2>1. peerMail'[p] \in Seq(FromInside)
    <3>1. peerMail'[p] = peerMail[p] \/ (peerMail[p] # <<>> /\ peerMail'[p] = Tail(peerMail[p]))
      BY <1>0, TakesOne DEF Taken, MailTypeOK
    <3> QED BY <1>1, <3>1, SeqFacts DEF Silent
  <2>2. ~Pending(p, "tables")'
    <3>0. "tables" \in Callback /\ "export" \in Callback /\ ~Pending(p, "tables")
      BY <1>1 DEF Callback, Silent
    <3>1. \/ callbacks' = callbacks
          \/ callbacks' = WithCallback(p, "export")
          \/ CallbackIs(p, "export") /\ CallbackDone(p)
      BY <1>2 DEF IgnoreTableUpdate, ProcessTableUpdate, ProcessStatus, ProcessTopology,
         ExportSkipped, ExportNothing, ExportRoutes, peerVars
    <3>2. CASE callbacks' = callbacks
      BY <3>0, <3>2 DEF Pending
    <3>3. CASE callbacks' = WithCallback(p, "export")
      BY <1>0, <3>0, <3>3, WithCallbackPending
    <3>4. CASE CallbackIs(p, "export") /\ CallbackDone(p)
      BY <1>0, <3>0, <3>4, CallbackDonePending
    <3> QED BY <3>1, <3>2, <3>3, <3>4
  <2> QED BY <1>0, <1>1, <2>1, <2>2 DEF Silent, tableVars, envVars
<1>6. ASSUME negotiated[p] PROVE ChangesFollow(p)'
  <2>1. CASE IgnoreTableUpdate(p) \/ ProcessTableUpdate(p)
    BY <1>0, <1>1, <1>6, <2>1, ReachRead
  <2>2. CASE ProcessStatus(p) \/ ProcessTopology(p) \/ ExportSkipped(p) \/ ExportNothing(p)
             \/ ExportRoutes(p)
    <3>1. /\ adjIn' = adjIn
          /\ \/ peerMail' = peerMail
             \/ /\ peerMail[p] # <<>> /\ Head(peerMail[p]).type # "update"
                /\ peerMail' = Taken(p)
      BY <2>2 DEF ProcessStatus, ProcessTopology, ExportSkipped, ExportNothing,
         ExportRoutes, mailVars, NextIs
    <3>2. \/ peerMail'[p] = peerMail[p]
          \/ /\ peerMail[p] # <<>> /\ Head(peerMail[p]) \notin TableUpdates
             /\ peerMail'[p] = Tail(peerMail[p])
      BY <1>0, <3>1 DEF Taken, MailTypeOK, TableUpdates
    <3> QED BY <1>0, <1>1, <1>6, <3>1, <3>2, ChangesKept DEF tableVars
  <2> QED BY <1>2, <2>1, <2>2
<1> QED BY <1>0, <1>3, <1>4, <1>5, <1>6 DEF ReachInv, tableVars

LEMMA ReachNext ==
  ASSUME NEW s \in Peers, OneSource(s)
  PROVE  ReachInv(s) /\ [Next]_vars => ReachInv(s)'
<1> SUFFICES ASSUME ReachInv(s), [Next]_vars PROVE ReachInv(s)'
  OBVIOUS
<1>1. CASE TableStep
  BY <1>1, ReachTableUpdate, ReachTableReload, ReachTableSends DEF TableStep, TableNext
<1>2. CASE StatusStep \/ SendTopology
  BY <1>2, ReachStatus, ReachTopology
<1>3. ASSUME NEW p \in Peers, PeerStep(p) \/ DeliverEncode(p) \/ Neighbour(p) PROVE ReachInv(s)'
  BY <1>3, ReachPeerSource, ReachPeerOther, ReachDeliver, ReachNeighbour
<1>4. CASE UNCHANGED vars
  <2>1. UNCHANGED <<tableMail, tableVars, peerMail, sessions, changes, session, eorSent,
                    negotiated, adjIn, callbacks>>
    BY <1>4 DEF vars, mailVars, peerVars, envVars
  <2>2. TypeOK'
    BY <1>4, NextType DEF ReachInv
  <2> QED BY <2>1, <2>2, ReachMail
<1> QED BY <1>1, <1>2, <1>3, <1>4 DEF Next

\* As long as only one neighbour changes anything, every connected peer
\* ends up with what RouteTable has for it: skipping update_source loses
\* nothing, whatever is read or sent in between.
THEOREM ChangesAlwaysReach ==
  ASSUME NEW s \in Peers, OneSource(s)
  PROVE  Spec => []ChangesReachPeers
<1>1. ReachInv(s) => ChangesReachPeers
  <2> SUFFICES ASSUME ReachInv(s), Quiescent, NEW q \in Peers,
                      negotiated[q], Combined(q) # NoCandidates
               PROVE  adjIn[q] = Combined(q)
    BY DEF ChangesReachPeers
  <2>1. q # s
    <3>1. Combined(s) = NoCandidates
      BY OnlyOwnRoutes DEF ReachInv, Silent
    <3> QED BY <3>1
  <2>2. ChangesFollow(q) /\ ~updatePending /\ peerMail[q] = <<>>
    BY <2>1 DEF ReachInv, Quiescent, MailEmpty
  <2> QED BY <2>2, KindEmpty DEF ChangesFollow
<1>2. Init => ReachInv(s)
  BY ReachInit
<1>3. ReachInv(s) /\ [Next]_vars => ReachInv(s)'
  BY ReachNext
<1> QED BY <1>1, <1>2, <1>3, PTL DEF Spec
-----------------------------------------------------------------------------
(***************************************************************************)
(* From one end to the other: the table follows the peers, the peers the   *)
(* table, the exports what the peers hold, and the neighbours the exports. *)
(***************************************************************************)

\* Where only s has routes in the table, a peer is left the one of s.
LEMMA OnlyCandidate ==
  ASSUME TypeOK, NEW s \in Peers, NEW q \in Peers \ {s}, NEW x \in Prefixes,
         \A t \in Peers \ {s} : routes[t] = NoRoutes,
         routes[s][x] # None, Asn[q] \notin PathOf[routes[s][x]]
  PROVE  Combined(q)[x] = {[src |-> s, attr |-> routes[s][x], rank |-> rank[s]]}
<1>1. \A t \in Peers \ {s} : routes[t][x] = None
  BY DEF NoRoutes
<1>2. { t \in Peers : /\ t # q /\ routes[t][x] # None
                      /\ Asn[q] \notin PathOf[routes[t][x]] } = {s}
  BY <1>1
<1>3. Combined(q)[x] = { [src |-> t, attr |-> routes[t][x], rank |-> rank[t]] :
                           t \in { t \in Peers : /\ t # q
                                                 /\ routes[t][x] # None
                                                 /\ Asn[q] \notin PathOf[routes[t][x]] } }
  BY DEF Combined
<1> QED BY <1>2, <1>3

\* A route that is alone is the best one.
LEMMA AloneIsBest ==
  ASSUME NEW a, PrefOf[a.attr] \in Nat, a.rank \in Nat
  PROVE  Best({a}) = {a} /\ Preferred({a}) = a
<1>1. ~Better(a, a)
  BY DEF Better
<1>2. Best({a}) = {a}
  BY <1>1 DEF Best
<1> QED BY <1>2 DEF Preferred

\* The only candidate for a prefix is exported if it may be.
LEMMA OnlyIsExported ==
  ASSUME NEW q \in Peers, NEW x \in Prefixes, NEW a, adjIn[q][x] = {a},
         PrefOf[a.attr] \in Nat, a.rank \in Nat, a.attr \in ExportOk[q]
  PROVE  [pfx |-> x, src |-> a.src, attr |-> a.attr, deg |-> degraded[q]] \in FullRoutes(q)
<1>1. Exportable(q, x) = {a}
  BY DEF Exportable
<1>2. Best(Exportable(q, x)) # {} /\ Preferred(Exportable(q, x)) = a
  BY <1>1, AloneIsBest
<1> QED BY <1>2 DEF FullRoutes

\* What the links of the chain say of a quiet state, joined.
LEMMA ToldFromLinks ==
  ASSUME NEW s \in Peers, ReachInv(s), TableFollowsPeers, ChangesReachPeers,
         ExportsCurrent, ExportedIsAnnounced, DegradedCounts
  PROVE  NeighboursTold
<1> SUFFICES ASSUME Quiescent, NEW p \in Peers, NEW q \in Peers, NEW x \in Prefixes,
                    p # q, received[p][x] # None, seenEor[p],
                    active[q], negotiated[q], topology[q],
                    received[p][x] \in ExportOk[q],
                    Asn[q] \notin PathOf[received[p][x]]
             PROVE  ribOut[q][x] = [pfx |-> x, src |-> p, attr |-> received[p][x],
                                    deg |-> Missing(active)]
  BY DEF NeighboursTold
<1> DEFINE a == [src |-> p, attr |-> routes[p][x], rank |-> rank[p]]
           e == [pfx |-> x, src |-> p, attr |-> routes[p][x], deg |-> degraded[q]]
<1>1. TypeOK
  BY DEF ReachInv
<1>2. tableMail = <<>> /\ peerMail[q] = <<>> /\ out[q] = <<>> /\ callbacks[p] = <<>>
  BY DEF Quiescent, MailEmpty
<1>3. routes[p] = received[p]
  <2>1. ~Pending(p, "tables")
    BY <1>2 DEF Pending
  <2>2. TableWillHold(p, received[p])
    BY <2>1 DEF TableFollowsPeers
  <2> QED BY <1>2, <2>2 DEF TableWillHold
<1>4. \A t \in Peers \ {s} : routes[t] = NoRoutes
  BY DEF ReachInv, Silent
<1>5. p = s
  BY <1>3, <1>4 DEF NoRoutes
<1>6. Combined(q)[x] = {a}
  BY <1>1, <1>3, <1>4, <1>5, OnlyCandidate
<1>7. Combined(q) # NoCandidates
  <2>1. NoCandidates[x] = {}
    BY DEF NoCandidates
  <2> HIDE DEF a
  <2> QED BY <1>6, <2>1
<1>8. adjIn[q][x] = {a}
  <2>1. adjIn[q] = Combined(q)
    BY <1>7 DEF ChangesReachPeers
  <2> QED BY <1>6, <2>1
<1>9. e \in exported[q]
  <2>1. routes[p][x] \in Attrs /\ rank[p] \in Nat
    BY <1>1, <1>3 DEF TypeOK, TableTypeOK, RoutesOf
  <2>2. PrefOf[a.attr] \in Nat /\ a.rank \in Nat /\ a.attr \in ExportOk[q]
    BY <1>3, <2>1, MailboxAssumption
  <2>3. [pfx |-> x, src |-> a.src, attr |-> a.attr, deg |-> degraded[q]] \in FullRoutes(q)
    <3> HIDE DEF a
    <3> QED BY <1>8, <2>2, OnlyIsExported
  <2>4. e \in FullRoutes(q)
    BY <2>3
  <2> QED BY <2>4 DEF ExportsCurrent
<1>10. ribOut[q][x] = e
  <2>1. ~DownPending(q)
    BY <1>2 DEF DownPending
  <2>2. WillAnnounce(q, e)
    BY <1>9, <2>1 DEF ExportedIsAnnounced
  <2> QED BY <1>2, <2>2 DEF WillAnnounce
<1>11. degraded[q] = Missing(active)
  BY DEF DegradedCounts
<1> QED BY <1>3, <1>10, <1>11

\* As long as only one neighbour changes anything, what its peer process
\* stored is announced to all neighbours that may be told, once all is quiet.
THEOREM AlwaysTold ==
  ASSUME NEW s \in Peers, OneSource(s)
  PROVE  Spec => []NeighboursTold
<1>1. Init => ReachInv(s)
  BY ReachInit
<1>2. ReachInv(s) /\ [Next]_vars => ReachInv(s)'
  BY ReachNext
<1>3. ReachInv(s) /\ TableFollowsPeers /\ ChangesReachPeers /\ ExportsCurrent
      /\ ExportedIsAnnounced /\ DegradedCounts => NeighboursTold
  BY ToldFromLinks
<1>4. Spec => []ChangesReachPeers
  BY ChangesAlwaysReach
<1> QED BY <1>1, <1>2, <1>3, <1>4, TableAlwaysFollows, ExportsAlwaysCurrent,
           ExportedAlwaysAnnounced, CountsAlwaysAgree, PTL DEF Spec
=============================================================================
