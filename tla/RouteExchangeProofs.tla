------------------------ MODULE RouteExchangeProofs ------------------------
(***************************************************************************)
(* Theorems about the route exchange for every number of peers, prefixes   *)
(* and attributes, every filter and every bound on what neighbours do.     *)
(***************************************************************************)
EXTENDS RouteExchange, FiniteSetTheorems, TLAPS

-----------------------------------------------------------------------------
\* Facts about mailboxes, cited by the steps below.
LEMMA SeqFacts ==
  ASSUME NEW S, NEW s \in Seq(S)
  PROVE  /\ \A e \in S : Append(s, e) \in Seq(S)
         /\ s # <<>> => Head(s) \in S /\ Tail(s) \in Seq(S)
  OBVIOUS

\* Where the elements of a sequence are after an Append or a Tail.
LEMMA AppendElements ==
  ASSUME NEW S, NEW s \in Seq(S), NEW e \in S
  PROVE  /\ DOMAIN Append(s, e) = DOMAIN s \cup {Len(s) + 1}
         /\ Append(s, e)[Len(s) + 1] = e
         /\ \A i \in DOMAIN s : Append(s, e)[i] = s[i]
         /\ \A i \in DOMAIN s : i \in Nat /\ i < Len(s) + 1
         /\ Len(s) + 1 \in Nat
  OBVIOUS

LEMMA TailElements ==
  ASSUME NEW S, NEW s \in Seq(S), s # <<>>
  PROVE  /\ \A i \in DOMAIN Tail(s) : i + 1 \in DOMAIN s /\ Tail(s)[i] = s[i + 1]
         /\ \A i \in DOMAIN s : i # 1 => i - 1 \in DOMAIN Tail(s)
         /\ \A i \in DOMAIN s : i \in Nat /\ 1 <= i
         /\ \A i \in DOMAIN Tail(s) : i \in Nat /\ 1 <= i
         /\ 1 \in DOMAIN s /\ Head(s) = s[1]
  OBVIOUS

\* A message of the right type put into a mailbox leaves all mail well-typed.
LEMMA PostToType ==
  ASSUME MailTypeOK, NEW p \in Peers, NEW m \in PeerMessage
  PROVE  PostTo(p, m) \in [Peers -> Seq(PeerMessage)]
<1>1. peerMail \in [Peers -> Seq(PeerMessage)]
  BY DEF MailTypeOK
<1>2. Append(peerMail[p], m) \in Seq(PeerMessage)
  BY <1>1, SeqFacts
<1> QED BY <1>1, <1>2 DEF PostTo

\* The first message of a mailbox is a message, and so is the rest.
LEMMA TakenType ==
  ASSUME MailTypeOK, NEW p \in Peers, peerMail[p] # <<>>
  PROVE  /\ Head(peerMail[p]) \in PeerMessage
         /\ Taken(p) \in [Peers -> Seq(PeerMessage)]
<1>1. peerMail \in [Peers -> Seq(PeerMessage)]
  BY DEF MailTypeOK
<1>2. Head(peerMail[p]) \in PeerMessage /\ Tail(peerMail[p]) \in Seq(PeerMessage)
  BY <1>1, SeqFacts
<1> QED BY <1>1, <1>2 DEF Taken

\* A message of a given type has the fields of that type.
LEMMA MessageFields ==
  ASSUME NEW m \in PeerMessage
  PROVE  /\ m.type = "open" => m.caps \in SUBSET Capability
         /\ m.type = "state" => m.up \in BOOLEAN
         /\ m.type = "announce" => m.pfx \in Prefixes /\ m.attr \in Attrs
         /\ m.type = "withdraw" => m.pfx \in Prefixes
         /\ m.type = "update" => m.routes \in [Prefixes -> SUBSET Candidate]
         /\ m.type = "status" => m.degraded \in Nat
BY DEF PeerMessage

LEMMA TableMessageFields ==
  ASSUME NEW m \in TableMessage
  PROVE  /\ m.from \in Peers
         /\ m.type = "update" => m.routes \in RoutesOf
BY DEF TableMessage

-----------------------------------------------------------------------------
\* What the table sends a peer is well-typed.
LEMMA UpdateForType ==
  ASSUME TableTypeOK, NEW q \in Peers
  PROVE  /\ Combined(q) \in [Prefixes -> SUBSET Candidate]
         /\ UpdateFor(q) \in PeerMessage
<1>1. ASSUME NEW x \in Prefixes, NEW s \in Peers, routes[s][x] # None
      PROVE  [src |-> s, attr |-> routes[s][x], rank |-> rank[s]] \in Candidate
  <2>1. routes[s][x] \in Attrs
    BY <1>1 DEF TableTypeOK, RoutesOf
  <2>2. rank[s] \in Nat
    BY DEF TableTypeOK
  <2> QED BY <2>1, <2>2 DEF Candidate
<1>2. Combined(q) \in [Prefixes -> SUBSET Candidate]
  BY <1>1 DEF Combined
<1> QED BY <1>2 DEF UpdateFor, PeerMessage

LEMMA NextRankType == TableTypeOK => NextRank \in Nat
<1>1. IsFiniteSet({s \in Peers : rank[s] # 0})
  BY MailboxAssumption, FS_Subset
<1> QED BY <1>1, FS_CardinalityType DEF NextRank

LEMMA TableStepType == TypeOK /\ TableStep => TypeOK'
<1> SUFFICES ASSUME TypeOK, TableStep PROVE TypeOK'
  OBVIOUS
<1> USE DEF TypeOK
<1>1. PeerTypeOK' /\ StatusTypeOK' /\ EnvTypeOK'
  BY DEF TableStep, PeerTypeOK, StatusTypeOK, EnvTypeOK, peerVars, envVars
<1>2. CASE TableUpdate
  <2>1. Head(tableMail) \in TableMessage /\ Tail(tableMail) \in Seq(TableMessage)
    BY <1>2, SeqFacts DEF TableUpdate, MailTypeOK
  <2>2. MailTypeOK'
    BY <1>2, <2>1 DEF TableUpdate, MailTypeOK
  <2>3. TableTypeOK'
    BY <1>2, <2>1, TableMessageFields, NextRankType DEF TableUpdate, TableTypeOK
  <2> QED BY <1>1, <2>2, <2>3
<1>3. CASE TableReload
  <2>1. Head(tableMail) \in TableMessage /\ Tail(tableMail) \in Seq(TableMessage)
    BY <1>3, SeqFacts DEF TableReload, MailTypeOK
  <2>2. Head(tableMail).from \in Peers
    BY <2>1, TableMessageFields
  <2>3. peerMail' \in [Peers -> Seq(PeerMessage)]
    BY <1>3, <2>2, UpdateForType, PostToType DEF TableReload
  <2>4. MailTypeOK'
    BY <1>3, <2>1, <2>3 DEF TableReload, MailTypeOK
  <2>5. TableTypeOK'
    BY <1>3 DEF TableReload, TableTypeOK, tableVars
  <2> QED BY <1>1, <2>4, <2>5
<1>4. CASE UpdatePeers
  <2>1. peerMail' \in [Peers -> Seq(PeerMessage)]
    BY <1>4, UpdateForType, SeqFacts DEF UpdatePeers, MailTypeOK
  <2>2. MailTypeOK'
    BY <1>4, <2>1 DEF UpdatePeers, MailTypeOK
  <2>3. TableTypeOK'
    BY <1>4 DEF UpdatePeers, TableTypeOK
  <2> QED BY <1>1, <2>2, <2>3
<1> QED BY <1>2, <1>3, <1>4 DEF TableStep, TableNext

\* The count of missing sessions is a number: there are finitely many peers.
LEMMA MissingType == \A st : Missing(st) \in Nat
<1> TAKE st
<1>1. IsFiniteSet({p \in Peers : ~st[p]})
  BY MailboxAssumption, FS_Subset
<1> QED BY <1>1, FS_CardinalityType DEF Missing

LEMMA StatusStepType == TypeOK /\ StatusStep => TypeOK'
<1> SUFFICES ASSUME TypeOK, StatusStep PROVE TypeOK'
  OBVIOUS
<1> USE DEF TypeOK
<1>1. TableTypeOK' /\ PeerTypeOK' /\ EnvTypeOK'
  BY DEF StatusStep, TableTypeOK, PeerTypeOK, EnvTypeOK, tableVars, peerVars, envVars
<1>2. ctlMail # <<>> => /\ Head(ctlMail) \in StatusNote
                        /\ Tail(ctlMail) \in Seq(StatusNote)
  BY SeqFacts DEF MailTypeOK
<1>3. CASE StatusUnchanged
  BY <1>1, <1>2, <1>3 DEF StatusUnchanged, MailTypeOK, StatusTypeOK
<1>4. CASE StatusChanged
  <2>1. status' \in [Peers -> BOOLEAN]
    BY <1>2, <1>4 DEF StatusChanged, StatusTypeOK, StatusNote
  <2>2. [type |-> "status", degraded |-> Missing(status')] \in PeerMessage
    BY MissingType DEF PeerMessage
  <2>3. peerMail' \in [Peers -> Seq(PeerMessage)]
    BY <1>4, <2>2, SeqFacts DEF StatusChanged, MailTypeOK
  <2> QED BY <1>1, <1>2, <1>4, <2>1, <2>3 DEF StatusChanged, MailTypeOK, StatusTypeOK
<1> QED BY <1>3, <1>4 DEF StatusStep, StatusNext
-----------------------------------------------------------------------------
\* The callbacks stay a sequence of callbacks.
LEMMA WithCallbackType ==
  ASSUME PeerTypeOK, NEW p \in Peers, NEW c \in Callback
  PROVE  WithCallback(p, c) \in [Peers -> Seq(Callback)]
<1>1. callbacks \in [Peers -> Seq(Callback)] /\ callbacks[p] \in Seq(Callback)
  BY DEF PeerTypeOK
<1>2. Append(callbacks[p], c) \in Seq(Callback)
  BY <1>1, SeqFacts
<1> QED BY <1>1, <1>2 DEF WithCallback

LEMMA CallbackDoneType ==
  ASSUME PeerTypeOK, NEW p \in Peers, NEW c, CallbackIs(p, c), CallbackDone(p)
  PROVE  callbacks' \in [Peers -> Seq(Callback)]
<1>1. callbacks \in [Peers -> Seq(Callback)] /\ callbacks[p] # <<>>
  BY DEF PeerTypeOK, CallbackIs
<1>2. Tail(callbacks[p]) \in Seq(Callback)
  BY <1>1, SeqFacts
<1> QED BY <1>1, <1>2 DEF CallbackDone

LEMMA TableGetsType ==
  ASSUME MailTypeOK, NEW p \in Peers, NEW rts \in RoutesOf, TableGets(p, rts)
  PROVE  tableMail' \in Seq(TableMessage)
BY SeqFacts DEF MailTypeOK, TableGets, TableMessage

\* The preferred candidate is one of the candidates.
LEMMA PreferredIsCandidate ==
  ASSUME NEW S, Best(S) # {}
  PROVE  Preferred(S) \in Best(S) /\ Preferred(S) \in S
<1>1. \E a \in S : a \in Best(S)
  BY DEF Best
<1> QED BY <1>1 DEF Preferred

LEMMA FullRoutesType ==
  ASSUME PeerTypeOK, NEW p \in Peers
  PROVE  FullRoutes(p) \in SUBSET Exported
<1>1. ASSUME NEW x \in Prefixes
      PROVE  Exportable(p, x) \subseteq Candidate
  BY DEF Exportable, PeerTypeOK
<1>2. degraded[p] \in Nat
  BY DEF PeerTypeOK
<1>3. ASSUME NEW x \in Prefixes, Best(Exportable(p, x)) # {}
      PROVE  [pfx |-> x, src |-> Preferred(Exportable(p, x)).src,
              attr |-> Preferred(Exportable(p, x)).attr,
              deg |-> degraded[p]] \in Exported
  <2>1. Preferred(Exportable(p, x)) \in Candidate
    BY <1>1, <1>3, PreferredIsCandidate
  <2> QED BY <1>2, <2>1 DEF Candidate, Exported
<1> QED BY <1>3 DEF FullRoutes

\* What changes from one set of exported routes to another goes out as messages.
LEMMA MessagesType ==
  ASSUME NEW old \in SUBSET Exported, NEW new \in SUBSET Exported
  PROVE  Messages(old, new) \in Seq(Encode)
<1>1. /\ [op |-> "withdraw", routes |-> old \ new] \in Encode
      /\ [op |-> "advertise", routes |-> new \ old] \in Encode
  BY DEF Encode
<1> DEFINE w == IF old \ new = {} THEN <<>>
                ELSE << [op |-> "withdraw", routes |-> old \ new] >>
           a == IF new \ old = {} THEN <<>>
                ELSE << [op |-> "advertise", routes |-> new \ old] >>
<1>2. w \in Seq(Encode)
  BY <1>1
<1>3. a \in Seq(Encode)
  BY <1>1
<1>4. \A s, t \in Seq(Encode) : s \o t \in Seq(Encode)
  OBVIOUS
<1>5. Messages(old, new) = w \o a
  BY DEF Messages
<1> HIDE DEF w, a
<1> QED BY <1>2, <1>3, <1>4, <1>5

\* A step of a peer leaves the mailboxes well-typed.
LEMMA PeerMailType ==
  ASSUME TypeOK, NEW p \in Peers, PeerNext(p)
  PROVE  MailTypeOK'
<1> USE DEF TypeOK
<1>1. CASE ProcessOpen(p)
  <2>1. peerMail' \in [Peers -> Seq(PeerMessage)]
    BY <1>1, TakenType DEF ProcessOpen, NextIs
  <2>2. [type |-> "reload", from |-> p] \in TableMessage
    BY DEF TableMessage
  <2>3. \/ tableMail' = tableMail
        \/ tableMail' = Append(tableMail, [type |-> "reload", from |-> p])
    BY <1>1 DEF ProcessOpen
  <2>4. tableMail' \in Seq(TableMessage)
    BY <2>2, <2>3, SeqFacts DEF MailTypeOK
  <2> QED BY <1>1, <2>1, <2>4 DEF ProcessOpen, MailTypeOK
<1>2. CASE ProcessDown(p)
  <2>1. peerMail' \in [Peers -> Seq(PeerMessage)]
    BY <1>2, TakenType DEF ProcessDown, NextIs
  <2>2. tableMail' \in Seq(TableMessage)
    BY <1>2, TableGetsType DEF ProcessDown, RoutesOf, NoRoutes
  <2>3. ctlMail' \in Seq(StatusNote)
    BY <1>2, SeqFacts DEF ProcessDown, MailTypeOK, StatusNote
  <2> QED BY <1>2, <2>1, <2>2, <2>3 DEF ProcessDown, MailTypeOK
<1>3. CASE ProcessUp(p)
  <2>1. peerMail' \in [Peers -> Seq(PeerMessage)]
    BY <1>3, TakenType DEF ProcessUp, NextIs
  <2>2. ctlMail' \in Seq(StatusNote)
    BY <1>3, SeqFacts DEF ProcessUp, MailTypeOK, StatusNote
  <2> QED BY <1>3, <2>1, <2>2 DEF ProcessUp, MailTypeOK
<1>4. CASE \/ ProcessStateSame(p) \/ IgnoreUpdate(p) \/ ProcessAnnounce(p)
           \/ ProcessWithdraw(p) \/ ProcessEor(p) \/ IgnoreTableUpdate(p)
           \/ ProcessTableUpdate(p) \/ ProcessStatus(p) \/ ProcessTopology(p)
  <2>1. peerMail' = Taken(p) /\ peerMail[p] # <<>>
    BY <1>4 DEF ProcessStateSame, IgnoreUpdate, ProcessAnnounce,
       ProcessWithdraw, ProcessEor, IgnoreTableUpdate, ProcessTableUpdate,
       ProcessStatus, ProcessTopology, NextIs
  <2>2. UNCHANGED <<tableMail, ctlMail, out>>
    BY <1>4 DEF ProcessStateSame, IgnoreUpdate, ProcessAnnounce,
       ProcessWithdraw, ProcessEor, IgnoreTableUpdate, ProcessTableUpdate,
       ProcessStatus, ProcessTopology
  <2> QED BY <2>1, <2>2, TakenType DEF MailTypeOK
<1>5. CASE UpdateTables(p)
  <2>1. tableMail' \in Seq(TableMessage)
    BY <1>5, TableGetsType DEF UpdateTables, PeerTypeOK
  <2> QED BY <1>5, <2>1 DEF UpdateTables, MailTypeOK
<1>6. CASE ExportSkipped(p) \/ ExportNothing(p)
  BY <1>6 DEF ExportSkipped, ExportNothing, MailTypeOK, mailVars
<1>7. CASE ExportRoutes(p)
  <2>1. FullRoutes(p) \in SUBSET Exported /\ exported[p] \in SUBSET Exported
    BY FullRoutesType DEF PeerTypeOK
  <2>2. Messages(exported[p], FullRoutes(p)) \in Seq(Encode)
    BY <2>1, MessagesType
  <2>3. out[p] \o Messages(exported[p], FullRoutes(p)) \in Seq(Encode)
    BY <2>2 DEF MailTypeOK
  <2> QED BY <1>7, <2>3 DEF ExportRoutes, MailTypeOK
<1> QED BY <1>1, <1>2, <1>3, <1>4, <1>5, <1>6, <1>7 DEF PeerNext

\* A step of a peer leaves its own variables well-typed.
LEMMA PeerVarsType ==
  ASSUME TypeOK, NEW p \in Peers, PeerNext(p)
  PROVE  PeerTypeOK'
<1> USE DEF TypeOK
<1>0. peerMail[p] # <<>> => Head(peerMail[p]) \in PeerMessage
  BY TakenType
<1>1. CASE ProcessOpen(p)
  <2>1. seenEor' \in [Peers -> BOOLEAN]
    BY <1>1 DEF ProcessOpen, PeerTypeOK
  <2>2. negotiated' \in [Peers -> BOOLEAN]
    BY <1>1 DEF ProcessOpen, PeerTypeOK
  <2> QED BY <1>1, <2>1, <2>2 DEF ProcessOpen, PeerTypeOK
<1>2. CASE ProcessStateSame(p) \/ IgnoreUpdate(p) \/ IgnoreTableUpdate(p)
  BY <1>2 DEF ProcessStateSame, IgnoreUpdate, IgnoreTableUpdate, PeerTypeOK, peerVars
<1>3. CASE ProcessUp(p)
  BY <1>3 DEF ProcessUp, PeerTypeOK
<1>4. CASE ProcessDown(p)
  BY <1>4 DEF ProcessDown, PeerTypeOK, RoutesOf, NoRoutes
<1>5. CASE ProcessAnnounce(p)
  <2>1. Head(peerMail[p]).pfx \in Prefixes /\ Head(peerMail[p]).attr \in Attrs
    BY <1>0, <1>5, MessageFields DEF ProcessAnnounce, NextIs
  <2>2. received' \in [Peers -> RoutesOf]
    BY <1>5, <2>1 DEF ProcessAnnounce, PeerTypeOK, RoutesOf
  <2>3. callbacks' \in [Peers -> Seq(Callback)]
    BY <1>5, WithCallbackType DEF ProcessAnnounce, RoutesChanged, PeerTypeOK, Callback
  <2> QED BY <1>5, <2>2, <2>3 DEF ProcessAnnounce, PeerTypeOK
<1>6. CASE ProcessWithdraw(p)
  <2>1. received' \in [Peers -> RoutesOf]
    BY <1>6 DEF ProcessWithdraw, PeerTypeOK, RoutesOf
  <2>2. callbacks' \in [Peers -> Seq(Callback)]
    BY <1>6, WithCallbackType DEF ProcessWithdraw, RoutesChanged, PeerTypeOK, Callback
  <2> QED BY <1>6, <2>1, <2>2 DEF ProcessWithdraw, PeerTypeOK
<1>7. CASE ProcessEor(p)
  <2>1. callbacks' \in [Peers -> Seq(Callback)]
    BY <1>7, WithCallbackType DEF ProcessEor, Callback
  <2> QED BY <1>7, <2>1 DEF ProcessEor, PeerTypeOK
<1>8. CASE ProcessTableUpdate(p)
  <2>1. Head(peerMail[p]).routes \in [Prefixes -> SUBSET Candidate]
    BY <1>0, <1>8, MessageFields DEF ProcessTableUpdate, NextIs
  <2>2. callbacks' \in [Peers -> Seq(Callback)]
    BY <1>8, WithCallbackType DEF ProcessTableUpdate, Callback
  <2> QED BY <1>8, <2>1, <2>2 DEF ProcessTableUpdate, PeerTypeOK
<1>9. CASE ProcessStatus(p)
  <2>1. Head(peerMail[p]).degraded \in Nat
    BY <1>0, <1>9, MessageFields DEF ProcessStatus, NextIs
  <2>2. callbacks' \in [Peers -> Seq(Callback)]
    BY <1>9, WithCallbackType DEF ProcessStatus, Callback
  <2> QED BY <1>9, <2>1, <2>2 DEF ProcessStatus, PeerTypeOK
<1>10. CASE ProcessTopology(p)
  <2>1. callbacks' \in [Peers -> Seq(Callback)]
    BY <1>10, WithCallbackType DEF ProcessTopology, Callback, PeerTypeOK
  <2> QED BY <1>10, <2>1 DEF ProcessTopology, PeerTypeOK
<1>11. CASE UpdateTables(p)
  BY <1>11, CallbackDoneType DEF UpdateTables, PeerTypeOK
<1>12. CASE ExportSkipped(p)
  BY <1>12, CallbackDoneType DEF ExportSkipped, PeerTypeOK
<1>13. CASE ExportNothing(p)
  BY <1>13, CallbackDoneType DEF ExportNothing, PeerTypeOK
<1>14. CASE ExportRoutes(p)
  BY <1>14, CallbackDoneType, FullRoutesType DEF ExportRoutes, PeerTypeOK
<1> QED BY <1>1, <1>2, <1>3, <1>4, <1>5, <1>6, <1>7, <1>8, <1>9, <1>10,
           <1>11, <1>12, <1>13, <1>14 DEF PeerNext

\* Every step of a peer takes one message of its own or none.
LEMMA TakesOne ==
  ASSUME NEW q \in Peers, PeerStep(q)
  PROVE  peerMail' = peerMail \/ (peerMail[q] # <<>> /\ peerMail' = Taken(q))
BY DEF PeerStep, PeerNext, NextIs, ProcessOpen, ProcessUp, ProcessDown,
   ProcessStateSame, IgnoreUpdate, ProcessAnnounce, ProcessWithdraw,
   ProcessEor, IgnoreTableUpdate, ProcessTableUpdate, ProcessStatus,
   ProcessTopology, UpdateTables, ExportSkipped, ExportNothing, ExportRoutes,
   mailVars

LEMMA PeerStepType == ASSUME TypeOK, NEW p \in Peers, PeerStep(p) PROVE TypeOK'
<1>1. MailTypeOK' /\ PeerTypeOK'
  BY PeerMailType, PeerVarsType DEF PeerStep
<1>2. TableTypeOK' /\ StatusTypeOK' /\ EnvTypeOK'
  BY DEF PeerStep, TypeOK, TableTypeOK, StatusTypeOK, EnvTypeOK, tableVars, envVars
<1> QED BY <1>1, <1>2 DEF TypeOK
-----------------------------------------------------------------------------
\* A message from a neighbour leaves everything but the environment well-typed.
LEMMA ToPeerType ==
  ASSUME TypeOK, NEW p \in Peers, NEW m \in PeerMessage, ToPeer(p, m)
  PROVE  MailTypeOK' /\ TableTypeOK' /\ PeerTypeOK' /\ StatusTypeOK'
<1>1. MailTypeOK'
  BY PostToType DEF TypeOK, ToPeer, MailTypeOK
<1>2. TableTypeOK' /\ PeerTypeOK' /\ StatusTypeOK'
  BY DEF TypeOK, ToPeer, TableTypeOK, PeerTypeOK, StatusTypeOK, tableVars, peerVars
<1> QED BY <1>1, <1>2

LEMMA NeighbourType == ASSUME TypeOK, NEW p \in Peers, Neighbour(p) PROVE TypeOK'
<1> USE DEF TypeOK
<1>1. CASE NeighbourOpen(p)
  <2>1. [type |-> "open", caps |-> CapabilitiesOf(p)] \in PeerMessage
    BY DEF CapabilitiesOf, PeerMessage, Capability
  <2>2. EnvTypeOK'
    BY <1>1 DEF NeighbourOpen, EnvTypeOK
  <2> QED BY <1>1, <2>1, <2>2, ToPeerType DEF NeighbourOpen
<1>2. CASE NeighbourUp(p)
  <2>1. [type |-> "state", up |-> TRUE] \in PeerMessage
    BY DEF PeerMessage
  <2>2. EnvTypeOK'
    BY <1>2 DEF NeighbourUp, EnvTypeOK
  <2> QED BY <1>2, <2>1, <2>2, ToPeerType DEF NeighbourUp
<1>3. CASE NeighbourDown(p)
  <2>1. [type |-> "state", up |-> FALSE] \in PeerMessage
    BY DEF PeerMessage
  <2>2. EnvTypeOK'
    BY <1>3 DEF NeighbourDown, EnvTypeOK, RoutesOf, NoRoutes
  <2> QED BY <1>3, <2>1, <2>2, ToPeerType DEF NeighbourDown
<1>4. ASSUME NEW x \in Prefixes, NEW a \in Attrs, NeighbourAnnounce(p, x, a)
      PROVE  TypeOK'
  <2>1. [type |-> "announce", pfx |-> x, attr |-> a] \in PeerMessage
    BY DEF PeerMessage
  <2>2. EnvTypeOK'
    BY <1>4 DEF NeighbourAnnounce, EnvTypeOK, RoutesOf
  <2> QED BY <1>4, <2>1, <2>2, ToPeerType DEF NeighbourAnnounce
<1>5. ASSUME NEW x \in Prefixes, NeighbourWithdraw(p, x)
      PROVE  TypeOK'
  <2>1. [type |-> "withdraw", pfx |-> x] \in PeerMessage
    BY DEF PeerMessage
  <2>2. EnvTypeOK'
    BY <1>5 DEF NeighbourWithdraw, EnvTypeOK, RoutesOf
  <2> QED BY <1>5, <2>1, <2>2, ToPeerType DEF NeighbourWithdraw
<1>6. CASE NeighbourEor(p)
  <2>1. [type |-> "eor"] \in PeerMessage
    BY DEF PeerMessage
  <2>2. EnvTypeOK'
    BY <1>6 DEF NeighbourEor, EnvTypeOK
  <2> QED BY <1>6, <2>1, <2>2, ToPeerType DEF NeighbourEor
<1> QED BY <1>1, <1>2, <1>3, <1>4, <1>5, <1>6 DEF Neighbour

LEMMA SendTopologyType == TypeOK /\ SendTopology => TypeOK'
<1> SUFFICES ASSUME TypeOK, SendTopology PROVE TypeOK'
  OBVIOUS
<1> USE DEF TypeOK
<1>1. [type |-> "topology"] \in PeerMessage
  BY DEF PeerMessage
<1>2. peerMail' \in [Peers -> Seq(PeerMessage)]
  BY <1>1, SeqFacts DEF SendTopology, MailTypeOK
<1>3. MailTypeOK' /\ EnvTypeOK'
  BY <1>2 DEF SendTopology, MailTypeOK, EnvTypeOK
<1>4. TableTypeOK' /\ PeerTypeOK' /\ StatusTypeOK'
  BY DEF SendTopology, TableTypeOK, PeerTypeOK, StatusTypeOK, tableVars, peerVars
<1> QED BY <1>3, <1>4

LEMMA DeliverEncodeType ==
  ASSUME TypeOK, NEW p \in Peers, DeliverEncode(p) PROVE TypeOK'
<1> USE DEF TypeOK
<1>1. Head(out[p]) \in Encode /\ Tail(out[p]) \in Seq(Encode)
  BY SeqFacts DEF DeliverEncode, MailTypeOK
<1>2. MailTypeOK'
  BY <1>1 DEF DeliverEncode, MailTypeOK
<1> DEFINE m == Head(out[p])
           touched == {r.pfx : r \in m.routes}
           new == [x \in Prefixes |->
                     IF x \notin touched THEN ribOut[p][x]
                     ELSE IF m.op = "withdraw" THEN None
                     ELSE CHOOSE r \in m.routes : r.pfx = x]
<1>3. m.routes \in SUBSET Exported
  BY <1>1 DEF Encode
<1>4. ASSUME NEW x \in Prefixes PROVE new[x] \in Exported \cup {None}
  <2>1. x \in touched => (CHOOSE r \in m.routes : r.pfx = x) \in m.routes
    OBVIOUS
  <2>2. ribOut[p][x] \in Exported \cup {None}
    BY DEF EnvTypeOK
  <2> QED BY <1>3, <2>1, <2>2
<1>5. new \in [Prefixes -> Exported \cup {None}]
  BY <1>4
<1>6. ribOut' = [ribOut EXCEPT ![p] = new]
  BY DEF DeliverEncode
<1> HIDE DEF new
<1>7. EnvTypeOK'
  BY <1>5, <1>6 DEF DeliverEncode, EnvTypeOK
<1>8. TableTypeOK' /\ PeerTypeOK' /\ StatusTypeOK'
  BY DEF DeliverEncode, TableTypeOK, PeerTypeOK, StatusTypeOK, tableVars, peerVars
<1> QED BY <1>2, <1>7, <1>8
-----------------------------------------------------------------------------
\* Both kinds of initial state are well-typed.
LEMMA InitType == Init => TypeOK
<1>1. NoRoutes \in RoutesOf /\ NoCandidates \in [Prefixes -> SUBSET Candidate]
  BY DEF NoRoutes, RoutesOf, NoCandidates
<1>0. NoRoutes \in [Prefixes -> Exported \cup {None}]
  BY DEF NoRoutes
<1>5. \A S, e : e \in S => [p \in Peers |-> e] \in [Peers -> S]
  OBVIOUS
<1>6. 0 \in Nat /\ FALSE \in BOOLEAN /\ "down" \in {"down", "open", "up"}
  OBVIOUS
<1>2. MailInit => MailTypeOK
  BY DEF MailInit, MailTypeOK
<1>3. ColdInit => TypeOK
  <2>1. TableInit => TableTypeOK
    BY <1>1, <1>5, <1>6 DEF TableInit, TableTypeOK
  <2>2. PeerInit => PeerTypeOK
    BY <1>1 DEF PeerInit, PeerTypeOK
  <2>3. StatusInit => StatusTypeOK
    BY DEF StatusInit, StatusTypeOK
  <2>4. EnvColdInit => EnvTypeOK
    BY <1>0, <1>1, <1>5, <1>6 DEF EnvColdInit, EnvTypeOK
  <2> QED BY <1>2, <2>1, <2>2, <2>3, <2>4 DEF ColdInit, TypeOK
<1>4. WarmInit => TypeOK
  <2> SUFFICES ASSUME WarmInit PROVE TypeOK
    OBVIOUS
  <2>1. Cardinality(Established) \in Nat /\ Cardinality(Peers \ Established) \in Nat
    BY MailboxAssumption, ExchangeAssumption, FS_Subset, FS_CardinalityType,
       FS_Difference
  <2>2. TableTypeOK
    <3>1. rank \in [Peers -> 0 .. Cardinality(Established)]
      BY DEF WarmInit
    <3>2. rank \in [Peers -> Nat]
      BY <2>1, <3>1
    <3> QED BY <1>1, <1>5, <3>2 DEF WarmInit, TableTypeOK
  <2>3. PeerTypeOK
    BY <1>1, <2>1 DEF WarmInit, PeerTypeOK
  <2>4. StatusTypeOK
    BY DEF WarmInit, StatusTypeOK
  <2>5. EnvTypeOK
    BY <1>0, <1>1, <1>5 DEF WarmInit, EnvTypeOK
  <2> QED BY <1>2, <2>2, <2>3, <2>4, <2>5 DEF WarmInit, TypeOK
<1> QED BY <1>3, <1>4 DEF Init

LEMMA NextType == TypeOK /\ [Next]_vars => TypeOK'
<1> SUFFICES ASSUME TypeOK, [Next]_vars PROVE TypeOK'
  OBVIOUS
<1>1. CASE UNCHANGED vars
  BY <1>1 DEF vars, mailVars, tableVars, peerVars, envVars, TypeOK, MailTypeOK,
     TableTypeOK, PeerTypeOK, StatusTypeOK, EnvTypeOK
<1>2. CASE TableStep
  BY <1>2, TableStepType
<1>3. CASE StatusStep
  BY <1>3, StatusStepType
<1>4. CASE SendTopology
  BY <1>4, SendTopologyType
<1>5. ASSUME NEW p \in Peers, PeerStep(p) \/ DeliverEncode(p) \/ Neighbour(p)
      PROVE  TypeOK'
  BY <1>5, PeerStepType, DeliverEncodeType, NeighbourType
<1> QED BY <1>1, <1>2, <1>3, <1>4, <1>5 DEF Next

\* Every mailbox holds only messages its reader understands, and every table
\* of the route table, the peers and ExaBGP only routes of configured peers to
\* announced prefixes, whatever the neighbours do.
THEOREM TypeCorrect == Spec => []TypeOK
<1> QED BY InitType, NextType, PTL DEF Spec
-----------------------------------------------------------------------------
(***************************************************************************)
(* No neighbour is offered an echo.  What the table combines for a peer    *)
(* never holds a route of the peer or through its AS; the invariant        *)
(* EchoFree follows such routes through the peer's mailbox, adjIn,         *)
(* exported and the commands for ExaBGP to what ExaBGP announces.          *)
(***************************************************************************)

FitCandidate(p) == { c \in Candidate : c.src # p /\ Asn[p] \notin PathOf[c.attr] }
FitExported(p) == { e \in Exported : e.src # p /\ Asn[p] \notin PathOf[e.attr] }
FitMessage(p) ==
  { m \in PeerMessage :
      m.type = "update" => m.routes \in [Prefixes -> SUBSET FitCandidate(p)] }
FitEncode(p) == { m \in Encode : m.routes \subseteq FitExported(p) }

EchoFree ==
  \A p \in Peers :
    /\ peerMail[p] \in Seq(FitMessage(p))
    /\ out[p] \in Seq(FitEncode(p))
    /\ adjIn[p] \in [Prefixes -> SUBSET FitCandidate(p)]
    /\ exported[p] \subseteq FitExported(p)
    /\ ribOut[p] \in [Prefixes -> FitExported(p) \cup {None}]

LEMMA EchoFreeInit == Init => EchoFree
<1> SUFFICES ASSUME Init, NEW p \in Peers
             PROVE  /\ peerMail[p] \in Seq(FitMessage(p))
                    /\ out[p] \in Seq(FitEncode(p))
                    /\ adjIn[p] \in [Prefixes -> SUBSET FitCandidate(p)]
                    /\ exported[p] \subseteq FitExported(p)
                    /\ ribOut[p] \in [Prefixes -> FitExported(p) \cup {None}]
  BY DEF EchoFree
<1>1. /\ peerMail[p] = <<>> /\ out[p] = <<>> /\ adjIn[p] = NoCandidates
      /\ exported[p] = {} /\ ribOut[p] = NoRoutes
  BY DEF Init, ColdInit, WarmInit, MailInit, PeerInit, EnvColdInit
<1> QED BY <1>1 DEF NoCandidates, NoRoutes

\* What the table combines for a peer is fit for it.
LEMMA UpdateForFit ==
  ASSUME TypeOK, NEW q \in Peers
  PROVE  UpdateFor(q) \in FitMessage(q)
<1>1. Combined(q) \in [Prefixes -> SUBSET Candidate] /\ UpdateFor(q) \in PeerMessage
  BY UpdateForType DEF TypeOK
<1>2. ASSUME NEW x \in Prefixes, NEW c \in Combined(q)[x]
      PROVE  c \in FitCandidate(q)
  <2>1. c \in Candidate
    BY <1>1
  <2>2. c.src # q /\ Asn[q] \notin PathOf[c.attr]
    BY DEF Combined
  <2> QED BY <2>1, <2>2 DEF FitCandidate
<1>3. Combined(q) \in [Prefixes -> SUBSET FitCandidate(q)]
  BY <1>1, <1>2
<1> QED BY <1>1, <1>3 DEF FitMessage, UpdateFor

LEMMA EchoFreeTable == EchoFree /\ TypeOK /\ TableStep => EchoFree'
<1> SUFFICES ASSUME EchoFree, TypeOK, TableStep PROVE EchoFree'
  OBVIOUS
<1>1. UNCHANGED <<out, adjIn, exported, ribOut>>
  BY DEF TableStep, TableNext, TableUpdate, TableReload, UpdatePeers, peerVars, envVars
<1>2. ASSUME NEW p \in Peers PROVE peerMail'[p] \in Seq(FitMessage(p))
  <2>1. peerMail[p] \in Seq(FitMessage(p)) /\ UpdateFor(p) \in FitMessage(p)
    BY UpdateForFit DEF EchoFree
  <2>2. Append(peerMail[p], UpdateFor(p)) \in Seq(FitMessage(p))
    BY <2>1, SeqFacts
  <2>3. peerMail \in [Peers -> Seq(PeerMessage)]
    BY DEF TypeOK, MailTypeOK
  <2>4. peerMail'[p] = peerMail[p] \/ peerMail'[p] = Append(peerMail[p], UpdateFor(p))
    BY <2>3 DEF TableStep, TableNext, TableUpdate, TableReload, UpdatePeers, PostTo
  <2> QED BY <2>1, <2>2, <2>4
<1> QED BY <1>1, <1>2 DEF EchoFree, FitMessage, FitEncode, FitCandidate, FitExported

LEMMA EchoFreeStatus == EchoFree /\ TypeOK /\ StatusStep => EchoFree'
<1> SUFFICES ASSUME EchoFree, TypeOK, StatusStep PROVE EchoFree'
  OBVIOUS
<1>1. UNCHANGED <<out, adjIn, exported, ribOut>>
  BY DEF StatusStep, StatusNext, StatusUnchanged, StatusChanged, peerVars, envVars
<1>2. ASSUME NEW p \in Peers PROVE peerMail'[p] \in Seq(FitMessage(p))
  <2> DEFINE m == [type |-> "status", degraded |-> Missing(status')]
  <2>1. m \in FitMessage(p)
    BY MissingType DEF FitMessage, PeerMessage
  <2>2. peerMail[p] \in Seq(FitMessage(p))
    BY DEF EchoFree
  <2>3. Append(peerMail[p], m) \in Seq(FitMessage(p))
    BY <2>1, <2>2, SeqFacts
  <2>4. peerMail'[p] = peerMail[p] \/ peerMail'[p] = Append(peerMail[p], m)
    BY DEF StatusStep, StatusNext, StatusUnchanged, StatusChanged
  <2> QED BY <2>2, <2>3, <2>4
<1> QED BY <1>1, <1>2 DEF EchoFree, FitMessage, FitEncode, FitCandidate, FitExported

\* A peer exports only candidates it was given.
LEMMA FullRoutesFit ==
  ASSUME EchoFree, TypeOK, NEW p \in Peers
  PROVE  FullRoutes(p) \subseteq FitExported(p)
<1>1. ASSUME NEW x \in Prefixes, Best(Exportable(p, x)) # {}
      PROVE  Preferred(Exportable(p, x)) \in FitCandidate(p)
  <2>1. Preferred(Exportable(p, x)) \in Exportable(p, x)
    BY <1>1, PreferredIsCandidate
  <2>2. Exportable(p, x) \subseteq FitCandidate(p)
    BY DEF EchoFree, Exportable
  <2> QED BY <2>1, <2>2
<1>2. FullRoutes(p) \subseteq Exported
  BY FullRoutesType DEF TypeOK
<1> QED BY <1>1, <1>2 DEF FullRoutes, FitExported, FitCandidate

\* So what it exports or withdraws is fit for its neighbour.
LEMMA MessagesFit ==
  ASSUME NEW p \in Peers, NEW old \in SUBSET FitExported(p),
         NEW new \in SUBSET FitExported(p)
  PROVE  Messages(old, new) \in Seq(FitEncode(p))
<1>1. /\ [op |-> "withdraw", routes |-> old \ new] \in FitEncode(p)
      /\ [op |-> "advertise", routes |-> new \ old] \in FitEncode(p)
  BY DEF Encode, FitEncode, FitExported
<1> DEFINE w == IF old \ new = {} THEN <<>>
                ELSE << [op |-> "withdraw", routes |-> old \ new] >>
           a == IF new \ old = {} THEN <<>>
                ELSE << [op |-> "advertise", routes |-> new \ old] >>
<1>2. w \in Seq(FitEncode(p)) /\ a \in Seq(FitEncode(p))
  BY <1>1
<1>3. \A s, t \in Seq(FitEncode(p)) : s \o t \in Seq(FitEncode(p))
  OBVIOUS
<1>4. Messages(old, new) = w \o a
  BY DEF Messages
<1> HIDE DEF w, a
<1> QED BY <1>2, <1>3, <1>4

LEMMA EchoFreePeer ==
  ASSUME EchoFree, TypeOK, NEW q \in Peers, PeerStep(q)
  PROVE  EchoFree'
<1> SUFFICES ASSUME NEW p \in Peers
             PROVE  /\ peerMail'[p] \in Seq(FitMessage(p))
                    /\ out'[p] \in Seq(FitEncode(p))
                    /\ adjIn'[p] \in [Prefixes -> SUBSET FitCandidate(p)]
                    /\ exported'[p] \subseteq FitExported(p)
                    /\ ribOut'[p] \in [Prefixes -> FitExported(p) \cup {None}]
  BY DEF EchoFree, FitMessage, FitEncode, FitCandidate, FitExported
<1>1. /\ peerMail[p] \in Seq(FitMessage(p))
      /\ out[p] \in Seq(FitEncode(p))
      /\ adjIn[p] \in [Prefixes -> SUBSET FitCandidate(p)]
      /\ exported[p] \subseteq FitExported(p)
      /\ ribOut[p] \in [Prefixes -> FitExported(p) \cup {None}]
  BY DEF EchoFree
<1>2. ribOut' = ribOut
  BY DEF PeerStep, envVars
<1> USE DEF TypeOK, MailTypeOK, PeerTypeOK
<1>3. peerMail'[p] \in Seq(FitMessage(p))
  <2>1. peerMail' = peerMail \/ (peerMail' = Taken(q) /\ peerMail[q] # <<>>)
    BY DEF PeerStep, PeerNext, NextIs, ProcessOpen, ProcessUp, ProcessDown,
       ProcessStateSame, IgnoreUpdate, ProcessAnnounce,
       ProcessWithdraw, ProcessEor, IgnoreTableUpdate, ProcessTableUpdate,
       ProcessStatus, ProcessTopology, UpdateTables, ExportSkipped,
       ExportNothing, ExportRoutes, mailVars
  <2>2. \/ peerMail'[p] = peerMail[p]
        \/ peerMail'[p] = Tail(peerMail[p]) /\ peerMail[p] # <<>>
    BY <2>1 DEF Taken
  <2> QED BY <1>1, <2>2, SeqFacts
<1>4. adjIn'[p] \in [Prefixes -> SUBSET FitCandidate(p)]
  <2>1. CASE ProcessTableUpdate(q) /\ q = p
    <3>1. peerMail[p] # <<>> /\ Head(peerMail[p]).type = "update"
      BY <2>1 DEF ProcessTableUpdate, NextIs
    <3>2. Head(peerMail[p]) \in FitMessage(p)
      BY <1>1, <3>1, SeqFacts
    <3>3. adjIn'[p] = Head(peerMail[p]).routes
      BY <2>1 DEF ProcessTableUpdate
    <3> QED BY <3>1, <3>2, <3>3 DEF FitMessage
  <2>2. CASE ~(ProcessTableUpdate(q) /\ q = p)
    <3>1. adjIn'[p] = adjIn[p]
      BY <2>2 DEF PeerStep, PeerNext, ProcessOpen, ProcessUp, ProcessDown,
         ProcessStateSame, IgnoreUpdate, ProcessAnnounce, ProcessWithdraw,
         ProcessEor, IgnoreTableUpdate, ProcessTableUpdate, ProcessStatus,
         ProcessTopology, UpdateTables, ExportSkipped, ExportNothing,
         ExportRoutes, peerVars
    <3> QED BY <1>1, <3>1
  <2> QED BY <2>1, <2>2
<1>5. exported'[p] \subseteq FitExported(p)
  <2>1. exported'[p] \in {exported[p], {}, FullRoutes(p)}
    <3>1. CASE ProcessDown(q) \/ ExportNothing(q)
      <4>1. exported' = [exported EXCEPT ![q] = {}]
        BY <3>1 DEF ProcessDown, ExportNothing
      <4> QED BY <4>1
    <3>2. CASE ExportRoutes(q)
      <4>1. exported' = [exported EXCEPT ![q] = FullRoutes(q)]
        BY <3>2 DEF ExportRoutes
      <4> QED BY <4>1
    <3>3. CASE ~(ProcessDown(q) \/ ExportNothing(q) \/ ExportRoutes(q))
      <4>1. exported' = exported
        BY <3>3 DEF PeerStep, PeerNext, ProcessOpen, ProcessUp, ProcessStateSame,
           IgnoreUpdate, ProcessAnnounce, ProcessWithdraw, ProcessEor,
           IgnoreTableUpdate, ProcessTableUpdate, ProcessStatus, ProcessTopology,
           UpdateTables, ExportSkipped, peerVars
      <4> QED BY <4>1
    <3> QED BY <3>1, <3>2, <3>3
  <2> QED BY <1>1, <2>1, FullRoutesFit
<1>6. out'[p] \in Seq(FitEncode(p))
  <2>1. CASE ExportRoutes(q) /\ q = p
    <3>1. Messages(exported[p], FullRoutes(p)) \in Seq(FitEncode(p))
      BY <1>1, FullRoutesFit, MessagesFit
    <3>2. out'[p] = out[p] \o Messages(exported[p], FullRoutes(p))
      BY <2>1 DEF ExportRoutes
    <3> QED BY <1>1, <3>1, <3>2
  <2>2. CASE ~(ExportRoutes(q) /\ q = p)
    <3>1. out'[p] = out[p]
      BY <2>2 DEF PeerStep, PeerNext, ProcessOpen, ProcessUp, ProcessDown,
         ProcessStateSame, IgnoreUpdate, ProcessAnnounce, ProcessWithdraw,
         ProcessEor, IgnoreTableUpdate, ProcessTableUpdate, ProcessStatus,
         ProcessTopology, UpdateTables, ExportSkipped, ExportNothing,
         ExportRoutes, mailVars
    <3> QED BY <1>1, <3>1
  <2> QED BY <2>1, <2>2
<1> QED BY <1>1, <1>2, <1>3, <1>4, <1>5, <1>6

\* What neighbours send is no update of the table.
LEMMA EchoFreeToPeer ==
  ASSUME EchoFree, TypeOK, NEW q \in Peers, NEW m \in PeerMessage,
         m.type # "update", ToPeer(q, m)
  PROVE  /\ \A p \in Peers : peerMail'[p] \in Seq(FitMessage(p))
         /\ UNCHANGED <<out, adjIn, exported>>
<1>1. ASSUME NEW p \in Peers PROVE peerMail'[p] \in Seq(FitMessage(p))
  <2>1. peerMail[p] \in Seq(FitMessage(p)) /\ m \in FitMessage(p)
    BY DEF EchoFree, FitMessage
  <2>2. Append(peerMail[p], m) \in Seq(FitMessage(p))
    BY <2>1, SeqFacts
  <2>3. peerMail'[p] = peerMail[p] \/ peerMail'[p] = Append(peerMail[p], m)
    BY DEF ToPeer, PostTo, TypeOK, MailTypeOK
  <2> QED BY <2>1, <2>2, <2>3
<1> QED BY <1>1 DEF ToPeer, peerVars

LEMMA EchoFreeNeighbour ==
  ASSUME EchoFree, TypeOK, NEW q \in Peers, Neighbour(q)
  PROVE  EchoFree'
<1>1. PICK m \in PeerMessage : m.type # "update" /\ ToPeer(q, m)
  <2>1. /\ [type |-> "open", caps |-> CapabilitiesOf(q)] \in PeerMessage
        /\ [type |-> "state", up |-> TRUE] \in PeerMessage
        /\ [type |-> "state", up |-> FALSE] \in PeerMessage
        /\ [type |-> "eor"] \in PeerMessage
    BY DEF CapabilitiesOf, PeerMessage, Capability
  <2>2. \A x \in Prefixes : [type |-> "withdraw", pfx |-> x] \in PeerMessage
    BY DEF PeerMessage
  <2>3. \A x \in Prefixes, a \in Attrs :
          [type |-> "announce", pfx |-> x, attr |-> a] \in PeerMessage
    BY DEF PeerMessage
  <2> QED BY <2>1, <2>2, <2>3 DEF Neighbour, NeighbourOpen, NeighbourUp,
          NeighbourDown, NeighbourAnnounce, NeighbourWithdraw, NeighbourEor
<1>2. /\ \A p \in Peers : peerMail'[p] \in Seq(FitMessage(p))
      /\ UNCHANGED <<out, adjIn, exported>>
  BY <1>1, EchoFreeToPeer
<1>3. \A p \in Peers : ribOut'[p] = ribOut[p] \/ ribOut'[p] = NoRoutes
  BY DEF Neighbour, NeighbourOpen, NeighbourUp, NeighbourDown,
     NeighbourAnnounce, NeighbourWithdraw, NeighbourEor, TypeOK, EnvTypeOK
<1>4. \A p \in Peers : NoRoutes \in [Prefixes -> FitExported(p) \cup {None}]
  BY DEF NoRoutes
<1>5. \A p \in Peers : ribOut'[p] \in [Prefixes -> FitExported(p) \cup {None}]
  BY <1>3, <1>4 DEF EchoFree
<1> QED BY <1>2, <1>5
    DEF EchoFree, FitMessage, FitEncode, FitCandidate, FitExported

LEMMA EchoFreeTopology == EchoFree /\ TypeOK /\ SendTopology => EchoFree'
<1> SUFFICES ASSUME EchoFree, TypeOK, SendTopology PROVE EchoFree'
  OBVIOUS
<1>1. UNCHANGED <<out, adjIn, exported, ribOut>>
  BY DEF SendTopology, peerVars
<1>2. ASSUME NEW p \in Peers PROVE peerMail'[p] \in Seq(FitMessage(p))
  <2>1. [type |-> "topology"] \in FitMessage(p) /\ peerMail[p] \in Seq(FitMessage(p))
    BY DEF FitMessage, PeerMessage, EchoFree
  <2>2. peerMail'[p] = Append(peerMail[p], [type |-> "topology"])
    BY DEF SendTopology
  <2> QED BY <2>1, <2>2, SeqFacts
<1> QED BY <1>1, <1>2 DEF EchoFree, FitMessage, FitEncode, FitCandidate, FitExported

LEMMA EchoFreeDeliver ==
  ASSUME EchoFree, TypeOK, NEW q \in Peers, DeliverEncode(q)
  PROVE  EchoFree'
<1>1. UNCHANGED <<peerMail, adjIn, exported>>
  BY DEF DeliverEncode, peerVars
<1>2. out[q] \in Seq(FitEncode(q)) /\ out[q] # <<>>
  BY DEF EchoFree, DeliverEncode
<1>3. Head(out[q]) \in FitEncode(q) /\ Tail(out[q]) \in Seq(FitEncode(q))
  BY <1>2, SeqFacts
<1>4. \A p \in Peers : out'[p] \in Seq(FitEncode(p))
  BY <1>3 DEF DeliverEncode, EchoFree, TypeOK, MailTypeOK
<1> DEFINE m == Head(out[q])
           touched == {r.pfx : r \in m.routes}
           new == [x \in Prefixes |->
                     IF x \notin touched THEN ribOut[q][x]
                     ELSE IF m.op = "withdraw" THEN None
                     ELSE CHOOSE r \in m.routes : r.pfx = x]
<1>5. ASSUME NEW x \in Prefixes PROVE new[x] \in FitExported(q) \cup {None}
  <2>1. x \in touched => (CHOOSE r \in m.routes : r.pfx = x) \in m.routes
    OBVIOUS
  <2>2. m.routes \subseteq FitExported(q)
    BY <1>3 DEF FitEncode
  <2>3. ribOut[q][x] \in FitExported(q) \cup {None}
    BY DEF EchoFree
  <2> QED BY <2>1, <2>2, <2>3
<1>6. new \in [Prefixes -> FitExported(q) \cup {None}]
  BY <1>5
<1>7. ribOut' = [ribOut EXCEPT ![q] = new]
  BY DEF DeliverEncode
<1> HIDE DEF new
<1>8. \A p \in Peers : ribOut'[p] \in [Prefixes -> FitExported(p) \cup {None}]
  BY <1>6, <1>7 DEF EchoFree, TypeOK, EnvTypeOK
<1> QED BY <1>1, <1>4, <1>8
    DEF EchoFree, FitMessage, FitEncode, FitCandidate, FitExported

LEMMA EchoFreeNext == EchoFree /\ TypeOK /\ [Next]_vars => EchoFree'
<1> SUFFICES ASSUME EchoFree, TypeOK, [Next]_vars PROVE EchoFree'
  OBVIOUS
<1>1. CASE UNCHANGED vars
  BY <1>1 DEF vars, mailVars, peerVars, envVars, EchoFree, FitMessage,
     FitEncode, FitCandidate, FitExported
<1>2. CASE TableStep \/ StatusStep \/ SendTopology
  BY <1>2, EchoFreeTable, EchoFreeStatus, EchoFreeTopology
<1>3. ASSUME NEW p \in Peers, PeerStep(p) \/ DeliverEncode(p) \/ Neighbour(p)
      PROVE  EchoFree'
  BY <1>3, EchoFreePeer, EchoFreeDeliver, EchoFreeNeighbour
<1> QED BY <1>1, <1>2, <1>3 DEF Next

\* No neighbour is ever offered its own route or one that went through its AS,
\* however updates, session changes and exports interleave.
THEOREM NeverEchoes == Spec => []NoEcho
<1>1. EchoFree => NoEcho
  <2> SUFFICES ASSUME EchoFree, NEW p \in Peers, NEW x \in Prefixes,
                      ribOut[p][x] # None
               PROVE  /\ ribOut[p][x].src # p
                      /\ Asn[p] \notin PathOf[ribOut[p][x].attr]
    BY DEF NoEcho
  <2>1. ribOut[p][x] \in FitExported(p)
    BY DEF EchoFree
  <2> QED BY <2>1 DEF FitExported
<1> QED BY <1>1, EchoFreeInit, EchoFreeNext, TypeCorrect, PTL DEF Spec
=============================================================================
