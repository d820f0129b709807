------------------------- MODULE BGPSpeakersProofs -------------------------
(***************************************************************************)
(* Theorems about the path between BGP neighbours and their peer           *)
(* processes, for any peers and speakers, any bounds and any order in      *)
(* which the processes come to their queues.                               *)
(***************************************************************************)
EXTENDS BGPSpeakers, FiniteSetTheorems, SequenceTheorems, TLAPS

-----------------------------------------------------------------------------
(***************************************************************************)
(* The messages and the queues of them.                                    *)
(***************************************************************************)
LEMMA Made ==
  /\ \A p \in Peers, w \in Event \cup {"keepalive"} :
       [type |-> "neighbour", peer |-> p, what |-> w] \in SpeakerMessage
  /\ \A p \in Peers, w \in Operation :
       [type |-> "command", peer |-> p, what |-> w] \in SpeakerMessage
  /\ \A w \in Other : [type |-> "other", what |-> w] \in SpeakerMessage
  /\ \A p \in Peers, w \in Event : ToPeer(p, w) \in QueueMessage
  /\ \A s \in Speakers : Alive(s) \in QueueMessage
  /\ \A s \in Speakers : asnKnown[s] \in BOOLEAN => Silent(s) \in QueueMessage
  /\ \A p \in Peers, up \in BOOLEAN :
       [type |-> "status", peer |-> p, up |-> up] \in QueueMessage
  /\ \A p \in Peers, w \in Operation :
       [type |-> "encode", peer |-> p, what |-> w] \in QueueMessage
  /\ \A w \in Event : [type |-> "bgp", what |-> w] \in PeerMessage
  /\ \A n \in Nat : [type |-> "status", degraded |-> n] \in PeerMessage
  BY DEF SpeakerMessage, QueueMessage, PeerMessage, ToPeer, Alive, Silent

LEMMA SpeakerMessageIs ==
  ASSUME NEW m \in SpeakerMessage
  PROVE  /\ m.type \in {"neighbour", "command", "other"}
         /\ m.type # "other" => m.peer \in Peers
         /\ m.type = "neighbour" =>
              /\ m = [type |-> "neighbour", peer |-> m.peer, what |-> m.what]
              /\ m.what \in Event \cup {"keepalive"}
         /\ m.type = "command" =>
              /\ m = [type |-> "command", peer |-> m.peer, what |-> m.what]
              /\ m.what \in Operation
  BY DEF SpeakerMessage

LEMMA QueueMessageIs ==
  ASSUME NEW m \in QueueMessage
  PROVE  /\ m.type \in {"bgp", "healthcheck", "status", "encode"}
         /\ m.type = "bgp" =>
              m.peer \in Peers /\ m.what \in Event /\ m = ToPeer(m.peer, m.what)
         /\ m.type = "healthcheck" =>
              m.speaker \in Speakers /\ m.up \in BOOLEAN /\ m.asn \in BOOLEAN
         /\ m.type = "status" => m.peer \in Peers /\ m.up \in BOOLEAN
         /\ m.type = "encode" =>
              /\ m.peer \in Peers /\ m.what \in Operation
              /\ m = [type |-> "encode", peer |-> m.peer, what |-> m.what]
  BY DEF QueueMessage, ToPeer

LEMMA PeerMessageIs ==
  ASSUME NEW m \in PeerMessage
  PROVE  /\ m.type \in {"bgp", "status"}
         /\ m.type = "bgp" =>
              m.what \in Event /\ m = [type |-> "bgp", what |-> m.what]
         /\ m.type = "status" => m.degraded \in Nat
  BY DEF PeerMessage

LEMMA SeqFacts ==
  ASSUME NEW S, NEW q \in Seq(S)
  PROVE  /\ Len(q) \in Nat
         /\ \A i \in 1 .. Len(q) : q[i] \in S
         /\ \A x \in S : Append(q, x) \in Seq(S)
         /\ \A r \in Seq(S) : q \o r \in Seq(S)
         /\ q # <<>> => /\ Head(q) \in S /\ Head(q) = q[1]
                        /\ Tail(q) \in Seq(S) /\ Len(q) > 0
                        /\ Len(Tail(q)) = Len(q) - 1
                        /\ \A i \in 1 .. Len(q) - 1 : Tail(q)[i] = q[i + 1]
  OBVIOUS

LEMMA MissingIs ==
  ASSUME NEW S, IsFiniteSet(S), NEW st, DOMAIN st = S
  PROVE  Missing(st) \in Nat
<1>1. {p \in S : ~st[p]} \in SUBSET S
  OBVIOUS
<1>2. IsFiniteSet({p \in S : ~st[p]})
  BY <1>1, FS_Subset
<1> QED BY <1>2, FS_CardinalityType DEF Missing

LEMMA ReportsTyped ==
  ASSUME NEW s \in Speakers, NEW p \in Peers, NEW w \in Event \cup {"keepalive"}
  PROVE  Reports(s, p, w) \in Seq(QueueMessage)
<1>1. ToPeer(p, "up") \in QueueMessage /\ Alive(s) \in QueueMessage
  BY Made DEF Event
<1>2. w # "keepalive" => ToPeer(p, w) \in QueueMessage
  BY Made
<1> QED BY <1>1, <1>2 DEF Reports
-----------------------------------------------------------------------------
(***************************************************************************)
(* Types.                                                                  *)
(***************************************************************************)
LEMMA TypeInit == Init => TypeOK
  BY DEF Init, TypeOK

LEMMA SendsTyped ==
  ASSUME TypeOK, NEW p \in Peers, NEW w \in Event \cup {"keepalive"},
         Sends(p, w), session' \in [Peers -> {"down", "open", "confirmed", "up"}],
         sessions' \in [Peers -> Nat]
  PROVE  TypeOK'
<1> DEFINE m == [type |-> "neighbour", peer |-> p, what |-> w]
<1>1. m \in SpeakerMessage
  BY Made
<1>2. SpeakerOf[p] \in Speakers
  BY SpeakerAssumption
<1> HIDE DEF m
<1>3. inbox' \in [Speakers -> Seq(SpeakerMessage)]
  <2>1. Append(inbox[SpeakerOf[p]], m) \in Seq(SpeakerMessage)
    BY <1>1, <1>2, SeqFacts DEF TypeOK
  <2>2. inbox' = [inbox EXCEPT ![SpeakerOf[p]] = Append(@, m)]
    BY DEF Sends, m
  <2> QED BY <1>2, <2>1, <2>2 DEF TypeOK
<1> QED BY <1>3 DEF Sends, TypeOK, controllerVars, peerVars

LEMMA NeighbourTyped ==
  ASSUME TypeOK, NEW p \in Peers, Neighbour(p)
  PROVE  TypeOK'
<1>1. MaxSessions[p] \in Nat /\ sessions[p] \in Nat
  BY SpeakerAssumption DEF TypeOK
<1>2. CASE NeighbourOpen(p)
  <2>1. sessions[p] + 1 \in Nat
    BY <1>1
  <2>2. sessions' \in [Peers -> Nat]
    BY <1>2, <2>1 DEF NeighbourOpen, TypeOK
  <2>3. session' \in [Peers -> {"down", "open", "confirmed", "up"}]
    BY <1>2 DEF NeighbourOpen, TypeOK
  <2> QED BY <1>2, <2>2, <2>3, SendsTyped DEF NeighbourOpen, Event
<1>3. CASE NeighbourConfirm(p)
  BY <1>1, <1>3, SendsTyped DEF NeighbourConfirm, TypeOK, Event
<1>4. CASE NeighbourUp(p)
  BY <1>1, <1>4, SendsTyped DEF NeighbourUp, TypeOK, Event
<1>5. CASE NeighbourDown(p)
  <2>1. sessions[p] + 1 \in Nat
    BY <1>1
  <2>2. sessions' \in [Peers -> Nat]
    BY <1>5, <2>1 DEF NeighbourDown, TypeOK
  <2>3. session' \in [Peers -> {"down", "open", "confirmed", "up"}]
    BY <1>5 DEF NeighbourDown, TypeOK
  <2> QED BY <1>5, <2>2, <2>3, SendsTyped DEF NeighbourDown, Event
<1>6. CASE NeighbourSays(p)
  BY <1>1, <1>6, SendsTyped DEF NeighbourSays, TypeOK, Event
<1> QED BY <1>2, <1>3, <1>4, <1>5, <1>6 DEF Neighbour

LEMMA HeadOfInbox ==
  ASSUME TypeOK, NEW s \in Speakers, NEW type, SpeakerGets(s, type)
  PROVE  /\ inbox[s] \in Seq(SpeakerMessage) /\ inbox[s] # <<>>
         /\ Head(inbox[s]) \in SpeakerMessage /\ Head(inbox[s]).type = type
         /\ [inbox EXCEPT ![s] = Tail(@)] \in [Speakers -> Seq(SpeakerMessage)]
<1>1. inbox[s] \in Seq(SpeakerMessage) /\ inbox[s] # <<>>
  BY DEF TypeOK, SpeakerGets
<1>2. Head(inbox[s]) \in SpeakerMessage /\ Tail(inbox[s]) \in Seq(SpeakerMessage)
  BY <1>1, SeqFacts
<1> QED BY <1>1, <1>2 DEF TypeOK, SpeakerGets

LEMMA SpeakerTyped ==
  ASSUME TypeOK, NEW s \in Speakers,
         \/ SpeakerStep(s) \/ SpeakerSilent(s) \/ TimePasses(s)
         \/ OtherSays(s) \/ ExaBGPLost(s) \/ ExaBGPBack(s)
  PROVE  TypeOK'
<1>1. CASE SpeakerHears(s)
  <2> DEFINE m == Head(inbox[s])
  <2>1. /\ SpeakerGets(s, "neighbour")
        /\ inbox' = [inbox EXCEPT ![s] = Tail(@)]
        /\ heard' = [heard EXCEPT ![s] = "recent"]
        /\ asnKnown' = [asnKnown EXCEPT ![s] = @ \/ m.what = "keepalive"]
        /\ queue' = queue \o Reports(s, m.peer, m.what)
        /\ UNCHANGED <<outgoing, controllerVars, peerVars, envVars, delivered>>
    BY <1>1 DEF SpeakerHears
  <2>2. inbox' \in [Speakers -> Seq(SpeakerMessage)]
    BY <2>1, HeadOfInbox
  <2>3. m.peer \in Peers /\ m.what \in Event \cup {"keepalive"}
    BY <2>1, HeadOfInbox, SpeakerMessageIs
  <2>4. queue' \in Seq(QueueMessage)
    BY <2>1, <2>3, ReportsTyped, SeqFacts DEF TypeOK
  <2>5. asnKnown' \in [Speakers -> BOOLEAN]
    BY <2>1 DEF TypeOK
  <2>6. heard' \in [Speakers -> {"never", "recent", "old"}]
    BY <2>1 DEF TypeOK
  <2> QED BY <2>1, <2>2, <2>4, <2>5, <2>6
          DEF TypeOK, controllerVars, peerVars, envVars
<1>2. CASE SpeakerSends(s)
  <2> DEFINE m == Head(inbox[s])
             out == [peer |-> m.peer, what |-> m.what]
  <2>1. /\ SpeakerGets(s, "command")
        /\ inbox' = [inbox EXCEPT ![s] = Tail(@)]
        /\ outgoing' = IF SpeakerOf[m.peer] = s THEN Append(outgoing, out)
                       ELSE outgoing
        /\ UNCHANGED <<heard, asnKnown, queue, controllerVars, peerVars,
                       envVars, delivered>>
    BY <1>2 DEF SpeakerSends
  <2>2. inbox' \in [Speakers -> Seq(SpeakerMessage)]
    BY <2>1, HeadOfInbox
  <2>3. m.peer \in Peers /\ m.what \in Operation
    BY <2>1, HeadOfInbox, SpeakerMessageIs
  <2>4. out \in [peer : Peers, what : Operation]
    BY <2>3
  <2>5. outgoing' \in Seq([peer : Peers, what : Operation])
    <3> HIDE DEF out
    <3> QED BY <2>1, <2>4, SeqFacts DEF TypeOK
  <2> QED BY <2>1, <2>2, <2>5 DEF TypeOK, controllerVars, peerVars, envVars
<1>3. CASE SpeakerSilent(s)
  <2>1. Silent(s) \in QueueMessage
    BY Made DEF TypeOK
  <2>2. queue' \in Seq(QueueMessage)
    BY <1>3, <2>1, SeqFacts DEF SpeakerSilent, TypeOK
  <2> QED BY <1>3, <2>2
          DEF SpeakerSilent, TypeOK, speakerVars, controllerVars, peerVars, envVars
<1>4. CASE TimePasses(s)
  BY <1>4 DEF TimePasses, TypeOK, controllerVars, peerVars, envVars
<1>5. CASE ExaBGPLost(s)
  <2>1. MaxSilences \in Nat /\ silences[s] \in Nat
    BY SpeakerAssumption DEF TypeOK
  <2>2. /\ present' \in [Speakers -> BOOLEAN]
        /\ silences' \in [Speakers -> Nat]
        /\ session' \in [Peers -> {"down", "open", "confirmed", "up"}]
    BY <1>5, <2>1 DEF ExaBGPLost, TypeOK
  <2> QED BY <1>5, <2>2
          DEF ExaBGPLost, TypeOK, speakerVars, controllerVars, peerVars
<1>6. CASE ExaBGPBack(s)
  BY <1>6 DEF ExaBGPBack, TypeOK, speakerVars, controllerVars, peerVars
<1>7. CASE SpeakerHearsOther(s)
  <2> DEFINE m == Head(inbox[s])
  <2>1. /\ SpeakerGets(s, "other")
        /\ inbox' = [inbox EXCEPT ![s] = Tail(@)]
        /\ heard' = [heard EXCEPT ![s] = "recent"]
        /\ asnKnown' = [asnKnown EXCEPT ![s] = @ \/ m.what = "keepalive"]
        /\ queue' = Append(queue, Alive(s)) \/ queue' = queue
        /\ UNCHANGED <<outgoing, controllerVars, peerVars, envVars, delivered>>
    BY <1>7 DEF SpeakerHearsOther
  <2>2. inbox' \in [Speakers -> Seq(SpeakerMessage)]
    BY <2>1, HeadOfInbox
  <2>3. queue' \in Seq(QueueMessage)
    <3>1. Alive(s) \in QueueMessage /\ queue \in Seq(QueueMessage)
      BY Made DEF TypeOK
    <3>2. Append(queue, Alive(s)) \in Seq(QueueMessage)
      BY <3>1, SeqFacts
    <3> QED BY <2>1, <3>1, <3>2
  <2>4. asnKnown' \in [Speakers -> BOOLEAN]
    BY <2>1 DEF TypeOK
  <2>5. heard' \in [Speakers -> {"never", "recent", "old"}]
    BY <2>1 DEF TypeOK
  <2> QED BY <2>1, <2>2, <2>3, <2>4, <2>5
          DEF TypeOK, controllerVars, peerVars, envVars
<1>8. CASE OtherSays(s)
  <2>1. PICK w \in Other :
          inbox' = [inbox EXCEPT ![s] = Append(@, [type |-> "other", what |-> w])]
    BY <1>8 DEF OtherSays
  <2> DEFINE m == [type |-> "other", what |-> w]
  <2>2. m \in SpeakerMessage
    BY Made
  <2> HIDE DEF m
  <2>3. Append(inbox[s], m) \in Seq(SpeakerMessage)
    BY <2>2, SeqFacts DEF TypeOK
  <2>4. inbox' \in [Speakers -> Seq(SpeakerMessage)]
    BY <2>1, <2>3 DEF TypeOK, m
  <2> QED BY <1>8, <2>4 DEF OtherSays, TypeOK, controllerVars, peerVars, envVars
<1> QED BY <1>1, <1>2, <1>3, <1>4, <1>5, <1>6, <1>7, <1>8 DEF SpeakerStep

LEMMA HeadOfQueue ==
  ASSUME TypeOK, NEW type, ControllerGets(type)
  PROVE  /\ queue # <<>> /\ Head(queue) \in QueueMessage
         /\ Head(queue).type = type /\ Tail(queue) \in Seq(QueueMessage)
<1>1. queue \in Seq(QueueMessage) /\ queue # <<>>
  BY DEF TypeOK, ControllerGets
<1> QED BY <1>1, SeqFacts DEF ControllerGets

LEMMA MailAppended ==
  ASSUME TypeOK, NEW p \in Peers, NEW m \in PeerMessage
  PROVE  Append(peerMail[p], m) \in Seq(PeerMessage)
<1>1. peerMail[p] \in Seq(PeerMessage)
  BY DEF TypeOK
<1> QED BY <1>1, SeqFacts

LEMMA ToldTyped ==
  ASSUME TypeOK, NEW ps, NEW n \in Nat, Tell(ps, n)
  PROVE  peerMail' \in [Peers -> Seq(PeerMessage)]
<1>1. [type |-> "status", degraded |-> n] \in PeerMessage
  BY Made
<1>2. \A p \in Peers :
        Append(peerMail[p], [type |-> "status", degraded |-> n]) \in Seq(PeerMessage)
  BY <1>1, MailAppended
<1> QED BY <1>2 DEF Tell, TypeOK

LEMMA ControllerTyped ==
  ASSUME TypeOK, ControllerStep
  PROVE  TypeOK'
<1> DEFINE m == Head(queue)
<1>1. CASE ProcessBgp
  <2>1. m \in QueueMessage /\ m.type = "bgp" /\ queue' \in Seq(QueueMessage)
    BY <1>1, HeadOfQueue DEF ProcessBgp
  <2>2. m.peer \in Peers /\ m.what \in Event
    BY <2>1, QueueMessageIs
  <2>3. [type |-> "bgp", what |-> m.what] \in PeerMessage
    BY <2>2, Made
  <2>4. peerMail' \in [Peers -> Seq(PeerMessage)]
    BY <1>1, <2>2, <2>3, MailAppended DEF ProcessBgp, TypeOK
  <2> QED BY <1>1, <2>1, <2>4
          DEF ProcessBgp, TypeOK, speakerVars, controllerVars, envVars
<1>2. CASE ProcessStatus
  <2>1. m \in QueueMessage /\ m.type = "status" /\ queue' \in Seq(QueueMessage)
    BY <1>2, HeadOfQueue DEF ProcessStatus
  <2>2. m.peer \in Peers /\ m.up \in BOOLEAN
    BY <2>1, QueueMessageIs
  <2>3. status' \in [Peers -> BOOLEAN]
    BY <1>2, <2>2 DEF ProcessStatus, TypeOK
  <2>4. Missing(status') \in Nat
    BY <2>3, MissingIs, SpeakerAssumption
  <2>5. peerMail' \in [Peers -> Seq(PeerMessage)]
    BY <1>2, <2>4, ToldTyped DEF ProcessStatus, TypeOK
  <2> QED BY <1>2, <2>1, <2>3, <2>5
          DEF ProcessStatus, TypeOK, speakerVars, envVars
<1>3. CASE ProcessHealthcheck
  <2>1. m \in QueueMessage /\ m.type = "healthcheck" /\ queue' \in Seq(QueueMessage)
    BY <1>3, HeadOfQueue DEF ProcessHealthcheck
  <2>2. m.speaker \in Speakers /\ m.up \in BOOLEAN
    BY <2>1, QueueMessageIs
  <2>3. speakerStatus' \in [Speakers -> BOOLEAN]
    BY <1>3, <2>2 DEF ProcessHealthcheck, TypeOK
  <2>4. Missing(speakerStatus') \in Nat
    BY <2>3, MissingIs, SpeakerAssumption
  <2>5. peerMail' \in [Peers -> Seq(PeerMessage)]
    BY <1>3, <2>4, ToldTyped DEF ProcessHealthcheck, TypeOK
  <2> QED BY <1>3, <2>1, <2>3, <2>5
          DEF ProcessHealthcheck, TypeOK, speakerVars, envVars
<1>4. CASE ProcessEncode
  <2> DEFINE s == SpeakerList[1]
             c == [type |-> "command", peer |-> m.peer, what |-> m.what]
  <2>1. m \in QueueMessage /\ m.type = "encode" /\ queue' \in Seq(QueueMessage)
    BY <1>4, HeadOfQueue DEF ProcessEncode
  <2>2. m.peer \in Peers /\ m.what \in Operation
    BY <2>1, QueueMessageIs
  <2>3. c \in SpeakerMessage
    BY <2>2, Made
  <2>4. inbox' = IF SpeakerOf[m.peer] = s THEN [inbox EXCEPT ![s] = Append(@, c)]
                 ELSE inbox
    BY <1>4 DEF ProcessEncode
  <2>5. SpeakerOf[m.peer] \in Speakers
    BY <2>2, SpeakerAssumption
  <2> HIDE DEF c, s
  <2>6. inbox' \in [Speakers -> Seq(SpeakerMessage)]
    BY <2>3, <2>4, <2>5, SeqFacts DEF TypeOK
  <2> QED BY <1>4, <2>1, <2>6
          DEF ProcessEncode, TypeOK, controllerVars, peerVars, envVars
<1> QED BY <1>1, <1>2, <1>3, <1>4 DEF ControllerStep

LEMMA PeerTyped ==
  ASSUME TypeOK, NEW p \in Peers, PeerStep(p) \/ PeerExports(p)
  PROVE  TypeOK'
<1> DEFINE m == Head(peerMail[p])
<1>0. \A type : PeerGets(p, type) =>
        m \in PeerMessage /\ m.type = type /\ Tail(peerMail[p]) \in Seq(PeerMessage)
  <2>1. peerMail[p] \in Seq(PeerMessage)
    BY DEF TypeOK
  <2> QED BY <2>1, SeqFacts DEF PeerGets
<1>1. CASE PeerHears(p)
  <2>1. PeerGets(p, "bgp") /\ peerMail' = [peerMail EXCEPT ![p] = Tail(@)]
    BY <1>1 DEF PeerHears
  <2>2. peerMail' \in [Peers -> Seq(PeerMessage)]
    BY <1>0, <2>1 DEF TypeOK
  <2> DEFINE up == m.what = "up"
             st == [type |-> "status", peer |-> p, up |-> up]
  <2>3. up \in BOOLEAN /\ st \in QueueMessage
    BY Made
  <2>4. \/ active' = [active EXCEPT ![p] = up] /\ queue' = Append(queue, st)
        \/ UNCHANGED <<active, queue>>
    BY <1>1 DEF PeerHears
  <2> HIDE DEF up, st
  <2>6. Append(queue, st) \in Seq(QueueMessage)
    BY <2>3, SeqFacts DEF TypeOK
  <2>7. active' \in [Peers -> BOOLEAN]
    BY <2>3, <2>4 DEF TypeOK
  <2>5. queue' \in Seq(QueueMessage)
    BY <2>4, <2>6 DEF TypeOK
  <2> QED BY <1>1, <2>2, <2>5, <2>7
          DEF PeerHears, TypeOK, speakerVars, controllerVars, envVars
<1>2. CASE PeerStatus(p)
  <2>1. PeerGets(p, "status") /\ peerMail' = [peerMail EXCEPT ![p] = Tail(@)]
    BY <1>2 DEF PeerStatus
  <2>2. peerMail' \in [Peers -> Seq(PeerMessage)]
    BY <1>0, <2>1 DEF TypeOK
  <2>3. m.degraded \in Nat
    BY <1>0, <2>1, PeerMessageIs
  <2> QED BY <1>2, <2>2, <2>3
          DEF PeerStatus, TypeOK, speakerVars, controllerVars, envVars
<1>3. CASE PeerExports(p)
  <2>1. PICK op \in Operation :
          queue' = Append(queue, [type |-> "encode", peer |-> p, what |-> op])
    BY <1>3 DEF PeerExports
  <2>2. [type |-> "encode", peer |-> p, what |-> op] \in QueueMessage
    BY Made
  <2>3. queue' \in Seq(QueueMessage)
    BY <2>1, <2>2, SeqFacts DEF TypeOK
  <2>4. commands' \in [Peers -> Nat]
    BY <1>3 DEF PeerExports, TypeOK
  <2> QED BY <1>3, <2>3, <2>4
          DEF PeerExports, TypeOK, speakerVars, controllerVars, envVars
<1> QED BY <1>1, <1>2, <1>3 DEF PeerStep

LEMMA SenderTyped ==
  ASSUME TypeOK, SenderFetches
  PROVE  TypeOK'
<1>1. /\ Head(outgoing) \in [peer : Peers, what : Operation]
      /\ outgoing' \in Seq([peer : Peers, what : Operation])
  BY SeqFacts DEF SenderFetches, TypeOK
<1> DEFINE p == Head(outgoing).peer
<1>2. p \in Peers
  BY <1>1
<1>3. delivered[p] + 1 \in Nat
  BY <1>2 DEF TypeOK
<1>4. delivered' = [delivered EXCEPT ![p] = delivered[p] + 1]
  BY DEF SenderFetches
<1> HIDE DEF p
<1>5. delivered' \in [Peers -> Nat]
  BY <1>3, <1>4 DEF TypeOK
<1> QED BY <1>1, <1>5
        DEF SenderFetches, TypeOK, speakerVars, controllerVars, peerVars, envVars

LEMMA TypeNext == TypeOK /\ [Next]_vars => TypeOK'
<1> SUFFICES ASSUME TypeOK, [Next]_vars PROVE TypeOK'
  OBVIOUS
<1>1. CASE UNCHANGED vars
  BY <1>1 DEF vars, TypeOK, speakerVars, controllerVars, peerVars, envVars
<1>2. CASE Next
  BY <1>2, NeighbourTyped, SpeakerTyped, ControllerTyped, PeerTyped, SenderTyped
     DEF Next
<1> QED BY <1>1, <1>2

\* Queues, mailboxes and what the processes remember are well typed, for any
\* peers and speakers.
THEOREM TypeCorrect == Spec => []TypeOK
<1> QED BY TypeInit, TypeNext, PTL DEF Spec
-----------------------------------------------------------------------------
(***************************************************************************)
(* Signs of life.  The last report of a speaker with an open session is a  *)
(* good one, in the queue or read, or will be when it reads its mailbox.   *)
(***************************************************************************)
\* Where in q speaker s reports on itself.
OwnReports(q, s) == {i \in DOMAIN q : /\ q[i].type = "healthcheck"
                                      /\ q[i].speaker = s}

LastIsUp(q, st, s) ==
  \/ \E i \in OwnReports(q, s) : /\ \A j \in OwnReports(q, s) : j <= i
                                 /\ q[i].up = TRUE
  \/ OwnReports(q, s) = {} /\ st[s] = TRUE

\* That the speaker heard something of late is what keeps it from reporting
\* its silence, and that its ExaBGP is there is what keeps time from passing.
ConnectedInv ==
  \A p \in Peers : session[p] # "down" =>
    /\ present[SpeakerOf[p]]
    /\ \/ Unread(SpeakerOf[p])
       \/ /\ heard[SpeakerOf[p]] = "recent"
          /\ LastIsUp(queue, speakerStatus, SpeakerOf[p])

\* What is added to the queue and is no report of s does not matter to s.
LEMMA OthersAdded ==
  ASSUME NEW q \in Seq(QueueMessage), NEW st, NEW s, LastIsUp(q, st, s),
         NEW m, m.type # "healthcheck" \/ m.speaker # s
  PROVE  LastIsUp(Append(q, m), st, s)
<1> DEFINE r == Append(q, m)
<1>1. /\ DOMAIN q = 1 .. Len(q) /\ DOMAIN r = 1 .. Len(q) + 1
      /\ Len(q) \in Nat
      /\ \A i \in 1 .. Len(q) : r[i] = q[i]
      /\ r[Len(q) + 1] = m
  OBVIOUS
<1> HIDE DEF r
<1>2. OwnReports(r, s) = OwnReports(q, s)
  BY <1>1 DEF OwnReports
<1>3. \A i \in OwnReports(q, s) : r[i] = q[i]
  BY <1>1 DEF OwnReports
<1>4. LastIsUp(r, st, s)
  BY <1>2, <1>3 DEF LastIsUp
<1> QED BY <1>4 DEF r

LEMMA AliveAdded ==
  ASSUME NEW q \in Seq(QueueMessage), NEW st, NEW s
  PROVE  LastIsUp(Append(q, Alive(s)), st, s)
<1> DEFINE r == Append(q, Alive(s))
<1>1. /\ DOMAIN r = 1 .. Len(q) + 1 /\ Len(q) \in Nat
      /\ r[Len(q) + 1] = Alive(s)
  OBVIOUS
<1> HIDE DEF r
<1>2. Len(q) + 1 \in OwnReports(r, s)
  BY <1>1 DEF OwnReports, Alive
<1>3. \A j \in OwnReports(r, s) : j <= Len(q) + 1
  BY <1>1 DEF OwnReports
<1>4. LastIsUp(r, st, s)
  BY <1>1, <1>2, <1>3 DEF LastIsUp, Alive
<1> QED BY <1>4 DEF r

\* Reading the head of the queue does not matter to s if the controller
\* records what it says.
LEMMA HeadRead ==
  ASSUME NEW q \in Seq(QueueMessage), q # <<>>, NEW st, NEW s,
         LastIsUp(q, st, s), NEW stNew,
         IF Head(q).type = "healthcheck" /\ Head(q).speaker = s
         THEN stNew[s] = Head(q).up ELSE stNew[s] = st[s]
  PROVE  LastIsUp(Tail(q), stNew, s)
<1> DEFINE r == Tail(q)
<1>1. /\ DOMAIN q = 1 .. Len(q) /\ DOMAIN r = 1 .. Len(q) - 1
      /\ Len(q) \in Nat /\ Len(q) > 0
      /\ \A i \in 1 .. Len(q) - 1 : r[i] = q[i + 1]
      /\ Head(q) = q[1]
  OBVIOUS
<1> HIDE DEF r
<1>2. \A i \in OwnReports(q, s) : i # 1 => i - 1 \in OwnReports(r, s)
  <2> SUFFICES ASSUME NEW i \in OwnReports(q, s), i # 1
               PROVE  i - 1 \in OwnReports(r, s)
    OBVIOUS
  <2>1. i \in 2 .. Len(q) /\ i - 1 \in 1 .. Len(q) - 1 /\ (i - 1) + 1 = i
    BY <1>1 DEF OwnReports
  <2>2. r[i - 1] = q[i]
    BY <1>1, <2>1
  <2> QED BY <1>1, <2>1, <2>2 DEF OwnReports
<1>3. \A i \in OwnReports(r, s) : i + 1 \in OwnReports(q, s) /\ i \in Nat
  BY <1>1 DEF OwnReports
<1>4. CASE OwnReports(q, s) = {}
  <2>1. 1 \notin OwnReports(q, s)
    BY <1>4
  <2>2. stNew[s] = st[s]
    BY <1>1, <2>1 DEF OwnReports
  <2>3. OwnReports(r, s) = {}
    BY <1>3, <1>4
  <2>4. LastIsUp(r, stNew, s)
    BY <1>4, <2>2, <2>3 DEF LastIsUp
  <2> QED BY <2>4 DEF r
<1>5. CASE OwnReports(q, s) # {}
  <2>1. PICK i \in OwnReports(q, s) : /\ \A j \in OwnReports(q, s) : j <= i
                                      /\ q[i].up = TRUE
    BY <1>5 DEF LastIsUp
  <2>2. i \in 1 .. Len(q)
    BY <1>1, <2>1 DEF OwnReports
  <2>3. CASE i = 1
    <3>1. OwnReports(r, s) = {}
      <4> SUFFICES ASSUME NEW j \in OwnReports(r, s) PROVE FALSE
        OBVIOUS
      <4>1. j + 1 \in OwnReports(q, s) /\ j \in 1 .. Len(q) - 1
        BY <1>1, <1>3 DEF OwnReports
      <4> QED BY <1>1, <2>1, <2>3, <4>1
    <3>2. stNew[s] = TRUE
      BY <1>1, <2>1, <2>3 DEF OwnReports
    <3>3. LastIsUp(r, stNew, s)
      BY <3>1, <3>2 DEF LastIsUp
    <3> QED BY <3>3 DEF r
  <2>4. CASE i # 1
    <3>1. i - 1 \in OwnReports(r, s)
      BY <1>2, <2>4
    <3>2. \A j \in OwnReports(r, s) : j <= i - 1
      <4> SUFFICES ASSUME NEW j \in OwnReports(r, s) PROVE j <= i - 1
        OBVIOUS
      <4>1. j + 1 <= i /\ j \in Nat
        BY <1>3, <2>1
      <4> QED BY <1>1, <2>2, <4>1
    <3>3. r[i - 1] = q[i]
      <4>1. i - 1 \in 1 .. Len(q) - 1 /\ (i - 1) + 1 = i
        BY <1>1, <2>2, <2>4
      <4> QED BY <1>1, <4>1
    <3>4. LastIsUp(r, stNew, s)
      BY <2>1, <3>1, <3>2, <3>3 DEF LastIsUp
    <3> QED BY <3>4 DEF r
  <2> QED BY <2>3, <2>4
<1> QED BY <1>4, <1>5

LEMMA TwoAdded ==
  ASSUME NEW S, NEW q \in Seq(S), NEW a \in S, NEW b \in S
  PROVE  /\ q \o <<a, b>> = Append(Append(q, a), b)
         /\ Append(q, a) \in Seq(S)
<1>1. Append(Append(q, a), b) = q \o <<a, b>>
  OBVIOUS
<1> QED BY <1>1

\* The two messages in which a speaker reports something it heard.
LEMMA ReportsAre ==
  ASSUME NEW s \in Speakers, NEW p \in Peers, NEW w \in Event \cup {"keepalive"}
  PROVE  \E e \in Event :
           /\ e = IF w = "keepalive" THEN "up" ELSE w
           /\ \/ Reports(s, p, w) = << Alive(s), ToPeer(p, e) >>
              \/ Reports(s, p, w) = << ToPeer(p, e), Alive(s) >>
<1>1. CASE w = "update"
  BY <1>1 DEF Reports, Event
<1>2. CASE w = "keepalive"
  BY <1>2 DEF Reports, Event
<1>3. CASE w # "update" /\ w # "keepalive"
  BY <1>3 DEF Reports, Event
<1> QED BY <1>1, <1>2, <1>3

\* What goes to the end of a mailbox leaves the rest unread, and so does
\* reading what is not a neighbour's.
LEMMA UnreadGrows ==
  ASSUME TypeOK, NEW s \in Speakers, NEW m \in SpeakerMessage,
         inbox' = [inbox EXCEPT ![s] = Append(@, m)]
  PROVE  /\ \A x \in Speakers : Unread(x) => Unread(x)'
         /\ m.type = "neighbour" => Unread(s)'
<1> DEFINE q == inbox[s]
<1>1. q \in Seq(SpeakerMessage)
  BY DEF TypeOK
<1>2. inbox'[s] = Append(q, m) /\ \A x \in Speakers : x # s => inbox'[x] = inbox[x]
  BY DEF TypeOK
<1> HIDE DEF q
<1>3. /\ DOMAIN q = 1 .. Len(q) /\ DOMAIN Append(q, m) = 1 .. Len(q) + 1
      /\ Len(q) \in Nat
      /\ \A i \in 1 .. Len(q) : Append(q, m)[i] = q[i]
      /\ Append(q, m)[Len(q) + 1] = m
  BY <1>1
<1>4. Len(q) + 1 \in DOMAIN Append(q, m) /\ DOMAIN q \subseteq DOMAIN Append(q, m)
  BY <1>3
<1>5. m.type = "neighbour" => Unread(s)'
  BY <1>2, <1>3, <1>4 DEF Unread
<1>6. Unread(s) => Unread(s)'
  BY <1>2, <1>3, <1>4 DEF Unread, q
<1> QED BY <1>2, <1>5, <1>6 DEF Unread

LEMMA UnreadShrinks ==
  ASSUME TypeOK, NEW s \in Speakers, inbox[s] # <<>>,
         inbox' = [inbox EXCEPT ![s] = Tail(@)]
  PROVE  \A x \in Speakers :
           x # s \/ Head(inbox[s]).type # "neighbour" => (Unread(x) => Unread(x)')
<1> DEFINE q == inbox[s]
<1>1. q \in Seq(SpeakerMessage) /\ q # <<>>
  BY DEF TypeOK
<1>2. inbox'[s] = Tail(q) /\ \A x \in Speakers : x # s => inbox'[x] = inbox[x]
  BY DEF TypeOK
<1> HIDE DEF q
<1>3. /\ DOMAIN q = 1 .. Len(q) /\ DOMAIN Tail(q) = 1 .. Len(q) - 1
      /\ Len(q) \in Nat
      /\ \A i \in 1 .. Len(q) - 1 : Tail(q)[i] = q[i + 1]
      /\ Head(q) = q[1]
  BY <1>1
<1>4. ASSUME Head(q).type # "neighbour", Unread(s) PROVE Unread(s)'
  <2>1. PICK i \in DOMAIN q : q[i].type = "neighbour"
    BY <1>4 DEF Unread, q
  <2>2. i # 1
    BY <1>3, <1>4, <2>1
  <2>3. i - 1 \in DOMAIN Tail(q) /\ Tail(q)[i - 1] = q[i]
    <3>1. i \in 1 .. Len(q) /\ i # 1
      BY <1>3, <2>1, <2>2
    <3>2. i - 1 \in 1 .. Len(q) - 1 /\ (i - 1) + 1 = i
      BY <1>3, <3>1
    <3> QED BY <1>3, <3>2
  <2> QED BY <1>2, <2>1, <2>3 DEF Unread
<1> QED BY <1>2, <1>4 DEF Unread, q

LEMMA ConnectedInit == Init => ConnectedInv
  BY DEF Init, ConnectedInv

LEMMA ConnectedKept ==
  ASSUME ConnectedInv, UNCHANGED <<session, present, heard>>,
         \A s \in Speakers : Unread(s) => Unread(s)',
         \A s \in Speakers :
           LastIsUp(queue, speakerStatus, s) => LastIsUp(queue', speakerStatus', s)
  PROVE  ConnectedInv'
  BY SpeakerAssumption DEF ConnectedInv

\* Whatever a speaker hears of its neighbours, its last report is a good one.
LEMMA HeardReports ==
  ASSUME TypeOK, NEW s \in Speakers, SpeakerHears(s), NEW x \in Speakers,
         x = s \/ LastIsUp(queue, speakerStatus, x)
  PROVE  LastIsUp(queue', speakerStatus', x)
<1> DEFINE m == Head(inbox[s])
<1>1. /\ SpeakerGets(s, "neighbour")
      /\ queue' = queue \o Reports(s, m.peer, m.what)
      /\ speakerStatus' = speakerStatus
  BY DEF SpeakerHears, controllerVars
<1>2. m.peer \in Peers /\ m.what \in Event \cup {"keepalive"}
  BY <1>1, HeadOfInbox, SpeakerMessageIs
<1>3. PICK e \in Event :
        \/ Reports(s, m.peer, m.what) = << Alive(s), ToPeer(m.peer, e) >>
        \/ Reports(s, m.peer, m.what) = << ToPeer(m.peer, e), Alive(s) >>
  BY <1>2, ReportsAre
<1> DEFINE a == Alive(s)
           b == ToPeer(m.peer, e)
<1>4. a \in QueueMessage /\ b \in QueueMessage /\ queue \in Seq(QueueMessage)
  BY <1>2, Made DEF TypeOK
<1>5. b.type = "bgp" /\ (x # s => a.speaker # x)
  BY DEF ToPeer, Alive
<1>7. CASE queue' = queue \o <<a, b>>
  <2>1. queue' = Append(Append(queue, a), b) /\ Append(queue, a) \in Seq(QueueMessage)
    BY <1>4, <1>7, TwoAdded
  <2>2. LastIsUp(Append(queue, a), speakerStatus, x)
    <3>1. CASE x = s
      BY <1>4, <3>1, AliveAdded
    <3>2. CASE x # s
      BY <1>4, <1>5, <3>2, OthersAdded
    <3> QED BY <3>1, <3>2
  <2> HIDE DEF a, b
  <2> QED BY <1>1, <1>5, <2>1, <2>2, OthersAdded
<1>8. CASE queue' = queue \o <<b, a>>
  <2>1. queue' = Append(Append(queue, b), a) /\ Append(queue, b) \in Seq(QueueMessage)
    BY <1>4, <1>8, TwoAdded
  <2>2. CASE x = s
    BY <1>1, <2>1, <2>2, AliveAdded
  <2>3. CASE x # s
    <3>1. LastIsUp(Append(queue, b), speakerStatus, x)
      BY <1>4, <1>5, <2>3, OthersAdded
    <3> HIDE DEF a, b
    <3> QED BY <1>1, <1>5, <2>1, <2>3, <3>1, OthersAdded
  <2> QED BY <2>2, <2>3
<1> QED BY <1>1, <1>3, <1>7, <1>8

LEMMA ConnectedHears ==
  ASSUME TypeOK, ConnectedInv, NEW s \in Speakers, SpeakerHears(s)
  PROVE  ConnectedInv'
<1>1. /\ inbox[s] # <<>> /\ inbox' = [inbox EXCEPT ![s] = Tail(@)]
      /\ heard' = [heard EXCEPT ![s] = "recent"]
      /\ UNCHANGED <<session, present>>
  BY DEF SpeakerHears, SpeakerGets, envVars
<1> SUFFICES ASSUME NEW p \in Peers, session[p] # "down"
             PROVE  \/ Unread(SpeakerOf[p])'
                    \/ /\ heard'[SpeakerOf[p]] = "recent"
                       /\ LastIsUp(queue', speakerStatus', SpeakerOf[p])
  BY <1>1 DEF ConnectedInv
<1> DEFINE x == SpeakerOf[p]
<1>2. x \in Speakers
  BY SpeakerAssumption
<1> HIDE DEF x
<1>3. CASE x = s
  BY <1>1, <1>2, <1>3, HeardReports DEF TypeOK, x
<1>4. CASE x # s
  <2>1. Unread(x) \/ (heard[x] = "recent" /\ LastIsUp(queue, speakerStatus, x))
    BY DEF ConnectedInv, x
  <2>2. Unread(x) => Unread(x)'
    BY <1>1, <1>2, <1>4, UnreadShrinks
  <2>3. heard'[x] = heard[x]
    BY <1>1, <1>2, <1>4 DEF TypeOK
  <2> QED BY <1>2, <2>1, <2>2, <2>3, HeardReports DEF x
<1> QED BY <1>3, <1>4

LEMMA ConnectedHearsOther ==
  ASSUME TypeOK, ConnectedInv, NEW s \in Speakers, SpeakerHearsOther(s)
  PROVE  ConnectedInv'
<1>1. /\ SpeakerGets(s, "other") /\ inbox' = [inbox EXCEPT ![s] = Tail(@)]
      /\ heard' = [heard EXCEPT ![s] = "recent"]
      /\ queue' = Append(queue, Alive(s)) \/ queue' = queue
      /\ UNCHANGED <<session, present, speakerStatus>>
  BY DEF SpeakerHearsOther, envVars, controllerVars
<1>2. \A x \in Speakers : Unread(x) => Unread(x)'
  BY <1>1, UnreadShrinks DEF SpeakerGets
<1>3. ASSUME NEW x \in Speakers, LastIsUp(queue, speakerStatus, x)
      PROVE  LastIsUp(queue', speakerStatus', x)
  <2>1. queue \in Seq(QueueMessage) /\ (x # s => Alive(s).speaker # x)
    BY DEF TypeOK, Alive
  <2>2. LastIsUp(Append(queue, Alive(s)), speakerStatus, x)
    <3>1. CASE x = s
      BY <2>1, <3>1, AliveAdded
    <3>2. CASE x # s
      BY <1>3, <2>1, <3>2, OthersAdded
    <3> QED BY <3>1, <3>2
  <2> QED BY <1>1, <1>3, <2>2
<1>4. \A x \in Speakers : heard[x] = "recent" => heard'[x] = "recent"
  BY <1>1 DEF TypeOK
<1> QED BY <1>1, <1>2, <1>3, <1>4, SpeakerAssumption DEF ConnectedInv

LEMMA ConnectedNeighbour ==
  ASSUME TypeOK, ConnectedInv, NEW p \in Peers, Neighbour(p)
  PROVE  ConnectedInv'
<1>1. PICK w \in Event \cup {"keepalive"} : Sends(p, w)
  BY DEF Neighbour, NeighbourOpen, NeighbourConfirm, NeighbourUp, NeighbourDown,
         NeighbourSays, Event
<1> DEFINE m == [type |-> "neighbour", peer |-> p, what |-> w]
<1>2. m \in SpeakerMessage /\ m.type = "neighbour" /\ SpeakerOf[p] \in Speakers
  BY Made, SpeakerAssumption
<1>3. /\ inbox' = [inbox EXCEPT ![SpeakerOf[p]] = Append(@, m)]
      /\ present[SpeakerOf[p]]
      /\ UNCHANGED <<present, heard, queue, speakerStatus>>
  BY <1>1 DEF Sends, controllerVars
<1> HIDE DEF m
<1>4. Unread(SpeakerOf[p])' /\ \A x \in Speakers : Unread(x) => Unread(x)'
  BY <1>2, <1>3, UnreadGrows
<1>5. \A y \in Peers : y # p => session'[y] = session[y]
  BY DEF Neighbour, NeighbourOpen, NeighbourConfirm, NeighbourUp, NeighbourDown,
         NeighbourSays, TypeOK
<1> SUFFICES ASSUME NEW y \in Peers, session'[y] # "down"
             PROVE  /\ present'[SpeakerOf[y]]
                    /\ \/ Unread(SpeakerOf[y])'
                       \/ /\ heard'[SpeakerOf[y]] = "recent"
                          /\ LastIsUp(queue', speakerStatus', SpeakerOf[y])
  BY DEF ConnectedInv
<1>6. SpeakerOf[y] \in Speakers
  BY SpeakerAssumption
<1> QED BY <1>3, <1>4, <1>5, <1>6 DEF ConnectedInv

LEMMA LastRead ==
  ASSUME TypeOK, ControllerStep, NEW s \in Speakers, LastIsUp(queue, speakerStatus, s)
  PROVE  LastIsUp(queue', speakerStatus', s)
<1>1. /\ queue \in Seq(QueueMessage) /\ queue # <<>> /\ queue' = Tail(queue)
      /\ Head(queue) \in QueueMessage
  BY HeadOfQueue DEF TypeOK, ControllerStep, ProcessBgp, ProcessStatus,
     ProcessHealthcheck, ProcessEncode
<1>2. IF Head(queue).type = "healthcheck" /\ Head(queue).speaker = s
      THEN speakerStatus'[s] = Head(queue).up
      ELSE speakerStatus'[s] = speakerStatus[s]
  <2>1. CASE ProcessHealthcheck
    <3> DEFINE m == Head(queue)
    <3>1. m.type = "healthcheck" /\ m.speaker \in Speakers /\ m.up \in BOOLEAN
      BY <2>1, HeadOfQueue, QueueMessageIs DEF ProcessHealthcheck
    <3>2. \/ speakerStatus[m.speaker] = m.up /\ speakerStatus' = speakerStatus
          \/ speakerStatus' = [speakerStatus EXCEPT ![m.speaker] = m.up]
      BY <2>1 DEF ProcessHealthcheck
    <3> HIDE DEF m
    <3>3. IF m.speaker = s THEN speakerStatus'[s] = m.up
          ELSE speakerStatus'[s] = speakerStatus[s]
      BY <3>1, <3>2 DEF TypeOK
    <3> QED BY <3>1, <3>3 DEF m
  <2>2. CASE ProcessBgp \/ ProcessStatus \/ ProcessEncode
    BY <2>2 DEF ProcessBgp, ProcessStatus, ProcessEncode, ControllerGets,
       controllerVars
  <2> QED BY <2>1, <2>2 DEF ControllerStep
<1> QED BY <1>1, <1>2, HeadRead

LEMMA ConnectedRead ==
  ASSUME TypeOK, ConnectedInv, ControllerStep
  PROVE  ConnectedInv'
<1>1. UNCHANGED <<session, present, heard>>
  BY DEF ControllerStep, ProcessBgp, ProcessStatus, ProcessHealthcheck,
         ProcessEncode, speakerVars, envVars
<1>2. \A x \in Speakers : Unread(x) => Unread(x)'
  <2>1. CASE inbox' = inbox
    BY <2>1 DEF Unread
  <2>2. CASE ProcessEncode /\ inbox' # inbox
    <3> DEFINE h == Head(queue)
               c == [type |-> "command", peer |-> h.peer, what |-> h.what]
    <3>1. h.peer \in Peers /\ h.what \in Operation
      BY <2>2, HeadOfQueue, QueueMessageIs DEF ProcessEncode
    <3>2. SpeakerOf[h.peer] \in Speakers /\ c \in SpeakerMessage
      BY <3>1, Made, SpeakerAssumption
    <3>3. inbox' = [inbox EXCEPT ![SpeakerOf[h.peer]] = Append(@, c)]
      BY <2>2 DEF ProcessEncode
    <3> HIDE DEF c, h
    <3> QED BY <3>2, <3>3, UnreadGrows
  <2> QED BY <2>1, <2>2
          DEF ControllerStep, ProcessBgp, ProcessStatus, ProcessHealthcheck, speakerVars
<1> QED BY <1>1, <1>2, LastRead, ConnectedKept

LEMMA ConnectedNext == TypeOK /\ ConnectedInv /\ [Next]_vars => ConnectedInv'
<1> SUFFICES ASSUME TypeOK, ConnectedInv, [Next]_vars PROVE ConnectedInv'
  OBVIOUS
<1>0. queue \in Seq(QueueMessage)
  BY DEF TypeOK
<1>1. ASSUME NEW s \in Speakers, SpeakerHears(s) \/ SpeakerHearsOther(s)
      PROVE  ConnectedInv'
  BY <1>1, ConnectedHears, ConnectedHearsOther
<1>2. CASE ControllerStep
  BY <1>2, ConnectedRead
<1>3. ASSUME NEW s \in Speakers, SpeakerSilent(s) PROVE ConnectedInv'
  <2>1. /\ heard[s] = "old" /\ queue' = Append(queue, Silent(s))
        /\ UNCHANGED <<speakerStatus, heard, inbox, session, present>>
    BY <1>3 DEF SpeakerSilent, controllerVars, speakerVars, envVars
  <2>2. \A x \in Speakers : x # s => Silent(s).speaker # x
    BY DEF Silent
  <2>3. \A x \in Speakers : x # s /\ LastIsUp(queue, speakerStatus, x) =>
                              LastIsUp(queue', speakerStatus', x)
    BY <1>0, <2>1, <2>2, OthersAdded
  <2>4. \A x \in Speakers : Unread(x) => Unread(x)'
    BY <2>1 DEF Unread
  <2> QED BY <2>1, <2>3, <2>4, SpeakerAssumption DEF ConnectedInv
<1>4. ASSUME NEW p \in Peers, PeerHears(p) PROVE ConnectedInv'
  <2> DEFINE m == [type |-> "status", peer |-> p,
                   up |-> (Head(peerMail[p]).what = "up")]
  <2>1. /\ queue' = Append(queue, m) \/ queue' = queue
        /\ UNCHANGED <<speakerStatus, heard, inbox, session, present>>
    BY <1>4 DEF PeerHears, controllerVars, speakerVars, envVars
  <2>2. m.type # "healthcheck"
    OBVIOUS
  <2> HIDE DEF m
  <2>3. \A x \in Speakers : LastIsUp(queue, speakerStatus, x) =>
                              LastIsUp(queue', speakerStatus', x)
    BY <1>0, <2>1, <2>2, OthersAdded
  <2> QED BY <2>1, <2>3, ConnectedKept DEF Unread
<1>5. ASSUME NEW p \in Peers, PeerExports(p) PROVE ConnectedInv'
  <2>1. PICK op \in Operation :
          queue' = Append(queue, [type |-> "encode", peer |-> p, what |-> op])
    BY <1>5 DEF PeerExports
  <2> DEFINE m == [type |-> "encode", peer |-> p, what |-> op]
  <2>2. m.type # "healthcheck" /\ queue' = Append(queue, m)
    BY <2>1
  <2>3. UNCHANGED <<speakerStatus, heard, inbox, session, present>>
    BY <1>5 DEF PeerExports, controllerVars, speakerVars, envVars
  <2> HIDE DEF m
  <2>4. \A x \in Speakers : LastIsUp(queue, speakerStatus, x) =>
                              LastIsUp(queue', speakerStatus', x)
    BY <1>0, <2>2, <2>3, OthersAdded
  <2> QED BY <2>3, <2>4, ConnectedKept DEF Unread
<1>6. ASSUME NEW s \in Speakers, TimePasses(s) PROVE ConnectedInv'
  <2>1. /\ ~present[s] \/ \A p \in PeersOf(s) : session[p] = "down"
        /\ \A x \in Speakers : x # s => heard'[x] = heard[x]
        /\ UNCHANGED <<inbox, queue, speakerStatus, session, present>>
    BY <1>6 DEF TimePasses, TypeOK, controllerVars, envVars
  <2>2. \A p \in Peers : session[p] # "down" => SpeakerOf[p] # s
    BY <2>1 DEF ConnectedInv, PeersOf
  <2> QED BY <2>1, <2>2, SpeakerAssumption DEF ConnectedInv, Unread
<1>7. ASSUME NEW s \in Speakers, ExaBGPLost(s) \/ ExaBGPBack(s) PROVE ConnectedInv'
  <2>1. UNCHANGED <<inbox, queue, speakerStatus, heard>>
    BY <1>7 DEF ExaBGPLost, ExaBGPBack, speakerVars, controllerVars
  <2>2. ASSUME NEW p \in Peers, session'[p] # "down"
        PROVE  session[p] # "down" /\ (present[SpeakerOf[p]] => present'[SpeakerOf[p]])
    <3>1. SpeakerOf[p] \in Speakers
      BY SpeakerAssumption
    <3>2. CASE ExaBGPLost(s)
      BY <2>2, <3>1, <3>2 DEF ExaBGPLost, TypeOK
    <3>3. CASE ExaBGPBack(s)
      BY <2>2, <3>1, <3>3 DEF ExaBGPBack, TypeOK
    <3> QED BY <1>7, <3>2, <3>3
  <2> QED BY <2>1, <2>2 DEF ConnectedInv, Unread
<1>8. ASSUME NEW s \in Speakers, OtherSays(s) PROVE ConnectedInv'
  <2>1. PICK w \in Other :
          inbox' = [inbox EXCEPT ![s] = Append(@, [type |-> "other", what |-> w])]
    BY <1>8 DEF OtherSays
  <2>2. \A x \in Speakers : Unread(x) => Unread(x)'
    BY <2>1, Made, UnreadGrows
  <2> QED BY <1>8, <2>2, ConnectedKept DEF OtherSays, controllerVars, envVars
<1>9. ASSUME NEW s \in Speakers, SpeakerSends(s) PROVE ConnectedInv'
  <2>1. \A x \in Speakers : Unread(x) => Unread(x)'
    BY <1>9, UnreadShrinks DEF SpeakerSends, SpeakerGets
  <2> QED BY <1>9, <2>1, ConnectedKept DEF SpeakerSends, controllerVars, envVars
<1>10. ASSUME NEW p \in Peers, Neighbour(p) PROVE ConnectedInv'
  BY <1>10, ConnectedNeighbour
<1>11. CASE UNCHANGED <<queue, speakerStatus, heard, inbox, session, present>>
  BY <1>11 DEF ConnectedInv, Unread
<1>12. ASSUME NEW p \in Peers, PeerStatus(p) PROVE ConnectedInv'
  BY <1>11, <1>12 DEF PeerStatus, controllerVars, speakerVars, envVars
<1>13. CASE SenderFetches \/ UNCHANGED vars
  BY <1>11, <1>13 DEF SenderFetches, vars, controllerVars, speakerVars, envVars
<1> QED BY <1>1, <1>2, <1>3, <1>4, <1>5, <1>6, <1>7, <1>8, <1>9, <1>10, <1>12, <1>13
        DEF Next, SpeakerStep, PeerStep

\* The report that LastReport chooses is the one that is known to be good.
LEMMA LastIs ==
  ASSUME TypeOK, NEW s \in Speakers, LastIsUp(queue, speakerStatus, s)
  PROVE  LastReport(s)
<1> DEFINE R == OwnReports(queue, s)
<1>0. LastReport(s) =
        IF R = {} THEN speakerStatus[s]
        ELSE queue[CHOOSE i \in R : \A j \in R : j <= i].up
  BY DEF LastReport, OwnReports
<1>1. CASE R = {}
  BY <1>0, <1>1 DEF LastIsUp
<1>2. CASE R # {}
  <2>1. PICK i \in R : (\A j \in R : j <= i) /\ queue[i].up = TRUE
    BY <1>2 DEF LastIsUp
  <2> DEFINE k == CHOOSE x \in R : \A j \in R : j <= x
  <2>2. k \in R /\ \A j \in R : j <= k
    <3> HIDE DEF R
    <3> QED BY <2>1
  <2>3. k = i
    <3>1. R \subseteq Nat
      BY DEF OwnReports, TypeOK
    <3> HIDE DEF R, k
    <3>2. k <= i /\ i <= k /\ k \in Nat /\ i \in Nat
      BY <2>1, <2>2, <3>1
    <3> QED BY <3>2
  <2>4. LastReport(s) = queue[k].up
    <3> HIDE DEF R
    <3> QED BY <1>0, <1>2
  <2> QED BY <2>1, <2>3, <2>4
<1> QED BY <1>1, <1>2

\* The speaker of a neighbour with an open session is not believed silent for
\* good: its last report, read or unread, is a good one, or what makes it give
\* one waits in its mailbox.
THEOREM ConnectedAlwaysAlive == Spec => []ConnectedIsAlive
<1>1. TypeOK /\ ConnectedInv => ConnectedIsAlive
  BY LastIs, SpeakerAssumption DEF ConnectedInv, ConnectedIsAlive
<1>2. Spec => []ConnectedInv
  BY ConnectedInit, ConnectedNext, TypeCorrect, PTL DEF Spec
<1> QED BY <1>1, <1>2, TypeCorrect, PTL
-----------------------------------------------------------------------------
(***************************************************************************)
(* What Named makes of a queue.                                            *)
(***************************************************************************)
\* Induction, from counting: in a set that has a gap at m the steps up to m
\* would be an injection into fewer elements.
LEMMA FromZeroUp ==
  ASSUME NEW S, 0 \in S, \A n \in Nat : n \in S => n + 1 \in S
  PROVE  \A n \in Nat : n \in S
<1> SUFFICES ASSUME NEW m \in Nat, m \notin S PROVE FALSE
  OBVIOUS
<1> DEFINE T == { n \in 0 .. m : n \in S }
           up == [n \in T |-> n + 1]
<1>1. IsFiniteSet(T)
  <2>1. IsFiniteSet(0 .. m)
    BY FS_Interval
  <2>2. T \in SUBSET (0 .. m)
    OBVIOUS
  <2> HIDE DEF T
  <2> QED BY <2>1, <2>2, FS_Subset
<1>2. up \in Injection(T, T \ {0})
  <2>1. \A n \in T : n + 1 \in T \ {0}
    OBVIOUS
  <2> QED BY <2>1 DEF Injection, IsInjective
<1>3. /\ IsFiniteSet(T \ {0}) /\ Cardinality(T \ {0}) = Cardinality(T) - 1
      /\ Cardinality(T) \in Nat
  <2>1. 0 \in T
    OBVIOUS
  <2> HIDE DEF T
  <2> QED BY <1>1, <2>1, FS_RemoveElement, FS_CardinalityType
<1>4. Cardinality(T) <= Cardinality(T \ {0})
  <2> HIDE DEF T, up
  <2> QED BY <1>2, <1>3, FS_Injection
<1> QED BY <1>3, <1>4

NamedStep(seq, name, old, i) ==
  IF seq[i] \in DOMAIN name THEN Append(old, name[seq[i]]) ELSE old

\* The function is what its recursive definition says.
LEMMA NamedUpToIs ==
  ASSUME NEW seq, Len(seq) \in Nat, NEW name
  PROVE  /\ NamedUpTo(seq, name)[0] = <<>>
         /\ \A i \in 1 .. Len(seq) :
              NamedUpTo(seq, name)[i] =
                NamedStep(seq, name, NamedUpTo(seq, name)[i - 1], i)
<1> DEFINE Step(old, i) == IF seq[i] \in DOMAIN name THEN Append(old, name[seq[i]])
                           ELSE old
           First == <<>>
           Is(f, m) == f = [i \in 0 .. m |-> IF i = 0 THEN First ELSE Step(f[i - 1], i)]
           S == { m \in Nat : \E f : Is(f, m) }
<1>0. NamedUpTo(seq, name) = CHOOSE f : Is(f, Len(seq))
  BY DEF NamedUpTo
<1> HIDE DEF Step, First
<1>1. 0 \in S
  <2> DEFINE f == [i \in 0 .. 0 |-> First]
  <2>1. Is(f, 0)
    OBVIOUS
  <2> QED BY <2>1
<1>2. ASSUME NEW m \in Nat, m \in S PROVE m + 1 \in S
  <2>1. PICK f : Is(f, m)
    BY <1>2
  <2> DEFINE g == [i \in 0 .. m + 1 |-> IF i = m + 1 THEN Step(f[m], i) ELSE f[i]]
  <2>2. \A i \in 0 .. m + 1 : g[i] = IF i = 0 THEN First ELSE Step(g[i - 1], i)
    BY <2>1
  <2>3. Is(g, m + 1)
    <3> DEFINE h == [i \in 0 .. m + 1 |-> IF i = 0 THEN First ELSE Step(g[i - 1], i)]
    <3>1. DOMAIN g = 0 .. m + 1 /\ DOMAIN h = 0 .. m + 1
      OBVIOUS
    <3>2. g = h
      BY <2>2
    <3> QED BY <3>2
  <2> HIDE DEF Is, g
  <2> QED BY <2>3
<1>3. \E f : Is(f, Len(seq))
  <2>1. Len(seq) \in S
    <3> HIDE DEF S
    <3> QED BY <1>1, <1>2, FromZeroUp
  <2> QED BY <2>1
<1>4. Is(NamedUpTo(seq, name), Len(seq))
  <2> HIDE DEF Is
  <2> QED BY <1>0, <1>3
<1>5. /\ NamedUpTo(seq, name)[0] = First
      /\ \A i \in 1 .. Len(seq) :
           NamedUpTo(seq, name)[i] = Step(NamedUpTo(seq, name)[i - 1], i)
  BY <1>4
<1> QED BY <1>5 DEF Step, First, NamedStep

\* What a position is named depends on the positions up to it.
LEMMA NamedSame ==
  ASSUME NEW q, NEW r, Len(q) \in Nat, Len(r) \in Nat, NEW name, NEW n \in Nat,
         n <= Len(q), n <= Len(r), \A i \in 1 .. n : q[i] = r[i]
  PROVE  NamedUpTo(q, name)[n] = NamedUpTo(r, name)[n]
<1> DEFINE S == { i \in Nat : i <= n => NamedUpTo(q, name)[i] = NamedUpTo(r, name)[i] }
<1>1. 0 \in S
  BY NamedUpToIs
<1>2. ASSUME NEW i \in Nat, i \in S PROVE i + 1 \in S
  <2> SUFFICES ASSUME i + 1 <= n
               PROVE  NamedUpTo(q, name)[i + 1] = NamedUpTo(r, name)[i + 1]
    OBVIOUS
  <2>1. /\ i + 1 \in 1 .. Len(q) /\ i + 1 \in 1 .. Len(r) /\ i + 1 \in 1 .. n
        /\ (i + 1) - 1 = i
    OBVIOUS
  <2>2. /\ NamedUpTo(q, name)[i + 1] = NamedStep(q, name, NamedUpTo(q, name)[i], i + 1)
        /\ NamedUpTo(r, name)[i + 1] = NamedStep(r, name, NamedUpTo(r, name)[i], i + 1)
    BY <2>1, NamedUpToIs
  <2>3. NamedUpTo(q, name)[i] = NamedUpTo(r, name)[i] /\ q[i + 1] = r[i + 1]
    BY <1>2, <2>1
  <2> QED BY <2>2, <2>3 DEF NamedStep
<1>3. n \in S
  <2> HIDE DEF S
  <2> QED BY <1>1, <1>2, FromZeroUp
<1> QED BY <1>3

LEMMA NamedEmpty ==
  ASSUME NEW name
  PROVE  Named(<<>>, name) = <<>>
<1>1. Len(<<>>) = 0
  OBVIOUS
<1> QED BY <1>1, NamedUpToIs DEF Named

LEMMA NamedTyped ==
  ASSUME NEW S, NEW q \in Seq(S), NEW V, NEW name, \A m \in DOMAIN name : name[m] \in V
  PROVE  /\ \A n \in 0 .. Len(q) : NamedUpTo(q, name)[n] \in Seq(V)
         /\ Named(q, name) \in Seq(V)
<1>0. Len(q) \in Nat
  OBVIOUS
<1> DEFINE T == { n \in Nat : n <= Len(q) => NamedUpTo(q, name)[n] \in Seq(V) }
<1>1. 0 \in T
  <2>1. <<>> \in Seq(V)
    OBVIOUS
  <2> QED BY <1>0, <2>1, NamedUpToIs
<1>2. ASSUME NEW n \in Nat, n \in T PROVE n + 1 \in T
  <2> SUFFICES ASSUME n + 1 <= Len(q) PROVE NamedUpTo(q, name)[n + 1] \in Seq(V)
    OBVIOUS
  <2>1. n + 1 \in 1 .. Len(q) /\ (n + 1) - 1 = n /\ n <= Len(q)
    BY <1>0
  <2>2. NamedUpTo(q, name)[n + 1] = NamedStep(q, name, NamedUpTo(q, name)[n], n + 1)
    BY <1>0, <2>1, NamedUpToIs
  <2>3. NamedUpTo(q, name)[n] \in Seq(V)
    BY <1>2, <2>1
  <2> QED BY <2>2, <2>3 DEF NamedStep
<1>3. \A n \in Nat : n \in T
  <2> HIDE DEF T
  <2> QED BY <1>1, <1>2, FromZeroUp
<1> QED BY <1>0, <1>3 DEF Named

LEMMA NamedAppend ==
  ASSUME NEW S, NEW q \in Seq(S), NEW m \in S, NEW name
  PROVE  Named(Append(q, m), name) =
           IF m \in DOMAIN name THEN Append(Named(q, name), name[m])
           ELSE Named(q, name)
<1> DEFINE r == Append(q, m)
           n == Len(q)
<1>1. /\ n \in Nat /\ Len(r) = n + 1 /\ r[n + 1] = m
      /\ \A i \in 1 .. n : q[i] = r[i]
  OBVIOUS
<1> HIDE DEF r, n
<1>2. NamedUpTo(q, name)[n] = NamedUpTo(r, name)[n]
  BY <1>1, NamedSame DEF n
<1>3. n + 1 \in 1 .. Len(r) /\ (n + 1) - 1 = n /\ Len(r) \in Nat
  BY <1>1
<1>4. NamedUpTo(r, name)[n + 1] = NamedStep(r, name, NamedUpTo(r, name)[n], n + 1)
  BY <1>3, NamedUpToIs
<1>5. Named(r, name) = IF m \in DOMAIN name THEN Append(Named(q, name), name[m])
                       ELSE Named(q, name)
  BY <1>1, <1>2, <1>4 DEF Named, NamedStep, n
<1> QED BY <1>5 DEF r

LEMMA NamedNone ==
  ASSUME NEW S, NEW q \in Seq(S), NEW name, \A i \in 1 .. Len(q) : q[i] \notin DOMAIN name
  PROVE  Named(q, name) = <<>>
<1>0. Len(q) \in Nat
  OBVIOUS
<1> DEFINE T == { n \in Nat : n <= Len(q) => NamedUpTo(q, name)[n] = <<>> }
<1>1. 0 \in T
  BY <1>0, NamedUpToIs
<1>2. ASSUME NEW n \in Nat, n \in T PROVE n + 1 \in T
  <2> SUFFICES ASSUME n + 1 <= Len(q) PROVE NamedUpTo(q, name)[n + 1] = <<>>
    OBVIOUS
  <2>1. n + 1 \in 1 .. Len(q) /\ (n + 1) - 1 = n /\ n <= Len(q)
    BY <1>0
  <2>2. NamedUpTo(q, name)[n + 1] = NamedStep(q, name, NamedUpTo(q, name)[n], n + 1)
    BY <1>0, <2>1, NamedUpToIs
  <2> QED BY <1>2, <2>1, <2>2 DEF NamedStep
<1>3. \A n \in Nat : n \in T
  <2> HIDE DEF T
  <2> QED BY <1>1, <1>2, FromZeroUp
<1> QED BY <1>0, <1>3 DEF Named

IsOneMore(a, b, x) == Append(a \o b, x) = a \o Append(b, x)

LEMMA OneMore ==
  ASSUME NEW V, NEW a \in Seq(V), NEW b \in Seq(V), NEW x \in V
  PROVE  IsOneMore(a, b, x)
<1>1. <<x>> \in Seq(V) /\ a \o b \in Seq(V)
  OBVIOUS
<1>2. Append(a \o b, x) = (a \o b) \o <<x>> /\ Append(b, x) = b \o <<x>>
  BY <1>1, AppendIsConcat
<1>3. (a \o b) \o <<x>> = a \o (b \o <<x>>)
  BY <1>1, ConcatAssociative
<1> QED BY <1>2, <1>3 DEF IsOneMore

\* The name of the first message comes first.
LEMMA NamedTail ==
  ASSUME NEW S, NEW q \in Seq(S), q # <<>>,
         NEW V, NEW name, \A m \in DOMAIN name : name[m] \in V
  PROVE  Named(q, name) =
           IF Head(q) \in DOMAIN name
           THEN <<name[Head(q)]>> \o Named(Tail(q), name)
           ELSE Named(Tail(q), name)
<1> DEFINE r == Tail(q)
           first == IF Head(q) \in DOMAIN name THEN <<name[Head(q)]>> ELSE <<>>
<1>0. /\ Len(q) \in Nat /\ Len(q) > 0 /\ Len(r) = Len(q) - 1 /\ Len(r) \in Nat
      /\ \A i \in 1 .. Len(r) : r[i] = q[i + 1]
      /\ q[1] = Head(q) /\ r \in Seq(S)
  OBVIOUS
<1>1. first \in Seq(V)
  OBVIOUS
<1>2. \A n \in 0 .. Len(r) : NamedUpTo(r, name)[n] \in Seq(V)
  <2> HIDE DEF r
  <2> QED BY <1>0, NamedTyped
<1> DEFINE T == { n \in Nat : n <= Len(r) =>
                   NamedUpTo(q, name)[n + 1] = first \o NamedUpTo(r, name)[n] }
<1>3. 0 \in T
  <2>1. NamedUpTo(q, name)[0] = <<>> /\ NamedUpTo(r, name)[0] = <<>>
    BY <1>0, NamedUpToIs
  <2>2. 1 \in 1 .. Len(q) /\ 1 - 1 = 0 /\ 0 + 1 = 1
    BY <1>0
  <2>3. NamedUpTo(q, name)[1] = NamedStep(q, name, <<>>, 1)
    BY <1>0, <2>1, <2>2, NamedUpToIs
  <2>4. NamedStep(q, name, <<>>, 1) = first
    <3>1. Append(<<>>, name[Head(q)]) = <<name[Head(q)]>>
      OBVIOUS
    <3> QED BY <1>0, <3>1 DEF NamedStep
  <2> HIDE DEF first, r
  <2>5. first \o <<>> = first
    BY <1>1
  <2> QED BY <2>1, <2>2, <2>3, <2>4, <2>5
<1> HIDE DEF first, r
<1>4. ASSUME NEW n \in Nat, n \in T PROVE n + 1 \in T
  <2> SUFFICES ASSUME n + 1 <= Len(r)
               PROVE  NamedUpTo(q, name)[(n + 1) + 1] =
                        first \o NamedUpTo(r, name)[n + 1]
    OBVIOUS
  <2>1. /\ n + 1 \in 1 .. Len(r) /\ (n + 1) - 1 = n /\ n <= Len(r)
        /\ n \in 0 .. Len(r)
        /\ (n + 1) + 1 \in 1 .. Len(q) /\ ((n + 1) + 1) - 1 = n + 1
    BY <1>0
  <2> DEFINE k == n + 1
  <2>r. \A i \in 1 .. Len(r) :
          NamedUpTo(r, name)[i] = NamedStep(r, name, NamedUpTo(r, name)[i - 1], i)
    BY <1>0, NamedUpToIs
  <2>q. \A i \in 1 .. Len(q) :
          NamedUpTo(q, name)[i] = NamedStep(q, name, NamedUpTo(q, name)[i - 1], i)
    BY <1>0, NamedUpToIs
  <2>2. NamedUpTo(r, name)[k] = NamedStep(r, name, NamedUpTo(r, name)[n], k)
    BY <2>1, <2>r
  <2>3. NamedUpTo(q, name)[k + 1] = NamedStep(q, name, NamedUpTo(q, name)[k], k + 1)
    BY <2>1, <2>q
  <2>4. NamedUpTo(q, name)[k] = first \o NamedUpTo(r, name)[n]
    BY <1>4, <2>1
  <2>5. q[k + 1] = r[k]
    BY <1>0, <2>1
  <2>6. NamedUpTo(r, name)[n] \in Seq(V)
    BY <1>2, <2>1
  <2> DEFINE old == NamedUpTo(r, name)[n]
             m == r[k]
  <2>7. m \in DOMAIN name => Append(first \o old, name[m]) = first \o Append(old, name[m])
    <3> HIDE DEF old, m
    <3> SUFFICES ASSUME m \in DOMAIN name
                 PROVE  Append(first \o old, name[m]) = first \o Append(old, name[m])
      OBVIOUS
    <3> DEFINE x == name[m]
    <3>1. x \in V /\ old \in Seq(V)
      BY <2>6 DEF old
    <3> HIDE DEF x
    <3>2. IsOneMore(first, old, x)
      BY <1>1, <3>1, OneMore
    <3> QED BY <3>2 DEF IsOneMore, x
  <2> HIDE DEF k
  <2> QED BY <2>2, <2>3, <2>4, <2>5, <2>7 DEF NamedStep, k
<1>5. \A n \in Nat : n \in T
  <2> HIDE DEF T
  <2> QED BY <1>3, <1>4, FromZeroUp
<1>6. NamedUpTo(q, name)[Len(r) + 1] = first \o NamedUpTo(r, name)[Len(r)]
  BY <1>0, <1>5
<1>7. Len(r) + 1 = Len(q)
  BY <1>0
<1>8. Named(q, name) = first \o Named(r, name)
  BY <1>6, <1>7 DEF Named
<1>9. <<>> \o Named(r, name) = Named(r, name)
  <2>1. Named(r, name) \in Seq(V)
    BY <1>0, NamedTyped
  <2> QED BY <2>1
<1> QED BY <1>8, <1>9 DEF first, r

LEMMA NameMail ==
  ASSUME NEW m \in PeerMessage
  PROVE  m \in DOMAIN MailName <=> m.type = "bgp"
<1>1. DOMAIN MailName = [type : {"bgp"}, what : Event]
  BY DEF MailName
<1>2. CASE m.type = "bgp"
  <2>1. m = [type |-> "bgp", what |-> m.what] /\ m.what \in Event
    BY <1>2, PeerMessageIs
  <2> QED BY <1>1, <1>2, <2>1
<1>3. CASE m.type # "bgp"
  BY <1>1, <1>3
<1> QED BY <1>2, <1>3

LEMMA NameQueue ==
  ASSUME NEW m \in QueueMessage, NEW p
  PROVE  /\ m \in DOMAIN BgpName(p) <=> m.type = "bgp" /\ m.peer = p
         /\ m \in DOMAIN EncodeName(p) <=> m.type = "encode" /\ m.peer = p
<1>1. /\ DOMAIN BgpName(p) = [type : {"bgp"}, peer : {p}, what : Event]
      /\ DOMAIN EncodeName(p) = [type : {"encode"}, peer : {p}, what : Operation]
  BY DEF BgpName, EncodeName
<1>2. CASE m.type = "bgp"
  <2>1. m = [type |-> "bgp", peer |-> m.peer, what |-> m.what] /\ m.what \in Event
    BY <1>2, QueueMessageIs DEF ToPeer
  <2> QED BY <1>1, <1>2, <2>1
<1>3. CASE m.type = "encode"
  <2>1. /\ m = [type |-> "encode", peer |-> m.peer, what |-> m.what]
        /\ m.what \in Operation
    BY <1>3, QueueMessageIs
  <2> QED BY <1>1, <1>3, <2>1
<1>4. CASE m.type # "bgp" /\ m.type # "encode"
  BY <1>1, <1>4
<1> QED BY <1>2, <1>3, <1>4

LEMMA NameInbox ==
  ASSUME NEW m \in SpeakerMessage, NEW p
  PROVE  /\ m \in DOMAIN NeighbourName(p) <=> m.type = "neighbour" /\ m.peer = p
         /\ m \in DOMAIN CommandName(p) <=> m.type = "command" /\ m.peer = p
<1>1. /\ DOMAIN NeighbourName(p) =
           [type : {"neighbour"}, peer : {p}, what : Event \cup {"keepalive"}]
      /\ DOMAIN CommandName(p) = [type : {"command"}, peer : {p}, what : Operation]
  BY DEF NeighbourName, CommandName
<1>2. CASE m.type = "neighbour"
  <2>1. /\ m = [type |-> "neighbour", peer |-> m.peer, what |-> m.what]
        /\ m.what \in Event \cup {"keepalive"}
    BY <1>2, SpeakerMessageIs
  <2> QED BY <1>1, <1>2, <2>1
<1>3. CASE m.type = "command"
  <2>1. /\ m = [type |-> "command", peer |-> m.peer, what |-> m.what]
        /\ m.what \in Operation
    BY <1>3, SpeakerMessageIs
  <2> QED BY <1>1, <1>3, <2>1
<1>4. CASE m.type \notin {"neighbour", "command"}
  BY <1>1, <1>4
<1> QED BY <1>2, <1>3, <1>4

LEMMA NameOutgoing ==
  ASSUME NEW m \in [peer : Peers, what : Operation], NEW p
  PROVE  m \in DOMAIN OutgoingName(p) <=> m.peer = p
<1>1. DOMAIN OutgoingName(p) = [peer : {p}, what : Operation]
  BY DEF OutgoingName
<1> QED BY <1>1

LEMMA NameIs ==
  ASSUME NEW p
  PROVE  /\ \A m \in DOMAIN MailName : MailName[m] = m.what /\ MailName[m] \in Event
         /\ \A m \in DOMAIN BgpName(p) :
              BgpName(p)[m] = m.what /\ BgpName(p)[m] \in Event
         /\ \A m \in DOMAIN NeighbourName(p) :
              /\ NeighbourName(p)[m] = IF m.what = "keepalive" THEN "up" ELSE m.what
              /\ NeighbourName(p)[m] \in Event
         /\ \A m \in DOMAIN OutgoingName(p) :
              OutgoingName(p)[m] = m.what /\ OutgoingName(p)[m] \in Operation
         /\ \A m \in DOMAIN CommandName(p) :
              CommandName(p)[m] = m.what /\ CommandName(p)[m] \in Operation
         /\ \A m \in DOMAIN EncodeName(p) :
              EncodeName(p)[m] = m.what /\ EncodeName(p)[m] \in Operation
<1>1. "up" \in Event
  BY DEF Event
<1> QED BY <1>1 DEF MailName, BgpName, NeighbourName, OutgoingName, CommandName, EncodeName

LEMMA PartsTyped ==
  ASSUME TypeOK, NEW p \in Peers
  PROVE  /\ Named(peerMail[p], MailName) \in Seq(Event)
         /\ Named(queue, BgpName(p)) \in Seq(Event)
         /\ Named(inbox[SpeakerOf[p]], NeighbourName(p)) \in Seq(Event)
         /\ Named(outgoing, OutgoingName(p)) \in Seq(Operation)
         /\ Named(inbox[SpeakerOf[p]], CommandName(p)) \in Seq(Operation)
         /\ Named(queue, EncodeName(p)) \in Seq(Operation)
<1>1. /\ peerMail[p] \in Seq(PeerMessage) /\ queue \in Seq(QueueMessage)
      /\ inbox[SpeakerOf[p]] \in Seq(SpeakerMessage)
      /\ outgoing \in Seq([peer : Peers, what : Operation])
  BY SpeakerAssumption DEF TypeOK
<1> QED BY <1>1, NameIs, NamedTyped

Then(e, rest) == <<e>> \o rest

Joined(a, b, c) == (a \o b) \o c

TailIs(q, r) == q # <<>> /\ Tail(q) = r

Associates(a, b, c) == (a \o b) \o c = a \o (b \o c)

LEMMA Association ==
  ASSUME NEW V, NEW a \in Seq(V), NEW b \in Seq(V), NEW c \in Seq(V)
  PROVE  Associates(a, b, c)
  BY ConcatAssociative DEF Associates

LEMMA Joins ==
  ASSUME NEW V, NEW a \in Seq(V), NEW b \in Seq(V), NEW c \in Seq(V), NEW e \in V
  PROVE  /\ Joined(a, b, Append(c, e)) = Append(Joined(a, b, c), e)
         /\ Joined(a, b, Then(e, c)) = Joined(a, Append(b, e), c)
         /\ Joined(a, Then(e, b), c) = Joined(Append(a, e), b, c)
         /\ TailIs(Joined(Then(e, a), b, c), Joined(a, b, c))
         /\ TailIs(Then(e, c), c)
<1> DEFINE o == <<e>>
<1>1. /\ o \in Seq(V) /\ a \o b \in Seq(V) /\ b \o c \in Seq(V) /\ o \o c \in Seq(V)
      /\ o \o b \in Seq(V) /\ (a \o b) \o c \in Seq(V) /\ <<>> \in Seq(V)
  <2>1. o \in Seq(V) /\ <<>> \in Seq(V)
    OBVIOUS
  <2> HIDE DEF o
  <2>2. \A s, t \in Seq(V) : s \o t \in Seq(V)
    OBVIOUS
  <2> QED BY <2>1, <2>2, Zenon
<1>2. Append(c, e) = c \o o /\ Append(a, e) = a \o o /\ Append(b, e) = b \o o
  BY AppendIsConcat
<1>3. Append((a \o b) \o c, e) = ((a \o b) \o c) \o o
  BY <1>1, AppendIsConcat
<1> HIDE DEF o
<1>4. Associates(a \o b, c, o) /\ Associates(a \o b, o, c) /\ Associates(a, b, o)
  BY <1>1, Association
<1>5. Associates(a, o, b)
  BY <1>1, Association
<1>6. Associates(o, a, b) /\ Associates(o, a \o b, c)
  BY <1>1, Association
<1>7. /\ ((a \o b) \o c) \o o = (a \o b) \o (c \o o)
      /\ (a \o b) \o (o \o c) = ((a \o b) \o o) \o c
      /\ (a \o b) \o o = a \o (b \o o)
      /\ a \o (o \o b) = (a \o o) \o b
      /\ (o \o a) \o b = o \o (a \o b)
      /\ (o \o (a \o b)) \o c = o \o ((a \o b) \o c)
  BY <1>4, <1>5, <1>6, Zenon DEF Associates
<1>8. \A r \in Seq(V) : o \o r # <<>> /\ Tail(o \o r) = r
  BY DEF o
<1>10. Joined(a, b, Append(c, e)) = Append(Joined(a, b, c), e)
  BY <1>2, <1>3, <1>7 DEF Joined
<1>11. Joined(a, b, Then(e, c)) = Joined(a, Append(b, e), c)
  BY <1>2, <1>7 DEF Joined, Then, o
<1>12. Joined(a, Then(e, b), c) = Joined(Append(a, e), b, c)
  BY <1>2, <1>7 DEF Joined, Then, o
<1>13. Joined(Then(e, a), b, c) = o \o ((a \o b) \o c)
  BY <1>7 DEF Joined, Then, o
<1>14. TailIs(Joined(Then(e, a), b, c), Joined(a, b, c))
  BY <1>1, <1>8, <1>13 DEF Joined, TailIs
<1>15. TailIs(Then(e, c), c)
  BY <1>8 DEF Then, TailIs, o
<1> QED BY <1>10, <1>11, <1>12, <1>14, <1>15

LEMMA JoinsEmpty ==
  ASSUME NEW V, NEW c \in Seq(V)
  PROVE  Joined(<<>>, <<>>, c) = c
<1>1. <<>> \o <<>> = <<>> /\ <<>> \o c = c
  OBVIOUS
<1> QED BY <1>1 DEF Joined

LEMMA QueueGrows ==
  ASSUME NEW q \in Seq(QueueMessage), NEW m \in QueueMessage, NEW p
  PROVE  /\ Named(Append(q, m), BgpName(p)) =
              IF m.type = "bgp" /\ m.peer = p
              THEN Append(Named(q, BgpName(p)), m.what) ELSE Named(q, BgpName(p))
         /\ Named(Append(q, m), EncodeName(p)) =
              IF m.type = "encode" /\ m.peer = p
              THEN Append(Named(q, EncodeName(p)), m.what) ELSE Named(q, EncodeName(p))
  BY NamedAppend, NameQueue, NameIs

LEMMA QueueShrinks ==
  ASSUME NEW q \in Seq(QueueMessage), q # <<>>, NEW p
  PROVE  /\ Named(q, BgpName(p)) =
              IF Head(q).type = "bgp" /\ Head(q).peer = p
              THEN Then(Head(q).what, Named(Tail(q), BgpName(p)))
              ELSE Named(Tail(q), BgpName(p))
         /\ Named(q, EncodeName(p)) =
              IF Head(q).type = "encode" /\ Head(q).peer = p
              THEN Then(Head(q).what, Named(Tail(q), EncodeName(p)))
              ELSE Named(Tail(q), EncodeName(p))
<1>1. Head(q) \in QueueMessage
  BY SeqFacts
<1>2. /\ Named(q, BgpName(p)) =
           IF Head(q) \in DOMAIN BgpName(p)
           THEN Then(BgpName(p)[Head(q)], Named(Tail(q), BgpName(p)))
           ELSE Named(Tail(q), BgpName(p))
      /\ Named(q, EncodeName(p)) =
           IF Head(q) \in DOMAIN EncodeName(p)
           THEN Then(EncodeName(p)[Head(q)], Named(Tail(q), EncodeName(p)))
           ELSE Named(Tail(q), EncodeName(p))
  BY NamedTail, NameIs DEF Then
<1> QED BY <1>1, <1>2, NameQueue, NameIs

LEMMA InboxGrows ==
  ASSUME NEW q \in Seq(SpeakerMessage), NEW m \in SpeakerMessage, NEW p
  PROVE  /\ Named(Append(q, m), NeighbourName(p)) =
              IF m.type = "neighbour" /\ m.peer = p
              THEN Append(Named(q, NeighbourName(p)),
                          IF m.what = "keepalive" THEN "up" ELSE m.what)
              ELSE Named(q, NeighbourName(p))
         /\ Named(Append(q, m), CommandName(p)) =
              IF m.type = "command" /\ m.peer = p
              THEN Append(Named(q, CommandName(p)), m.what)
              ELSE Named(q, CommandName(p))
  BY NamedAppend, NameInbox, NameIs

LEMMA InboxShrinks ==
  ASSUME NEW q \in Seq(SpeakerMessage), q # <<>>, NEW p
  PROVE  /\ Named(q, NeighbourName(p)) =
              IF Head(q).type = "neighbour" /\ Head(q).peer = p
              THEN Then(IF Head(q).what = "keepalive" THEN "up" ELSE Head(q).what,
                        Named(Tail(q), NeighbourName(p)))
              ELSE Named(Tail(q), NeighbourName(p))
         /\ Named(q, CommandName(p)) =
              IF Head(q).type = "command" /\ Head(q).peer = p
              THEN Then(Head(q).what, Named(Tail(q), CommandName(p)))
              ELSE Named(Tail(q), CommandName(p))
<1>1. Head(q) \in SpeakerMessage
  BY SeqFacts
<1>2. /\ Named(q, NeighbourName(p)) =
           IF Head(q) \in DOMAIN NeighbourName(p)
           THEN Then(NeighbourName(p)[Head(q)], Named(Tail(q), NeighbourName(p)))
           ELSE Named(Tail(q), NeighbourName(p))
      /\ Named(q, CommandName(p)) =
           IF Head(q) \in DOMAIN CommandName(p)
           THEN Then(CommandName(p)[Head(q)], Named(Tail(q), CommandName(p)))
           ELSE Named(Tail(q), CommandName(p))
  BY NamedTail, NameIs DEF Then
<1> QED BY <1>1, <1>2, NameInbox, NameIs

LEMMA MailGrows ==
  ASSUME NEW q \in Seq(PeerMessage), NEW m \in PeerMessage
  PROVE  Named(Append(q, m), MailName) =
           IF m.type = "bgp" THEN Append(Named(q, MailName), m.what)
           ELSE Named(q, MailName)
  BY NamedAppend, NameMail, NameIs

LEMMA MailShrinks ==
  ASSUME NEW q \in Seq(PeerMessage), q # <<>>
  PROVE  Named(q, MailName) =
           IF Head(q).type = "bgp" THEN Then(Head(q).what, Named(Tail(q), MailName))
           ELSE Named(Tail(q), MailName)
<1>1. Head(q) \in PeerMessage
  BY SeqFacts
<1>2. Named(q, MailName) =
        IF Head(q) \in DOMAIN MailName
        THEN Then(MailName[Head(q)], Named(Tail(q), MailName))
        ELSE Named(Tail(q), MailName)
  BY NamedTail, NameIs DEF Then
<1> QED BY <1>1, <1>2, NameMail, NameIs

LEMMA OutgoingGrows ==
  ASSUME NEW q \in Seq([peer : Peers, what : Operation]),
         NEW m \in [peer : Peers, what : Operation], NEW p
  PROVE  Named(Append(q, m), OutgoingName(p)) =
           IF m.peer = p THEN Append(Named(q, OutgoingName(p)), m.what)
           ELSE Named(q, OutgoingName(p))
<1>1. Named(Append(q, m), OutgoingName(p)) =
        IF m \in DOMAIN OutgoingName(p)
        THEN Append(Named(q, OutgoingName(p)), OutgoingName(p)[m])
        ELSE Named(q, OutgoingName(p))
  <2> DEFINE S == [peer : Peers, what : Operation]
  <2>1. q \in Seq(S) /\ m \in S
    OBVIOUS
  <2> HIDE DEF S
  <2> QED BY <2>1, NamedAppend
<1> QED BY <1>1, NameOutgoing, NameIs

LEMMA OutgoingShrinks ==
  ASSUME NEW q \in Seq([peer : Peers, what : Operation]), q # <<>>, NEW p
  PROVE  Named(q, OutgoingName(p)) =
           IF Head(q).peer = p THEN Then(Head(q).what, Named(Tail(q), OutgoingName(p)))
           ELSE Named(Tail(q), OutgoingName(p))
<1>1. Head(q) \in [peer : Peers, what : Operation]
  BY SeqFacts
<1>2. Named(q, OutgoingName(p)) =
        IF Head(q) \in DOMAIN OutgoingName(p)
        THEN Then(OutgoingName(p)[Head(q)], Named(Tail(q), OutgoingName(p)))
        ELSE Named(Tail(q), OutgoingName(p))
  BY NamedTail, NameIs DEF Then
<1> QED BY <1>1, <1>2, NameOutgoing, NameIs
-----------------------------------------------------------------------------
(***************************************************************************)
(* What each process does to the events and commands under way.            *)
(***************************************************************************)
Mailed(p) == Named(peerMail[p], MailName)
Reported(p) == Named(queue, BgpName(p))
Said(p) == Named(inbox[SpeakerOf[p]], NeighbourName(p))

ToFetch(p) == Named(outgoing, OutgoingName(p))
ToSend(p) == Named(inbox[SpeakerOf[p]], CommandName(p))
Asked(p) == Named(queue, EncodeName(p))

LEMMA PartsAre ==
  ASSUME NEW p \in Peers
  PROVE  /\ EventsFor(p) = Joined(Mailed(p), Reported(p), Said(p))
         /\ CommandsFor(p) = Joined(ToFetch(p), ToSend(p), Asked(p))
         /\ EventsFor(p)' = Joined(Mailed(p)', Reported(p)', Said(p)')
         /\ CommandsFor(p)' = Joined(ToFetch(p)', ToSend(p)', Asked(p)')
  BY DEF EventsFor, CommandsFor, Joined, Mailed, Reported, Said, ToFetch, ToSend, Asked

LEMMA PartsTypes ==
  ASSUME TypeOK, NEW p \in Peers
  PROVE  /\ Mailed(p) \in Seq(Event) /\ Reported(p) \in Seq(Event)
         /\ Said(p) \in Seq(Event)
         /\ ToFetch(p) \in Seq(Operation) /\ ToSend(p) \in Seq(Operation)
         /\ Asked(p) \in Seq(Operation)
         /\ EventsFor(p) \in Seq(Event) /\ CommandsFor(p) \in Seq(Operation)
<1>1. /\ Mailed(p) \in Seq(Event) /\ Reported(p) \in Seq(Event)
      /\ Said(p) \in Seq(Event)
      /\ ToFetch(p) \in Seq(Operation) /\ ToSend(p) \in Seq(Operation)
      /\ Asked(p) \in Seq(Operation)
  BY PartsTyped DEF Mailed, Reported, Said, ToFetch, ToSend, Asked
<1>2. \A V : \A a, b, c \in Seq(V) : Joined(a, b, c) \in Seq(V)
  BY DEF Joined
<1> QED BY <1>1, <1>2, PartsAre

\* Every message for a speaker that concerns a configured peer concerns one of
\* its own, and only the first speaker gets commands.
OwnMail ==
  /\ \A s \in Speakers : \A i \in 1 .. Len(inbox[s]) :
       /\ inbox[s][i].type # "other" => SpeakerOf[inbox[s][i].peer] = s
       /\ inbox[s][i].type = "command" => s = SpeakerList[1]
  /\ \A i \in 1 .. Len(outgoing) : SpeakerOf[outgoing[i].peer] = SpeakerList[1]

SameEvents == \A x \in Peers : EventsFor(x)' = EventsFor(x)
SameCommands == \A x \in Peers : CommandsFor(x)' = CommandsFor(x)

LEMMA SendsStep ==
  ASSUME TypeOK, NEW p \in Peers, NEW w \in Event \cup {"keepalive"}, Sends(p, w)
  PROVE  /\ \A x \in Peers : EventsFor(x)' =
              IF x = p
              THEN Append(EventsFor(x), IF w = "keepalive" THEN "up" ELSE w)
              ELSE EventsFor(x)
         /\ SameCommands
<1> DEFINE m == [type |-> "neighbour", peer |-> p, what |-> w]
           q == inbox[SpeakerOf[p]]
           e == IF w = "keepalive" THEN "up" ELSE w
<1>1. m \in SpeakerMessage /\ m.type = "neighbour" /\ m.peer = p /\ m.what = w
  BY Made
<1>2. q \in Seq(SpeakerMessage) /\ SpeakerOf[p] \in Speakers /\ e \in Event
  BY SpeakerAssumption DEF TypeOK, Event
<1>3. /\ inbox' = [inbox EXCEPT ![SpeakerOf[p]] = Append(q, m)]
      /\ UNCHANGED <<queue, outgoing, peerMail>>
  BY DEF Sends, peerVars
<1> HIDE DEF m, e
<1> SUFFICES ASSUME NEW x \in Peers
             PROVE  /\ EventsFor(x)' = IF x = p THEN Append(EventsFor(x), e)
                                       ELSE EventsFor(x)
                    /\ CommandsFor(x)' = CommandsFor(x)
  BY DEF SameCommands, e
<1>4. /\ Mailed(x)' = Mailed(x) /\ Reported(x)' = Reported(x)
      /\ ToFetch(x)' = ToFetch(x) /\ Asked(x)' = Asked(x)
  BY <1>3 DEF Mailed, Reported, ToFetch, Asked
<1>5. CASE SpeakerOf[x] # SpeakerOf[p]
  <2>1. inbox'[SpeakerOf[x]] = inbox[SpeakerOf[x]]
    BY <1>3, <1>5, SpeakerAssumption DEF TypeOK
  <2>2. Said(x)' = Said(x) /\ ToSend(x)' = ToSend(x) /\ x # p
    BY <1>5, <2>1 DEF Said, ToSend
  <2> QED BY <1>4, <2>2, PartsAre
<1>6. CASE SpeakerOf[x] = SpeakerOf[p]
  <2>1. inbox'[SpeakerOf[x]] = Append(q, m) /\ inbox[SpeakerOf[x]] = q
    BY <1>2, <1>3, <1>6 DEF TypeOK
  <2> HIDE DEF q
  <2>2. ToSend(x)' = ToSend(x)
    BY <1>1, <1>2, <2>1, InboxGrows DEF ToSend
  <2>3. Said(x)' = IF x = p THEN Append(Said(x), e) ELSE Said(x)
    BY <1>1, <1>2, <2>1, InboxGrows DEF Said, e
  <2>4. Said(x) \in Seq(Event) /\ Mailed(x) \in Seq(Event) /\ Reported(x) \in Seq(Event)
    BY PartsTypes
  <2>5. Joined(Mailed(x), Reported(x), Append(Said(x), e)) =
          Append(Joined(Mailed(x), Reported(x), Said(x)), e)
    BY <1>2, <2>4, Joins
  <2> QED BY <1>4, <2>2, <2>3, <2>5, PartsAre
<1> QED BY <1>5, <1>6

LEMMA HearsStep ==
  ASSUME TypeOK, OwnMail, NEW s \in Speakers, SpeakerHears(s)
  PROVE  SameEvents /\ SameCommands
<1> DEFINE q == inbox[s]
           m == Head(inbox[s])
           e == IF m.what = "keepalive" THEN "up" ELSE m.what
           b == ToPeer(m.peer, e)
           a == Alive(s)
<1>1. /\ SpeakerGets(s, "neighbour") /\ inbox' = [inbox EXCEPT ![s] = Tail(@)]
      /\ queue' = queue \o Reports(s, m.peer, m.what)
      /\ UNCHANGED <<outgoing, peerMail>>
  BY DEF SpeakerHears, peerVars
<1>2. /\ q \in Seq(SpeakerMessage) /\ q # <<>> /\ m \in SpeakerMessage
      /\ m.type = "neighbour"
  BY <1>1, HeadOfInbox
<1>3. m.peer \in Peers /\ m.what \in Event \cup {"keepalive"} /\ e \in Event
  BY <1>2, SpeakerMessageIs DEF Event
<1>4. SpeakerOf[m.peer] = s
  <2>1. 1 \in 1 .. Len(q) /\ m = q[1]
    BY <1>2, SeqFacts
  <2> QED BY <1>2, <2>1 DEF OwnMail
<1>5. Reports(s, m.peer, m.what) = <<a, b>> \/ Reports(s, m.peer, m.what) = <<b, a>>
  BY <1>3, ReportsAre
<1>6. /\ a \in QueueMessage /\ b \in QueueMessage /\ queue \in Seq(QueueMessage)
      /\ a.type = "healthcheck" /\ b.type = "bgp" /\ b.peer = m.peer /\ b.what = e
  BY <1>3, Made DEF TypeOK, Alive, ToPeer
<1>7. \/ queue' = Append(Append(queue, a), b) /\ Append(queue, a) \in Seq(QueueMessage)
      \/ queue' = Append(Append(queue, b), a) /\ Append(queue, b) \in Seq(QueueMessage)
  <2> HIDE DEF a, b
  <2>1. queue' = queue \o <<a, b>> \/ queue' = queue \o <<b, a>>
    BY <1>1, <1>5
  <2> QED BY <1>6, <2>1, TwoAdded
<1> SUFFICES ASSUME NEW x \in Peers
             PROVE  EventsFor(x)' = EventsFor(x) /\ CommandsFor(x)' = CommandsFor(x)
  BY DEF SameEvents, SameCommands
<1>8. Mailed(x)' = Mailed(x) /\ ToFetch(x)' = ToFetch(x)
  BY <1>1 DEF Mailed, ToFetch
<1>9. /\ Reported(x)' = IF x = m.peer THEN Append(Reported(x), e) ELSE Reported(x)
      /\ Asked(x)' = Asked(x)
  <2>1. \A r \in Seq(QueueMessage) :
          /\ Named(Append(r, a), BgpName(x)) = Named(r, BgpName(x))
          /\ Named(Append(r, a), EncodeName(x)) = Named(r, EncodeName(x))
          /\ Named(Append(r, b), EncodeName(x)) = Named(r, EncodeName(x))
          /\ Named(Append(r, b), BgpName(x)) =
               IF x = m.peer THEN Append(Named(r, BgpName(x)), e)
               ELSE Named(r, BgpName(x))
    <3> HIDE DEF a, b, e, m
    <3> QED BY <1>6, QueueGrows
  <2> HIDE DEF a, b, e, m
  <2> QED BY <1>6, <1>7, <2>1 DEF Reported, Asked
<1>10. CASE SpeakerOf[x] # s
  <2>1. inbox'[SpeakerOf[x]] = inbox[SpeakerOf[x]]
    BY <1>1, <1>10, SpeakerAssumption DEF TypeOK
  <2>2. Said(x)' = Said(x) /\ ToSend(x)' = ToSend(x) /\ x # m.peer
    BY <1>4, <1>10, <2>1 DEF Said, ToSend
  <2> QED BY <1>8, <1>9, <2>2, PartsAre
<1>11. CASE SpeakerOf[x] = s
  <2>1. inbox'[SpeakerOf[x]] = Tail(q) /\ inbox[SpeakerOf[x]] = q
    BY <1>1, <1>11 DEF TypeOK
  <2>2. ToSend(x)' = ToSend(x)
    BY <1>2, <2>1, InboxShrinks DEF ToSend
  <2>3. Said(x) = IF x = m.peer THEN Then(e, Said(x)') ELSE Said(x)'
    BY <1>2, <2>1, InboxShrinks DEF Said
  <2>4. /\ Mailed(x) \in Seq(Event) /\ Reported(x) \in Seq(Event)
        /\ Said(x)' \in Seq(Event)
    <3>1. Tail(q) \in Seq(SpeakerMessage)
      BY <1>2, SeqFacts
    <3>2. Named(Tail(q), NeighbourName(x)) \in Seq(Event)
      BY <3>1, NameIs, NamedTyped
    <3>3. Said(x)' = Named(Tail(q), NeighbourName(x))
      BY <2>1, Zenon DEF Said
    <3> QED BY <3>2, <3>3, PartsTypes
  <2>5. CASE x = m.peer
    <3> HIDE DEF e
    <3>1. Joined(Mailed(x), Reported(x), Then(e, Said(x)')) =
            Joined(Mailed(x), Append(Reported(x), e), Said(x)')
      BY <1>3, <2>4, Joins
    <3>2. Said(x) = Then(e, Said(x)') /\ Reported(x)' = Append(Reported(x), e)
      BY <1>9, <2>3, <2>5, Zenon
    <3> QED BY <1>8, <1>9, <2>2, <3>1, <3>2, PartsAre
  <2>6. CASE x # m.peer
    <3>1. Said(x)' = Said(x) /\ Reported(x)' = Reported(x)
      BY <1>9, <2>3, <2>6, Zenon
    <3> QED BY <1>8, <1>9, <2>2, <3>1, PartsAre
  <2> QED BY <2>5, <2>6
<1> QED BY <1>10, <1>11

LEMMA SpeakerSendsStep ==
  ASSUME TypeOK, OwnMail, NEW s \in Speakers, SpeakerSends(s)
  PROVE  SameEvents /\ SameCommands
<1> DEFINE q == inbox[s]
           m == Head(inbox[s])
           o == [peer |-> m.peer, what |-> m.what]
<1>1. /\ SpeakerGets(s, "command") /\ inbox' = [inbox EXCEPT ![s] = Tail(@)]
      /\ outgoing' = IF SpeakerOf[m.peer] = s THEN Append(outgoing, o) ELSE outgoing
      /\ UNCHANGED <<queue, peerMail>>
  BY DEF SpeakerSends, peerVars
<1>2. /\ q \in Seq(SpeakerMessage) /\ q # <<>> /\ m \in SpeakerMessage
      /\ m.type = "command"
  BY <1>1, HeadOfInbox
<1>3. m.peer \in Peers /\ m.what \in Operation
  BY <1>2, SpeakerMessageIs
<1>4. SpeakerOf[m.peer] = s
  <2>1. 1 \in 1 .. Len(q) /\ m = q[1]
    BY <1>2, SeqFacts
  <2> QED BY <1>2, <2>1 DEF OwnMail
<1>5. o \in [peer : Peers, what : Operation] /\ o.peer = m.peer /\ o.what = m.what
  BY <1>3
<1>6. outgoing' = Append(outgoing, o) /\ outgoing \in Seq([peer : Peers, what : Operation])
  BY <1>1, <1>4 DEF TypeOK
<1> SUFFICES ASSUME NEW x \in Peers
             PROVE  EventsFor(x)' = EventsFor(x) /\ CommandsFor(x)' = CommandsFor(x)
  BY DEF SameEvents, SameCommands
<1>7. Mailed(x)' = Mailed(x) /\ Reported(x)' = Reported(x) /\ Asked(x)' = Asked(x)
  BY <1>1 DEF Mailed, Reported, Asked
<1>8. ToFetch(x)' = IF x = m.peer THEN Append(ToFetch(x), m.what) ELSE ToFetch(x)
  <2> HIDE DEF o, m
  <2>1. Named(Append(outgoing, o), OutgoingName(x)) =
          IF o.peer = x THEN Append(Named(outgoing, OutgoingName(x)), o.what)
          ELSE Named(outgoing, OutgoingName(x))
    BY <1>5, <1>6, OutgoingGrows
  <2>2. ToFetch(x)' = Named(Append(outgoing, o), OutgoingName(x))
    BY <1>6, Zenon DEF ToFetch
  <2> QED BY <1>5, <2>1, <2>2 DEF ToFetch
<1>9. CASE SpeakerOf[x] # s
  <2>1. inbox'[SpeakerOf[x]] = inbox[SpeakerOf[x]]
    BY <1>1, <1>9, SpeakerAssumption DEF TypeOK
  <2>2. Said(x)' = Said(x) /\ ToSend(x)' = ToSend(x) /\ x # m.peer
    BY <1>4, <1>9, <2>1 DEF Said, ToSend
  <2> QED BY <1>7, <1>8, <2>2, PartsAre
<1>10. CASE SpeakerOf[x] = s
  <2>1. inbox'[SpeakerOf[x]] = Tail(q) /\ inbox[SpeakerOf[x]] = q
    BY <1>1, <1>10 DEF TypeOK
  <2>2. Said(x)' = Said(x)
    BY <1>2, <2>1, InboxShrinks DEF Said
  <2>3. ToSend(x) = IF x = m.peer THEN Then(m.what, ToSend(x)') ELSE ToSend(x)'
    BY <1>2, <2>1, InboxShrinks DEF ToSend
  <2>4. /\ ToFetch(x) \in Seq(Operation) /\ Asked(x) \in Seq(Operation)
        /\ ToSend(x)' \in Seq(Operation)
    <3>1. Tail(q) \in Seq(SpeakerMessage)
      BY <1>2, SeqFacts
    <3>2. Named(Tail(q), CommandName(x)) \in Seq(Operation)
      BY <3>1, NameIs, NamedTyped
    <3>3. ToSend(x)' = Named(Tail(q), CommandName(x))
      BY <2>1, Zenon DEF ToSend
    <3> QED BY <3>2, <3>3, PartsTypes
  <2>5. CASE x = m.peer
    <3> HIDE DEF m
    <3>1. Joined(ToFetch(x), Then(m.what, ToSend(x)'), Asked(x)) =
            Joined(Append(ToFetch(x), m.what), ToSend(x)', Asked(x))
      BY <1>3, <2>4, Joins
    <3>2. ToSend(x) = Then(m.what, ToSend(x)') /\ ToFetch(x)' = Append(ToFetch(x), m.what)
      BY <1>8, <2>3, <2>5, Zenon
    <3> QED BY <1>7, <2>2, <3>1, <3>2, PartsAre
  <2>6. CASE x # m.peer
    <3>1. ToSend(x)' = ToSend(x) /\ ToFetch(x)' = ToFetch(x)
      BY <1>8, <2>3, <2>6, Zenon
    <3> QED BY <1>7, <2>2, <3>1, PartsAre
  <2> QED BY <2>5, <2>6
<1> QED BY <1>9, <1>10

LEMMA NothingMoves ==
  ASSUME UNCHANGED <<inbox, queue, outgoing, peerMail>>
  PROVE  SameEvents /\ SameCommands
  BY DEF SameEvents, SameCommands, EventsFor, CommandsFor

\* A report on a speaker or the state of a peer is no event of a neighbour.
LEMMA OthersQueued ==
  ASSUME TypeOK, NEW m \in QueueMessage, m.type \in {"healthcheck", "status"},
         queue' = Append(queue, m) \/ queue' = queue
  PROVE  \A x \in Peers : Reported(x)' = Reported(x) /\ Asked(x)' = Asked(x)
<1>1. queue \in Seq(QueueMessage)
  BY DEF TypeOK
<1>2. m.type # "bgp" /\ m.type # "encode"
  OBVIOUS
<1> SUFFICES ASSUME NEW x \in Peers
             PROVE  Reported(x)' = Reported(x) /\ Asked(x)' = Asked(x)
  OBVIOUS
<1>3. CASE queue' = queue
  BY <1>3 DEF Reported, Asked
<1>4. CASE queue' = Append(queue, m)
  <2>1. /\ Named(Append(queue, m), BgpName(x)) = Named(queue, BgpName(x))
        /\ Named(Append(queue, m), EncodeName(x)) = Named(queue, EncodeName(x))
    BY <1>1, <1>2, QueueGrows
  <2>2. /\ Named(queue, BgpName(x))' = Named(queue, BgpName(x))
        /\ Named(queue, EncodeName(x))' = Named(queue, EncodeName(x))
    BY <1>4, <2>1
  <2> QED BY <2>2 DEF Reported, Asked
<1> QED BY <1>3, <1>4

LEMMA SilentStep ==
  ASSUME TypeOK, NEW s \in Speakers, SpeakerSilent(s)
  PROVE  SameEvents /\ SameCommands
<1>1. /\ queue' = Append(queue, Silent(s)) /\ UNCHANGED <<inbox, outgoing, peerMail>>
  BY DEF SpeakerSilent, speakerVars, peerVars
<1>2. Silent(s) \in QueueMessage
  BY Made DEF TypeOK
<1>3. Silent(s).type = "healthcheck"
  BY DEF Silent
<1>4. \A x \in Peers : Reported(x)' = Reported(x) /\ Asked(x)' = Asked(x)
  BY <1>1, <1>2, <1>3, OthersQueued
<1>5. \A x \in Peers : /\ Mailed(x)' = Mailed(x) /\ Said(x)' = Said(x)
                       /\ ToFetch(x)' = ToFetch(x) /\ ToSend(x)' = ToSend(x)
  BY <1>1 DEF Mailed, Said, ToFetch, ToSend
<1> QED BY <1>4, <1>5, PartsAre DEF SameEvents, SameCommands

\* What is no message of a configured peer is in neither channel.
LEMMA OthersMailed ==
  ASSUME TypeOK, NEW s \in Speakers, NEW m \in SpeakerMessage, m.type = "other",
         \/ inbox' = [inbox EXCEPT ![s] = Append(@, m)]
         \/ /\ inbox[s] # <<>> /\ Head(inbox[s]) = m
            /\ inbox' = [inbox EXCEPT ![s] = Tail(@)]
  PROVE  \A x \in Peers : Said(x)' = Said(x) /\ ToSend(x)' = ToSend(x)
<1> SUFFICES ASSUME NEW x \in Peers
             PROVE  Said(x)' = Said(x) /\ ToSend(x)' = ToSend(x)
  OBVIOUS
<1> DEFINE q == inbox[s]
<1>1. q \in Seq(SpeakerMessage) /\ SpeakerOf[x] \in Speakers
  BY SpeakerAssumption DEF TypeOK
<1>2. CASE SpeakerOf[x] # s
  <2>1. inbox'[SpeakerOf[x]] = inbox[SpeakerOf[x]]
    BY <1>1, <1>2 DEF TypeOK
  <2> QED BY <2>1 DEF Said, ToSend
<1>3. CASE SpeakerOf[x] = s
  <2>1. CASE inbox' = [inbox EXCEPT ![s] = Append(@, m)]
    <3>1. inbox'[SpeakerOf[x]] = Append(q, m) /\ inbox[SpeakerOf[x]] = q
      BY <1>3, <2>1 DEF TypeOK
    <3> HIDE DEF q
    <3> QED BY <1>1, <3>1, InboxGrows DEF Said, ToSend
  <2>2. CASE /\ inbox[s] # <<>> /\ Head(inbox[s]) = m
             /\ inbox' = [inbox EXCEPT ![s] = Tail(@)]
    <3>1. inbox'[SpeakerOf[x]] = Tail(q) /\ inbox[SpeakerOf[x]] = q
      BY <1>3, <2>2 DEF TypeOK
    <3>2. q # <<>> /\ Head(q).type = "other"
      BY <2>2
    <3> HIDE DEF q
    <3> QED BY <1>1, <3>1, <3>2, InboxShrinks DEF Said, ToSend
  <2> QED BY <2>1, <2>2
<1> QED BY <1>2, <1>3

LEMMA OtherSaysStep ==
  ASSUME TypeOK, NEW s \in Speakers, OtherSays(s)
  PROVE  SameEvents /\ SameCommands
<1>1. PICK w \in Other :
        inbox' = [inbox EXCEPT ![s] = Append(@, [type |-> "other", what |-> w])]
  BY DEF OtherSays
<1> DEFINE m == [type |-> "other", what |-> w]
<1>2. m \in SpeakerMessage /\ m.type = "other"
  BY Made
<1>3. UNCHANGED <<queue, outgoing, peerMail>>
  BY DEF OtherSays, peerVars
<1>4. \A x \in Peers : Said(x)' = Said(x) /\ ToSend(x)' = ToSend(x)
  BY <1>1, <1>2, OthersMailed
<1>5. \A x \in Peers : /\ Mailed(x)' = Mailed(x) /\ Reported(x)' = Reported(x)
                       /\ ToFetch(x)' = ToFetch(x) /\ Asked(x)' = Asked(x)
  BY <1>3 DEF Mailed, Reported, ToFetch, Asked
<1> QED BY <1>4, <1>5, PartsAre DEF SameEvents, SameCommands

LEMMA HearsOtherStep ==
  ASSUME TypeOK, NEW s \in Speakers, SpeakerHearsOther(s)
  PROVE  SameEvents /\ SameCommands
<1>1. /\ SpeakerGets(s, "other") /\ inbox' = [inbox EXCEPT ![s] = Tail(@)]
      /\ queue' = Append(queue, Alive(s)) \/ queue' = queue
      /\ UNCHANGED <<outgoing, peerMail>>
  BY DEF SpeakerHearsOther, peerVars
<1>2. /\ inbox[s] # <<>> /\ Head(inbox[s]) \in SpeakerMessage
      /\ Head(inbox[s]).type = "other"
  BY <1>1, HeadOfInbox
<1>3. \A x \in Peers : Said(x)' = Said(x) /\ ToSend(x)' = ToSend(x)
  BY <1>1, <1>2, OthersMailed
<1>4. Alive(s) \in QueueMessage /\ Alive(s).type = "healthcheck"
  BY Made DEF Alive
<1>5. \A x \in Peers : Reported(x)' = Reported(x) /\ Asked(x)' = Asked(x)
  BY <1>1, <1>4, OthersQueued
<1>6. \A x \in Peers : Mailed(x)' = Mailed(x) /\ ToFetch(x)' = ToFetch(x)
  BY <1>1 DEF Mailed, ToFetch
<1> QED BY <1>3, <1>5, <1>6, PartsAre DEF SameEvents, SameCommands

LEMMA ToldStep ==
  ASSUME TypeOK, NEW ps, NEW n \in Nat, Tell(ps, n) \/ peerMail' = peerMail
  PROVE  \A x \in Peers : Mailed(x)' = Mailed(x)
<1> SUFFICES ASSUME NEW x \in Peers PROVE Mailed(x)' = Mailed(x)
  OBVIOUS
<1> DEFINE m == [type |-> "status", degraded |-> n]
<1>1. m \in PeerMessage /\ m.type # "bgp" /\ peerMail[x] \in Seq(PeerMessage)
  BY Made DEF TypeOK
<1>2. peerMail'[x] = Append(peerMail[x], m) \/ peerMail'[x] = peerMail[x]
  BY DEF Tell
<1> HIDE DEF m
<1> QED BY <1>1, <1>2, MailGrows DEF Mailed

LEMMA BgpStep ==
  ASSUME TypeOK, ProcessBgp
  PROVE  SameEvents /\ SameCommands
<1> DEFINE m == Head(queue)
           n == [type |-> "bgp", what |-> m.what]
<1>1. /\ ControllerGets("bgp") /\ queue' = Tail(queue)
      /\ peerMail' = [peerMail EXCEPT ![m.peer] = Append(@, n)]
      /\ UNCHANGED <<inbox, outgoing>>
  BY DEF ProcessBgp, speakerVars
<1>2. /\ queue \in Seq(QueueMessage) /\ queue # <<>> /\ m \in QueueMessage
      /\ m.type = "bgp" /\ Tail(queue) \in Seq(QueueMessage)
  BY <1>1, HeadOfQueue DEF TypeOK
<1>3. m.peer \in Peers /\ m.what \in Event
  BY <1>2, QueueMessageIs
<1>4. n \in PeerMessage /\ n.type = "bgp" /\ n.what = m.what
  BY <1>3, Made
<1> SUFFICES ASSUME NEW x \in Peers
             PROVE  EventsFor(x)' = EventsFor(x) /\ CommandsFor(x)' = CommandsFor(x)
  BY DEF SameEvents, SameCommands
<1>5. Said(x)' = Said(x) /\ ToFetch(x)' = ToFetch(x) /\ ToSend(x)' = ToSend(x)
  BY <1>1 DEF Said, ToFetch, ToSend
<1>6. /\ Asked(x)' = Asked(x)
      /\ Reported(x) = IF x = m.peer THEN Then(m.what, Reported(x)') ELSE Reported(x)'
  BY <1>1, <1>2, QueueShrinks DEF Asked, Reported
<1>7. Mailed(x)' = IF x = m.peer THEN Append(Mailed(x), m.what) ELSE Mailed(x)
  <2>1. peerMail[x] \in Seq(PeerMessage)
    BY DEF TypeOK
  <2> HIDE DEF m, n
  <2>2. peerMail'[x] = IF x = m.peer THEN Append(peerMail[x], n) ELSE peerMail[x]
    BY <1>1 DEF TypeOK
  <2> QED BY <1>4, <2>1, <2>2, MailGrows DEF Mailed
<1>8. Mailed(x) \in Seq(Event) /\ Said(x) \in Seq(Event) /\ Reported(x)' \in Seq(Event)
  BY <1>1, <1>2, PartsTypes, NameIs, NamedTyped DEF Reported
<1>9. CASE x = m.peer
  <2> HIDE DEF m
  <2>1. Joined(Mailed(x), Then(m.what, Reported(x)'), Said(x)) =
          Joined(Append(Mailed(x), m.what), Reported(x)', Said(x))
    BY <1>3, <1>8, Joins
  <2> QED BY <1>5, <1>6, <1>7, <1>9, <2>1, PartsAre
<1>10. CASE x # m.peer
  BY <1>5, <1>6, <1>7, <1>10, PartsAre
<1> QED BY <1>9, <1>10

LEMMA StatusStep ==
  ASSUME TypeOK, ProcessStatus \/ ProcessHealthcheck
  PROVE  SameEvents /\ SameCommands
<1>1. /\ queue \in Seq(QueueMessage) /\ queue # <<>> /\ queue' = Tail(queue)
      /\ Head(queue) \in QueueMessage
      /\ Head(queue).type \in {"status", "healthcheck"}
      /\ UNCHANGED <<inbox, outgoing>>
  BY HeadOfQueue DEF ProcessStatus, ProcessHealthcheck, TypeOK, speakerVars
<1>2. \A x \in Peers : Reported(x)' = Reported(x) /\ Asked(x)' = Asked(x)
  BY <1>1, QueueShrinks DEF Reported, Asked
<1>3. \A x \in Peers : /\ Said(x)' = Said(x)
                       /\ ToFetch(x)' = ToFetch(x) /\ ToSend(x)' = ToSend(x)
  BY <1>1 DEF Said, ToFetch, ToSend
<1>4. \A x \in Peers : Mailed(x)' = Mailed(x)
  <2>1. TypeOK'
    BY ControllerTyped DEF ControllerStep
  <2>2. Missing(status') \in Nat /\ Missing(speakerStatus') \in Nat
    BY <2>1, MissingIs, SpeakerAssumption DEF TypeOK
  <2>3. \/ peerMail' = peerMail
        \/ \E ps : Tell(ps, Missing(status')) \/ Tell(ps, Missing(speakerStatus'))
    BY DEF ProcessStatus, ProcessHealthcheck
  <2> QED BY <2>2, <2>3, ToldStep
<1> QED BY <1>2, <1>3, <1>4, PartsAre DEF SameEvents, SameCommands

\* Takes the oldest command of p, and changes nothing for others.
Takes(p) ==
  /\ p \in Peers
  /\ \A x \in Peers : IF x = p THEN TailIs(CommandsFor(x), CommandsFor(x)')
                      ELSE CommandsFor(x)' = CommandsFor(x)

\* The command for a neighbour of another than the first speaker is dropped,
\* and it was the oldest.
LEMMA EncodeStep ==
  ASSUME TypeOK, OwnMail, ProcessEncode
  PROVE  /\ SameEvents
         /\ LET p == Head(queue).peer
            IN  IF SpeakerOf[p] = SpeakerList[1] THEN SameCommands ELSE Takes(p)
<1> DEFINE m == Head(queue)
           s == SpeakerList[1]
           c == [type |-> "command", peer |-> m.peer, what |-> m.what]
<1>1. /\ ControllerGets("encode") /\ queue' = Tail(queue)
      /\ inbox' = IF SpeakerOf[m.peer] = s THEN [inbox EXCEPT ![s] = Append(@, c)]
                  ELSE inbox
      /\ UNCHANGED <<outgoing, peerMail>>
  BY DEF ProcessEncode, peerVars
<1>2. /\ queue \in Seq(QueueMessage) /\ queue # <<>> /\ m \in QueueMessage
      /\ m.type = "encode" /\ Tail(queue) \in Seq(QueueMessage)
  BY <1>1, HeadOfQueue DEF TypeOK
<1>3. m.peer \in Peers /\ m.what \in Operation
  BY <1>2, QueueMessageIs
<1>4. c \in SpeakerMessage /\ c.type = "command" /\ c.peer = m.peer /\ c.what = m.what
  BY <1>3, Made
<1>5. \A x \in Peers :
        /\ Mailed(x)' = Mailed(x) /\ ToFetch(x)' = ToFetch(x)
        /\ Reported(x)' = Reported(x)
        /\ Asked(x) = IF x = m.peer THEN Then(m.what, Asked(x)') ELSE Asked(x)'
  BY <1>1, <1>2, QueueShrinks DEF Mailed, ToFetch, Reported, Asked
<1>6. \A x \in Peers : /\ ToFetch(x) \in Seq(Operation) /\ ToSend(x) \in Seq(Operation)
                       /\ Asked(x)' \in Seq(Operation)
  BY <1>1, <1>2, PartsTypes, NameIs, NamedTyped DEF Asked
<1> HIDE DEF m, c
<1>7. \A x \in Peers :
        /\ Said(x)' = Said(x)
        /\ ToSend(x)' = IF SpeakerOf[m.peer] = s /\ x = m.peer
                        THEN Append(ToSend(x), m.what) ELSE ToSend(x)
  <2> SUFFICES ASSUME NEW x \in Peers
               PROVE  /\ Said(x)' = Said(x)
                      /\ ToSend(x)' = IF SpeakerOf[m.peer] = s /\ x = m.peer
                                      THEN Append(ToSend(x), m.what) ELSE ToSend(x)
    OBVIOUS
  <2>1. SpeakerOf[x] \in Speakers /\ inbox[SpeakerOf[x]] \in Seq(SpeakerMessage)
    BY SpeakerAssumption DEF TypeOK
  <2>2. CASE SpeakerOf[m.peer] = s /\ SpeakerOf[x] = s
    <3>1. inbox'[SpeakerOf[x]] = Append(inbox[SpeakerOf[x]], c)
      BY <1>1, <2>1, <2>2 DEF TypeOK
    <3>2. /\ Named(Append(inbox[SpeakerOf[x]], c), NeighbourName(x)) =
               Named(inbox[SpeakerOf[x]], NeighbourName(x))
          /\ Named(Append(inbox[SpeakerOf[x]], c), CommandName(x)) =
               IF x = m.peer
               THEN Append(Named(inbox[SpeakerOf[x]], CommandName(x)), m.what)
               ELSE Named(inbox[SpeakerOf[x]], CommandName(x))
      <4> DEFINE q == inbox[SpeakerOf[x]]
      <4>1. q \in Seq(SpeakerMessage)
        BY <2>1
      <4> HIDE DEF q
      <4>2. Named(Append(q, c), NeighbourName(x)) = Named(q, NeighbourName(x))
        BY <1>4, <4>1, InboxGrows
      <4>3. Named(Append(q, c), CommandName(x)) =
              IF x = m.peer THEN Append(Named(q, CommandName(x)), m.what)
              ELSE Named(q, CommandName(x))
        BY <1>4, <4>1, InboxGrows
      <4> QED BY <4>2, <4>3 DEF q
    <3> QED BY <2>2, <3>1, <3>2 DEF Said, ToSend
  <2>3. CASE ~(SpeakerOf[m.peer] = s /\ SpeakerOf[x] = s)
    <3>1. inbox'[SpeakerOf[x]] = inbox[SpeakerOf[x]]
      BY <1>1, <2>1, <2>3 DEF TypeOK
    <3>2. ~(SpeakerOf[m.peer] = s /\ x = m.peer)
      BY <2>3
    <3> QED BY <3>1, <3>2 DEF Said, ToSend
  <2> QED BY <2>2, <2>3
<1>8. SameEvents
  BY <1>5, <1>7, PartsAre DEF SameEvents
<1>9. CASE SpeakerOf[m.peer] = s
  <2>1. ASSUME NEW x \in Peers PROVE CommandsFor(x)' = CommandsFor(x)
    <3>1. CASE x = m.peer
      <4>1. Joined(ToFetch(x), ToSend(x), Then(m.what, Asked(x)')) =
              Joined(ToFetch(x), Append(ToSend(x), m.what), Asked(x)')
        BY <1>3, <1>6, Joins
      <4> QED BY <1>5, <1>7, <1>9, <3>1, <4>1, PartsAre
    <3>2. CASE x # m.peer
      BY <1>5, <1>7, <3>2, PartsAre
    <3> QED BY <3>1, <3>2
  <2> QED BY <1>8, <1>9, <2>1 DEF SameCommands, m
<1>10. CASE SpeakerOf[m.peer] # s
  <2>0. PICK p \in Peers, w \in Operation : p = m.peer /\ w = m.what
    BY <1>3
  <2>1. ToFetch(p) = <<>>
    <3>1. \A i \in 1 .. Len(outgoing) : outgoing[i].peer # p
      BY <1>10, <2>0 DEF OwnMail
    <3>2. outgoing \in Seq([peer : Peers, what : Operation])
      BY DEF TypeOK
    <3>3. \A i \in 1 .. Len(outgoing) : outgoing[i] \notin DOMAIN OutgoingName(p)
      <4> SUFFICES ASSUME NEW i \in 1 .. Len(outgoing)
                   PROVE  outgoing[i] \notin DOMAIN OutgoingName(p)
        OBVIOUS
      <4>1. outgoing[i] \in [peer : Peers, what : Operation]
        <5> DEFINE S == [peer : Peers, what : Operation]
        <5>1. outgoing \in Seq(S)
          BY <3>2
        <5> HIDE DEF S
        <5>2. outgoing[i] \in S
          BY <5>1, SeqFacts
        <5> QED BY <5>2 DEF S
      <4> QED BY <3>1, <4>1, NameOutgoing
    <3> QED BY <3>2, <3>3, NamedNone DEF ToFetch
  <2>2. ToSend(p) = <<>>
    <3> DEFINE q == inbox[SpeakerOf[p]]
    <3>1. q \in Seq(SpeakerMessage) /\ SpeakerOf[p] \in Speakers
      BY SpeakerAssumption DEF TypeOK
    <3>2. \A i \in 1 .. Len(q) : q[i] \in SpeakerMessage /\ q[i].type # "command"
      BY <1>10, <2>0, <3>1, SeqFacts DEF OwnMail
    <3>3. \A i \in 1 .. Len(q) : q[i] \notin DOMAIN CommandName(p)
      BY <3>2, NameInbox
    <3> QED BY <3>1, <3>3, NamedNone DEF ToSend
  <2>3. CommandsFor(p) = Then(w, Asked(p)') /\ CommandsFor(p)' = Asked(p)'
    <3>1. Joined(<<>>, <<>>, Asked(p)') = Asked(p)'
      BY <1>6, JoinsEmpty
    <3>2. Joined(<<>>, <<>>, Then(w, Asked(p)')) = Then(w, Asked(p)')
      <4>1. Asked(p) = Then(w, Asked(p)') /\ Asked(p) \in Seq(Operation)
        BY <1>5, <2>0, PartsTypes
      <4> QED BY <4>1, JoinsEmpty
    <3> QED BY <1>5, <1>7, <1>10, <2>0, <2>1, <2>2, <3>1, <3>2, PartsAre
  <2>4. TailIs(CommandsFor(p), CommandsFor(p)')
    BY <1>6, <2>3, Joins
  <2>5. \A x \in Peers : x # p => CommandsFor(x)' = CommandsFor(x)
    BY <1>5, <1>7, <2>0, PartsAre
  <2>6. Takes(p)
    BY <2>3, <2>4, <2>5 DEF Takes
  <2> QED BY <1>8, <1>10, <2>0, <2>6 DEF m
<1> QED BY <1>9, <1>10

LEMMA PeerHearsStep ==
  ASSUME TypeOK, NEW p \in Peers, PeerHears(p)
  PROVE  /\ TailIs(EventsFor(p), EventsFor(p)')
         /\ \A x \in Peers : x # p => EventsFor(x)' = EventsFor(x)
         /\ SameCommands
<1> DEFINE q == peerMail[p]
           m == Head(q)
           st == [type |-> "status", peer |-> p, up |-> (m.what = "up")]
<1>1. /\ PeerGets(p, "bgp") /\ peerMail' = [peerMail EXCEPT ![p] = Tail(@)]
      /\ queue' = Append(queue, st) \/ queue' = queue
      /\ UNCHANGED <<inbox, outgoing>>
  BY DEF PeerHears, speakerVars
<1>2. /\ q \in Seq(PeerMessage) /\ q # <<>> /\ m \in PeerMessage /\ m.type = "bgp"
      /\ Tail(q) \in Seq(PeerMessage)
  <2>1. q \in Seq(PeerMessage) /\ q # <<>> /\ m.type = "bgp"
    BY <1>1 DEF TypeOK, PeerGets
  <2> QED BY <2>1, SeqFacts
<1>3. st \in QueueMessage /\ st.type = "status"
  BY Made
<1>4. m.what \in Event
  BY <1>2, PeerMessageIs
<1>5. \A x \in Peers : Reported(x)' = Reported(x) /\ Asked(x)' = Asked(x)
  <2> HIDE DEF st
  <2> QED BY <1>1, <1>3, OthersQueued
<1>6. \A x \in Peers : /\ Said(x)' = Said(x)
                       /\ ToFetch(x)' = ToFetch(x) /\ ToSend(x)' = ToSend(x)
  BY <1>1 DEF Said, ToFetch, ToSend
<1>7. \A x \in Peers : x # p => Mailed(x)' = Mailed(x)
  BY <1>1 DEF Mailed, TypeOK
<1>8. Mailed(p) = Then(m.what, Mailed(p)') /\ Mailed(p)' \in Seq(Event)
  <2>1. peerMail'[p] = Tail(q)
    BY <1>1 DEF TypeOK
  <2> QED BY <1>2, <2>1, MailShrinks, NameIs, NamedTyped DEF Mailed
<1>9. Reported(p) \in Seq(Event) /\ Said(p) \in Seq(Event)
  BY PartsTypes
<1> HIDE DEF m
<1>10. TailIs(Joined(Then(m.what, Mailed(p)'), Reported(p), Said(p)),
              Joined(Mailed(p)', Reported(p), Said(p)))
  BY <1>4, <1>8, <1>9, Joins
<1>11. TailIs(EventsFor(p), EventsFor(p)')
  BY <1>5, <1>6, <1>8, <1>10, PartsAre
<1>12. \A x \in Peers : x # p => EventsFor(x)' = EventsFor(x)
  BY <1>5, <1>6, <1>7, PartsAre
<1>13. SameCommands
  BY <1>5, <1>6, PartsAre DEF SameCommands
<1> QED BY <1>11, <1>12, <1>13

LEMMA PeerStatusStep ==
  ASSUME TypeOK, NEW p \in Peers, PeerStatus(p)
  PROVE  SameEvents /\ SameCommands
<1> DEFINE q == peerMail[p]
<1>1. /\ PeerGets(p, "status") /\ peerMail' = [peerMail EXCEPT ![p] = Tail(@)]
      /\ UNCHANGED <<inbox, queue, outgoing>>
  BY DEF PeerStatus, speakerVars
<1>2. q \in Seq(PeerMessage) /\ q # <<>> /\ Head(q).type = "status"
  BY <1>1 DEF TypeOK, PeerGets
<1>3. \A x \in Peers : /\ Said(x)' = Said(x) /\ Reported(x)' = Reported(x)
                       /\ ToFetch(x)' = ToFetch(x) /\ ToSend(x)' = ToSend(x)
                       /\ Asked(x)' = Asked(x)
  BY <1>1 DEF Said, Reported, ToFetch, ToSend, Asked
<1>4. \A x \in Peers : x # p => Mailed(x)' = Mailed(x)
  BY <1>1 DEF Mailed, TypeOK
<1>5. Mailed(p)' = Mailed(p)
  <2>1. peerMail'[p] = Tail(q)
    BY <1>1 DEF TypeOK
  <2> QED BY <1>2, <2>1, MailShrinks DEF Mailed
<1> QED BY <1>3, <1>4, <1>5, PartsAre DEF SameEvents, SameCommands

LEMMA ExportsStep ==
  ASSUME TypeOK, NEW p \in Peers, PeerExports(p)
  PROVE  /\ SameEvents
         /\ \E c \in Operation : \A x \in Peers :
              CommandsFor(x)' = IF x = p THEN Append(CommandsFor(x), c)
                                ELSE CommandsFor(x)
<1>1. PICK c \in Operation :
        queue' = Append(queue, [type |-> "encode", peer |-> p, what |-> c])
  BY DEF PeerExports
<1> DEFINE m == [type |-> "encode", peer |-> p, what |-> c]
<1>2. m \in QueueMessage /\ m.type = "encode" /\ m.peer = p /\ m.what = c
  BY Made
<1>3. queue' = Append(queue, m) /\ queue \in Seq(QueueMessage)
  BY <1>1 DEF TypeOK
<1>4. UNCHANGED <<inbox, outgoing, peerMail>>
  BY DEF PeerExports, speakerVars
<1> HIDE DEF m
<1>5. \A x \in Peers :
        /\ Reported(x)' = Reported(x)
        /\ Asked(x)' = IF x = p THEN Append(Asked(x), c) ELSE Asked(x)
  <2> SUFFICES ASSUME NEW x \in Peers
               PROVE  /\ Reported(x)' = Reported(x)
                      /\ Asked(x)' = IF x = p THEN Append(Asked(x), c) ELSE Asked(x)
    OBVIOUS
  <2>1. /\ Named(Append(queue, m), BgpName(x)) = Named(queue, BgpName(x))
        /\ Named(Append(queue, m), EncodeName(x)) =
             IF x = p THEN Append(Named(queue, EncodeName(x)), c)
             ELSE Named(queue, EncodeName(x))
    BY <1>2, <1>3, QueueGrows
  <2>2. /\ Named(queue, BgpName(x))' = Named(Append(queue, m), BgpName(x))
        /\ Named(queue, EncodeName(x))' = Named(Append(queue, m), EncodeName(x))
    BY <1>3, Zenon
  <2> QED BY <2>1, <2>2 DEF Reported, Asked
<1>6. \A x \in Peers : /\ Mailed(x)' = Mailed(x) /\ Said(x)' = Said(x)
                       /\ ToFetch(x)' = ToFetch(x) /\ ToSend(x)' = ToSend(x)
  BY <1>4 DEF Mailed, Said, ToFetch, ToSend
<1>7. Joined(ToFetch(p), ToSend(p), Append(Asked(p), c)) =
        Append(Joined(ToFetch(p), ToSend(p), Asked(p)), c)
  BY PartsTypes, Joins
<1>8. \A x \in Peers : CommandsFor(x)' = IF x = p THEN Append(CommandsFor(x), c)
                                         ELSE CommandsFor(x)
  BY <1>5, <1>6, <1>7, PartsAre
<1>9. SameEvents
  BY <1>5, <1>6, PartsAre DEF SameEvents
<1> QED BY <1>8, <1>9

LEMMA FetchesStep ==
  ASSUME TypeOK, SenderFetches
  PROVE  SameEvents /\ Takes(Head(outgoing).peer)
<1> DEFINE m == Head(outgoing)
<1>1. /\ outgoing # <<>> /\ outgoing' = Tail(outgoing)
      /\ UNCHANGED <<inbox, queue, peerMail>>
  BY DEF SenderFetches, speakerVars, peerVars
<1>2. /\ outgoing \in Seq([peer : Peers, what : Operation])
      /\ m \in [peer : Peers, what : Operation]
  BY <1>1, SeqFacts DEF TypeOK
<1>3. PICK p \in Peers, w \in Operation : p = m.peer /\ w = m.what
  BY <1>2
<1>4. \A x \in Peers :
        ToFetch(x) = IF x = p THEN Then(w, ToFetch(x)') ELSE ToFetch(x)'
  BY <1>1, <1>2, <1>3, OutgoingShrinks DEF ToFetch
<1>5. \A x \in Peers : /\ Mailed(x)' = Mailed(x) /\ Said(x)' = Said(x)
                       /\ Reported(x)' = Reported(x)
                       /\ ToSend(x)' = ToSend(x) /\ Asked(x)' = Asked(x)
  BY <1>1 DEF Mailed, Said, Reported, ToSend, Asked
<1>6. ToFetch(p)' \in Seq(Operation)
  <2> DEFINE S == [peer : Peers, what : Operation]
  <2>1. outgoing' \in Seq(S)
    BY <1>1, <1>2
  <2> HIDE DEF S, m
  <2> QED BY <2>1, NameIs, NamedTyped DEF ToFetch
<1> HIDE DEF m
<1>7. TailIs(Joined(Then(w, ToFetch(p)'), ToSend(p), Asked(p)),
             Joined(ToFetch(p)', ToSend(p), Asked(p)))
  BY <1>6, PartsTypes, Joins
<1>8. Takes(p)
  BY <1>4, <1>5, <1>7, PartsAre DEF Takes
<1>9. SameEvents
  BY <1>5, PartsAre DEF SameEvents
<1> QED BY <1>3, <1>8, <1>9 DEF m
-----------------------------------------------------------------------------
(***************************************************************************)
(* Whose mail is where.                                                    *)
(***************************************************************************)
LEMMA OwnInit == Init => OwnMail
  BY DEF Init, OwnMail

LEMMA OwnSends ==
  ASSUME TypeOK, OwnMail, NEW p \in Peers, NEW w \in Event \cup {"keepalive"},
         Sends(p, w)
  PROVE  OwnMail'
<1> DEFINE m == [type |-> "neighbour", peer |-> p, what |-> w]
           q == inbox[SpeakerOf[p]]
<1>1. /\ inbox' = [inbox EXCEPT ![SpeakerOf[p]] = Append(q, m)]
      /\ outgoing' = outgoing
  BY DEF Sends
<1>2. q \in Seq(SpeakerMessage) /\ SpeakerOf[p] \in Speakers
  BY SpeakerAssumption DEF TypeOK
<1>3. /\ Len(Append(q, m)) = Len(q) + 1 /\ Append(q, m)[Len(q) + 1] = m
      /\ \A i \in 1 .. Len(q) : Append(q, m)[i] = q[i]
      /\ Len(q) \in Nat
  BY <1>2
<1>4. m.peer = p /\ m.type # "command"
  OBVIOUS
<1> HIDE DEF m
<1>5. ASSUME NEW s \in Speakers, NEW i \in 1 .. Len(inbox'[s])
      PROVE  /\ inbox'[s][i].type # "other" => SpeakerOf[inbox'[s][i].peer] = s
             /\ inbox'[s][i].type = "command" => s = SpeakerList[1]
  <2>1. CASE s = SpeakerOf[p]
    <3>1. inbox'[s] = Append(q, m)
      BY <1>1, <2>1 DEF TypeOK
    <3>2. i \in 1 .. Len(q) \/ i = Len(q) + 1
      BY <1>3, <3>1
    <3> QED BY <1>2, <1>3, <1>4, <2>1, <3>1, <3>2 DEF OwnMail
  <2>2. CASE s # SpeakerOf[p]
    <3>1. inbox'[s] = inbox[s]
      BY <1>1, <2>2 DEF TypeOK
    <3> QED BY <3>1 DEF OwnMail
  <2> QED BY <2>1, <2>2
<1> QED BY <1>1, <1>5 DEF OwnMail

\* What a speaker takes out of its inbox leaves the rest as it was.
LEMMA OwnTail ==
  ASSUME TypeOK, OwnMail, NEW s \in Speakers, inbox[s] # <<>>,
         inbox' = [inbox EXCEPT ![s] = Tail(@)]
  PROVE  /\ \A x \in Speakers : \A i \in 1 .. Len(inbox'[x]) :
              /\ inbox'[x][i].type # "other" => SpeakerOf[inbox'[x][i].peer] = x
              /\ inbox'[x][i].type = "command" => x = SpeakerList[1]
         /\ Head(inbox[s]).type # "other" => SpeakerOf[Head(inbox[s]).peer] = s
         /\ Head(inbox[s]).type = "command" => s = SpeakerList[1]
<1> DEFINE q == inbox[s]
<1>1. q \in Seq(SpeakerMessage) /\ q # <<>>
  BY DEF TypeOK
<1>2. /\ Len(Tail(q)) = Len(q) - 1 /\ \A i \in 1 .. Len(q) - 1 : Tail(q)[i] = q[i + 1]
      /\ Len(q) \in Nat /\ Len(q) > 0 /\ Head(q) = q[1]
  BY <1>1, SeqFacts
<1>3. \A i \in 1 .. Len(q) : /\ q[i].type # "other" => SpeakerOf[q[i].peer] = s
                             /\ q[i].type = "command" => s = SpeakerList[1]
  BY DEF OwnMail
<1>4. 1 \in 1 .. Len(q)
  BY <1>2
<1>5. ASSUME NEW x \in Speakers, NEW i \in 1 .. Len(inbox'[x])
      PROVE  /\ inbox'[x][i].type # "other" => SpeakerOf[inbox'[x][i].peer] = x
             /\ inbox'[x][i].type = "command" => x = SpeakerList[1]
  <2>1. CASE x = s
    <3>1. inbox'[x] = Tail(q)
      BY <2>1 DEF TypeOK
    <3>2. i \in 1 .. Len(q) - 1 /\ i + 1 \in 1 .. Len(q)
      <4>1. Len(inbox'[x]) = Len(q) - 1 /\ Len(q) \in Nat
        BY <1>2, <3>1
      <4> DEFINE n == Len(inbox'[x])
      <4>2. i \in 1 .. n /\ n = Len(q) - 1
        BY <4>1
      <4> HIDE DEF n, q
      <4> QED BY <4>1, <4>2
    <3>3. inbox'[x][i] = q[i + 1]
      BY <1>2, <3>1, <3>2
    <3> QED BY <1>3, <2>1, <3>2, <3>3
  <2>2. CASE x # s
    <3>1. inbox'[x] = inbox[x]
      BY <2>2 DEF TypeOK
    <3> QED BY <3>1 DEF OwnMail
  <2> QED BY <2>1, <2>2
<1> QED BY <1>2, <1>3, <1>4, <1>5

LEMMA OwnSpeaker ==
  ASSUME TypeOK, OwnMail, NEW s \in Speakers, SpeakerStep(s)
  PROVE  OwnMail'
<1>1. CASE SpeakerHears(s)
  BY <1>1, OwnTail DEF SpeakerHears, SpeakerGets, OwnMail
<1>2. CASE SpeakerSends(s)
  <2> DEFINE m == Head(inbox[s])
             o == [peer |-> m.peer, what |-> m.what]
  <2>1. /\ inbox[s] # <<>> /\ m.type = "command"
        /\ inbox' = [inbox EXCEPT ![s] = Tail(@)]
        /\ outgoing' = IF SpeakerOf[m.peer] = s THEN Append(outgoing, o) ELSE outgoing
    BY <1>2 DEF SpeakerSends, SpeakerGets
  <2>2. /\ SpeakerOf[m.peer] = s /\ s = SpeakerList[1]
        /\ \A x \in Speakers : \A i \in 1 .. Len(inbox'[x]) :
             /\ inbox'[x][i].type # "other" => SpeakerOf[inbox'[x][i].peer] = x
             /\ inbox'[x][i].type = "command" => x = SpeakerList[1]
    BY <2>1, OwnTail
  <2>3. outgoing' = Append(outgoing, o) /\ o.peer = m.peer
    BY <2>1, <2>2
  <2>4. /\ Len(outgoing) \in Nat /\ Len(outgoing') = Len(outgoing) + 1
        /\ \A i \in 1 .. Len(outgoing) : outgoing'[i] = outgoing[i]
        /\ outgoing'[Len(outgoing) + 1] = o
    <3>1. outgoing \in Seq([peer : Peers, what : Operation])
      BY DEF TypeOK
    <3> DEFINE S == [peer : Peers, what : Operation]
    <3>2. outgoing \in Seq(S)
      BY <3>1
    <3> HIDE DEF S, o
    <3> QED BY <2>3, <3>2
  <2> HIDE DEF m, o
  <2>5. ASSUME NEW i \in 1 .. Len(outgoing')
        PROVE  SpeakerOf[outgoing'[i].peer] = SpeakerList[1]
    <3>1. i \in 1 .. Len(outgoing) \/ i = Len(outgoing) + 1
      BY <2>4
    <3> QED BY <2>2, <2>3, <2>4, <3>1 DEF OwnMail
  <2> QED BY <2>2, <2>5 DEF OwnMail
<1>3. CASE SpeakerHearsOther(s)
  BY <1>3, OwnTail DEF SpeakerHearsOther, SpeakerGets, OwnMail
<1> QED BY <1>1, <1>2, <1>3 DEF SpeakerStep

LEMMA OwnOther ==
  ASSUME TypeOK, OwnMail, NEW s \in Speakers, OtherSays(s)
  PROVE  OwnMail'
<1>1. PICK w \in Other :
        inbox' = [inbox EXCEPT ![s] = Append(@, [type |-> "other", what |-> w])]
  BY DEF OtherSays
<1> DEFINE m == [type |-> "other", what |-> w]
           q == inbox[s]
<1>2. inbox' = [inbox EXCEPT ![s] = Append(q, m)] /\ outgoing' = outgoing
  BY <1>1 DEF OtherSays
<1>3. q \in Seq(SpeakerMessage)
  BY DEF TypeOK
<1>4. /\ Len(Append(q, m)) = Len(q) + 1 /\ Append(q, m)[Len(q) + 1] = m
      /\ \A i \in 1 .. Len(q) : Append(q, m)[i] = q[i]
      /\ Len(q) \in Nat
  BY <1>3
<1>5. m.type = "other"
  OBVIOUS
<1> HIDE DEF m
<1>6. ASSUME NEW x \in Speakers, NEW i \in 1 .. Len(inbox'[x])
      PROVE  /\ inbox'[x][i].type # "other" => SpeakerOf[inbox'[x][i].peer] = x
             /\ inbox'[x][i].type = "command" => x = SpeakerList[1]
  <2>1. CASE x = s
    <3>1. inbox'[x] = Append(q, m)
      BY <1>2, <2>1 DEF TypeOK
    <3>2. i \in 1 .. Len(q) \/ i = Len(q) + 1
      BY <1>4, <3>1
    <3> QED BY <1>4, <1>5, <2>1, <3>1, <3>2 DEF OwnMail
  <2>2. CASE x # s
    <3>1. inbox'[x] = inbox[x]
      BY <1>2, <2>2 DEF TypeOK
    <3> QED BY <3>1 DEF OwnMail
  <2> QED BY <2>1, <2>2
<1> QED BY <1>2, <1>6 DEF OwnMail

LEMMA OwnEncode ==
  ASSUME TypeOK, OwnMail, ProcessEncode
  PROVE  OwnMail'
<1> DEFINE m == Head(queue)
           s == SpeakerList[1]
           c == [type |-> "command", peer |-> m.peer, what |-> m.what]
           q == inbox[s]
<1>1. /\ inbox' = IF SpeakerOf[m.peer] = s THEN [inbox EXCEPT ![s] = Append(q, c)]
                  ELSE inbox
      /\ outgoing' = outgoing
  BY DEF ProcessEncode
<1>2. c.peer = m.peer
  OBVIOUS
<1>3. s \in Speakers
  BY SpeakerAssumption
<1>4. q \in Seq(SpeakerMessage)
  BY <1>3 DEF TypeOK
<1> HIDE DEF c, m
<1>5. /\ Len(Append(q, c)) = Len(q) + 1 /\ Append(q, c)[Len(q) + 1] = c
      /\ \A i \in 1 .. Len(q) : Append(q, c)[i] = q[i]
      /\ Len(q) \in Nat
  BY <1>4
<1>6. ASSUME NEW x \in Speakers, NEW i \in 1 .. Len(inbox'[x])
      PROVE  /\ inbox'[x][i].type # "other" => SpeakerOf[inbox'[x][i].peer] = x
             /\ inbox'[x][i].type = "command" => x = s
  <2>1. CASE x = s /\ SpeakerOf[m.peer] = s
    <3>1. inbox'[x] = Append(q, c)
      BY <1>1, <2>1 DEF TypeOK
    <3>2. i \in 1 .. Len(q) \/ i = Len(q) + 1
      BY <1>5, <3>1
    <3> QED BY <1>2, <1>3, <1>5, <2>1, <3>1, <3>2 DEF OwnMail
  <2>2. CASE ~(x = s /\ SpeakerOf[m.peer] = s)
    <3>1. inbox'[x] = inbox[x]
      BY <1>1, <2>2 DEF TypeOK
    <3> QED BY <3>1 DEF OwnMail
  <2> QED BY <2>1, <2>2
<1> QED BY <1>1, <1>6 DEF OwnMail

LEMMA OwnFetches ==
  ASSUME TypeOK, OwnMail, SenderFetches
  PROVE  OwnMail'
<1>1. /\ outgoing # <<>> /\ outgoing' = Tail(outgoing) /\ inbox' = inbox
      /\ outgoing \in Seq([peer : Peers, what : Operation])
  BY DEF SenderFetches, TypeOK, speakerVars
<1>2. /\ Len(outgoing') = Len(outgoing) - 1 /\ Len(outgoing) \in Nat
      /\ \A i \in 1 .. Len(outgoing) - 1 : outgoing'[i] = outgoing[i + 1]
  BY <1>1, SeqFacts
<1>3. \A i \in 1 .. Len(outgoing') : SpeakerOf[outgoing'[i].peer] = SpeakerList[1]
  <2> SUFFICES ASSUME NEW i \in 1 .. Len(outgoing')
               PROVE  SpeakerOf[outgoing'[i].peer] = SpeakerList[1]
    OBVIOUS
  <2>1. i + 1 \in 1 .. Len(outgoing) /\ i \in 1 .. Len(outgoing) - 1
    BY <1>2
  <2> QED BY <1>2, <2>1 DEF OwnMail
<1> QED BY <1>1, <1>3 DEF OwnMail

\* The messages that a neighbour causes, one for each thing it does.
LEMMA NeighbourSends ==
  ASSUME NEW p \in Peers, Neighbour(p)
  PROVE  \E w \in Event \cup {"keepalive"} : Sends(p, w)
  BY DEF Neighbour, NeighbourOpen, NeighbourConfirm, NeighbourUp, NeighbourDown,
     NeighbourSays, Event

LEMMA OwnNext == TypeOK /\ OwnMail /\ [Next]_vars => OwnMail'
<1> SUFFICES ASSUME TypeOK, OwnMail, [Next]_vars PROVE OwnMail'
  OBVIOUS
<1>1. ASSUME NEW p \in Peers, Neighbour(p) PROVE OwnMail'
  BY <1>1, NeighbourSends, OwnSends
<1>2. ASSUME NEW s \in Speakers, SpeakerStep(s) PROVE OwnMail'
  BY <1>2, OwnSpeaker
<1>3. CASE ProcessEncode
  BY <1>3, OwnEncode
<1>4. CASE SenderFetches
  BY <1>4, OwnFetches
<1>5. CASE UNCHANGED <<inbox, outgoing>>
  BY <1>5 DEF OwnMail
<1>6. ASSUME NEW s \in Speakers,
             SpeakerSilent(s) \/ TimePasses(s) \/ ExaBGPLost(s) \/ ExaBGPBack(s)
      PROVE  OwnMail'
  BY <1>5, <1>6 DEF SpeakerSilent, TimePasses, ExaBGPLost, ExaBGPBack, speakerVars
<1>7. ASSUME NEW p \in Peers, PeerStep(p) \/ PeerExports(p) PROVE OwnMail'
  BY <1>5, <1>7 DEF PeerStep, PeerHears, PeerStatus, PeerExports, speakerVars
<1>8. CASE ProcessBgp \/ ProcessStatus \/ ProcessHealthcheck \/ UNCHANGED vars
  BY <1>5, <1>8 DEF ProcessBgp, ProcessStatus, ProcessHealthcheck, vars, speakerVars
<1>9. ASSUME NEW s \in Speakers, OtherSays(s) PROVE OwnMail'
  BY <1>9, OwnOther
<1> QED BY <1>1, <1>2, <1>3, <1>4, <1>6, <1>7, <1>8, <1>9 DEF Next, ControllerStep

LEMMA OwnAlways == Spec => [](TypeOK /\ OwnMail)
<1>1. Init => TypeOK /\ OwnMail
  BY TypeInit, OwnInit
<1>2. TypeOK /\ OwnMail /\ [Next]_vars => (TypeOK /\ OwnMail)'
  BY TypeNext, OwnNext
<1> QED BY <1>1, <1>2, PTL DEF Spec
-----------------------------------------------------------------------------
(***************************************************************************)
(* The path is two channels.                                               *)
(***************************************************************************)
ChannelSteps == Channels!Init /\ [][Channels!Next]_(Channels!channels)

LEMMA ChannelsInit == Init => Channels!Init
<1> SUFFICES ASSUME Init PROVE Channels!Init
  OBVIOUS
<1> SUFFICES ASSUME NEW p \in Peers
             PROVE  EventsFor(p) = <<>> /\ CommandsFor(p) = <<>>
  BY DEF Channels!Init
<1>1. /\ Mailed(p) = <<>> /\ Reported(p) = <<>> /\ Said(p) = <<>>
      /\ ToFetch(p) = <<>> /\ ToSend(p) = <<>> /\ Asked(p) = <<>>
  BY SpeakerAssumption, NamedEmpty
     DEF Init, Mailed, Reported, Said, ToFetch, ToSend, Asked
<1>2. <<>> \in Seq(Event) /\ <<>> \in Seq(Operation)
  OBVIOUS
<1> QED BY <1>1, <1>2, PartsAre, JoinsEmpty

LEMMA ChannelsReport ==
  ASSUME NEW p \in Peers, NEW e \in Event, SameCommands,
         \A x \in Peers : EventsFor(x)' = IF x = p THEN Append(EventsFor(x), e)
                                          ELSE EventsFor(x)
  PROVE  Channels!Next
<1>1. Channels!Report(p, e)
  BY DEF Channels!Report, SameCommands
<1> QED BY <1>1 DEF Channels!Next

LEMMA ChannelsReceive ==
  ASSUME NEW p \in Peers, SameCommands, TailIs(EventsFor(p), EventsFor(p)'),
         \A x \in Peers : x # p => EventsFor(x)' = EventsFor(x)
  PROVE  Channels!Next
<1>1. Channels!Receive(p)
  BY DEF Channels!Receive, SameCommands, TailIs
<1> QED BY <1>1 DEF Channels!Next

LEMMA ChannelsCommand ==
  ASSUME NEW p \in Peers, NEW c \in Operation, SameEvents,
         \A x \in Peers : CommandsFor(x)' = IF x = p THEN Append(CommandsFor(x), c)
                                            ELSE CommandsFor(x)
  PROVE  Channels!Next
<1>1. Channels!Command(p, c)
  BY DEF Channels!Command, SameEvents
<1> QED BY <1>1 DEF Channels!Next

LEMMA ChannelsDeliver ==
  ASSUME NEW p \in Peers, SameEvents,
         \A x \in Peers : IF x = p THEN TailIs(CommandsFor(x), CommandsFor(x)')
                          ELSE CommandsFor(x)' = CommandsFor(x)
  PROVE  Channels!Next
<1>1. Channels!Deliver(p)
  BY DEF Channels!Deliver, SameEvents, TailIs
<1> QED BY <1>1 DEF Channels!Next

LEMMA ChannelsStep ==
  ASSUME TypeOK, OwnMail, [Next]_vars
  PROVE  [Channels!Next]_(Channels!channels)
<1>1. CASE SameEvents /\ SameCommands
  BY <1>1 DEF SameEvents, SameCommands, Channels!channels
<1>2. ASSUME NEW p \in Peers, Neighbour(p) PROVE Channels!Next
  <2>1. PICK w \in Event \cup {"keepalive"} : Sends(p, w)
    BY <1>2, NeighbourSends
  <2> DEFINE e == IF w = "keepalive" THEN "up" ELSE w
  <2>2. e \in Event
    BY DEF Event
  <2>3. /\ \A x \in Peers : EventsFor(x)' = IF x = p THEN Append(EventsFor(x), e)
                                            ELSE EventsFor(x)
        /\ SameCommands
    BY <2>1, SendsStep
  <2> HIDE DEF e
  <2> QED BY <2>2, <2>3, ChannelsReport
<1>3. ASSUME NEW s \in Speakers, SpeakerStep(s) \/ SpeakerSilent(s) \/ OtherSays(s)
      PROVE  SameEvents /\ SameCommands
  BY <1>3, HearsStep, HearsOtherStep, SpeakerSendsStep, SilentStep, OtherSaysStep
     DEF SpeakerStep
<1>4. ASSUME NEW s \in Speakers, TimePasses(s) \/ ExaBGPLost(s) \/ ExaBGPBack(s)
      PROVE  SameEvents /\ SameCommands
  BY <1>4, NothingMoves DEF TimePasses, ExaBGPLost, ExaBGPBack, speakerVars, peerVars
<1>5. CASE ProcessBgp \/ ProcessStatus \/ ProcessHealthcheck
  BY <1>1, <1>5, BgpStep, StatusStep
<1>6. CASE ProcessEncode
  <2> DEFINE p == Head(queue).peer
  <2>1. SameEvents /\ (SameCommands \/ Takes(p))
    BY <1>6, EncodeStep
  <2>2. CASE Takes(p)
    <3>1. PICK x \in Peers : x = p
      BY <2>2 DEF Takes
    <3> HIDE DEF p
    <3> QED BY <2>1, <2>2, <3>1, ChannelsDeliver DEF Takes
  <2> QED BY <1>1, <2>1, <2>2
<1>7. ASSUME NEW p \in Peers, PeerHears(p) PROVE Channels!Next
  BY <1>7, PeerHearsStep, ChannelsReceive
<1>8. ASSUME NEW p \in Peers, PeerStatus(p) PROVE SameEvents /\ SameCommands
  BY <1>8, PeerStatusStep
<1>9. ASSUME NEW p \in Peers, PeerExports(p) PROVE Channels!Next
  BY <1>9, ExportsStep, ChannelsCommand
<1>10. CASE SenderFetches
  <2> DEFINE p == Head(outgoing).peer
  <2>1. SameEvents /\ Takes(p)
    BY <1>10, FetchesStep
  <2>2. PICK x \in Peers : x = p
    BY <2>1 DEF Takes
  <2> HIDE DEF p
  <2> QED BY <2>1, <2>2, ChannelsDeliver DEF Takes
<1>11. CASE UNCHANGED vars
  BY <1>1, <1>11, NothingMoves DEF vars, speakerVars, peerVars
<1> QED BY <1>1, <1>2, <1>3, <1>4, <1>5, <1>6, <1>7, <1>8, <1>9, <1>10, <1>11
        DEF Next, ControllerStep, PeerStep

\* Every step of the processes is a step of the two channels of one peer, or
\* none: whatever the processes, timers and lost speakers do in between, what
\* is said on either side is taken out once and in order.  (A command for the
\* neighbour of another than the first speaker is taken out by the loop that
\* drops it: that the rest is delivered is CommandsArrive.)
THEOREM StepsOfChannels == Spec => ChannelSteps
<1> QED BY ChannelsInit, ChannelsStep, OwnAlways, PTL DEF Spec, ChannelSteps
-----------------------------------------------------------------------------
(***************************************************************************)
(* Commands are delivered, to neighbours of the first speaker.             *)
(***************************************************************************)
OfFirst == \A p \in Peers : SpeakerOf[p] = SpeakerList[1]

Counted == \A p \in Peers : commands[p] = delivered[p] + Len(CommandsFor(p))

LEMMA CountedInit == Init => Counted
<1> SUFFICES ASSUME Init, NEW p \in Peers
             PROVE  commands[p] = delivered[p] + Len(CommandsFor(p))
  BY DEF Counted
<1>1. CommandsFor(p) = <<>>
  BY ChannelsInit DEF Channels!Init
<1>2. commands[p] = 0 /\ delivered[p] = 0
  BY DEF Init
<1> QED BY <1>1, <1>2

LEMMA CountedSame ==
  ASSUME Counted, SameCommands, UNCHANGED <<commands, delivered>>
  PROVE  Counted'
  BY DEF Counted, SameCommands

\* What is sent is what was delivered and what waits.
LEMMA OneMoreWaits ==
  ASSUME NEW sent \in Nat, NEW done \in Nat, NEW waiting \in Nat, sent = done + waiting,
         NEW sentNext, NEW doneNext, NEW waitingNext,
         sentNext = sent + 1, doneNext = done, waitingNext = waiting + 1
  PROVE  sentNext = doneNext + waitingNext
  OBVIOUS

LEMMA OneMoreDone ==
  ASSUME NEW sent \in Nat, NEW done \in Nat, NEW waiting \in Nat, sent = done + waiting,
         NEW sentNext, NEW doneNext, NEW waitingNext,
         sentNext = sent, doneNext = done + 1, waitingNext = waiting - 1
  PROVE  sentNext = doneNext + waitingNext
  OBVIOUS

LEMMA CountedExports ==
  ASSUME TypeOK, Counted, NEW p \in Peers, PeerExports(p)
  PROVE  Counted'
<1>1. PICK c \in Operation : \A x \in Peers :
        CommandsFor(x)' = IF x = p THEN Append(CommandsFor(x), c) ELSE CommandsFor(x)
  BY ExportsStep
<1>2. commands' = [commands EXCEPT ![p] = @ + 1] /\ delivered' = delivered
  BY DEF PeerExports
<1> SUFFICES ASSUME NEW x \in Peers
             PROVE  commands'[x] = delivered'[x] + Len(CommandsFor(x)')
  BY DEF Counted
<1>3. /\ commands[x] \in Nat /\ delivered[x] \in Nat
      /\ commands[x] = delivered[x] + Len(CommandsFor(x))
      /\ CommandsFor(x) \in Seq(Operation)
  BY PartsTypes DEF Counted, TypeOK
<1>4. CASE x = p
  <2>1. Len(CommandsFor(x)') = Len(CommandsFor(x)) + 1 /\ Len(CommandsFor(x)) \in Nat
    BY <1>1, <1>3, <1>4
  <2>2. commands'[x] = commands[x] + 1 /\ delivered'[x] = delivered[x]
    BY <1>2, <1>4 DEF TypeOK
  <2> QED BY <1>3, <2>1, <2>2, OneMoreWaits
<1>5. CASE x # p
  <2>1. CommandsFor(x)' = CommandsFor(x)
    BY <1>1, <1>5
  <2>2. delivered'[x] = delivered[x] /\ commands'[x] = commands[x]
    BY <1>2, <1>5 DEF TypeOK
  <2> QED BY <1>3, <2>1, <2>2, Zenon
<1> QED BY <1>4, <1>5

LEMMA CountedFetches ==
  ASSUME TypeOK, Counted, SenderFetches
  PROVE  Counted'
<1>1. PICK p \in Peers : p = Head(outgoing).peer /\ Takes(p)
  <2>1. Takes(Head(outgoing).peer)
    BY FetchesStep
  <2>2. Head(outgoing).peer \in Peers
    BY <2>1 DEF Takes
  <2> QED BY <2>1, <2>2 DEF Takes
<1>2. delivered' = [delivered EXCEPT ![p] = @ + 1] /\ commands' = commands
  BY <1>1 DEF SenderFetches, peerVars
<1> SUFFICES ASSUME NEW x \in Peers
             PROVE  commands'[x] = delivered'[x] + Len(CommandsFor(x)')
  BY DEF Counted
<1>3. /\ commands[x] \in Nat /\ delivered[x] \in Nat
      /\ commands[x] = delivered[x] + Len(CommandsFor(x))
      /\ CommandsFor(x) \in Seq(Operation)
  BY PartsTypes DEF Counted, TypeOK
<1>4. CASE x = p
  <2>1. CommandsFor(x) # <<>> /\ CommandsFor(x)' = Tail(CommandsFor(x))
    BY <1>1, <1>4 DEF Takes, TailIs
  <2>2. /\ Len(CommandsFor(x)') = Len(CommandsFor(x)) - 1
        /\ Len(CommandsFor(x)) \in Nat /\ Len(CommandsFor(x)) > 0
    BY <1>3, <2>1, SeqFacts
  <2>3. delivered'[x] = delivered[x] + 1 /\ commands'[x] = commands[x]
    BY <1>2, <1>4 DEF TypeOK
  <2> QED BY <1>3, <2>2, <2>3, OneMoreDone
<1>5. CASE x # p
  <2>1. CommandsFor(x)' = CommandsFor(x)
    BY <1>1, <1>5 DEF Takes
  <2>2. delivered'[x] = delivered[x] /\ commands'[x] = commands[x]
    BY <1>2, <1>5 DEF TypeOK
  <2> QED BY <1>3, <2>1, <2>2, Zenon
<1> QED BY <1>4, <1>5

LEMMA CountedNext ==
  ASSUME OfFirst
  PROVE  TypeOK /\ OwnMail /\ Counted /\ [Next]_vars => Counted'
<1> SUFFICES ASSUME TypeOK, OwnMail, Counted, [Next]_vars PROVE Counted'
  OBVIOUS
<1>1. ASSUME NEW p \in Peers, PeerExports(p) PROVE Counted'
  BY <1>1, CountedExports
<1>2. CASE SenderFetches
  BY <1>2, CountedFetches
<1>3. ASSUME NEW p \in Peers, Neighbour(p) PROVE Counted'
  <2>1. PICK w \in Event \cup {"keepalive"} : Sends(p, w)
    BY <1>3, NeighbourSends
  <2> QED BY <2>1, SendsStep, CountedSame DEF Sends, peerVars
<1>4. ASSUME NEW s \in Speakers, SpeakerStep(s) \/ SpeakerSilent(s) \/ OtherSays(s)
      PROVE  Counted'
  <2>1. SameCommands
    BY <1>4, HearsStep, HearsOtherStep, SpeakerSendsStep, SilentStep, OtherSaysStep
       DEF SpeakerStep
  <2> QED BY <1>4, <2>1, CountedSame
          DEF SpeakerStep, SpeakerHears, SpeakerHearsOther, SpeakerSends,
              SpeakerSilent, OtherSays, peerVars
<1>5. ASSUME NEW s \in Speakers, TimePasses(s) \/ ExaBGPLost(s) \/ ExaBGPBack(s)
      PROVE  Counted'
  BY <1>5, NothingMoves, CountedSame
     DEF TimePasses, ExaBGPLost, ExaBGPBack, speakerVars, peerVars
<1>6. CASE ProcessBgp \/ ProcessStatus \/ ProcessHealthcheck
  BY <1>6, BgpStep, StatusStep, CountedSame
     DEF ProcessBgp, ProcessStatus, ProcessHealthcheck
<1>7. CASE ProcessEncode
  <2>1. SameCommands
    <3>1. Head(queue).peer \in Peers
      BY <1>7, HeadOfQueue, QueueMessageIs DEF ProcessEncode
    <3> QED BY <1>7, <3>1, EncodeStep DEF OfFirst
  <2> QED BY <1>7, <2>1, CountedSame DEF ProcessEncode, peerVars
<1>8. ASSUME NEW p \in Peers, PeerStep(p) PROVE Counted'
  <2>1. SameCommands
    BY <1>8, PeerHearsStep, PeerStatusStep DEF PeerStep
  <2> QED BY <1>8, <2>1, CountedSame DEF PeerStep, PeerHears, PeerStatus
<1>9. CASE UNCHANGED vars
  BY <1>9, NothingMoves, CountedSame DEF vars, speakerVars, peerVars
<1> QED BY <1>1, <1>2, <1>3, <1>4, <1>5, <1>6, <1>7, <1>8, <1>9
        DEF Next, ControllerStep

\* If all neighbours are the first speaker's, every command of a peer is in a
\* queue or was handed to ExaBGP, and with empty queues all of them were.
THEOREM CommandsArrive ==
  ASSUME OfFirst
  PROVE  Spec => []CommandsDelivered
<1>1. TypeOK /\ Counted => CommandsDelivered
  <2> SUFFICES ASSUME TypeOK, Counted, Drained PROVE delivered = commands
    BY DEF CommandsDelivered
  <2>1. ASSUME NEW p \in Peers PROVE delivered[p] = commands[p]
    <3>1. ToFetch(p) = <<>> /\ ToSend(p) = <<>> /\ Asked(p) = <<>>
      BY SpeakerAssumption, NamedEmpty DEF Drained, ToFetch, ToSend, Asked
    <3>2. CommandsFor(p) = <<>>
      <4>1. <<>> \in Seq(Operation)
        OBVIOUS
      <4> QED BY <3>1, <4>1, PartsAre, JoinsEmpty
    <3>3. commands[p] = delivered[p] + 0 /\ delivered[p] \in Nat
      BY <3>2 DEF Counted, TypeOK
    <3> QED BY <3>3
  <2> QED BY <2>1 DEF TypeOK
<1>2. Spec => []Counted
  BY CountedInit, CountedNext, OwnAlways, PTL DEF Spec
<1> QED BY <1>1, <1>2, TypeCorrect, PTL
=============================================================================
