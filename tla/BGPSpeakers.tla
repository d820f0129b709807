---------------------------- MODULE BGPSpeakers ----------------------------
(***************************************************************************)
(* The path between BGP neighbours and their peer processes.  ExaBGP and   *)
(* receiver.py turn what neighbours do into gRPC calls, which put messages *)
(* into the mailbox of a BGPSpeaker process (bgpcontroller/BGPSpeaker.py); *)
(* that reports on the controller's one internal_command_queue, from which *)
(* the controller loop (bgpcontroller/Controller.py) feeds the peers.  In  *)
(* the other direction a peer puts encode messages on the same queue, the  *)
(* loop hands them to a speaker, and that puts them on the outgoing queue, *)
(* which sender.py polls.                                                  *)
(*                                                                         *)
(* Speakers also report on themselves: True with what a configured peer    *)
(* says, and False again and again once they heard nothing for 300         *)
(* seconds.  A speaker hears more than it reports: open messages that were *)
(* sent and not received, and peers that are not configured.               *)
(* Of a peer process only the part that these messages reach is here.      *)
(***************************************************************************)
EXTENDS Naturals, Sequences, FiniteSets

CONSTANTS
  Peers,        \* the configured BGP peers
  Speakers,     \* the configured BGP speakers
  SpeakerList,  \* the speakers in the order of Controller.bgpspeakers
  SpeakerOf,    \* SpeakerOf[p]: the speaker under which p is configured
  Local,        \* the peers in the speaker's own AS
  MaxSessions,  \* bound: sessions opened and ended by each neighbour
  MaxCommands,  \* bound: commands of each peer
  MaxSilences,  \* bound: how often each speaker's ExaBGP goes away
  MaxQueue,     \* bound: neighbours and timers wait behind so many messages
  MaxOther      \* bound: messages of type "other" wait behind so many

ASSUME SpeakerAssumption ==
  /\ IsFiniteSet(Peers) /\ IsFiniteSet(Speakers)
  /\ SpeakerOf \in [Peers -> Speakers]
  /\ Local \subseteq Peers
  /\ SpeakerList \in Seq(Speakers) /\ SpeakerList # <<>>
  /\ MaxSessions \in [Peers -> Nat] /\ MaxCommands \in [Peers -> Nat]
  /\ {MaxSilences, MaxQueue, MaxOther} \subseteq Nat

VARIABLES
  inbox,          \* inbox[s]: BGPSpeaker.mailbox
  heard,          \* heard[s]: age of BGPSpeaker.keepalived_time
  asnKnown,       \* asnKnown[s]: BGPSpeaker.asn is set
  queue,          \* Controller.internal_command_queue
  outgoing,       \* Controller.outgoing_control_queue
  status,         \* Controller.status[p]
  speakerStatus,  \* Controller.speakerstatus[s]
  peerMail,       \* peerMail[p]: the mailbox of peer process p
  active,         \* active[p]: Peer.active
  degraded,       \* degraded[p]: Peer.degraded
  session,        \* session[p]: the BGP session of neighbour p
  present,        \* present[s]: ExaBGP and receiver.py of s run
  sessions,       \* sessions[p]: sessions opened and ended so far
  commands,       \* commands[p]: commands of peer p so far
  delivered,      \* delivered[p]: commands handed to ExaBGP for p
  silences        \* silences[s]: how often ExaBGP went away

speakerVars == <<inbox, heard, asnKnown>>
controllerVars == <<status, speakerStatus>>
peerVars == <<peerMail, active, degraded, commands>>
envVars == <<session, present, sessions, silences>>
vars == <<speakerVars, queue, outgoing, controllerVars, peerVars, envVars,
          delivered>>

Event == {"open", "up", "down", "update"}
Operation == {"advertise", "withdraw"}

PeersOf(s) == {p \in Peers : SpeakerOf[p] = s}

\* Of type "other" are the open messages that ExaBGP sent to any neighbour, and
\* what a neighbour says that is not a configured peer; "update" is also its
\* state, which the speaker treats alike.
Other == {"open", "keepalive", "update"}

SpeakerMessage ==
       [type : {"neighbour"}, peer : Peers, what : Event \cup {"keepalive"}]
  \cup [type : {"other"}, what : Other]
  \cup [type : {"command"}, peer : Peers, what : Operation]

QueueMessage ==
       [type : {"bgp"}, peer : Peers, what : Event]
  \cup [type : {"healthcheck"}, speaker : Speakers, up : BOOLEAN, asn : BOOLEAN]
  \cup [type : {"status"}, peer : Peers, up : BOOLEAN]
  \cup [type : {"encode"}, peer : Peers, what : Operation]

PeerMessage ==
  [type : {"bgp"}, what : Event] \cup [type : {"status"}, degraded : Nat]

TypeOK ==
  /\ inbox \in [Speakers -> Seq(SpeakerMessage)]
  /\ heard \in [Speakers -> {"never", "recent", "old"}]
  /\ asnKnown \in [Speakers -> BOOLEAN]
  /\ queue \in Seq(QueueMessage)
  /\ outgoing \in Seq([peer : Peers, what : Operation])
  /\ status \in [Peers -> BOOLEAN]
  /\ speakerStatus \in [Speakers -> BOOLEAN]
  /\ peerMail \in [Peers -> Seq(PeerMessage)]
  /\ active \in [Peers -> BOOLEAN]
  /\ degraded \in [Peers -> Nat]
  /\ session \in [Peers -> {"down", "open", "confirmed", "up"}]
  /\ present \in [Speakers -> BOOLEAN]
  /\ sessions \in [Peers -> Nat]
  /\ commands \in [Peers -> Nat]
  /\ delivered \in [Peers -> Nat]
  /\ silences \in [Speakers -> Nat]

\* All peers start down, and so do all speakers.
Init ==
  /\ inbox = [s \in Speakers |-> <<>>]
  /\ heard = [s \in Speakers |-> "never"]
  /\ asnKnown = [s \in Speakers |-> FALSE]
  /\ queue = <<>>
  /\ outgoing = <<>>
  /\ status = [p \in Peers |-> FALSE]
  /\ speakerStatus = [s \in Speakers |-> FALSE]
  /\ peerMail = [p \in Peers |-> <<>>]
  /\ active = [p \in Peers |-> FALSE]
  /\ degraded = [p \in Peers |-> 0]
  /\ session = [p \in Peers |-> "down"]
  /\ present = [s \in Speakers |-> TRUE]
  /\ sessions = [p \in Peers |-> 0]
  /\ commands = [p \in Peers |-> 0]
  /\ delivered = [p \in Peers |-> 0]
  /\ silences = [s \in Speakers |-> 0]
-----------------------------------------------------------------------------
(***************************************************************************)
(* The neighbours, ExaBGP and receiver.py, whose calls SendPeerOpen,       *)
(* SendPeerState, SendPeerKeepalive, SendUpdate and SendUpdateEoR each put *)
(* one message into the mailbox of the speaker.                            *)
(***************************************************************************)
\* What is on its way from a neighbour to its peer or to the controller.
Backlog(p) == Len(inbox[SpeakerOf[p]]) + Len(queue) + Len(peerMail[p])

Sends(p, w) ==
  /\ present[SpeakerOf[p]]
  /\ Backlog(p) < MaxQueue
  /\ inbox' = [inbox EXCEPT ![SpeakerOf[p]] =
                 Append(@, [type |-> "neighbour", peer |-> p, what |-> w])]
  /\ UNCHANGED <<heard, asnKnown, queue, outgoing, controllerVars, peerVars,
                 delivered, present, silences>>

NeighbourOpen(p) ==
  /\ session[p] = "down"
  /\ sessions[p] < MaxSessions[p]
  /\ session' = [session EXCEPT ![p] = "open"]
  /\ sessions' = [sessions EXCEPT ![p] = @ + 1]
  /\ Sends(p, "open")

\* The keepalive that answers the open message comes before the new state.
NeighbourConfirm(p) ==
  /\ session[p] = "open"
  /\ session' = [session EXCEPT ![p] = "confirmed"]
  /\ Sends(p, "keepalive")
  /\ UNCHANGED sessions

NeighbourUp(p) ==
  /\ session[p] = "confirmed"
  /\ session' = [session EXCEPT ![p] = "up"]
  /\ Sends(p, "up")
  /\ UNCHANGED sessions

NeighbourDown(p) ==
  /\ session[p] # "down"
  /\ sessions[p] < MaxSessions[p]
  /\ session' = [session EXCEPT ![p] = "down"]
  /\ sessions' = [sessions EXCEPT ![p] = @ + 1]
  /\ Sends(p, "down")

NeighbourSays(p) ==
  /\ session[p] = "up"
  /\ \E w \in {"update", "keepalive"} : Sends(p, w)
  /\ UNCHANGED <<session, sessions>>

OtherSays(s) ==
  /\ present[s]
  /\ Len(inbox[s]) + Len(queue) < MaxOther
  /\ \A p \in PeersOf(s) : Backlog(p) < MaxOther
  /\ \E w \in Other :
       inbox' = [inbox EXCEPT ![s] = Append(@, [type |-> "other", what |-> w])]
  /\ UNCHANGED <<heard, asnKnown, queue, outgoing, controllerVars, peerVars,
                 envVars, delivered>>

\* ExaBGP or receiver.py is gone: the sessions end and nobody says so.
ExaBGPLost(s) ==
  /\ present[s]
  /\ silences[s] < MaxSilences
  /\ present' = [present EXCEPT ![s] = FALSE]
  /\ silences' = [silences EXCEPT ![s] = @ + 1]
  /\ session' = [p \in Peers |-> IF SpeakerOf[p] = s THEN "down" ELSE session[p]]
  /\ UNCHANGED <<speakerVars, queue, outgoing, controllerVars, peerVars,
                 delivered, sessions>>

ExaBGPBack(s) ==
  /\ ~present[s]
  /\ present' = [present EXCEPT ![s] = TRUE]
  /\ UNCHANGED <<speakerVars, queue, outgoing, controllerVars, peerVars,
                 delivered, session, sessions, silences>>
-----------------------------------------------------------------------------
SpeakerGets(s, type) == inbox[s] # <<>> /\ Head(inbox[s]).type = type

\* Faulty variants, with which the checks are shown to notice a change of the
\* code: the report lacks the AS number; a keepalive is not told to the peer;
\* the time is taken when the speaker hears for the first time only.
AliveNoAsn(s) == [type |-> "healthcheck", speaker |-> s, up |-> TRUE]

Alive(s) == [type |-> "healthcheck", speaker |-> s, up |-> TRUE, asn |-> TRUE]

ToPeer(p, w) == [type |-> "bgp", peer |-> p, what |-> w]

ReportsNoKeepalive(s, p, w) ==
  CASE w = "update"    -> << Alive(s), ToPeer(p, "update") >>
    [] w = "keepalive" -> << Alive(s) >>
    [] OTHER           -> << ToPeer(p, w), Alive(s) >>

\* What the speaker makes of a message received from its configured peer p: a
\* keepalive is reported as a session that is up, and an update after the
\* healthcheck.
Reports(s, p, w) ==
  CASE w = "update"    -> << Alive(s), ToPeer(p, "update") >>
    [] w = "keepalive" -> << ToPeer(p, "up"), Alive(s) >>
    [] OTHER           -> << ToPeer(p, w), Alive(s) >>

SpeakerHearsOnce(s) ==
  /\ SpeakerGets(s, "neighbour")
  /\ inbox' = [inbox EXCEPT ![s] = Tail(@)]
  /\ heard' = [heard EXCEPT ![s] = IF @ = "never" THEN "recent" ELSE @]
  /\ asnKnown' = [asnKnown EXCEPT ![s] = @ \/ Head(inbox[s]).what = "keepalive"]
  /\ queue' = queue \o Reports(s, Head(inbox[s]).peer, Head(inbox[s]).what)
  /\ UNCHANGED <<outgoing, controllerVars, peerVars, envVars, delivered>>

SpeakerHears(s) ==
  /\ SpeakerGets(s, "neighbour")
  /\ inbox' = [inbox EXCEPT ![s] = Tail(@)]
  /\ heard' = [heard EXCEPT ![s] = "recent"]
  /\ asnKnown' = [asnKnown EXCEPT ![s] = @ \/ Head(inbox[s]).what = "keepalive"]
  /\ queue' = queue \o Reports(s, Head(inbox[s]).peer, Head(inbox[s]).what)
  /\ UNCHANGED <<outgoing, controllerVars, peerVars, envVars, delivered>>

\* The early returns: the message is heard, and an open message or a keepalive
\* is not reported.  An update of an unknown peer is put on the queue too, but
\* the controller drops it (process_bgp_message), so only the healthcheck that
\* goes before it is here.
SpeakerHearsOther(s) ==
  /\ SpeakerGets(s, "other")
  /\ inbox' = [inbox EXCEPT ![s] = Tail(@)]
  /\ heard' = [heard EXCEPT ![s] = "recent"]
  /\ asnKnown' = [asnKnown EXCEPT ![s] = @ \/ Head(inbox[s]).what = "keepalive"]
  /\ queue' = IF Head(inbox[s]).what = "update" THEN Append(queue, Alive(s))
                                                ELSE queue
  /\ UNCHANGED <<outgoing, controllerVars, peerVars, envVars, delivered>>

\* _process_send_announcement and _process_send_withdrawal.
SpeakerSends(s) ==
  /\ SpeakerGets(s, "command")
  /\ inbox' = [inbox EXCEPT ![s] = Tail(@)]
  /\ LET m == Head(inbox[s])
     IN outgoing' = IF SpeakerOf[m.peer] = s
                    THEN Append(outgoing, [peer |-> m.peer, what |-> m.what])
                    ELSE outgoing
  /\ UNCHANGED <<heard, asnKnown, queue, controllerVars, peerVars, envVars,
                 delivered>>

\* 300 seconds without a message: possible when ExaBGP is gone, or when it has
\* no session that could send keepalives.
TimePasses(s) ==
  /\ heard[s] = "recent"
  /\ inbox[s] = <<>>
  /\ ~present[s] \/ \A p \in PeersOf(s) : session[p] = "down"
  /\ heard' = [heard EXCEPT ![s] = "old"]
  /\ UNCHANGED <<inbox, asnKnown, queue, outgoing, controllerVars, peerVars,
                 envVars, delivered>>

Silent(s) == [type |-> "healthcheck", speaker |-> s, up |-> FALSE,
              asn |-> asnKnown[s]]

\* _destruct, in every round of the process loop until something is heard.
SpeakerSilent(s) ==
  /\ heard[s] = "old"
  /\ Cardinality({i \in DOMAIN queue : queue[i] = Silent(s)}) < MaxQueue
  /\ queue' = Append(queue, Silent(s))
  /\ UNCHANGED <<speakerVars, outgoing, controllerVars, peerVars, envVars,
                 delivered>>
-----------------------------------------------------------------------------
ControllerGets(type) == queue # <<>> /\ Head(queue).type = type

Missing(st) == Cardinality({p \in DOMAIN st : ~st[p]})

Tell(ps, n) ==
  peerMail' = [p \in Peers |->
    IF p \in ps THEN Append(peerMail[p], [type |-> "status", degraded |-> n])
                ELSE peerMail[p]]

ProcessBgp ==
  /\ ControllerGets("bgp")
  /\ queue' = Tail(queue)
  /\ LET m == Head(queue)
     IN peerMail' = [peerMail EXCEPT ![m.peer] =
                       Append(@, [type |-> "bgp", what |-> m.what])]
  /\ UNCHANGED <<speakerVars, outgoing, controllerVars, active, degraded,
                 commands, envVars, delivered>>

ProcessStatus ==
  /\ ControllerGets("status")
  /\ queue' = Tail(queue)
  /\ LET m == Head(queue)
     IN IF status[m.peer] = m.up
        THEN UNCHANGED <<status, peerMail>>
        ELSE /\ status' = [status EXCEPT ![m.peer] = m.up]
             /\ Tell(Peers, Missing(status'))
  /\ UNCHANGED <<speakerVars, outgoing, speakerStatus, active, degraded,
                 commands, envVars, delivered>>

ProcessHealthcheckUp ==
  /\ ControllerGets("healthcheck")
  /\ queue' = Tail(queue)
  /\ LET m == Head(queue)
     IN IF speakerStatus[m.speaker]
        THEN UNCHANGED <<speakerStatus, peerMail>>
        ELSE /\ speakerStatus' = [speakerStatus EXCEPT ![m.speaker] = m.up]
             /\ Tell(IF m.asn THEN PeersOf(m.speaker) \cap Local ELSE {},
                     Missing(speakerStatus'))
  /\ UNCHANGED <<speakerVars, outgoing, status, active, degraded, commands,
                 envVars, delivered>>

\* The peers of the speaker are looked up under the AS number in the message,
\* the speaker's own, if it has one.
ProcessHealthcheck ==
  /\ ControllerGets("healthcheck")
  /\ queue' = Tail(queue)
  /\ LET m == Head(queue)
     IN IF speakerStatus[m.speaker] = m.up
        THEN UNCHANGED <<speakerStatus, peerMail>>
        ELSE /\ speakerStatus' = [speakerStatus EXCEPT ![m.speaker] = m.up]
             /\ Tell(IF m.asn THEN PeersOf(m.speaker) \cap Local ELSE {},
                     Missing(speakerStatus'))
  /\ UNCHANGED <<speakerVars, outgoing, status, active, degraded, commands,
                 envVars, delivered>>

ProcessEncodeAdvertise ==
  /\ ControllerGets("encode")
  /\ queue' = Tail(queue)
  /\ LET m == Head(queue)
         s == SpeakerList[1]
     IN inbox' = IF SpeakerOf[m.peer] = s /\ m.what = "advertise"
                 THEN [inbox EXCEPT ![s] =
                         Append(@, [type |-> "command", peer |-> m.peer,
                                    what |-> m.what])]
                 ELSE inbox
  /\ UNCHANGED <<heard, asnKnown, outgoing, controllerVars, peerVars, envVars,
                 delivered>>

\* The loop over the speakers ends with the first one in either branch.
ProcessEncode ==
  /\ ControllerGets("encode")
  /\ queue' = Tail(queue)
  /\ LET m == Head(queue)
         s == SpeakerList[1]
     IN inbox' = IF SpeakerOf[m.peer] = s
                 THEN [inbox EXCEPT ![s] =
                         Append(@, [type |-> "command", peer |-> m.peer,
                                    what |-> m.what])]
                 ELSE inbox
  /\ UNCHANGED <<heard, asnKnown, outgoing, controllerVars, peerVars, envVars,
                 delivered>>
-----------------------------------------------------------------------------
PeerGets(p, type) == peerMail[p] # <<>> /\ Head(peerMail[p]).type = type

\* Only a change of state goes further: to the controller.
PeerHears(p) ==
  /\ PeerGets(p, "bgp")
  /\ peerMail' = [peerMail EXCEPT ![p] = Tail(@)]
  /\ LET w == Head(peerMail[p]).what
     IN IF w \in {"up", "down"} /\ active[p] # (w = "up")
        THEN /\ active' = [active EXCEPT ![p] = (w = "up")]
             /\ queue' = Append(queue, [type |-> "status", peer |-> p,
                                        up |-> (w = "up")])
        ELSE UNCHANGED <<active, queue>>
  /\ UNCHANGED <<speakerVars, outgoing, controllerVars, degraded, commands,
                 envVars, delivered>>

PeerStatus(p) ==
  /\ PeerGets(p, "status")
  /\ peerMail' = [peerMail EXCEPT ![p] = Tail(@)]
  /\ degraded' = [degraded EXCEPT ![p] = Head(peerMail[p]).degraded]
  /\ UNCHANGED <<speakerVars, queue, outgoing, controllerVars, active,
                 commands, envVars, delivered>>

\* _do_announce and _do_withdraw of a peer that exports.
PeerExports(p) ==
  /\ active[p]
  /\ commands[p] < MaxCommands[p]
  /\ commands' = [commands EXCEPT ![p] = @ + 1]
  /\ \E op \in Operation :
       queue' = Append(queue, [type |-> "encode", peer |-> p, what |-> op])
  /\ UNCHANGED <<speakerVars, outgoing, controllerVars, peerMail, active,
                 degraded, envVars, delivered>>

\* GetCtlrMsg, polled by sender.py.
SenderFetches ==
  /\ outgoing # <<>>
  /\ outgoing' = Tail(outgoing)
  /\ delivered' = [delivered EXCEPT ![Head(outgoing).peer] = @ + 1]
  /\ UNCHANGED <<speakerVars, queue, controllerVars, peerVars, envVars>>
-----------------------------------------------------------------------------
ControllerStep ==
  ProcessBgp \/ ProcessStatus \/ ProcessHealthcheck \/ ProcessEncode

SpeakerStep(s) == SpeakerHears(s) \/ SpeakerHearsOther(s) \/ SpeakerSends(s)

PeerStep(p) == PeerHears(p) \/ PeerStatus(p)

Neighbour(p) ==
  \/ NeighbourOpen(p)
  \/ NeighbourConfirm(p)
  \/ NeighbourUp(p)
  \/ NeighbourDown(p)
  \/ NeighbourSays(p)

Next ==
  \/ ControllerStep
  \/ SenderFetches
  \/ \E s \in Speakers :
       \/ SpeakerStep(s) \/ SpeakerSilent(s) \/ TimePasses(s)
       \/ OtherSays(s) \/ ExaBGPLost(s) \/ ExaBGPBack(s)
  \/ \E p \in Peers : PeerStep(p) \/ PeerExports(p) \/ Neighbour(p)

Spec == Init /\ [][Next]_vars

(***************************************************************************)
(* The controller, the speakers and the peers loop over their queues and   *)
(* sender.py polls; the loop of a speaker comes round at least once a      *)
(* second, and time passes.  Nothing is assumed of neighbours and ExaBGP.  *)
(***************************************************************************)
Fairness ==
  /\ WF_vars(ControllerStep) /\ WF_vars(SenderFetches)
  /\ \A s \in Speakers : /\ WF_vars(SpeakerStep(s))
                         /\ WF_vars(SpeakerSilent(s))
                         /\ WF_vars(TimePasses(s))
  /\ \A p \in Peers : WF_vars(PeerStep(p))

FairSpec == Spec /\ Fairness
-----------------------------------------------------------------------------
(***************************************************************************)
(* What of a queue belongs to a peer: the messages that have a name, under *)
(* that name and in their order.                                           *)
(***************************************************************************)
NamedUpTo(seq, name) ==
  LET N[i \in 0 .. Len(seq)] ==
        IF i = 0 THEN <<>>
        ELSE IF seq[i] \in DOMAIN name THEN Append(N[i - 1], name[seq[i]])
        ELSE N[i - 1]
  IN  N

Named(seq, name) == NamedUpTo(seq, name)[Len(seq)]

MailName == [m \in [type : {"bgp"}, what : Event] |-> m.what]

BgpName(p) == [m \in [type : {"bgp"}, peer : {p}, what : Event] |-> m.what]

\* A keepalive on its way is the event it will be reported as.
NeighbourName(p) ==
  [m \in [type : {"neighbour"}, peer : {p}, what : Event \cup {"keepalive"}] |->
     IF m.what = "keepalive" THEN "up" ELSE m.what]

OutgoingName(p) == [m \in [peer : {p}, what : Operation] |-> m.what]

CommandName(p) ==
  [m \in [type : {"command"}, peer : {p}, what : Operation] |-> m.what]

EncodeName(p) ==
  [m \in [type : {"encode"}, peer : {p}, what : Operation] |-> m.what]

EventsFor(p) ==
     Named(peerMail[p], MailName)
  \o Named(queue, BgpName(p))
  \o Named(inbox[SpeakerOf[p]], NeighbourName(p))

CommandsFor(p) ==
     Named(outgoing, OutgoingName(p))
  \o Named(inbox[SpeakerOf[p]], CommandName(p))
  \o Named(queue, EncodeName(p))

Channels == INSTANCE PeerChannels
  WITH Events <- Event, Commands <- Operation,
       up <- [p \in Peers |-> EventsFor(p)],
       down <- [p \in Peers |-> CommandsFor(p)]

\* The three queues and three kinds of process between a neighbour and its
\* peer are two FIFO channels: what is said on either side arrives, once and
\* in order, although all of it shares the controller's queue.
ImplementsChannels == Channels!Spec

\* The last report of speaker s that the controller has read or will read.
LastReport(s) ==
  LET R == {i \in DOMAIN queue : /\ queue[i].type = "healthcheck"
                                 /\ queue[i].speaker = s}
  IN  IF R = {} THEN speakerStatus[s]
      ELSE queue[CHOOSE i \in R : \A j \in R : j <= i].up

Unread(s) == \E i \in DOMAIN inbox[s] : inbox[s][i].type = "neighbour"

\* The speaker of a peer with which a session is open is not believed silent
\* for good: the report that it is alive follows every report that it is not,
\* or what makes the speaker say so waits in its mailbox.
ConnectedIsAlive ==
  \A p \in Peers :
    session[p] # "down" => LastReport(SpeakerOf[p]) \/ Unread(SpeakerOf[p])

\* One might expect that a speaker is believed alive as soon as it heard
\* anything.  It is not: some of what it hears it does not report.
HeardIsAlive == \A s \in Speakers : heard[s] = "recent" => LastReport(s)

\* The controller learns that a speaker fell silent.
SilenceIsNoticed ==
  \A s \in Speakers :
    heard[s] = "old" ~> (speakerStatus[s] = FALSE \/ heard[s] = "recent")

Drained ==
  /\ queue = <<>> /\ outgoing = <<>>
  /\ \A s \in Speakers : inbox[s] = <<>>
  /\ \A p \in Peers : peerMail[p] = <<>>

\* When all messages are read, a connected peer marks its routes with the
\* number of peers that are not connected.
DegradedCountsPeers ==
  Drained => \A p \in Peers : active[p] => degraded[p] = Missing(active)

\* When all messages are read, the connected peers of a speaker that fell
\* silent know that they may miss routes.
SilenceIsTold ==
  Drained => \A s \in Speakers :
    heard[s] = "old" /\ ~speakerStatus[s] =>
      \A p \in PeersOf(s) : active[p] => degraded[p] > 0

\* When all messages are read, every command of every peer was handed to
\* ExaBGP.
CommandsDelivered == Drained => delivered = commands
=============================================================================
