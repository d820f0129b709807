---------------------------- MODULE OvWMailboxes ----------------------------
(***************************************************************************)
(* The queues that connect the processes of the route exchange: every      *)
(* BGPPeer and the RouteTable is an operating-system process that owns one *)
(* multiprocessing.Queue (PolicyObject.mailbox), and the controller loop   *)
(* reads one queue of its own.  A queue is FIFO and never loses a message. *)
(*                                                                         *)
(* The controller has a single internal_command_queue.  The three kinds of *)
(* traffic through it that matter here (BGP messages for a peer, status    *)
(* notes for the controller, routes to encode for a neighbour) are kept as *)
(* separate FIFO queues: each kind keeps its order, and every interleaving *)
(* of the single queue is one of theirs.                                   *)
(***************************************************************************)
EXTENDS Naturals, Sequences, FiniteSets

CONSTANTS
  Peers,      \* the configured BGP peers
  Prefixes,   \* the prefixes neighbours announce
  Attrs,      \* path attributes: what distinguishes two routes to a prefix
  Asns,       \* AS numbers
  None,       \* no route, no peer
  Asn,        \* Asn[p]: the AS number configured for peer p
  PathOf,     \* PathOf[a]: the AS numbers in the AS path (and set) of a
  PrefOf      \* PrefOf[a]: the local preference a route with a is given

ASSUME MailboxAssumption ==
  /\ IsFiniteSet(Peers)
  /\ None \notin Peers \cup Attrs
  /\ Asn \in [Peers -> Asns]
  /\ PathOf \in [Attrs -> SUBSET Asns]
  /\ PrefOf \in [Attrs -> Nat]

VARIABLES
  peerMail,   \* peerMail[p]: the mailbox of peer process p
  tableMail,  \* the mailbox of the route table
  ctlMail,    \* status notes on the controller's queue
  out         \* out[p]: encode messages on their way to neighbour p

mailVars == <<peerMail, tableMail, ctlMail, out>>

(***************************************************************************)
(* A neighbour has at most one route per prefix with the other side.       *)
(***************************************************************************)
RoutesOf == [Prefixes -> Attrs \cup {None}]
NoRoutes == [x \in Prefixes |-> None]

\* A (route, preference) tuple as a table hands it to a peer.  The table keeps
\* its sources in a dict, so the position of the source in that dict (rank) is
\* the position of the tuple in the list of candidates for a prefix.
Candidate == [src : Peers, attr : Attrs, rank : Nat]

\* A member of Peer.exported: prefix, route and the degraded community on it.
Exported == [pfx : Prefixes, src : Peers, attr : Attrs, deg : Nat]

Capability == {"multiprotocol", "gracefulrestart"}

PeerMessage ==
       [type : {"open"}, caps : SUBSET Capability]
  \cup [type : {"state"}, up : BOOLEAN]
  \cup [type : {"announce"}, pfx : Prefixes, attr : Attrs]
  \cup [type : {"withdraw"}, pfx : Prefixes]
  \cup [type : {"eor"}]
  \cup [type : {"update"}, routes : [Prefixes -> SUBSET Candidate]]
  \cup [type : {"status"}, degraded : Nat]
  \cup [type : {"topology"}]

TableMessage ==
       [type : {"update"}, from : Peers, routes : RoutesOf]
  \cup [type : {"reload"}, from : Peers]

StatusNote == [peer : Peers, up : BOOLEAN]

\* Messages of one kind that one export puts on the queue back to back.
\* Their order among themselves does not matter: prefixes differ.
Encode == [op : {"withdraw", "advertise"}, routes : SUBSET Exported]

MailTypeOK ==
  /\ peerMail \in [Peers -> Seq(PeerMessage)]
  /\ tableMail \in Seq(TableMessage)
  /\ ctlMail \in Seq(StatusNote)
  /\ out \in [Peers -> Seq(Encode)]

MailInit ==
  /\ peerMail = [p \in Peers |-> <<>>]
  /\ tableMail = <<>>
  /\ ctlMail = <<>>
  /\ out = [p \in Peers |-> <<>>]

\* The mailboxes after message m is put into the one of peer p.
PostTo(p, m) == [peerMail EXCEPT ![p] = Append(@, m)]

\* The first message of peer p has the given type.
NextIs(p, type) == peerMail[p] # <<>> /\ Head(peerMail[p]).type = type

\* The mailboxes after peer p takes its first message.
Taken(p) == [peerMail EXCEPT ![p] = Tail(@)]

MailEmpty ==
  /\ \A p \in Peers : peerMail[p] = <<>> /\ out[p] = <<>>
  /\ tableMail = <<>>
  /\ ctlMail = <<>>
=============================================================================
