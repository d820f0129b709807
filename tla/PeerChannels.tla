---------------------------- MODULE PeerChannels ----------------------------
(***************************************************************************)
(* What the path between a BGP neighbour and its peer process promises,    *)
(* whatever processes and queues it goes through: two FIFO channels per    *)
(* peer that lose, repeat and reorder nothing, one for what the neighbour  *)
(* does and one for what the peer wants announced to it.  RouteExchange is *)
(* built on this promise; BGPSpeakers is shown to keep it.                 *)
(***************************************************************************)
EXTENDS Sequences

CONSTANTS
  Peers,     \* the configured BGP peers
  Events,    \* what a neighbour can do, as its peer process is told
  Commands   \* what a peer process can have announced

VARIABLES
  up,        \* up[p]: events on their way to peer process p
  down       \* down[p]: commands on their way to neighbour p

channels == <<up, down>>

Init == up = [p \in Peers |-> <<>>] /\ down = [p \in Peers |-> <<>>]

Report(p, e) == up' = [up EXCEPT ![p] = Append(@, e)] /\ UNCHANGED down

Receive(p) ==
  /\ up[p] # <<>>
  /\ up' = [up EXCEPT ![p] = Tail(@)]
  /\ UNCHANGED down

Command(p, c) == down' = [down EXCEPT ![p] = Append(@, c)] /\ UNCHANGED up

Deliver(p) ==
  /\ down[p] # <<>>
  /\ down' = [down EXCEPT ![p] = Tail(@)]
  /\ UNCHANGED up

Next ==
  \E p \in Peers :
    \/ \E e \in Events : Report(p, e)
    \/ Receive(p)
    \/ \E c \in Commands : Command(p, c)
    \/ Deliver(p)

Spec ==
  /\ Init /\ [][Next]_channels
  /\ \A p \in Peers : WF_channels(Receive(p)) /\ WF_channels(Deliver(p))
=============================================================================
