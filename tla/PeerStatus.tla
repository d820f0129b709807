----------------------------- MODULE PeerStatus -----------------------------
(***************************************************************************)
(* What the controller loop (bgpcontroller/Controller.py) keeps about the  *)
(* peers: whether each is up, and the number of those that are not, which  *)
(* it sends to every peer whenever it changes.  There is one BGP speaker   *)
(* here and it does not fall silent, so process_healthcheck_message finds  *)
(* something new only once, before any session is up, and sends the count  *)
(* of 0 that peers start with; BGPSpeakers models what else it can do.     *)
(***************************************************************************)
EXTENDS OvWMailboxes

VARIABLE status   \* Controller.status[p]: peer p reported an established session

StatusTypeOK == status \in [Peers -> BOOLEAN]

\* All peers start down.
StatusInit == status = [p \in Peers |-> FALSE]

Missing(st) == Cardinality({p \in Peers : ~st[p]})

\* A faulty variant: the count is taken before the status is changed.
StatusChangedLate ==
  /\ ctlMail # <<>>
  /\ LET m == Head(ctlMail)
     IN  /\ m.up # status[m.peer]
         /\ status' = [status EXCEPT ![m.peer] = m.up]
  /\ peerMail' = [q \in Peers |->
                    Append(peerMail[q], [type |-> "status",
                                         degraded |-> Missing(status)])]
  /\ ctlMail' = Tail(ctlMail)
  /\ UNCHANGED <<tableMail, out>>

StatusUnchanged ==
  /\ ctlMail # <<>>
  /\ Head(ctlMail).up = status[Head(ctlMail).peer]
  /\ ctlMail' = Tail(ctlMail)
  /\ UNCHANGED <<peerMail, tableMail, out, status>>

StatusChanged ==
  /\ ctlMail # <<>>
  /\ LET m == Head(ctlMail)
     IN  /\ m.up # status[m.peer]
         /\ status' = [status EXCEPT ![m.peer] = m.up]
  /\ peerMail' = [q \in Peers |->
                    Append(peerMail[q], [type |-> "status",
                                         degraded |-> Missing(status')])]
  /\ ctlMail' = Tail(ctlMail)
  /\ UNCHANGED <<tableMail, out>>

StatusNext == StatusUnchanged \/ StatusChanged
=============================================================================
