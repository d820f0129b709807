---------------------------- MODULE OspfFlooding ----------------------------
(***************************************************************************)
(* From a link-state update to a new topology.  OSPF neighbours that are   *)
(* Full send link-state advertisements until they are acknowledged; the    *)
(* receiver makes a task of each packet; a worker compares the             *)
(* advertisement with the database, installs it and signals a change       *)
(* (pyospf/protocols/flood.py); a timer thread removes what grew too old   *)
(* (_lsa_age); the signal starts or resets the area's hold timer           *)
(* (pyospf/core/ospfArea.py), whose action reads the database and sends a  *)
(* topology to the network manager.                                        *)
(*                                                                         *)
(* An instance of an advertisement is a number; 0 is none.                 *)
(***************************************************************************)
EXTENDS OspfTimer, OspfThreadPool

CONSTANTS
  Lsas,          \* keys of the router LSAs in the database
  MaxInstances,  \* bound: instances of each LSA
  MaxAgings      \* bound: how often an LSA grows too old

ASSUME FloodingAssumption ==
  /\ MaxInstances \in Nat /\ MaxAgings \in Nat
  /\ IsFiniteSet(Lsas) /\ Timers \subseteq Nat \ {0}
  /\ Packets = [lsa : Lsas, inst : 1 .. MaxInstances, flush : BOOLEAN]

VARIABLES
  lsdb,       \* lsdb[l]: OspfLsdb, the instance installed
  holdTimer,  \* OspfArea.holdTimer, 0 for None
  callAt,     \* callAt[c]: the statement of topo_change caller c runs next
  target,     \* target[c]: the timer c is about to reset
  aging,      \* what the aging timer is about to remove
  todo,       \* todo[t]: entries the computation of t still has to read
  size,       \* size[t]: the number of entries when it began
  links,      \* links[t]: what it read
  published,  \* the topology last sent to the network manager
  unacked,    \* packets neighbours still have to send
  sent,       \* sent[l]: the last instance of l originated
  agings,     \* removals of old LSAs so far
  raced       \* a signal met a timer that had ceased to look, or two timers ran

areaVars == <<holdTimer, callAt, target>>
computeVars == <<todo, size, links, published>>
envVars == <<unacked, sent, agings>>
vars == <<timerVars, poolVars, lsdb, areaVars, aging, computeVars, envVars, raced>>

\* The aging timer, besides the workers, signals changes.
Ager == 0
Callers == Workers \cup {Ager}

Database == [Lsas -> 0 .. MaxInstances]
Entries == {l \in Lsas : lsdb[l] # 0}

TypeOK ==
  /\ TimerTypeOK /\ PoolTypeOK
  /\ lsdb \in Database
  /\ holdTimer \in Timers \cup {0}
  /\ callAt \in [Callers -> {"none", "test", "create", "launch", "raise",
                             "bell", "dead"}]
  /\ target \in [Callers -> Timers \cup {0}]
  /\ aging \in SUBSET Lsas
  /\ todo \in [Timers -> SUBSET Lsas]
  /\ size \in [Timers -> Nat]
  /\ links \in [Timers -> Database]
  /\ published \in Database
  /\ unacked \in SUBSET Packets
  /\ sent \in [Lsas -> 0 .. MaxInstances]
  /\ agings \in Nat
  /\ raced \in BOOLEAN

NoLinks == [l \in Lsas |-> 0]

Init ==
  /\ TimerInit /\ PoolInit
  /\ lsdb = NoLinks
  /\ holdTimer = 0
  /\ callAt = [c \in Callers |-> "none"]
  /\ target = [c \in Callers |-> 0]
  /\ aging = {}
  /\ todo = [t \in Timers |-> {}]
  /\ size = [t \in Timers |-> 0]
  /\ links = [t \in Timers |-> NoLinks]
  /\ published = NoLinks
  /\ unacked = {}
  /\ sent = NoLinks
  /\ agings = 0
  /\ raced = FALSE
-----------------------------------------------------------------------------
(***************************************************************************)
(* The environment.  Several neighbours may send different instances.      *)
(***************************************************************************)
Originate(l, f) ==
  /\ sent[l] < MaxInstances
  /\ sent' = [sent EXCEPT ![l] = @ + 1]
  /\ unacked' = unacked \cup {[lsa |-> l, inst |-> sent'[l], flush |-> f]}
  /\ UNCHANGED <<timerVars, poolVars, lsdb, areaVars, aging, computeVars,
                 agings, raced>>

InHand(m) ==
  \/ \E i \in DOMAIN tasks : tasks[i] = m
  \/ \E w \in Workers : job[w] = m

AllAsleep ==
  /\ \A w \in Created : Asleep(w) \/ workerAt[w] = "dead"
  /\ \E w \in Workers : Asleep(w)

\* A packet arrives, the first time or again.  Bound: while it waits, it comes
\* again only when all workers sleep.
Arrive(m) ==
  /\ m \in unacked
  /\ \/ ~InHand(m)
     \/ AllAsleep
  /\ AddTask(m)
  /\ UNCHANGED <<timerVars, lsdb, areaVars, aging, computeVars, envVars, raced>>
-----------------------------------------------------------------------------
\* _lsa_age collects under the lock, then removes under the lock.
AgeFound(l) ==
  /\ callAt[Ager] = "none"
  /\ aging = {}
  /\ agings < MaxAgings
  /\ lsdb[l] # 0
  /\ aging' = {l}
  /\ agings' = agings + 1
  /\ UNCHANGED <<timerVars, poolVars, lsdb, areaVars, computeVars, unacked,
                 sent, raced>>

AgeRemove ==
  /\ callAt[Ager] = "none"
  /\ aging # {}
  /\ lsdb' = [l \in Lsas |-> IF l \in aging THEN 0 ELSE lsdb[l]]
  /\ aging' = {}
  /\ callAt' = [callAt EXCEPT ![Ager] = "test"]
  /\ UNCHANGED <<timerVars, poolVars, holdTimer, target, computeVars, envVars,
                 raced>>
-----------------------------------------------------------------------------
\* judge_new_lsa prefers the other LSA to the one installed.
Newer(inst, have) == have < inst

\* check_lsu up to the comparison: an LSA of MaxAge that is not in the database
\* is only acknowledged.  The test of MinLSArrival takes the seconds of a
\* negative difference and so passes every LSA.
CheckLsu(w) ==
  /\ workerAt[w] = "task"
  /\ LET m == job[w]
         have == lsdb[m.lsa]
     IN WorkerTo(w, IF Newer(m.inst, have) /\ ~(have = 0 /\ m.flush)
                    THEN "install" ELSE "ack")
  /\ UNCHANGED <<timerVars, tasks, job, busy, bell, choosing, waking, lsdb,
                 areaVars, aging, computeVars, envVars, raced>>

\* Under the lock, without comparing again.
InstallLsa(w) ==
  /\ workerAt[w] = "install"
  /\ WorkerTo(w, "ack")
  /\ LET m == job[w]
     IN lsdb' = [lsdb EXCEPT ![m.lsa] = IF @ # 0 /\ m.flush THEN 0 ELSE m.inst]
  /\ callAt' = [callAt EXCEPT ![w] = "test"]
  /\ UNCHANGED <<timerVars, tasks, job, busy, bell, choosing, waking,
                 holdTimer, target, aging, computeVars, envVars, raced>>

\* A faulty variant: only what is in the database is acknowledged.
SendLsackOfKnown(w) ==
  /\ workerAt[w] = "ack"
  /\ callAt[w] = "none"
  /\ WorkerTo(w, "look")
  /\ unacked' = IF lsdb[job[w].lsa] # 0 THEN unacked \ {job[w]} ELSE unacked
  /\ job' = [job EXCEPT ![w] = <<>>]
  /\ UNCHANGED <<timerVars, tasks, busy, bell, choosing, waking, lsdb,
                 areaVars, aging, computeVars, sent, agings, raced>>

\* Once topo_change, if it was called, has returned.
SendLsack(w) ==
  /\ workerAt[w] = "ack"
  /\ callAt[w] = "none"
  /\ WorkerTo(w, "look")
  /\ unacked' = unacked \ {job[w]}
  /\ job' = [job EXCEPT ![w] = <<>>]
  /\ UNCHANGED <<timerVars, tasks, busy, bell, choosing, waking, lsdb,
                 areaVars, aging, computeVars, sent, agings, raced>>
-----------------------------------------------------------------------------
(***************************************************************************)
(* OspfArea.topo_change, statement by statement: each reads self.holdTimer *)
(* again.                                                                  *)
(***************************************************************************)
CallTo(c, there) == callAt' = [callAt EXCEPT ![c] = there]

TestHoldTimer(c) ==
  /\ callAt[c] = "test"
  /\ LET new == IF holdTimer = 0 THEN TRUE ELSE stopFlag[holdTimer]
     IN  /\ CallTo(c, IF new THEN "create" ELSE "raise")
         /\ target' = [target EXCEPT ![c] = IF new THEN 0 ELSE holdTimer]
  /\ UNCHANGED <<timerVars, poolVars, lsdb, holdTimer, aging, computeVars,
                 envVars, raced>>

Unreferenced(t) ==
  /\ ~Running(t)
  /\ timerAt[t] = "made" => holdTimer # t
  /\ \A c \in Callers : target[c] # t

\* Timer t has not decided yet to end.
Undecided(t) == ~stopFlag[t] /\ (Running(t) \/ t = holdTimer)

CreateHoldTimer(c) ==
  /\ callAt[c] = "create"
  /\ CallTo(c, "launch")
  /\ \E t \in Timers :
       /\ Unreferenced(t)
       /\ \A u \in Timers : Unreferenced(u) => t <= u
       /\ Make(t)
       /\ holdTimer' = t
       /\ raced' = (raced \/ \E u \in Timers : Undecided(u))
  /\ UNCHANGED <<poolVars, lsdb, target, aging, computeVars, envVars>>

\* Starts whatever timer is there now.
StartHoldTimer(c) ==
  /\ callAt[c] = "launch"
  /\ CallTo(c, "none")
  /\ Start(holdTimer)
  /\ UNCHANGED <<poolVars, lsdb, holdTimer, target, aging, computeVars,
                 envVars, raced>>

\* A thread can be started once; the second caller dies of the exception.
StartAgain(c) ==
  /\ callAt[c] = "launch"
  /\ ~At(holdTimer, "made")
  /\ CallTo(c, "dead")
  /\ IF c = Ager THEN UNCHANGED <<workerAt, job>>
     ELSE WorkerTo(c, "dead") /\ job' = [job EXCEPT ![c] = <<>>]
  /\ UNCHANGED <<timerVars, tasks, busy, bell, choosing, waking, lsdb,
                 holdTimer, target, aging, computeVars, envVars, raced>>

\* Timer t will not notice the flag before it ends, or reads the database now.
TooLate(t) ==
  \/ timerAt[t] \in {"test", "reading", "after", "end", "ended"}
  \/ stopFlag[t]

\* reset() is called on the timer tested or on one that replaced it since.
ResetHoldTimer(c) ==
  /\ callAt[c] = "raise"
  /\ CallTo(c, "bell")
  /\ \E t \in {target[c], holdTimer} :
       /\ target' = [target EXCEPT ![c] = t]
       /\ ResetRaise(t)
       /\ raced' = (raced \/ TooLate(t))
  /\ UNCHANGED <<poolVars, lsdb, holdTimer, aging, computeVars, envVars>>

SignalHoldTimer(c) ==
  /\ callAt[c] = "bell"
  /\ CallTo(c, "none")
  /\ ResetSignal(target[c])
  /\ target' = [target EXCEPT ![c] = 0]
  /\ UNCHANGED <<poolVars, lsdb, holdTimer, aging, computeVars, envVars, raced>>

TopoChange(c) ==
  \/ TestHoldTimer(c)
  \/ CreateHoldTimer(c) \/ StartHoldTimer(c) \/ StartAgain(c)
  \/ ResetHoldTimer(c) \/ SignalHoldTimer(c)
-----------------------------------------------------------------------------
(***************************************************************************)
(* OspfArea._compute_change: iterates over the database without the lock.  *)
(***************************************************************************)
ComputeBegins(t) ==
  /\ At(t, "action")
  /\ To(t, "reading")
  /\ todo' = [todo EXCEPT ![t] = Entries]
  /\ size' = [size EXCEPT ![t] = Cardinality(Entries)]
  /\ links' = [links EXCEPT ![t] = NoLinks]
  /\ UNCHANGED <<resetFlag, stopFlag, event, poolVars, lsdb, areaVars, aging,
                 published, envVars, raced>>

ComputeReads(t) ==
  /\ At(t, "reading")
  /\ Cardinality(Entries) = size[t]
  /\ \E l \in todo[t] \cap Entries :
       /\ todo' = [todo EXCEPT ![t] = @ \ {l}]
       /\ links' = [links EXCEPT ![t][l] = lsdb[l]]
  /\ UNCHANGED <<timerVars, poolVars, lsdb, areaVars, aging, size, published,
                 envVars, raced>>

\* What the computation leaves behind when it is over.
Forget(t) ==
  /\ todo' = [todo EXCEPT ![t] = {}]
  /\ size' = [size EXCEPT ![t] = 0]
  /\ links' = [links EXCEPT ![t] = NoLinks]

ComputePublishes(t) ==
  /\ At(t, "reading")
  /\ Cardinality(Entries) = size[t]
  /\ todo[t] \cap Entries = {}
  /\ To(t, "after")
  /\ published' = links[t]
  /\ Forget(t)
  /\ UNCHANGED <<resetFlag, stopFlag, event, poolVars, lsdb, areaVars, aging,
                 envVars, raced>>

\* The size changed during iteration: the exception is swallowed.
ComputeFails(t) ==
  /\ At(t, "reading")
  /\ Cardinality(Entries) # size[t]
  /\ To(t, "after")
  /\ Forget(t)
  /\ UNCHANGED <<resetFlag, stopFlag, event, poolVars, lsdb, areaVars, aging,
                 published, envVars, raced>>

ComputeChange(t) ==
  ComputeBegins(t) \/ ComputeReads(t) \/ ComputePublishes(t) \/ ComputeFails(t)
-----------------------------------------------------------------------------
others == <<lsdb, areaVars, aging, computeVars, envVars, raced>>

TimerThread(t) ==
  \/ TimerStep(t) /\ UNCHANGED <<poolVars, others>>
  \/ ComputeChange(t)

WorkerThread(w) ==
  \/ PoolStep(w) /\ UNCHANGED <<timerVars, others>>
  \/ CheckLsu(w) \/ InstallLsa(w) \/ SendLsack(w)
  \/ TopoChange(w)

Receiver == Adder /\ UNCHANGED <<timerVars, others>>

AgingThread == AgeRemove \/ TopoChange(Ager)

Next ==
  \/ \E l \in Lsas, f \in BOOLEAN : Originate(l, f)
  \/ \E m \in Packets : Arrive(m)
  \/ \E l \in Lsas : AgeFound(l)
  \/ Receiver \/ AgingThread
  \/ \E w \in Workers : WorkerThread(w)
  \/ \E t \in Timers : TimerThread(t)

Spec == Init /\ [][Next]_vars

(***************************************************************************)
(* The interpreter runs every thread, a wait ends when its time is over,   *)
(* and a neighbour sends a packet again every rxmt_interval until it is    *)
(* acknowledged, and some of what it sends arrives.                        *)
(***************************************************************************)
Fairness ==
  /\ WF_vars(Receiver) /\ WF_vars(AgingThread)
  /\ \A w \in Workers : WF_vars(WorkerThread(w))
  /\ \A t \in Timers : WF_vars(TimerThread(t))
  /\ \A m \in Packets : SF_vars(Arrive(m))

FairSpec == Spec /\ Fairness
-----------------------------------------------------------------------------
\* Every thread sleeps or is dead.
Quiescent ==
  /\ ~Adding
  /\ \A w \in Created : Asleep(w) \/ workerAt[w] = "dead"
  /\ callAt[Ager] \in {"none", "dead"} /\ aging = {}
  /\ \A t \in Timers : ~Running(t)

\* What the network manager was told last is what is in the database, once
\* all is quiet, unless a signal met a timer that had ceased to look or two
\* timers ran: flooding, aging, reset and wait may come in any other order,
\* and the flag and the event of a reset may come apart.
PublishedUnlessRaced == Quiescent /\ ~raced => published = lsdb

\* A hold timer is not kept from its end for ever.
HoldTimersEnd == \A t \in Timers : Running(t) ~> ~Running(t)

\* While no worker dies, whatever a neighbour sends is handled some time,
\* although the pool may miss that a task was added: the retransmission wakes
\* a worker.
LsusHandled ==
  \A m \in Packets :
    m \in unacked ~> (m \notin unacked \/ \E w \in Workers : workerAt[w] = "dead")

\* An instance in the database is replaced by a newer one only.  (It is not:
\* the comparison is outside the lock.)
NewestInstalled == [][\A l \in Lsas : lsdb'[l] # 0 => lsdb[l] <= lsdb'[l]]_vars

\* What the network manager was told last is what is in the database, once
\* all is quiet.
ChangesPublished == Quiescent => published = lsdb
=============================================================================
