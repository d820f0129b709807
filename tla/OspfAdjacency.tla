---------------------------- MODULE OspfAdjacency ----------------------------
(***************************************************************************)
(* How the OSPF listener, a probe that describes nothing itself, becomes   *)
(* adjacent to a router on a point-to-point link: hellos, the exchange of  *)
(* database descriptions, requests for link-state advertisements and their *)
(* updates (pyospf/core/neighborStateMachine.py, protocols/hello.py,       *)
(* exchange.py and flood.py).  The router is a neighbour that follows the  *)
(* standard; packets between the two can be lost.                          *)
(*                                                                         *)
(* Descriptions are handled in the receiver thread and updates in workers  *)
(* of a pool; nothing locks one against the other.  What remains of a      *)
(* handler after it changed the list of requests is a step of its own:     *)
(* _loading in the receiver, the end of the requests in a worker.  An      *)
(* instance of an advertisement is a number, 0 is none.  The publication   *)
(* of changes is in OspfFlooding.tla.                                      *)
(***************************************************************************)
EXTENDS Naturals, Sequences, FiniteSets, SequencesExt

CONSTANTS
  Parts,         \* Parts[i]: the LSAs the router describes in its i-th packet
  Changing,      \* bound: the LSAs that change
  MaxInstances,  \* bound: instances of each LSA
  MaxFaults,     \* bound: packets lost or sent again too early
  MaxRestarts,   \* bound: restarts of the router and silences
  SeqLimit       \* bound: sequence numbers are taken modulo SeqLimit

Lsas == UNION Range(Parts)
LastPart == Len(Parts)

ASSUME AdjacencyAssumption ==
  /\ Parts \in Seq(SUBSET Lsas) /\ Parts # <<>>
  /\ IsFiniteSet(Lsas)
  /\ Changing \subseteq Lsas
  /\ MaxInstances \in Nat \ {0} /\ MaxFaults \in Nat /\ MaxRestarts \in Nat
  /\ SeqLimit \in Nat /\ SeqLimit > 2

VARIABLES
  probeMaster,  \* the router id of the probe is the larger
  state,        \* NSM.state
  ddSeq,        \* NSM.dd_seqnum, of a master
  lsReq,        \* NSM.ls_req: how often each LSA is in the list
  resend,       \* NSM.lsr_resend_timer, with the list it was given: the list
                \*   ls_req ("live") or one that ls_req was before
  orphans,      \* lists of timers that nobody refers to any more but that run
  lsdb,         \* OspfLsdb: the instance installed
  greeting,     \* NSM._dd_exstart_timer runs
  receiver,     \* what is left of a description that is being handled
  finishing,    \* updates of which a worker took the last LSA off the list
  deadWorkers,  \* workers of the thread pool that met an exception
  late,         \* history: LSAs of which the instance in the database was older
                \*   than the router's when it was installed, which the router
                \*   was not going to flood
  overtaken,    \* history: LSAs put on the list while a worker was about to end
                \*   the requests for the list of before
  routerState,  \* the router's state for the probe
  heard,        \* the router lists the probe in its hellos
  seq,          \* the router's sequence number: its own as master, else the
                \*   last one received
  part,         \* the packet of its description it sent last, 0 for the first
                \*   one, which is empty
  own,          \* own[l]: the instance the router has
  flooding,     \* what it floods to the probe until it is acknowledged
  toProbe,      \* descriptions under way to the probe
  toRouter,     \* descriptions and requests under way to the router
  updates,      \* updates under way to a worker of the probe
  faults,       \* how many packets were lost or sent too early
  restarts      \* how many restarts and silences there were

threadVars == <<receiver, finishing, deadWorkers>>
probeVars == <<state, ddSeq, lsReq, resend, orphans, lsdb, greeting, threadVars, late,
               overtaken>>
routerVars == <<routerState, heard, seq, part, own, flooding>>
boundVars == <<faults, restarts>>
vars == <<probeMaster, probeVars, routerVars, toProbe, toRouter, updates, boundVars>>

Instances == 1 .. MaxInstances
Description == [init : BOOLEAN, more : BOOLEAN, seq : Nat,
                lsas : SUBSET [lsa : Lsas, inst : Instances]]
ProbePacket == [type : {"dd"}, init : BOOLEAN, seq : Nat]
               \cup [type : {"lsr"}, lsas : SUBSET Lsas]
Update == [lsa : Lsas, inst : Instances]
States == {"Down", "Init", "ExStart", "Exchange", "Loading", "Full"}

\* Workers that take no update.
Busy == deadWorkers + Len(finishing)

TypeOK ==
  /\ probeMaster \in BOOLEAN
  /\ state \in States /\ routerState \in States \ {"Init", "Loading"}
  /\ ddSeq \in Nat /\ seq \in Nat
  /\ lsReq \in [Lsas -> Nat]
  /\ resend \in [timer : {"none", "running", "ended", "stopped"}, live : BOOLEAN, list : SUBSET Lsas]
  /\ orphans \in SUBSET SUBSET Lsas
  /\ lsdb \in [Lsas -> Nat] /\ own \in [Lsas -> Instances]
  /\ greeting \in BOOLEAN
  /\ receiver \in {"idle", "loads", "starts"}
  /\ finishing \in Seq(Update)
  /\ deadWorkers \in Nat /\ Busy <= 2
  /\ late \in SUBSET Lsas /\ overtaken \in SUBSET Lsas
  /\ heard \in BOOLEAN
  /\ part \in 0 .. LastPart
  /\ flooding \in SUBSET Lsas
  /\ toProbe \in Seq(Description)
  /\ toRouter \in Seq(ProbePacket)
  /\ updates \in Seq(Update)
  /\ faults \in Nat /\ restarts \in Nat

Nothing == [l \in Lsas |-> 0]
NoTimer == [timer |-> "none", live |-> FALSE, list |-> {}]

Init ==
  /\ probeMaster \in BOOLEAN
  /\ state = "Down" /\ routerState = "Down"
  /\ ddSeq = 0 /\ seq = 0 /\ part = 0
  /\ lsReq = Nothing /\ lsdb = Nothing
  /\ resend = NoTimer /\ orphans = {}
  /\ greeting = FALSE
  /\ receiver = "idle" /\ finishing = <<>>
  /\ deadWorkers = 0 /\ late = {} /\ overtaken = {}
  /\ heard = FALSE
  /\ own = [l \in Lsas |-> 1]
  /\ flooding = {}
  /\ toProbe = <<>> /\ toRouter = <<>> /\ updates = <<>>
  /\ faults = 0 /\ restarts = 0
-----------------------------------------------------------------------------
(***************************************************************************)
(* The neighbour state machine of the probe.                               *)
(***************************************************************************)
After(n) == (n + 1) % SeqLimit

Wanted == { l \in Lsas : lsReq[l] > 0 }
FirstDd(n) == [type |-> "dd", init |-> TRUE, seq |-> n]
Reply(n) == [type |-> "dd", init |-> FALSE, seq |-> n]

\* The list a timer was given stays as it was when ls_req is replaced.
Detached == IF resend.live THEN [resend EXCEPT !.live = FALSE, !.list = Wanted]
            ELSE resend

\* ExStart with a new sequence number, and the timer that sends it again.
ToExStart ==
  /\ state' = "ExStart"
  /\ greeting' = TRUE
  /\ ddSeq' = IF probeMaster THEN After(ddSeq) ELSE ddSeq
  /\ toRouter' = Append(toRouter, FirstDd(ddSeq'))

\* _seq_mismatch_or_bad_lsr: the timer of the requests keeps running.
Mismatch ==
  /\ ToExStart
  /\ lsReq' = Nothing /\ overtaken' = {}
  /\ resend' = Detached
  /\ UNCHANGED orphans

\* reset: the database is emptied too.
ResetTo(s) ==
  /\ state' = s
  /\ lsReq' = Nothing /\ overtaken' = {}
  /\ resend' = NoTimer
  /\ greeting' = FALSE
  /\ lsdb' = Nothing /\ late' = {}

\* A hello of the router: it lists the probe or it does not.
HelloTwoWay ==
  /\ heard
  /\ receiver = "idle"
  /\ state \in {"Down", "Init"}
  /\ ToExStart
  /\ UNCHANGED <<probeMaster, lsReq, resend, orphans, lsdb, threadVars, late, overtaken,
                 routerVars, toProbe, updates, boundVars>>

HelloOneWay ==
  /\ ~heard
  /\ receiver = "idle"
  /\ state # "Init"
  /\ IF state = "Down"
     THEN state' = "Init" /\ UNCHANGED <<lsReq, resend, lsdb, greeting, late, overtaken>>
     ELSE ResetTo("Init")
  /\ UNCHANGED <<probeMaster, ddSeq, orphans, threadVars, routerVars, toProbe,
                 toRouter, updates, boundVars>>

\* dead: no hello for the dead interval.  The neighbour is forgotten: what is
\* left of _loading acts on the forgotten one, and a worker that is to end the
\* requests finds that their timer is gone.
Dead ==
  /\ state # "Down"
  /\ restarts < MaxRestarts
  /\ restarts' = restarts + 1
  /\ ResetTo("Down")
  /\ receiver' = "idle"
  /\ finishing' = <<>> /\ deadWorkers' = Busy
  /\ UNCHANGED <<probeMaster, ddSeq, orphans, routerVars, toProbe,
                 toRouter, updates, faults>>
-----------------------------------------------------------------------------
(***************************************************************************)
(* check_dd.  The comparison with the packet received last never holds,    *)
(* because the packet is remembered before; a packet is never kept to be   *)
(* sent again, because only what is sent in Loading or Full would be.      *)
(***************************************************************************)
Got == Head(toProbe)
\* A slave answers with the sequence number of the master.
Answer == Reply(IF probeMaster THEN ddSeq' ELSE Got.seq)
Reads == receiver = "idle" /\ toProbe # <<>> /\ toProbe' = Tail(toProbe)

DdIgnored ==
  /\ Reads
  /\ \/ state = "Down"
     \/ state = "ExStart" /\ Got.init = probeMaster
     \/ state \in {"Loading", "Full"} /\ probeMaster /\ ~Got.init
  /\ UNCHANGED <<probeMaster, probeVars, routerVars, toRouter, updates, boundVars>>

DdInInit ==
  /\ Reads
  /\ state = "Init"
  /\ ToExStart
  /\ UNCHANGED <<probeMaster, lsReq, resend, orphans, lsdb, threadVars, late, overtaken,
                 routerVars, updates, boundVars>>

\* Negotiation: as slave on the first packet of the router, as master on its
\* first answer.  What that answer describes is not read.
DdNegotiates ==
  /\ Reads
  /\ state = "ExStart"
  /\ Got.init # probeMaster
  /\ ddSeq' = IF probeMaster THEN After(ddSeq) ELSE ddSeq
  /\ toRouter' = Append(toRouter, Answer)
  /\ state' = "Exchange" /\ greeting' = FALSE
  /\ receiver' = IF probeMaster /\ ~Got.more THEN "loads" ELSE "idle"
  /\ UNCHANGED <<probeMaster, lsReq, resend, orphans, lsdb, finishing, deadWorkers,
                 late, overtaken, routerVars, updates, boundVars>>

\* A faulty variant: an LSA that is there counts as up to date.
WithMissing(req, hdrs) ==
  [l \in Lsas |-> req[l] + IF lsdb[l] = 0 /\ \E h \in hdrs : h.lsa = l THEN 1 ELSE 0]

\* _get_lsa appends what is missing or older in the database; a packet names
\* an LSA once.
WithNewer(req, hdrs) ==
  [l \in Lsas |-> req[l] + IF \E h \in hdrs : h.lsa = l /\ lsdb[l] < h.inst THEN 1 ELSE 0]

\* A master that has got the last packet sends no more.
Answers == Got.more \/ ~probeMaster

DdExchange ==
  /\ Reads
  /\ state = "Exchange" /\ ~Got.init
  /\ lsReq' = WithNewer(lsReq, Got.lsas)
  /\ overtaken' = overtaken \cup { l \in Lsas : finishing # <<>> /\ lsReq'[l] > lsReq[l] }
  /\ ddSeq' = IF probeMaster /\ Got.more THEN After(ddSeq) ELSE ddSeq
  /\ receiver' = IF Got.more THEN "idle" ELSE "loads"
  /\ toRouter' = IF Answers THEN Append(toRouter, Answer) ELSE toRouter
  /\ UNCHANGED <<probeMaster, state, resend, orphans, lsdb, greeting, finishing,
                 deadWorkers, late, routerVars, updates, boundVars>>

\* An unexpected first packet, or one that comes again to a slave.
DdMismatch ==
  /\ Reads
  /\ \/ state = "Exchange" /\ Got.init
     \/ state \in {"Loading", "Full"} /\ (Got.init \/ ~probeMaster)
  /\ Mismatch
  /\ UNCHANGED <<probeMaster, lsdb, threadVars, late, routerVars, updates, boundVars>>

\* _loading, in whatever state a worker has left: Full if nothing is wanted,
\* else the first request.
Loads ==
  /\ receiver = "loads"
  /\ \/ /\ Wanted = {}
        /\ state' = "Full" /\ receiver' = "idle"
        /\ UNCHANGED toRouter
     \/ /\ Wanted # {}
        /\ state' = "Loading" /\ receiver' = "starts"
        /\ toRouter' = Append(toRouter, [type |-> "lsr", lsas |-> Wanted])
  /\ UNCHANGED <<probeMaster, ddSeq, lsReq, resend, orphans, lsdb, greeting, finishing,
                 deadWorkers, late, overtaken, routerVars, toProbe, updates, boundVars>>

\* A timer without a list ends when it fires: _send_lsr needs an argument.
Lists(lists) == lists \ {{}}

\* A faulty variant: a timer that is there is not replaced.
StartsOnce ==
  /\ receiver = "starts" /\ receiver' = "idle"
  /\ resend' = IF resend.timer # "none" THEN resend
               ELSE [timer |-> "running", live |-> TRUE, list |-> {}]
  /\ UNCHANGED <<probeMaster, state, ddSeq, lsReq, orphans, lsdb, greeting, finishing,
                 deadWorkers, late, overtaken, routerVars, toProbe, toRouter, updates, boundVars>>

\* The rest of _loading: the timer, even if a worker has emptied the list since
\* the test.
Starts ==
  /\ receiver = "starts" /\ receiver' = "idle"
  /\ resend' = [timer |-> "running", live |-> TRUE, list |-> {}]
  /\ orphans' = IF resend.timer = "running" THEN orphans \cup Lists({Detached.list})
                ELSE orphans
  /\ UNCHANGED <<probeMaster, state, ddSeq, lsReq, lsdb, greeting, finishing,
                 deadWorkers, late, overtaken, routerVars, toProbe, toRouter, updates, boundVars>>

CheckDd == DdIgnored \/ DdInInit \/ DdNegotiates \/ DdExchange \/ DdMismatch
           \/ Loads \/ Starts
-----------------------------------------------------------------------------
(***************************************************************************)
(* check_lsu, in a worker of the thread pool, for an update with one LSA.  *)
(***************************************************************************)
Lsu == Head(updates)
Handles == /\ updates # <<>> /\ Busy < 2
           /\ updates' = Tail(updates)
Exchanging == state \in {"Exchange", "Loading", "Full"}
IsNewer == lsdb[Lsu.lsa] < Lsu.inst

\* A faulty variant: whether anything else is wanted is not looked at.
LastWantedAlways == lsReq[Lsu.lsa] = 1

LastWanted == Wanted = {Lsu.lsa} /\ lsReq[Lsu.lsa] = 1

\* Before the exchange an update is dropped.
LsuDropped ==
  /\ Handles
  /\ ~Exchanging
  /\ UNCHANGED <<probeMaster, probeVars, routerVars, toProbe, toRouter, boundVars>>

\* A faulty variant: what is installed is taken off the list, whether it was
\* requested or not.
WithoutUnasked(req, l) == [req EXCEPT ![l] = @ - 1]

\* One entry is taken off the list, if there is any.
Without(req, l) == [req EXCEPT ![l] = IF @ > 0 THEN @ - 1 ELSE 0]

Install ==
  /\ lsdb' = [lsdb EXCEPT ![Lsu.lsa] = Lsu.inst]
  /\ late' = IF Lsu.inst < own[Lsu.lsa] /\ Lsu.lsa \notin flooding
             THEN late \cup {Lsu.lsa} ELSE late \ {Lsu.lsa}

Acknowledge(u) ==
  flooding' = IF u.inst = own[u.lsa] THEN flooding \ {u.lsa} ELSE flooding

LsuInstalled ==
  /\ Handles
  /\ Exchanging /\ IsNewer
  /\ Install
  /\ lsReq' = Without(lsReq, Lsu.lsa) /\ overtaken' = overtaken \cap Wanted'
  /\ IF LastWanted THEN finishing' = Append(finishing, Lsu) /\ UNCHANGED flooding
     ELSE Acknowledge(Lsu) /\ UNCHANGED finishing
  /\ UNCHANGED <<probeMaster, state, ddSeq, resend, orphans, greeting, receiver,
                 deadWorkers, routerState, heard, seq, part, own, toProbe, toRouter,
                 boundVars>>

\* The last LSA that was requested ends the requests, with the timer and in the
\* state that there are by now.
LsuFinished(i) ==
  /\ finishing' = RemoveAt(finishing, i)
  /\ resend.timer # "none"
  /\ IF resend.timer = "stopped" THEN UNCHANGED <<resend, state>>
     ELSE /\ resend' = [timer |-> "stopped", live |-> FALSE, list |-> {}]
          /\ state' = "Full"
  /\ Acknowledge(finishing[i])
  /\ UNCHANGED <<probeMaster, ddSeq, lsReq, orphans, lsdb, greeting, receiver,
                 deadWorkers, late, overtaken, routerState, heard, seq, part, own, toProbe,
                 toRouter, updates, boundVars>>

\* There is no timer to ask: the exception ends the worker.
LsuEndsWorker(i) ==
  /\ finishing' = RemoveAt(finishing, i)
  /\ resend.timer = "none"
  /\ deadWorkers' = deadWorkers + 1
  /\ UNCHANGED <<probeMaster, state, ddSeq, lsReq, resend, orphans, lsdb, greeting,
                 receiver, late, overtaken, routerVars, toProbe, toRouter, updates, boundVars>>

\* The neighbour is gone since the update was given to the worker.
LsuOfNobody ==
  /\ Handles
  /\ state = "Down"
  /\ deadWorkers' = deadWorkers + 1
  /\ UNCHANGED <<probeMaster, state, ddSeq, lsReq, resend, orphans, lsdb, greeting,
                 receiver, finishing, late, overtaken, routerVars, toProbe, toRouter, boundVars>>

LsuAcknowledged ==
  /\ Handles
  /\ Exchanging /\ ~IsNewer
  /\ Lsu.lsa \notin Wanted
  /\ Acknowledge(Lsu)
  /\ UNCHANGED <<probeMaster, probeVars, routerState, heard, seq, part, own,
                 toProbe, toRouter, boundVars>>

\* BadLSReq: an LSA was requested that is there.
LsuMismatch ==
  /\ Handles
  /\ Exchanging /\ ~IsNewer
  /\ Lsu.lsa \in Wanted
  /\ Mismatch
  /\ UNCHANGED <<probeMaster, lsdb, threadVars, late, routerVars, toProbe, boundVars>>

\* There are two workers: the second can be faster.
Overtakes ==
  /\ Busy = 0 /\ Len(updates) > 1
  /\ updates' = [updates EXCEPT ![1] = updates[2], ![2] = updates[1]]
  /\ UNCHANGED <<probeMaster, probeVars, routerVars, toProbe, toRouter, boundVars>>

CheckLsu ==
  \/ LsuDropped \/ LsuInstalled \/ LsuOfNobody \/ LsuAcknowledged \/ LsuMismatch
  \/ \E i \in DOMAIN finishing : LsuFinished(i) \/ LsuEndsWorker(i)
-----------------------------------------------------------------------------
(***************************************************************************)
(* Timers of the probe.  Time passes slowly enough for an answer to arrive *)
(* before a packet is sent again, unless that is counted as a fault.       *)
(***************************************************************************)
NoDds == toProbe = <<>> /\ \A i \in DOMAIN toRouter : toRouter[i].type # "dd"
NoRequests == updates = <<>> /\ \A i \in DOMAIN toRouter : toRouter[i].type # "lsr"

InTime(quiet) ==
  \/ quiet /\ UNCHANGED faults
  \/ ~quiet /\ faults < MaxFaults /\ faults' = faults + 1

\* _send_dd of _dd_exstart_timer
FirstDdAgain ==
  /\ greeting
  /\ InTime(NoDds)
  /\ toRouter' = Append(toRouter, FirstDd(ddSeq))
  /\ UNCHANGED <<probeMaster, probeVars, routerVars, toProbe, updates, restarts>>

\* A faulty variant: the timer that was started last does not send.
ResentByOthers == orphans

\* _send_lsr of lsr_resend_timer, or of one that was replaced while it ran.
Resent == orphans \cup (IF resend.timer # "running" THEN {}
                        ELSE Lists({Detached.list}))

RequestAgain(list) ==
  /\ list \in Resent
  /\ NoRequests
  /\ toRouter' = Append(toRouter, [type |-> "lsr", lsas |-> list])
  /\ UNCHANGED <<probeMaster, probeVars, routerVars, toProbe, updates, boundVars>>

\* A timer without anything to ask for: the exception ends it, but for is_stop it
\* runs.
RequestsEnd ==
  /\ resend.timer = "running" /\ Detached.list = {}
  /\ resend' = [resend EXCEPT !.timer = "ended"]
  /\ UNCHANGED <<probeMaster, state, ddSeq, lsReq, orphans, lsdb, greeting, threadVars,
                 late, overtaken, routerVars, toProbe, toRouter, updates, boundVars>>
-----------------------------------------------------------------------------
(***************************************************************************)
(* The router, external: it follows RFC 2328.  It sends its hellos all the *)
(* time; the probe's hellos list it as long as the probe knows it.         *)
(***************************************************************************)
Headers(i) == { [lsa |-> l, inst |-> own[l]] : l \in Parts[i] }
RouterFirst(n) == [init |-> TRUE, more |-> TRUE, seq |-> n, lsas |-> {}]
RouterPart(i, n) ==
  [init |-> FALSE, more |-> i < LastPart, seq |-> n, lsas |-> Headers(i)]
RouterEmpty(n) == [init |-> FALSE, more |-> FALSE, seq |-> n, lsas |-> {}]

Adjoins(s) == s \in {"Exchange", "Full"}

RouterExStart ==
  /\ routerState' = "ExStart"
  /\ seq' = After(seq)
  /\ part' = 0
  /\ flooding' = {}
  /\ toProbe' = Append(toProbe, RouterFirst(seq'))

RouterHears ==
  \/ /\ state # "Down" /\ routerState = "Down"
     /\ heard' = TRUE
     /\ RouterExStart
     /\ UNCHANGED <<probeMaster, probeVars, own, toRouter, updates, boundVars>>
  \/ /\ state = "Down" /\ (~heard \/ routerState # "Down")
     /\ heard' = TRUE
     /\ routerState' = "Down" /\ flooding' = {}
     /\ UNCHANGED <<probeMaster, probeVars, seq, part, own, toProbe, toRouter,
                    updates, boundVars>>

RouterRestarts ==
  /\ restarts < MaxRestarts
  /\ restarts' = restarts + 1
  /\ heard /\ heard' = FALSE
  /\ routerState' = "Down" /\ flooding' = {}
  /\ UNCHANGED <<probeMaster, probeVars, seq, part, own, toProbe, toRouter,
                 updates, faults>>

Receives(type) ==
  /\ toRouter # <<>> /\ Head(toRouter).type = type
  /\ toRouter' = Tail(toRouter)
  /\ UNCHANGED <<probeMaster, probeVars, heard, own, boundVars>>

Sends(i, n, s) ==
  /\ routerState' = s
  /\ part' = i /\ seq' = n
  /\ toProbe' = Append(toProbe, RouterPart(i, n))

RouterKeeps == UNCHANGED <<routerState, seq, part, toProbe>>

\* The router is the master: the probe answers its packets.
RouterDdAsMaster ==
  /\ ~probeMaster
  /\ Receives("dd") /\ UNCHANGED updates
  /\ LET dd == Head(toRouter)
         now == ~dd.init /\ dd.seq = seq
     IN  \/ /\ routerState \in {"ExStart", "Exchange"} /\ now
            /\ IF part < LastPart THEN Sends(part + 1, After(seq), "Exchange")
               ELSE routerState' = "Full" /\ UNCHANGED <<seq, part, toProbe>>
            /\ UNCHANGED flooding
         \/ /\ \/ routerState = "Down"
               \/ routerState = "ExStart" /\ ~now
               \/ Adjoins(routerState) /\ ~dd.init /\ After(dd.seq) = seq
               \/ routerState = "Full" /\ now
            /\ RouterKeeps /\ UNCHANGED flooding
         \/ /\ Adjoins(routerState) /\ ~now
            /\ dd.init \/ After(dd.seq) # seq
            /\ RouterExStart

\* The router is the slave: it answers the packets of the probe.
RouterDdAsSlave ==
  /\ probeMaster
  /\ Receives("dd") /\ UNCHANGED updates
  /\ LET dd == Head(toRouter)
         again == dd.init /\ part = 1 /\ dd.seq = seq
         next == ~dd.init /\ dd.seq = After(seq)
     IN  \/ /\ routerState = "ExStart" /\ dd.init
            /\ Sends(1, dd.seq, "Exchange")
            /\ UNCHANGED flooding
         \/ /\ Adjoins(routerState) /\ again
            /\ Sends(1, seq, routerState)
            /\ UNCHANGED flooding
         \/ /\ routerState = "Exchange" /\ next
            /\ IF part < LastPart
               THEN Sends(part + 1, dd.seq, IF part + 1 < LastPart THEN "Exchange" ELSE "Full")
               ELSE /\ routerState' = "Full"
                    /\ seq' = dd.seq /\ UNCHANGED part
                    /\ toProbe' = Append(toProbe, RouterEmpty(dd.seq))
            /\ UNCHANGED flooding
         \/ /\ \/ routerState = "Down"
               \/ routerState = "ExStart" /\ ~dd.init
            /\ RouterKeeps /\ UNCHANGED flooding
         \/ /\ Adjoins(routerState) /\ ~again
            /\ ~(routerState = "Exchange" /\ next)
            /\ RouterExStart

RouterAnswersLsr ==
  /\ Receives("lsr")
  /\ updates' = IF ~Adjoins(routerState) THEN updates
                ELSE updates \o SetToSeq({ [lsa |-> l, inst |-> own[l]] :
                                           l \in Head(toRouter).lsas })
  /\ UNCHANGED <<routerState, seq, part, flooding, toProbe>>

\* What it sent last is sent again: in ExStart, and as master until the answer.
RouterDdAgain ==
  /\ \/ routerState = "ExStart" /\ toProbe' = Append(toProbe, RouterFirst(seq))
     \/ /\ routerState = "Exchange" /\ ~probeMaster
        /\ toProbe' = Append(toProbe, RouterPart(part, seq))
  /\ InTime(NoDds)
  /\ UNCHANGED <<probeMaster, probeVars, routerVars, toRouter, updates, restarts>>

Originates(l) ==
  /\ l \in Changing /\ own[l] < MaxInstances
  /\ own' = [own EXCEPT ![l] = @ + 1]
  /\ flooding' = IF Adjoins(routerState) THEN flooding \cup {l} ELSE flooding
  /\ UNCHANGED <<probeMaster, probeVars, routerState, heard, seq, part, toProbe,
                 toRouter, updates, boundVars>>

Floods(l) ==
  /\ l \in flooding
  /\ updates = <<>>
  /\ updates' = Append(updates, [lsa |-> l, inst |-> own[l]])
  /\ UNCHANGED <<probeMaster, probeVars, routerVars, toProbe, toRouter, boundVars>>

Lost ==
  /\ faults < MaxFaults
  /\ faults' = faults + 1
  /\ \/ toProbe # <<>> /\ toProbe' = Tail(toProbe) /\ UNCHANGED <<toRouter, updates>>
     \/ toRouter # <<>> /\ toRouter' = Tail(toRouter) /\ UNCHANGED <<toProbe, updates>>
     \/ updates # <<>> /\ updates' = Tail(updates) /\ UNCHANGED <<toProbe, toRouter>>
  /\ UNCHANGED <<probeMaster, probeVars, routerVars, restarts>>
-----------------------------------------------------------------------------
RouterReads == RouterDdAsMaster \/ RouterDdAsSlave \/ RouterAnswersLsr
Router == RouterHears \/ RouterReads
Probe == HelloTwoWay \/ HelloOneWay \/ CheckDd \/ CheckLsu \/ Overtakes

Next ==
  \/ Probe \/ Dead \/ FirstDdAgain
  \/ RequestsEnd \/ \E list \in Resent : RequestAgain(list)
  \/ Router \/ RouterRestarts \/ RouterDdAgain
  \/ \E l \in Lsas : Originates(l) \/ Floods(l)
  \/ Lost

Spec == Init /\ [][Next]_vars

(***************************************************************************)
(* Hellos go on for ever, the receiver and the workers keep reading, and   *)
(* the timers fire.  The model lets a timer fire only when the last packet *)
(* has been read, which comes and goes, so for timers the fairness is      *)
(* strong.                                                                 *)
(***************************************************************************)
Fairness ==
  /\ WF_vars(HelloTwoWay \/ HelloOneWay)
  /\ WF_vars(CheckDd) /\ WF_vars(CheckLsu)
  /\ WF_vars(RouterHears) /\ WF_vars(RouterReads)
  /\ SF_vars(FirstDdAgain) /\ SF_vars(RouterDdAgain)
  /\ \A l \in Changing : WF_vars(Floods(l))
  /\ \A list \in Lists(SUBSET Lsas) : SF_vars(RequestAgain(list))

FairSpec == Spec /\ Fairness
-----------------------------------------------------------------------------
(***************************************************************************)
(* What is wanted in Loading is asked for again and again, by a timer that *)
(* has the list of now and not one of an exchange before it: else a lost   *)
(* request or update would never be made up for, and the probe would stay  *)
(* in Loading (_loading and _seq_mismatch_or_bad_lsr beside flood.py's     *)
(* removals and its stop of the timer).                                    *)
(***************************************************************************)
LoadingIsAsking ==
  state = "Loading" /\ receiver = "idle" /\ Wanted # {} =>
    resend.timer = "running" /\ resend.live

\* Refuted: in Loading something is left to ask for.
LoadingIsWanting == state = "Loading" => Wanted # {}

(***************************************************************************)
(* As slave, once both ends are Full, no LSA of the router is missing in   *)
(* the database, whatever was lost or restarted on the way: but for an LSA *)
(* overtaken, that a description put on the list while a worker was about  *)
(* to end the requests, and but for a probe that a worker made Full after  *)
(* it had begun the exchange again (greeting; exchange.py's check_dd       *)
(* beside flood.py's check_lsu, CompleteAtRest below).                     *)
(***************************************************************************)
BothFull == state = "Full" /\ routerState = "Full"

Complete == BothFull /\ ~probeMaster /\ ~greeting => \A l \in Lsas \ overtaken : lsdb[l] > 0

(***************************************************************************)
(* As slave, once both ends are Full and the router floods nothing to the  *)
(* probe, the database is the router's, whatever was lost or restarted and *)
(* although the router changes its LSAs all the time: but for an LSA whose *)
(* update was late (flood.py compares an update with the database, not     *)
(* with what was described and asked for), and but for the two cases of    *)
(* Complete.                                                               *)
(***************************************************************************)
Synced ==
  BothFull /\ ~probeMaster /\ ~greeting /\ flooding = {} =>
    \A l \in Lsas \ (late \cup overtaken) : lsdb[l] = own[l]

\* Refuted: the same of all LSAs, even with nothing under way.
SyncedAlways ==
  BothFull /\ ~probeMaster /\ flooding = {} /\ NoRequests => lsdb = own

\* Refuted: what is wanted in Full is asked for by somebody, so that at rest
\* nothing is missing.
CompleteAtRest ==
  BothFull /\ ~probeMaster /\ ~greeting /\ Resent = {} /\ NoRequests
    /\ receiver = "idle" /\ finishing = <<>>
  => \A l \in Lsas : lsdb[l] > 0

\* Refuted: Complete for a master, which does not read the first answer.
CompleteAsMaster == BothFull /\ probeMaster => \A l \in Lsas : lsdb[l] > 0

(***************************************************************************)
(* In the end both are Full for good, unless a packet was lost or came too *)
(* early with the probe as master (a master does not send its description *)
(* again), or both workers of the pool are dead, or the threads have raced *)
(* (Raced): in Loading nothing is left to ask for (_loading has read the   *)
(* list before a worker emptied it), or a worker made the probe Full while *)
(* it was in ExStart again.                                                *)
(***************************************************************************)
Raced ==
  \/ state = "Loading" /\ Wanted = {}
  \/ state = "Full" /\ greeting

Adjacent ==
  <>[](\/ BothFull
       \/ probeMaster /\ faults > 0
       \/ Raced
       \/ deadWorkers = 2)

\* Refuted: the same for a master too.
AdjacentAsMaster == <>[](state = "Full" \/ deadWorkers = 2)

\* Refuted: the pool keeps a worker.
WorkersLive == deadWorkers = 0

\* Refuted: in Full there is nothing left to ask for and no timer that asks.
FullAsksNothing == state = "Full" => Resent = {}
=============================================================================
