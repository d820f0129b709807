------------------------ MODULE OspfAdjacencyProofs ------------------------
(***************************************************************************)
(* Theorems about the adjacency of the probe for any database, however its *)
(* description is cut into packets, and any number of losses, restarts and *)
(* changes.                                                                *)
(***************************************************************************)
EXTENDS OspfAdjacency, FiniteSetTheorems, SequenceTheorems, TLAPS

\* What the threads leave each other: in ExStart the timer of the first packet
\* runs; a neighbour that is reset has no timer and no handler under way; in
\* Loading the receiver is about to start the timer of the requests, or it runs
\* with the list of now, or it ended because that list is empty.
Threads ==
  /\ state = "ExStart" => greeting
  /\ state \in {"Down", "Init"} => resend.timer = "none" /\ receiver = "idle"
  /\ state = "Loading" =>
       \/ receiver = "starts"
       \/ resend.timer = "running" /\ resend.live
       \/ resend.timer = "ended" /\ Wanted = {}

Inv == TypeOK /\ Threads
-----------------------------------------------------------------------------
\* Facts about queues, cited by the steps below.
LEMMA SeqFacts ==
  ASSUME NEW S, NEW s \in Seq(S)
  PROVE  /\ \A e \in S : Append(s, e) \in Seq(S)
         /\ s # <<>> => Head(s) \in S /\ Tail(s) \in Seq(S)
         /\ \A t \in Seq(S) : s \o t \in Seq(S)
         /\ <<>> \in Seq(S)
         /\ \A e \in S : <<e>> \in Seq(S)
  OBVIOUS

LEMMA RemovedIs ==
  ASSUME NEW S, NEW s \in Seq(S), NEW i \in DOMAIN s
  PROVE  /\ s[i] \in S
         /\ RemoveAt(s, i) \in Seq(S)
         /\ Len(RemoveAt(s, i)) = Len(s) - 1
         /\ \A j \in DOMAIN RemoveAt(s, i) : \E k \in DOMAIN s : RemoveAt(s, i)[j] = s[k]
<1> DEFINE n == Len(s)
           a == SubSeq(s, 1, i - 1)
           b == SubSeq(s, i + 1, n)
<1>1. n \in Nat /\ i \in 1 .. n /\ DOMAIN s = 1 .. n /\ s[i] \in S
  OBVIOUS
<1>2. /\ a \in Seq(S) /\ Len(a) = i - 1
      /\ \A j \in 1 .. i - 1 : a[j] = s[j]
  <2>1. 1 \in Int /\ i - 1 \in Int /\ \A j \in 1 .. i - 1 : s[j] \in S
    BY <1>1
  <2>2. /\ SubSeq(s, 1, i - 1) \in Seq(S)
        /\ Len(SubSeq(s, 1, i - 1)) = IF 1 <= i - 1 THEN i - 1 - 1 + 1 ELSE 0
        /\ \A j \in 1 .. i - 1 - 1 + 1 : SubSeq(s, 1, i - 1)[j] = s[1 + j - 1]
    BY <2>1, SubSeqProperties
  <2> QED BY <1>1, <2>2
<1>3. /\ b \in Seq(S) /\ Len(b) = n - i
      /\ \A j \in 1 .. n - i : b[j] = s[i + j]
  <2>1. i + 1 \in Int /\ n \in Int /\ \A j \in i + 1 .. n : s[j] \in S
    BY <1>1
  <2>2. /\ SubSeq(s, i + 1, n) \in Seq(S)
        /\ Len(SubSeq(s, i + 1, n)) = IF i + 1 <= n THEN n - (i + 1) + 1 ELSE 0
        /\ \A j \in 1 .. n - (i + 1) + 1 : SubSeq(s, i + 1, n)[j] = s[i + 1 + j - 1]
    BY <2>1, SubSeqProperties
  <2>3. n - (i + 1) + 1 = n - i /\ \A j \in 1 .. n - i : i + 1 + j - 1 = i + j
    BY <1>1
  <2>4. (IF i + 1 <= n THEN n - (i + 1) + 1 ELSE 0) = n - i
    BY <1>1
  <2> QED BY <2>2, <2>3, <2>4, Zenon
<1>4. RemoveAt(s, i) = a \o b
  BY DEF RemoveAt
<1> HIDE DEF n, a, b
<1>5. /\ a \o b \in Seq(S) /\ Len(a \o b) = n - 1
      /\ DOMAIN (a \o b) = 1 .. n - 1
      /\ \A j \in 1 .. n - 1 : (a \o b)[j] = IF j <= i - 1 THEN a[j] ELSE b[j - (i - 1)]
  <2>1. /\ a \o b \in Seq(S) /\ Len(a \o b) = Len(a) + Len(b)
        /\ \A j \in 1 .. Len(a) + Len(b) :
             (a \o b)[j] = IF j <= Len(a) THEN a[j] ELSE b[j - Len(a)]
    BY <1>2, <1>3, ConcatProperties
  <2>2. Len(a) + Len(b) = n - 1
    BY <1>1, <1>2, <1>3
  <2> DEFINE c == a \o b
  <2>3. c \in Seq(S) /\ Len(c) = n - 1
    BY <2>1, <2>2
  <2> HIDE DEF c
  <2>4. DOMAIN c = 1 .. n - 1
    BY <2>3
  <2>5. \A j \in 1 .. n - 1 : (a \o b)[j] = IF j <= i - 1 THEN a[j] ELSE b[j - (i - 1)]
    BY <1>2, <2>1, <2>2
  <2> QED BY <2>3, <2>4, <2>5 DEF c
<1>6. ASSUME NEW j \in 1 .. n - 1 PROVE \E k \in DOMAIN s : (a \o b)[j] = s[k]
  <2>1. CASE j <= i - 1
    <3>1. j \in 1 .. i - 1 /\ j \in DOMAIN s
      BY <1>1, <2>1
    <3>2. (a \o b)[j] = s[j]
      BY <1>2, <1>5, <2>1, <3>1, Zenon
    <3> QED BY <3>1, <3>2
  <2>2. CASE ~(j <= i - 1)
    <3>1. j - (i - 1) \in 1 .. n - i /\ i + (j - (i - 1)) = j + 1 /\ j + 1 \in DOMAIN s
      BY <1>1, <2>2
    <3>2. b[j - (i - 1)] = s[j + 1]
      BY <1>3, <3>1
    <3>3. (a \o b)[j] = b[j - (i - 1)]
      BY <1>5, <2>2
    <3> QED BY <3>1, <3>2, <3>3
  <2> QED BY <2>1, <2>2
<1> QED BY <1>1, <1>4, <1>5, <1>6 DEF n

LEMMA SetToSeqType ==
  ASSUME NEW S, NEW T \in SUBSET S, IsFiniteSet(T)
  PROVE  SetToSeq(T) \in Seq(S)
<1>1. Cardinality(T) \in Nat /\ ExistsBijection(1 .. Cardinality(T), T)
  BY FS_CardinalityType
<1>2. \E f \in [1 .. Cardinality(T) -> T] : IsInjective(f)
  BY <1>1 DEF ExistsBijection, Bijection, Injection
<1>3. SetToSeq(T) \in [1 .. Cardinality(T) -> T]
  BY <1>2 DEF SetToSeq
<1>4. SetToSeq(T) \in [1 .. Cardinality(T) -> S]
  BY <1>3
<1> QED BY <1>1, <1>4

LEMMA AfterType == \A n \in Nat : After(n) \in Nat
BY AdjacencyAssumption DEF After

\* A packet has the fields of its kind.
LEMMA Fields ==
  ASSUME TypeOK
  PROVE  /\ toProbe # <<>> => /\ Head(toProbe) \in Description
                              /\ Tail(toProbe) \in Seq(Description)
         /\ toRouter # <<>> => /\ Head(toRouter) \in ProbePacket
                               /\ Tail(toRouter) \in Seq(ProbePacket)
         /\ updates # <<>> => /\ Head(updates) \in Update
                              /\ Tail(updates) \in Seq(Update)
BY SeqFacts DEF TypeOK

LEMMA DdType ==
  /\ \A n \in Nat : FirstDd(n) \in ProbePacket /\ Reply(n) \in ProbePacket
  /\ \A list \in SUBSET Lsas : [type |-> "lsr", lsas |-> list] \in ProbePacket
BY DEF FirstDd, Reply, ProbePacket

LEMMA PartType ==
  ASSUME TypeOK, NEW i \in 1 .. LastPart, NEW n \in Nat
  PROVE  RouterPart(i, n) \in Description
<1>1. Parts[i] \in SUBSET Lsas
  BY AdjacencyAssumption DEF LastPart
<1>2. Headers(i) \in SUBSET [lsa : Lsas, inst : Instances]
  BY <1>1 DEF Headers, TypeOK
<1>3. (i < LastPart) \in BOOLEAN
  OBVIOUS
<1> QED BY <1>2, <1>3 DEF RouterPart, Description

LEMMA FirstType ==
  \A n \in Nat : RouterFirst(n) \in Description /\ RouterEmpty(n) \in Description
BY DEF RouterFirst, RouterEmpty, Description
-----------------------------------------------------------------------------
\* The type invariant in two parts: what the probe changes and what the router
\* and the network do.
Timer == [timer : {"none", "running", "ended", "stopped"}, live : BOOLEAN, list : SUBSET Lsas]

ProbeTypeOK ==
  /\ state \in States /\ ddSeq \in Nat
  /\ lsReq \in [Lsas -> Nat] /\ lsdb \in [Lsas -> Nat]
  /\ resend \in Timer /\ orphans \in SUBSET SUBSET Lsas
  /\ greeting \in BOOLEAN
  /\ receiver \in {"idle", "loads", "starts"}
  /\ finishing \in Seq(Update)
  /\ deadWorkers \in Nat /\ Busy <= 2
  /\ late \in SUBSET Lsas /\ overtaken \in SUBSET Lsas

RouterTypeOK ==
  /\ routerState \in States \ {"Init", "Loading"}
  /\ seq \in Nat /\ heard \in BOOLEAN
  /\ part \in 0 .. LastPart
  /\ own \in [Lsas -> Instances]
  /\ flooding \in SUBSET Lsas
  /\ toProbe \in Seq(Description)
  /\ toRouter \in Seq(ProbePacket)
  /\ updates \in Seq(Update)
  /\ faults \in Nat /\ restarts \in Nat

LEMMA TypesAre ==
  /\ TypeOK <=> probeMaster \in BOOLEAN /\ ProbeTypeOK /\ RouterTypeOK
  /\ TypeOK' <=> probeMaster' \in BOOLEAN /\ ProbeTypeOK' /\ RouterTypeOK'
<1>1. TypeOK <=> probeMaster \in BOOLEAN /\ ProbeTypeOK /\ RouterTypeOK
  BY DEF TypeOK, ProbeTypeOK, RouterTypeOK, Timer
<1>2. TypeOK' <=> probeMaster' \in BOOLEAN /\ ProbeTypeOK' /\ RouterTypeOK'
  BY DEF TypeOK, ProbeTypeOK, RouterTypeOK, Timer
<1> QED BY <1>1, <1>2

LEMMA ThreadsAsk == Threads => LoadingIsAsking
BY DEF Threads, LoadingIsAsking

LEMMA TimerType ==
  /\ NoTimer \in Timer
  /\ [timer |-> "running", live |-> TRUE, list |-> {}] \in Timer
  /\ [timer |-> "stopped", live |-> FALSE, list |-> {}] \in Timer
  /\ TypeOK => /\ Detached \in Timer /\ Detached.list \in SUBSET Lsas
               /\ Detached.timer = resend.timer
               /\ Wanted \in SUBSET Lsas
<1>1. NoTimer \in Timer
  BY DEF NoTimer, Timer
<1>2. [timer |-> "running", live |-> TRUE, list |-> {}] \in Timer
  BY DEF Timer
<1>3. [timer |-> "stopped", live |-> FALSE, list |-> {}] \in Timer
  BY DEF Timer
<1>4. Wanted \in SUBSET Lsas
  BY DEF Wanted
<1>5. ASSUME TypeOK
      PROVE  Detached \in Timer /\ Detached.list \in SUBSET Lsas /\ Detached.timer = resend.timer
  <2>1. resend \in Timer
    BY <1>5 DEF TypeOK, Timer
  <2>2. CASE resend.live
    <3>1. Detached = [resend EXCEPT !.live = FALSE, !.list = Wanted]
      BY <2>2 DEF Detached
    <3> QED BY <1>4, <2>1, <3>1 DEF Timer
  <2>3. CASE ~resend.live
    BY <2>1, <2>3 DEF Detached, Timer
  <2> QED BY <2>2, <2>3
<1> QED BY <1>1, <1>2, <1>3, <1>4, <1>5

\* ExStart is a state in which nothing has been asked for.
LEMMA ExStartType ==
  ASSUME TypeOK, ToExStart
  PROVE  /\ state' = "ExStart" /\ greeting' = TRUE /\ ddSeq' \in Nat
         /\ toRouter' \in Seq(ProbePacket)
<1>1. ddSeq' \in Nat
  BY AfterType DEF ToExStart, TypeOK
<1> QED BY <1>1, DdType, SeqFacts DEF ToExStart, TypeOK
-----------------------------------------------------------------------------
\* What is reset.
LEMMA ResetType ==
  ASSUME TypeOK, NEW s, ResetTo(s)
  PROVE  /\ state' = s /\ greeting' = FALSE /\ resend' = NoTimer
         /\ lsReq' \in [Lsas -> Nat] /\ lsdb' \in [Lsas -> Nat] /\ resend' \in Timer
         /\ late' \in SUBSET Lsas /\ overtaken' \in SUBSET Lsas
BY TimerType DEF ResetTo, Nothing

LEMMA HelloKeeps ==
  ASSUME Inv, HelloTwoWay \/ HelloOneWay \/ Dead
  PROVE  Inv'
<1>1. TypeOK /\ Threads
  BY DEF Inv
<1>2. CASE HelloTwoWay
  <2>1. ToExStart /\ UNCHANGED <<probeMaster, lsReq, resend, orphans, lsdb, threadVars, late,
                                 overtaken, routerVars, toProbe, updates, boundVars>>
    BY <1>2 DEF HelloTwoWay
  <2>2. /\ state' = "ExStart" /\ greeting' = TRUE /\ ddSeq' \in Nat
        /\ toRouter' \in Seq(ProbePacket)
    BY <1>1, <2>1, ExStartType
  <2> QED BY <1>1, <2>1, <2>2
          DEF Inv, TypeOK, Busy, Threads, States, threadVars, routerVars, boundVars
<1>3. CASE HelloOneWay
  <2>1. /\ UNCHANGED <<probeMaster, ddSeq, orphans, threadVars, routerVars, toProbe,
                       toRouter, updates, boundVars>>
        /\ receiver = "idle" /\ state' = "Init"
    BY <1>3 DEF HelloOneWay, ResetTo
  <2>2. \/ state = "Down" /\ UNCHANGED <<lsReq, resend, lsdb, greeting, late, overtaken>>
        \/ ResetTo("Init")
    BY <1>3 DEF HelloOneWay
  <2>3. /\ lsReq' \in [Lsas -> Nat] /\ lsdb' \in [Lsas -> Nat] /\ resend' \in Timer
        /\ greeting' \in BOOLEAN /\ resend'.timer = "none"
        /\ late' \in SUBSET Lsas /\ overtaken' \in SUBSET Lsas
    <3>1. CASE state = "Down" /\ UNCHANGED <<lsReq, resend, lsdb, greeting, late, overtaken>>
      BY <1>1, <3>1 DEF TypeOK, Timer, Threads
    <3>2. CASE ResetTo("Init")
      <4>1. greeting' = FALSE /\ resend' = NoTimer
        BY <1>1, <3>2, ResetType
      <4>2. greeting' \in BOOLEAN /\ resend'.timer = "none"
        BY <4>1 DEF NoTimer
      <4> QED BY <1>1, <3>2, <4>2, ResetType
    <3> QED BY <2>2, <3>1, <3>2
  <2> QED BY <1>1, <2>1, <2>3
          DEF Inv, TypeOK, Busy, Timer, Threads, States, threadVars, routerVars, boundVars
<1>4. CASE Dead
  <2>1. /\ state' = "Down" /\ greeting' = FALSE /\ resend' = NoTimer
        /\ lsReq' \in [Lsas -> Nat] /\ lsdb' \in [Lsas -> Nat] /\ resend' \in Timer
        /\ late' \in SUBSET Lsas /\ overtaken' \in SUBSET Lsas
    BY <1>1, <1>4, ResetType DEF Dead
  <2>2. /\ receiver' = "idle" /\ finishing' = <<>> /\ deadWorkers' = Busy
        /\ restarts' = restarts + 1
        /\ UNCHANGED <<probeMaster, ddSeq, orphans, routerVars, toProbe,
                       toRouter, updates, faults>>
    BY <1>4 DEF Dead
  <2>3. Busy \in Nat /\ Busy <= 2
    BY <1>1 DEF TypeOK, Busy
  <2>4. deadWorkers' \in Nat /\ Busy' <= 2 /\ finishing' \in Seq(Update)
    BY <2>2, <2>3 DEF Busy
  <2>5. Threads'
    BY <2>1, <2>2 DEF Threads, NoTimer
  <2>6. restarts' \in Nat
    BY <1>1, <2>2 DEF TypeOK
  <2> QED BY <1>1, <2>1, <2>2, <2>4, <2>5, <2>6 DEF Inv, TypeOK, Timer, States, routerVars
<1> QED BY <1>2, <1>3, <1>4

LEMMA MismatchKeeps ==
  ASSUME TypeOK, Mismatch
  PROVE  /\ state' = "ExStart" /\ greeting' = TRUE /\ ddSeq' \in Nat
         /\ toRouter' \in Seq(ProbePacket)
         /\ lsReq' \in [Lsas -> Nat] /\ resend' \in Timer
         /\ orphans' \in SUBSET SUBSET Lsas
         /\ overtaken' \in SUBSET Lsas
BY ExStartType, TimerType DEF Mismatch, Nothing, TypeOK
-----------------------------------------------------------------------------
LEMMA AnswerType ==
  ASSUME TypeOK, toProbe # <<>>, ddSeq' \in Nat
  PROVE  Answer \in ProbePacket
<1>1. Got.seq \in Nat
  BY Fields DEF Got, Description
<1> QED BY <1>1, DdType DEF Answer

LEMMA NewerType ==
  ASSUME TypeOK, NEW hdrs
  PROVE  WithNewer(lsReq, hdrs) \in [Lsas -> Nat]
BY DEF WithNewer, TypeOK

\* A description moves the probe on, or back to ExStart.
LEMMA DdKeeps ==
  ASSUME Inv, DdIgnored \/ DdInInit \/ DdNegotiates \/ DdExchange \/ DdMismatch
  PROVE  Inv'
<1>1. /\ TypeOK /\ Threads /\ toProbe # <<>> /\ receiver = "idle"
      /\ toProbe' \in Seq(Description)
      /\ UNCHANGED <<probeMaster, lsdb, finishing, deadWorkers, late, routerVars, updates,
                     boundVars>>
  BY Fields DEF Inv, DdIgnored, DdInInit, DdNegotiates, DdExchange, DdMismatch,
                Reads, probeVars, threadVars
<1> DEFINE Rest == /\ state' \in States /\ ddSeq' \in Nat
                   /\ lsReq' \in [Lsas -> Nat] /\ resend' \in Timer
                   /\ orphans' \in SUBSET SUBSET Lsas
                   /\ greeting' \in BOOLEAN
                   /\ receiver' \in {"idle", "loads", "starts"}
                   /\ overtaken' \in SUBSET Lsas
                   /\ toRouter' \in Seq(ProbePacket)
                   /\ Threads'
<1>2. ASSUME DdIgnored PROVE Rest
  BY <1>1, <1>2 DEF DdIgnored, TypeOK, Timer, Threads, Wanted, probeVars, threadVars
<1>3. ASSUME DdInInit PROVE Rest
  <2>1. /\ state' = "ExStart" /\ greeting' = TRUE /\ ddSeq' \in Nat
        /\ toRouter' \in Seq(ProbePacket)
    BY <1>1, <1>3, ExStartType DEF DdInInit
  <2> QED BY <1>1, <1>3, <2>1 DEF DdInInit, TypeOK, Timer, Threads, States, threadVars
<1>4. ASSUME DdNegotiates PROVE Rest
  <2>1. ddSeq' \in Nat
    BY <1>1, <1>4, AfterType DEF DdNegotiates, TypeOK
  <2>2. toRouter' \in Seq(ProbePacket)
    BY <1>1, <1>4, <2>1, AnswerType, SeqFacts DEF DdNegotiates, TypeOK
  <2> QED BY <1>1, <1>4, <2>1, <2>2 DEF DdNegotiates, TypeOK, Timer, Threads, States
<1>5. ASSUME DdExchange PROVE Rest
  <2>1. ddSeq' \in Nat
    BY <1>1, <1>5, AfterType DEF DdExchange, TypeOK
  <2>2. lsReq' \in [Lsas -> Nat]
    BY <1>1, <1>5, NewerType DEF DdExchange
  <2>3. toRouter' \in Seq(ProbePacket)
    BY <1>1, <1>5, <2>1, AnswerType, SeqFacts DEF DdExchange, TypeOK
  <2>4. overtaken' \in SUBSET Lsas
    BY <1>1, <1>5 DEF DdExchange, TypeOK
  <2> QED BY <1>1, <1>5, <2>1, <2>2, <2>3, <2>4 DEF DdExchange, TypeOK, Timer, Threads, States
<1>6. ASSUME DdMismatch PROVE Rest
  BY <1>1, <1>6, MismatchKeeps DEF DdMismatch, TypeOK, Threads, States, threadVars
<1>7. Rest
  BY <1>2, <1>3, <1>4, <1>5, <1>6
<1> QED BY <1>1, <1>7 DEF Inv, TypeOK, Busy, Timer, routerVars, boundVars

\* The rest of _loading: Full or Loading, and the timer of the requests.
LEMMA LoadingKeeps ==
  ASSUME Inv, Loads \/ Starts
  PROVE  Inv'
<1>1. /\ TypeOK /\ Threads
      /\ UNCHANGED <<probeMaster, ddSeq, lsReq, lsdb, greeting, finishing, deadWorkers, late,
                     overtaken, routerVars, toProbe, updates, boundVars>>
  BY DEF Inv, Loads, Starts
<1>2. CASE Loads
  <2>1. toRouter' \in Seq(ProbePacket)
    <3>1. [type |-> "lsr", lsas |-> Wanted] \in ProbePacket
      BY <1>1, DdType, TimerType
    <3>2. toRouter \in Seq(ProbePacket)
      BY <1>1 DEF TypeOK
    <3>3. Append(toRouter, [type |-> "lsr", lsas |-> Wanted]) \in Seq(ProbePacket)
      BY <3>1, <3>2, SeqFacts
    <3> QED BY <1>2, <3>2, <3>3 DEF Loads
  <2> QED BY <1>1, <1>2, <2>1 DEF Loads, Inv, TypeOK, Busy, Threads, States, routerVars, boundVars
<1>3. CASE Starts
  <2>1. /\ receiver = "starts" /\ receiver' = "idle"
        /\ resend' = [timer |-> "running", live |-> TRUE, list |-> {}]
        /\ UNCHANGED <<state, toRouter>>
    BY <1>3 DEF Starts
  <2>2. orphans' \in SUBSET SUBSET Lsas
    BY <1>1, <1>3, TimerType DEF Starts, Lists, TypeOK
  <2>3. resend' \in Timer
    BY <2>1, TimerType
  <2>4. Threads'
    BY <1>1, <2>1 DEF Threads
  <2> QED BY <1>1, <2>1, <2>2, <2>3, <2>4 DEF Inv, TypeOK, Timer, Busy, routerVars, boundVars
<1> QED BY <1>2, <1>3
-----------------------------------------------------------------------------
LEMMA InstallType ==
  ASSUME TypeOK, updates # <<>>, Install
  PROVE  lsdb' \in [Lsas -> Nat] /\ late' \in SUBSET Lsas
<1>1. Lsu.lsa \in Lsas /\ Lsu.inst \in Nat
  BY Fields DEF Lsu, Update, Instances
<1>2. late' = late \cup {Lsu.lsa} \/ late' = late \ {Lsu.lsa}
  BY DEF Install
<1> QED BY <1>1, <1>2 DEF Install, TypeOK

LEMMA WithoutType ==
  ASSUME TypeOK, NEW l \in Lsas
  PROVE  /\ Without(lsReq, l) \in [Lsas -> Nat]
         /\ \A m \in Lsas : Without(lsReq, l)[m] > 0 => lsReq[m] > 0
<1>1. lsReq \in [Lsas -> Nat]
  BY DEF TypeOK
<1>2. (IF lsReq[l] > 0 THEN lsReq[l] - 1 ELSE 0) \in Nat
  BY <1>1
<1> QED BY <1>1, <1>2 DEF Without

\* An update that a worker takes.
LEMMA LsuKeeps ==
  ASSUME Inv, LsuDropped \/ LsuInstalled \/ LsuOfNobody \/ LsuAcknowledged \/ LsuMismatch
  PROVE  Inv'
<1>1. /\ TypeOK /\ Threads /\ updates # <<>> /\ Lsu \in Update
      /\ updates' \in Seq(Update)
      /\ Busy < 2 /\ Busy = deadWorkers + Len(finishing)
      /\ finishing \in Seq(Update) /\ Len(finishing) \in Nat /\ deadWorkers \in Nat
      /\ UNCHANGED <<probeMaster, receiver, routerState, heard, seq, part, own, toProbe,
                     boundVars>>
  <2>1. Handles /\ TypeOK /\ Threads
    BY DEF Inv, LsuDropped, LsuInstalled, LsuOfNobody, LsuAcknowledged, LsuMismatch
  <2>2. UNCHANGED <<probeMaster, receiver, routerState, heard, seq, part, own, toProbe,
                    boundVars>>
    BY DEF LsuDropped, LsuInstalled, LsuOfNobody, LsuAcknowledged, LsuMismatch,
           routerVars, probeVars, threadVars
  <2>3. updates # <<>> /\ Busy < 2 /\ updates' = Tail(updates)
    BY <2>1 DEF Handles
  <2>4. finishing \in Seq(Update) /\ deadWorkers \in Nat
    BY <2>1 DEF TypeOK
  <2> QED BY <2>1, <2>2, <2>3, <2>4, Fields DEF Lsu, Busy
<1>2. Lsu.lsa \in Lsas /\ Lsu.inst \in Instances
  BY <1>1 DEF Update
<1> DEFINE Rest == /\ state' \in States /\ ddSeq' \in Nat
                   /\ lsReq' \in [Lsas -> Nat] /\ resend' \in Timer
                   /\ orphans' \in SUBSET SUBSET Lsas
                   /\ lsdb' \in [Lsas -> Nat]
                   /\ greeting' \in BOOLEAN
                   /\ finishing' \in Seq(Update)
                   /\ deadWorkers' \in Nat /\ Busy' <= 2
                   /\ late' \in SUBSET Lsas /\ overtaken' \in SUBSET Lsas
                   /\ flooding' \in SUBSET Lsas
                   /\ toRouter' \in Seq(ProbePacket)
                   /\ Threads'
<1>3. ASSUME UNCHANGED <<probeVars, toRouter>>, flooding' \in SUBSET Lsas PROVE Rest
  BY <1>1, <1>3 DEF TypeOK, Busy, Timer, Threads, Wanted, probeVars, threadVars
<1>4. ASSUME LsuDropped PROVE Rest
  BY <1>1, <1>3, <1>4 DEF LsuDropped, TypeOK, routerVars
<1>5. ASSUME LsuAcknowledged PROVE Rest
  BY <1>1, <1>3, <1>5 DEF LsuAcknowledged, Acknowledge, TypeOK
<1>6. ASSUME LsuInstalled PROVE Rest
  <2>1. /\ lsdb' \in [Lsas -> Nat] /\ late' \in SUBSET Lsas
        /\ lsReq' = Without(lsReq, Lsu.lsa) /\ lsReq' \in [Lsas -> Nat]
        /\ overtaken' \in SUBSET Lsas
        /\ UNCHANGED <<state, ddSeq, resend, orphans, greeting, deadWorkers, toRouter>>
    BY <1>1, <1>2, <1>6, InstallType, WithoutType DEF LsuInstalled, TypeOK
  <2>2. finishing' \in Seq(Update) /\ Len(finishing') <= Len(finishing) + 1
    <3>1. finishing' = finishing \/ finishing' = Append(finishing, Lsu)
      BY <1>6 DEF LsuInstalled
    <3>2. /\ Append(finishing, Lsu) \in Seq(Update)
          /\ Len(Append(finishing, Lsu)) = Len(finishing) + 1
      BY <1>1
    <3>3. Len(finishing) <= Len(finishing) + 1 /\ Len(finishing) + 1 <= Len(finishing) + 1
      BY <1>1
    <3>4. CASE finishing' = finishing
      BY <1>1, <3>3, <3>4, Zenon
    <3>5. CASE finishing' = Append(finishing, Lsu)
      BY <3>2, <3>3, <3>5, Zenon
    <3> QED BY <3>1, <3>4, <3>5
  <2>3. Busy' <= 2
    <3>1. Len(finishing') \in Nat
      BY <2>2
    <3> QED BY <1>1, <2>1, <2>2, <3>1 DEF Busy
  <2>4. flooding' \in SUBSET Lsas
    BY <1>1, <1>6 DEF LsuInstalled, Acknowledge, TypeOK
  <2>5. Threads'
    <3>1. Wanted' \subseteq Wanted
      BY <1>1, <1>2, <2>1, WithoutType DEF Wanted
    <3> QED BY <1>1, <2>1, <3>1 DEF Threads
  <2> QED BY <1>1, <2>1, <2>2, <2>3, <2>4, <2>5 DEF TypeOK, Timer
<1>7. ASSUME LsuOfNobody PROVE Rest
  <2>1. Busy' = Busy + 1
    BY <1>1, <1>7 DEF LsuOfNobody, Busy
  <2> QED BY <1>1, <1>7, <2>1 DEF LsuOfNobody, TypeOK, Busy, Timer, Threads, Wanted, routerVars
<1>8. ASSUME LsuMismatch PROVE Rest
  BY <1>1, <1>8, MismatchKeeps
     DEF LsuMismatch, TypeOK, Busy, Threads, States, routerVars, threadVars
<1>9. Rest
  BY <1>4, <1>5, <1>6, <1>7, <1>8
<1> QED BY <1>1, <1>9 DEF Inv, TypeOK, Timer, boundVars

\* A worker ends the requests, or finds that there is no timer of them.
LEMMA LsuEndKeeps ==
  ASSUME Inv, NEW i \in DOMAIN finishing, LsuFinished(i) \/ LsuEndsWorker(i)
  PROVE  Inv'
<1>1. /\ TypeOK /\ Threads
      /\ finishing \in Seq(Update) /\ Len(finishing) \in Nat /\ deadWorkers \in Nat
      /\ Busy <= 2 /\ Busy = deadWorkers + Len(finishing)
  BY DEF Inv, TypeOK, Busy
<1>2. /\ finishing' = RemoveAt(finishing, i) /\ finishing' \in Seq(Update)
      /\ Len(finishing') = Len(finishing) - 1
  BY <1>1, RemovedIs DEF LsuFinished, LsuEndsWorker
<1>3. CASE LsuFinished(i)
  <2>1. /\ UNCHANGED <<probeMaster, ddSeq, lsReq, orphans, lsdb, greeting, receiver,
                       deadWorkers, late, overtaken, routerState, heard, seq, part, own,
                       toProbe, toRouter, updates, boundVars>>
        /\ resend.timer # "none"
        /\ \/ UNCHANGED <<resend, state>>
           \/ /\ resend' = [timer |-> "stopped", live |-> FALSE, list |-> {}]
              /\ state' = "Full"
    BY <1>3 DEF LsuFinished
  <2>2. Busy' <= 2
    BY <1>1, <1>2, <2>1 DEF Busy
  <2>3. flooding' \in SUBSET Lsas
    BY <1>1, <1>3 DEF LsuFinished, Acknowledge, TypeOK
  <2>4. state' \in States /\ resend' \in Timer
    BY <1>1, <2>1, TimerType DEF TypeOK, Timer, States
  <2>5. Threads'
    BY <1>1, <2>1 DEF Threads, Wanted
  <2> QED BY <1>1, <1>2, <2>1, <2>2, <2>3, <2>4, <2>5 DEF Inv, TypeOK, Timer, boundVars
<1>4. CASE LsuEndsWorker(i)
  <2>1. /\ UNCHANGED <<probeMaster, state, ddSeq, lsReq, resend, orphans, lsdb, greeting,
                       receiver, late, overtaken, routerVars, toProbe, toRouter, updates,
                       boundVars>>
        /\ deadWorkers' = deadWorkers + 1
    BY <1>4 DEF LsuEndsWorker
  <2>2. deadWorkers' \in Nat /\ Busy' <= 2
    BY <1>1, <1>2, <2>1 DEF Busy
  <2>3. Threads'
    BY <1>1, <2>1 DEF Threads, Wanted
  <2> QED BY <1>1, <1>2, <2>1, <2>2, <2>3 DEF Inv, TypeOK, routerVars, boundVars
<1> QED BY <1>3, <1>4
-----------------------------------------------------------------------------
\* The two updates that were sent first change places.
Swapped == [updates EXCEPT ![1] = updates[2], ![2] = updates[1]]

LEMMA SwappedIs ==
  ASSUME NEW S, updates \in Seq(S), Len(updates) > 1
  PROVE  /\ Swapped \in Seq(S)
         /\ \A i \in DOMAIN Swapped : \E j \in DOMAIN updates : Swapped[i] = updates[j]
<1>1. Len(updates) \in Nat /\ updates \in [1 .. Len(updates) -> S]
  OBVIOUS
<1>2. 1 \in 1 .. Len(updates) /\ 2 \in 1 .. Len(updates)
  BY <1>1
<1>3. /\ Swapped \in [1 .. Len(updates) -> S]
      /\ \A i \in 1 .. Len(updates) : \E j \in 1 .. Len(updates) : Swapped[i] = updates[j]
  BY <1>1, <1>2 DEF Swapped
<1>4. DOMAIN Swapped = 1 .. Len(updates) /\ DOMAIN updates = 1 .. Len(updates)
  BY <1>1, <1>3
<1>5. \A n \in Nat : \A f \in [1 .. n -> S] : f \in Seq(S)
  OBVIOUS
<1>6. Swapped \in Seq(S)
  BY <1>1, <1>3, <1>5
<1> QED BY <1>3, <1>4, <1>6

LEMMA OvertakesKeeps ==
  ASSUME Inv, Overtakes
  PROVE  Inv'
<1>1. TypeOK
  BY DEF Inv
<1>2. updates' = Swapped /\ Len(updates) > 1
  BY DEF Overtakes, Swapped
<1>3. updates \in Seq(Update)
  BY <1>1 DEF TypeOK
<1>4. updates' \in Seq(Update)
  BY <1>2, <1>3, SwappedIs
<1>5. UNCHANGED <<probeMaster, probeVars, routerVars, toProbe, toRouter, boundVars>>
  BY DEF Overtakes
<1>6. Threads'
  BY <1>5 DEF Inv, Threads, Wanted, probeVars, threadVars
<1> QED BY <1>1, <1>4, <1>5, <1>6
        DEF Inv, TypeOK, Busy, probeVars, threadVars, routerVars, boundVars
-----------------------------------------------------------------------------
\* A step that leaves the probe alone.
LEMMA ProbeAlone ==
  ASSUME Inv, UNCHANGED probeVars
  PROVE  Threads' /\ ProbeTypeOK'
<1>1. ProbeTypeOK /\ Threads
  BY TypesAre DEF Inv
<1> QED BY <1>1 DEF Threads, ProbeTypeOK, Busy, Wanted, probeVars, threadVars

LEMMA RouterStep ==
  ASSUME Inv, UNCHANGED <<probeMaster, probeVars>>, RouterTypeOK'
  PROVE  Inv'
<1>1. Threads' /\ ProbeTypeOK'
  BY ProbeAlone
<1>2. probeMaster' \in BOOLEAN
  BY DEF Inv, TypeOK
<1> QED BY <1>1, <1>2, TypesAre DEF Inv

LEMMA InTimeType ==
  ASSUME TypeOK, NEW quiet, InTime(quiet)
  PROVE  faults' \in Nat
BY DEF InTime, TypeOK

LEMMA TimersKeep ==
  ASSUME Inv, FirstDdAgain \/ RequestsEnd \/ \E list \in Resent : RequestAgain(list)
  PROVE  Inv'
<1>1. TypeOK /\ Threads
  BY DEF Inv
<1>2. CASE FirstDdAgain
  <2>1. toRouter' \in Seq(ProbePacket) /\ faults' \in Nat
    BY <1>1, <1>2, DdType, InTimeType, SeqFacts DEF FirstDdAgain, TypeOK
  <2>2. UNCHANGED <<probeMaster, probeVars, routerVars, toProbe, updates, restarts>>
    BY <1>2 DEF FirstDdAgain
  <2>3. RouterTypeOK'
    BY <1>1, <2>1, <2>2 DEF RouterTypeOK, TypeOK, routerVars
  <2> QED BY <2>2, <2>3, RouterStep
<1>3. ASSUME NEW list \in Resent, RequestAgain(list) PROVE Inv'
  <2>1. list \in SUBSET Lsas
    BY <1>1, TimerType DEF Resent, Lists, TypeOK
  <2>2. toRouter' \in Seq(ProbePacket)
    BY <1>1, <1>3, <2>1, DdType, SeqFacts DEF RequestAgain, TypeOK
  <2>3. UNCHANGED <<probeMaster, probeVars, routerVars, toProbe, updates, boundVars>>
    BY <1>3 DEF RequestAgain
  <2>4. RouterTypeOK'
    BY <1>1, <2>2, <2>3 DEF RouterTypeOK, TypeOK, routerVars, boundVars
  <2> QED BY <2>3, <2>4, RouterStep
<1>4. CASE RequestsEnd
  <2>1. /\ resend.timer = "running" /\ Detached.list = {}
        /\ resend' = [resend EXCEPT !.timer = "ended"]
        /\ UNCHANGED <<probeMaster, state, ddSeq, lsReq, orphans, lsdb, greeting, threadVars,
                       late, overtaken, routerVars, toProbe, toRouter, updates, boundVars>>
    BY <1>4 DEF RequestsEnd
  <2>2. resend' \in Timer /\ resend'.timer = "ended"
    BY <1>1, <2>1 DEF TypeOK, Timer
  <2>3. resend.live => Wanted = {}
    BY <1>1, <2>1 DEF Detached, TypeOK
  <2>4. Threads'
    BY <1>1, <2>1, <2>2, <2>3 DEF Threads, Wanted, threadVars
  <2> QED BY <1>1, <2>1, <2>2, <2>4
          DEF Inv, TypeOK, Busy, Timer, threadVars, routerVars, boundVars
<1> QED BY <1>2, <1>3, <1>4
-----------------------------------------------------------------------------
LEMMA RouterExStartType ==
  ASSUME TypeOK, RouterExStart
  PROVE  /\ routerState' \in States \ {"Init", "Loading"}
         /\ seq' \in Nat /\ part' \in 0 .. LastPart
         /\ flooding' \in SUBSET Lsas
         /\ toProbe' \in Seq(Description)
<1>1. seq' \in Nat
  BY AfterType DEF RouterExStart, TypeOK
<1>2. LastPart \in Nat
  BY AdjacencyAssumption DEF LastPart
<1> QED BY <1>1, <1>2, FirstType, SeqFacts DEF RouterExStart, TypeOK, States

LEMMA SendsType ==
  ASSUME TypeOK, NEW i \in 1 .. LastPart, NEW n \in Nat,
         NEW s \in States \ {"Init", "Loading"}, Sends(i, n, s)
  PROVE  /\ routerState' \in States \ {"Init", "Loading"}
         /\ seq' \in Nat /\ part' \in 0 .. LastPart
         /\ toProbe' \in Seq(Description)
<1>1. LastPart \in Nat
  BY AdjacencyAssumption DEF LastPart
<1> QED BY <1>1, PartType, SeqFacts DEF Sends, TypeOK

\* In Exchange the router has sent a packet of its description.
Sent == routerState = "Exchange" => part # 0

LEMMA HearsKeeps ==
  ASSUME Inv, Sent, RouterHears \/ RouterRestarts \/ Lost \/ RouterDdAgain
  PROVE  Inv'
<1>1. TypeOK /\ LastPart \in Nat \ {0}
  BY AdjacencyAssumption DEF Inv, LastPart
<1>2. CASE RouterHears
  BY <1>1, <1>2, RouterExStartType, RouterStep
     DEF RouterHears, RouterTypeOK, TypeOK, boundVars, States
<1>3. CASE RouterRestarts
  <2>1. /\ routerState' = "Down" /\ heard' = FALSE /\ flooding' = {}
        /\ restarts' = restarts + 1
        /\ UNCHANGED <<probeMaster, probeVars, seq, part, own, toProbe, toRouter,
                       updates, faults>>
    BY <1>3 DEF RouterRestarts
  <2>2. restarts' \in Nat
    BY <1>1, <2>1 DEF TypeOK
  <2>3. RouterTypeOK'
    BY <1>1, <2>1, <2>2 DEF RouterTypeOK, TypeOK, States
  <2> QED BY <2>1, <2>3, RouterStep
<1>4. CASE Lost
  <2>1. /\ toProbe' \in Seq(Description) /\ toRouter' \in Seq(ProbePacket)
        /\ updates' \in Seq(Update)
    <3>1. CASE toProbe # <<>> /\ toProbe' = Tail(toProbe) /\ UNCHANGED <<toRouter, updates>>
      BY <1>1, <3>1, Fields DEF TypeOK
    <3>2. CASE toRouter # <<>> /\ toRouter' = Tail(toRouter) /\ UNCHANGED <<toProbe, updates>>
      BY <1>1, <3>2, Fields DEF TypeOK
    <3>3. CASE updates # <<>> /\ updates' = Tail(updates) /\ UNCHANGED <<toProbe, toRouter>>
      BY <1>1, <3>3, Fields DEF TypeOK
    <3> QED BY <1>4, <3>1, <3>2, <3>3 DEF Lost
  <2>2. /\ faults' \in Nat
        /\ UNCHANGED <<probeMaster, probeVars, routerVars, restarts>>
    BY <1>1, <1>4 DEF Lost, TypeOK
  <2>3. RouterTypeOK'
    BY <1>1, <2>1, <2>2 DEF RouterTypeOK, TypeOK, routerVars
  <2> QED BY <2>2, <2>3, RouterStep
<1>5. CASE RouterDdAgain
  <2>1. faults' \in Nat
    BY <1>1, <1>5, InTimeType DEF RouterDdAgain
  <2>2. toProbe' \in Seq(Description)
    <3>1. CASE toProbe' = Append(toProbe, RouterFirst(seq))
      BY <1>1, <3>1, FirstType, SeqFacts DEF TypeOK
    <3>2. CASE routerState = "Exchange" /\ toProbe' = Append(toProbe, RouterPart(part, seq))
      <4>1. part \in 1 .. LastPart /\ seq \in Nat
        BY <1>1, <3>2 DEF TypeOK, Sent
      <4> QED BY <1>1, <3>2, <4>1, PartType, SeqFacts DEF TypeOK
    <3> QED BY <1>5, <3>1, <3>2 DEF RouterDdAgain
  <2>3. UNCHANGED <<probeMaster, probeVars, routerVars, toRouter, updates, restarts>>
    BY <1>5 DEF RouterDdAgain
  <2>4. RouterTypeOK'
    BY <1>1, <2>1, <2>2, <2>3 DEF RouterTypeOK, TypeOK, routerVars
  <2> QED BY <2>3, <2>4, RouterStep
<1> QED BY <1>2, <1>3, <1>4, <1>5
-----------------------------------------------------------------------------
\* A packet of the probe moves the router on, or back to ExStart.
LEMMA RouterDdKeeps ==
  ASSUME Inv, RouterDdAsMaster \/ RouterDdAsSlave
  PROVE  Inv' /\ (Sent => Sent')
<1>1. /\ TypeOK /\ LastPart \in Nat \ {0} /\ part \in 0 .. LastPart
      /\ toRouter # <<>> /\ Head(toRouter) \in ProbePacket
      /\ Head(toRouter).type = "dd"
      /\ toRouter' \in Seq(ProbePacket)
      /\ UNCHANGED <<probeMaster, probeVars, heard, own, boundVars, updates>>
  <2>1. TypeOK /\ LastPart \in Nat \ {0} /\ part \in 0 .. LastPart
    BY AdjacencyAssumption DEF Inv, TypeOK, LastPart
  <2>2. Receives("dd") /\ UNCHANGED updates /\ UNCHANGED probeMaster
    <3>1. CASE RouterDdAsMaster
      BY <3>1 DEF RouterDdAsMaster, Receives
    <3>2. CASE RouterDdAsSlave
      BY <3>2 DEF RouterDdAsSlave, Receives
    <3> QED BY <3>1, <3>2
  <2> QED BY <2>1, <2>2, Fields DEF Receives
<1> DEFINE dd == Head(toRouter)
<1>2. dd.seq \in Nat
  BY <1>1 DEF ProbePacket
<1>3. After(seq) \in Nat /\ seq \in Nat
  BY <1>1, AfterType DEF TypeOK
<1> DEFINE Rest == /\ routerState' \in States \ {"Init", "Loading"}
                   /\ seq' \in Nat /\ part' \in 0 .. LastPart
                   /\ flooding' \in SUBSET Lsas
                   /\ toProbe' \in Seq(Description)
                   /\ Sent => Sent'
<1>4. ASSUME RouterExStart PROVE Rest
  BY <1>1, <1>4, RouterExStartType DEF RouterExStart, Sent
<1>5. ASSUME RouterKeeps, UNCHANGED flooding PROVE Rest
  BY <1>1, <1>5 DEF RouterKeeps, TypeOK, Sent
<1>6. ASSUME NEW i \in 1 .. LastPart, NEW n \in Nat,
             NEW s \in States \ {"Init", "Loading"}, Sends(i, n, s), UNCHANGED flooding
      PROVE  Rest
  <2>1. part' # 0
    BY <1>1, <1>6 DEF Sends
  <2> QED BY <1>1, <1>6, <2>1, SendsType DEF TypeOK, Sent
<1> HIDE DEF Rest
<1>7. ASSUME RouterDdAsMaster PROVE Rest
  <2>1. CASE RouterKeeps /\ UNCHANGED flooding
    BY <1>5, <2>1
  <2>2. CASE RouterExStart
    BY <1>4, <2>2
  <2>3. CASE part < LastPart /\ Sends(part + 1, After(seq), "Exchange") /\ UNCHANGED flooding
    <3>1. part + 1 \in 1 .. LastPart /\ "Exchange" \in States \ {"Init", "Loading"}
      BY <1>1, <2>3 DEF States
    <3> QED BY <1>3, <1>6, <2>3, <3>1
  <2>4. CASE routerState' = "Full" /\ UNCHANGED <<seq, part, toProbe, flooding>>
    BY <1>1, <2>4 DEF Rest, TypeOK, Sent, States
  <2> QED BY <1>7, <2>1, <2>2, <2>3, <2>4 DEF RouterDdAsMaster
<1>8. ASSUME RouterDdAsSlave PROVE Rest
  <2>1. CASE RouterKeeps /\ UNCHANGED flooding
    BY <1>5, <2>1
  <2>2. CASE RouterExStart
    BY <1>4, <2>2
  <2>3. 1 \in 1 .. LastPart /\ {"Exchange", "Full"} \subseteq States \ {"Init", "Loading"}
    BY <1>1 DEF States
  <2>4. CASE Sends(1, dd.seq, "Exchange") /\ UNCHANGED flooding
    BY <1>2, <1>6, <2>3, <2>4
  <2>5. CASE Adjoins(routerState) /\ Sends(1, seq, routerState) /\ UNCHANGED flooding
    BY <1>3, <1>6, <2>3, <2>5 DEF Adjoins
  <2>6. CASE /\ part < LastPart /\ UNCHANGED flooding
             /\ Sends(part + 1, dd.seq, IF part + 1 < LastPart THEN "Exchange" ELSE "Full")
    <3>1. part + 1 \in 1 .. LastPart
      BY <1>1, <2>6
    <3> DEFINE s == IF part + 1 < LastPart THEN "Exchange" ELSE "Full"
    <3>2. s \in States \ {"Init", "Loading"}
      BY <2>3
    <3>3. Sends(part + 1, dd.seq, s)
      BY <2>6
    <3> HIDE DEF s
    <3> QED BY <1>2, <1>6, <2>6, <3>1, <3>2, <3>3
  <2>7. CASE /\ routerState' = "Full" /\ seq' = dd.seq /\ UNCHANGED <<part, flooding>>
             /\ toProbe' = Append(toProbe, RouterEmpty(dd.seq))
    <3>1. toProbe' \in Seq(Description)
      BY <1>1, <1>2, <2>7, FirstType, SeqFacts DEF TypeOK
    <3> QED BY <1>1, <1>2, <2>7, <3>1 DEF Rest, TypeOK, Sent, States
  <2> QED BY <1>8, <2>1, <2>2, <2>4, <2>5, <2>6, <2>7 DEF RouterDdAsSlave
<1>9. Rest
  BY <1>7, <1>8
<1>10. RouterTypeOK'
  BY <1>1, <1>9 DEF Rest, RouterTypeOK, TypeOK, boundVars
<1> QED BY <1>1, <1>9, <1>10, RouterStep DEF Rest
-----------------------------------------------------------------------------
\* Updates that carry what the router has.
Latest == { u \in Update : u.inst = own[u.lsa] }

LEMMA Answered ==
  ASSUME TypeOK, RouterAnswersLsr
  PROVE  \E t \in Seq(Latest) : updates' = updates \o t
<1> DEFINE lsr == Head(toRouter)
           found == { [lsa |-> l, inst |-> own[l]] : l \in lsr.lsas }
<1>1. lsr \in ProbePacket /\ lsr.type = "lsr"
  BY Fields DEF RouterAnswersLsr, Receives
<1>2. lsr.lsas \in SUBSET Lsas
  BY <1>1 DEF ProbePacket
<1>3. found \in SUBSET Latest
  BY <1>2 DEF TypeOK, Latest, Update
<1>4. IsFiniteSet(found)
  <2>1. IsFiniteSet(lsr.lsas)
    BY <1>2, AdjacencyAssumption, FS_Subset
  <2> DEFINE f == [l \in lsr.lsas |-> [lsa |-> l, inst |-> own[l]]]
  <2>2. f \in Surjection(lsr.lsas, found)
    BY DEF Surjection
  <2> QED BY <2>1, <2>2, FS_Surjection
<1>5. updates' = updates \/ updates' = updates \o SetToSeq(found)
  BY DEF RouterAnswersLsr
<1> HIDE DEF found
<1>6. SetToSeq(found) \in Seq(Latest)
  BY <1>3, <1>4, SetToSeqType
<1>7. <<>> \in Seq(Latest) /\ updates = updates \o <<>>
  BY DEF TypeOK
<1> QED BY <1>5, <1>6, <1>7

LEMMA AnswersKeeps ==
  ASSUME Inv, RouterAnswersLsr
  PROVE  Inv'
<1>1. /\ TypeOK /\ toRouter' \in Seq(ProbePacket)
      /\ UNCHANGED <<probeMaster, probeVars, routerVars, toProbe, boundVars>>
  BY Fields DEF Inv, RouterAnswersLsr, Receives, routerVars
<1>2. PICK t \in Seq(Latest) : updates' = updates \o t
  BY <1>1, Answered
<1>3. Latest \subseteq Update /\ updates \in Seq(Update)
  BY <1>1 DEF Latest, TypeOK
<1>4. t \in Seq(Update)
  BY <1>3
<1>5. updates' \in Seq(Update)
  BY <1>2, <1>3, <1>4, SeqFacts
<1>6. RouterTypeOK'
  BY <1>1, <1>5 DEF RouterTypeOK, TypeOK, routerVars, boundVars
<1> QED BY <1>1, <1>6, RouterStep

LEMMA OriginatesKeeps ==
  ASSUME Inv, NEW l \in Lsas, Originates(l) \/ Floods(l)
  PROVE  Inv'
<1>1. TypeOK /\ MaxInstances \in Nat
  BY AdjacencyAssumption DEF Inv
<1>2. CASE Originates(l)
  <2>1. own' \in [Lsas -> Instances] /\ flooding' \in SUBSET Lsas
    BY <1>1, <1>2 DEF Originates, TypeOK, Instances
  <2>2. UNCHANGED <<probeMaster, probeVars, routerState, heard, seq, part, toProbe,
                    toRouter, updates, boundVars>>
    BY <1>2 DEF Originates
  <2>3. RouterTypeOK'
    BY <1>1, <2>1, <2>2 DEF RouterTypeOK, TypeOK, boundVars
  <2> QED BY <2>2, <2>3, RouterStep
<1>3. CASE Floods(l)
  <2>1. [lsa |-> l, inst |-> own[l]] \in Update
    BY <1>1 DEF TypeOK, Update
  <2>2. updates' \in Seq(Update)
    BY <1>1, <1>3, <2>1, SeqFacts DEF Floods, TypeOK
  <2>3. UNCHANGED <<probeMaster, probeVars, routerVars, toProbe, toRouter, boundVars>>
    BY <1>3 DEF Floods
  <2>4. RouterTypeOK'
    BY <1>1, <2>2, <2>3 DEF RouterTypeOK, TypeOK, routerVars, boundVars
  <2> QED BY <2>3, <2>4, RouterStep
<1> QED BY <1>2, <1>3
-----------------------------------------------------------------------------
\* What a worker does.
Worker(i) == LsuFinished(i) \/ LsuEndsWorker(i)

LEMMA ProbeLeavesRouter ==
  ASSUME \/ Probe \/ Dead \/ FirstDdAgain \/ RequestsEnd
         \/ \E list \in Resent : RequestAgain(list)
  PROVE  UNCHANGED <<probeMaster, routerState, heard, seq, part, own>>
<1>1. CASE HelloTwoWay \/ HelloOneWay \/ Dead \/ FirstDdAgain \/ RequestsEnd \/ Overtakes
  BY <1>1 DEF HelloTwoWay, HelloOneWay, Dead, FirstDdAgain, RequestsEnd, Overtakes, routerVars
<1>2. CASE \E list \in Resent : RequestAgain(list)
  BY <1>2 DEF RequestAgain, routerVars
<1>3. CASE CheckDd
  BY <1>3 DEF CheckDd, DdIgnored, DdInInit, DdNegotiates, DdExchange, DdMismatch, Loads, Starts,
              routerVars
<1>4. CASE CheckLsu
  BY <1>4 DEF CheckLsu, LsuDropped, LsuInstalled, LsuFinished, LsuEndsWorker, LsuOfNobody,
              LsuAcknowledged, LsuMismatch, routerVars
<1> QED BY <1>1, <1>2, <1>3, <1>4 DEF Probe

LEMMA InvInit == Init => Inv /\ Sent
<1> SUFFICES ASSUME Init PROVE Inv /\ Sent
  OBVIOUS
<1>1. ProbeTypeOK
  <2>1. lsReq \in [Lsas -> Nat] /\ lsdb \in [Lsas -> Nat] /\ resend \in Timer
    BY TimerType DEF Init, Nothing
  <2>2. finishing \in Seq(Update) /\ deadWorkers \in Nat /\ Busy <= 2
    BY DEF Init, Busy
  <2> QED BY <2>1, <2>2 DEF Init, ProbeTypeOK, States
<1>2. RouterTypeOK
  <2>1. own \in [Lsas -> Instances]
    BY AdjacencyAssumption DEF Init, Instances
  <2>2. LastPart \in Nat
    BY AdjacencyAssumption DEF LastPart
  <2>3. toProbe \in Seq(Description) /\ toRouter \in Seq(ProbePacket) /\ updates \in Seq(Update)
    BY DEF Init
  <2>4. part \in 0 .. LastPart /\ flooding \in SUBSET Lsas
    BY <2>2 DEF Init
  <2> QED BY <2>1, <2>3, <2>4 DEF Init, RouterTypeOK, States
<1>3. probeMaster \in BOOLEAN
  BY DEF Init
<1>4. TypeOK
  BY <1>1, <1>2, <1>3, TypesAre
<1> QED BY <1>4 DEF Init, NoTimer, Inv, Threads, Sent

LEMMA InvNext == Inv /\ Sent /\ [Next]_vars => Inv' /\ Sent'
<1> SUFFICES ASSUME Inv, Sent, [Next]_vars PROVE Inv' /\ Sent'
  OBVIOUS
<1>1. CASE Probe \/ Dead
  <2>1. Inv'
    BY <1>1, HelloKeeps, DdKeeps, LoadingKeeps, LsuKeeps, LsuEndKeeps, OvertakesKeeps
       DEF Probe, CheckDd, CheckLsu
  <2> QED BY <1>1, <2>1, ProbeLeavesRouter DEF Sent
<1>2. CASE FirstDdAgain \/ RequestsEnd \/ \E list \in Resent : RequestAgain(list)
  BY <1>2, TimersKeep, ProbeLeavesRouter DEF Sent
<1>3. CASE RouterHears \/ RouterRestarts \/ RouterDdAgain \/ Lost
  <2>1. Inv'
    BY <1>3, HearsKeeps
  <2>2. routerState' # "Exchange" \/ UNCHANGED <<routerState, part>>
    BY <1>3 DEF RouterHears, RouterExStart, RouterRestarts, RouterDdAgain, Lost, routerVars
  <2> QED BY <2>1, <2>2 DEF Sent
<1>4. CASE RouterDdAsMaster \/ RouterDdAsSlave
  BY <1>4, RouterDdKeeps
<1>5. CASE RouterAnswersLsr
  BY <1>5, AnswersKeeps DEF RouterAnswersLsr, Sent
<1>6. CASE \E l \in Lsas : Originates(l) \/ Floods(l)
  BY <1>6, OriginatesKeeps DEF Originates, Floods, Sent, routerVars
<1>7. CASE UNCHANGED vars
  <2>1. UNCHANGED <<probeMaster, probeVars>>
    BY <1>7 DEF vars
  <2>2. RouterTypeOK
    BY TypesAre DEF Inv
  <2>3. RouterTypeOK'
    BY <1>7, <2>2 DEF RouterTypeOK, vars, routerVars, boundVars
  <2>4. Inv'
    BY <2>1, <2>3, RouterStep
  <2>5. UNCHANGED <<routerState, part>>
    BY <1>7 DEF vars, routerVars
  <2> QED BY <2>4, <2>5 DEF Sent
<1> QED BY <1>1, <1>2, <1>3, <1>4, <1>5, <1>6, <1>7 DEF Next, Router, RouterReads
-----------------------------------------------------------------------------
(***************************************************************************)
(* The state of the probe, of the router and of what is under way is well  *)
(* typed, for any database and any number of losses and restarts.          *)
(***************************************************************************)
THEOREM TypeCorrect == Spec => []TypeOK
<1>1. Spec => [](Inv /\ Sent)
  BY InvInit, InvNext, PTL DEF Spec
<1>2. Inv => TypeOK
  BY DEF Inv
<1> QED BY <1>1, <1>2, PTL

(***************************************************************************)
(* When the receiver is not inside _loading, what is wanted in Loading is  *)
(* asked for again by a timer that runs and has the list of now            *)
(* (neighborStateMachine.py, _loading; flood.py, the removal of what was   *)
(* installed and the stop of the timer), in whatever order the receiver    *)
(* and the workers take their steps.                                       *)
(***************************************************************************)
THEOREM LoadingAlwaysAsks == Spec => []LoadingIsAsking
<1>1. Spec => [](Inv /\ Sent)
  BY InvInit, InvNext, PTL DEF Spec
<1>2. Inv => LoadingIsAsking
  BY ThreadsAsk DEF Inv
<1> QED BY <1>1, <1>2, PTL
-----------------------------------------------------------------------------
(***************************************************************************)
(* As slave the probe has read a packet of the description if the router   *)
(* has read its answer, or the answer is under way (Evidence); then it has *)
(* the LSAs that the packet names, or wants them (Known), and no packet    *)
(* from before it is under way.  Packets and answers are told apart by the *)
(* sequence number, so this is as long as the number has not come round.   *)
(***************************************************************************)

\* The number of the first packet of the exchange.
Base == seq - part

Holds(s, x) == \E i \in DOMAIN s : s[i] = x
Replied(n) == Holds(toRouter, Reply(n))

Evidence(k) == part > k \/ (routerState = "Full" /\ part = k) \/ Replied(Base + k)

Here(l) == lsdb[l] > 0 \/ lsReq[l] > 0
Known(k) == \A l \in Parts[k] : Here(l)

\* Descriptions are read: not so when a worker made the state Full while the
\* exchange begins again.
Reading == Exchanging /\ ~greeting

Stage ==
  /\ part <= seq
  /\ routerState = "ExStart" => part = 0
  /\ routerState = "Full" => part = LastPart

Describes(m) ==
  /\ m.seq <= seq
  /\ m.init => m.seq <= Base
  /\ \A k \in 1 .. LastPart :
       m.seq = Base + k => \A l \in Parts[k] : \E h \in m.lsas : h.lsa = l

InOrder == \A i, j \in DOMAIN toProbe : i <= j => toProbe[i].seq <= toProbe[j].seq
Packets == \A i \in DOMAIN toProbe : Describes(toProbe[i])
Replies == \A n \in Nat : Replied(n) => n <= seq

ReadInOrder ==
  \A k \in 1 .. LastPart : Evidence(k) =>
    /\ \A i \in DOMAIN toProbe : toProbe[i].seq >= Base + k
    /\ Reading => Known(k)

Exchange == Stage /\ InOrder /\ Packets /\ Replies /\ ReadInOrder

\* When the requests end, what is still wanted was put on the list meanwhile.
Emptied == state = "Full" \/ finishing # <<>> => Wanted \subseteq overtaken

SlaveInv == ~probeMaster /\ Exchange

\* The sequence number of the router has a successor.
NotRound == seq + 1 < SeqLimit
-----------------------------------------------------------------------------
LEMMA AppendedIs ==
  ASSUME NEW S, NEW s \in Seq(S), NEW e \in S
  PROVE  /\ DOMAIN Append(s, e) = DOMAIN s \cup {Len(s) + 1}
         /\ Append(s, e)[Len(s) + 1] = e
         /\ \A i \in DOMAIN s : Append(s, e)[i] = s[i]
         /\ \A i \in DOMAIN s : i \in Nat /\ i < Len(s) + 1
         /\ Len(s) + 1 \in Nat
  OBVIOUS

LEMMA TakenIs ==
  ASSUME NEW S, NEW s \in Seq(S), s # <<>>
  PROVE  /\ \A i \in DOMAIN Tail(s) : i \in Nat /\ i + 1 \in DOMAIN s /\ Tail(s)[i] = s[i + 1]
         /\ \A i \in DOMAIN s : i \in Nat /\ 1 <= i
         /\ 1 \in DOMAIN s /\ Head(s) = s[1]
  OBVIOUS

LEMMA HoldsAppended ==
  ASSUME NEW S, NEW s \in Seq(S), NEW e \in S, NEW x, Holds(Append(s, e), x)
  PROVE  Holds(s, x) \/ e = x
BY AppendedIs DEF Holds

LEMMA HoldsTaken ==
  ASSUME NEW S, NEW s \in Seq(S), s # <<>>, NEW x, Holds(Tail(s), x)
  PROVE  Holds(s, x)
<1>1. PICK i \in DOMAIN Tail(s) : Tail(s)[i] = x
  BY DEF Holds
<1>2. i + 1 \in DOMAIN s /\ s[i + 1] = x
  BY <1>1, TakenIs
<1> QED BY <1>2 DEF Holds

LEMMA HoldsJoined ==
  ASSUME NEW S, NEW s \in Seq(S), NEW t \in Seq(S), NEW x, Holds(s \o t, x)
  PROVE  Holds(s, x) \/ Holds(t, x)
<1>1. /\ DOMAIN (s \o t) = 1 .. Len(s) + Len(t)
      /\ DOMAIN s = 1 .. Len(s) /\ DOMAIN t = 1 .. Len(t)
      /\ Len(s) \in Nat /\ Len(t) \in Nat
      /\ \A i \in 1 .. Len(s) + Len(t) :
           (s \o t)[i] = IF i <= Len(s) THEN s[i] ELSE t[i - Len(s)]
  OBVIOUS
<1>2. PICK i \in 1 .. Len(s) + Len(t) : (s \o t)[i] = x
  BY <1>1 DEF Holds
<1>3. CASE i <= Len(s)
  BY <1>1, <1>2, <1>3 DEF Holds
<1>4. CASE ~(i <= Len(s))
  <2>1. i - Len(s) \in DOMAIN t /\ t[i - Len(s)] = x
    BY <1>1, <1>2, <1>4
  <2> QED BY <2>1 DEF Holds
<1> QED BY <1>3, <1>4

LEMMA HoldsOne ==
  ASSUME NEW x, NEW e
  PROVE  ~Holds(<<>>, x) /\ (Holds(<<e>>, x) => e = x)
BY DEF Holds
-----------------------------------------------------------------------------
\* What TypeOK says of the router and of the packets, in numbers.
LEMMA Numbers ==
  ASSUME TypeOK, Stage
  PROVE  /\ seq \in Nat /\ part \in Nat /\ part <= LastPart /\ LastPart \in Nat \ {0}
         /\ Base \in Nat /\ seq = Base + part
         /\ toProbe \in Seq(Description) /\ toRouter \in Seq(ProbePacket)
         /\ \A i \in DOMAIN toProbe : toProbe[i] \in Description /\ toProbe[i].seq \in Nat
<1>1. LastPart \in Nat \ {0}
  BY AdjacencyAssumption DEF LastPart
<1>2. \A i \in DOMAIN toProbe : toProbe[i] \in Description
  BY DEF TypeOK
<1>3. part \in Nat /\ part <= LastPart /\ seq \in Nat
  BY <1>1 DEF TypeOK
<1>4. Base \in Nat /\ seq = Base + part
  BY <1>3 DEF Base, Stage
<1> QED BY <1>1, <1>2, <1>3, <1>4 DEF TypeOK, Description

LEMMA ReplyIs ==
  /\ \A n, m \in Nat : Reply(n) = Reply(m) => n = m
  /\ \A n, m \in Nat : Reply(n) # FirstDd(m)
  /\ \A n \in Nat : \A ls : Reply(n) # [type |-> "lsr", lsas |-> ls]
  /\ \A dd \in ProbePacket : dd.type = "dd" /\ ~dd.init => dd = Reply(dd.seq) /\ dd.seq \in Nat
<1>1. \A n, m \in Nat : Reply(n) = Reply(m) => n = m
  <2> SUFFICES ASSUME NEW n \in Nat, NEW m \in Nat, Reply(n) = Reply(m) PROVE n = m
    OBVIOUS
  <2>1. Reply(n).seq = n /\ Reply(m).seq = m
    BY DEF Reply
  <2> QED BY <2>1
<1>2. \A n, m \in Nat : Reply(n) # FirstDd(m)
  <2> SUFFICES ASSUME NEW n \in Nat, NEW m \in Nat, Reply(n) = FirstDd(m) PROVE FALSE
    OBVIOUS
  <2>1. Reply(n).init = FALSE /\ FirstDd(m).init = TRUE
    BY DEF Reply, FirstDd
  <2> QED BY <2>1
<1>3. \A n \in Nat : \A ls : Reply(n) # [type |-> "lsr", lsas |-> ls]
  <2> SUFFICES ASSUME NEW n \in Nat, NEW ls, Reply(n) = [type |-> "lsr", lsas |-> ls] PROVE FALSE
    OBVIOUS
  <2>1. Reply(n).type = "dd"
    BY DEF Reply
  <2> QED BY <2>1
<1>4. ASSUME NEW dd \in ProbePacket, dd.type = "dd", ~dd.init
      PROVE  dd = Reply(dd.seq) /\ dd.seq \in Nat
  BY <1>4 DEF ProbePacket, Reply
<1> QED BY <1>1, <1>2, <1>3, <1>4

\* Of the packets to the probe the first may be gone.
LEMMA Fewer ==
  ASSUME TypeOK, Stage, InOrder, Packets,
         UNCHANGED <<seq, part>>,
         toProbe' = toProbe \/ (toProbe # <<>> /\ toProbe' = Tail(toProbe))
  PROVE  /\ Base' = Base /\ Base \in Nat
         /\ \A i \in DOMAIN toProbe' : \E j \in DOMAIN toProbe : toProbe'[i] = toProbe[j]
         /\ InOrder' /\ Packets'
<1>0. TypeOK /\ Stage
  OBVIOUS
<1>1. Base' = Base /\ Base \in Nat
  BY <1>0, Numbers DEF Base
<1>3. \A i \in DOMAIN toProbe' :
        \E j \in DOMAIN toProbe : toProbe'[i] = toProbe[j]
  <2>1. CASE toProbe' = toProbe
    BY <2>1
  <2>2. CASE toProbe # <<>> /\ toProbe' = Tail(toProbe)
    <3>1. \A i \in DOMAIN Tail(toProbe) :
            i + 1 \in DOMAIN toProbe /\ Tail(toProbe)[i] = toProbe[i + 1]
      BY <1>0, <2>2, TakenIs, Numbers
    <3> QED BY <2>2, <3>1
  <2> QED BY <2>1, <2>2
<1>4. InOrder'
  <2>1. CASE toProbe' = toProbe
    BY <2>1 DEF InOrder
  <2>2. CASE toProbe # <<>> /\ toProbe' = Tail(toProbe)
    <3> SUFFICES ASSUME NEW i \in DOMAIN toProbe', NEW j \in DOMAIN toProbe', i <= j
                 PROVE  toProbe'[i].seq <= toProbe'[j].seq
      BY DEF InOrder
    <3>1. \A k \in DOMAIN Tail(toProbe) :
            k \in Nat /\ k + 1 \in DOMAIN toProbe /\ Tail(toProbe)[k] = toProbe[k + 1]
      BY <1>0, <2>2, TakenIs, Numbers
    <3>2. i + 1 <= j + 1 /\ i + 1 \in DOMAIN toProbe /\ j + 1 \in DOMAIN toProbe
      BY <2>2, <3>1
    <3>3. toProbe'[i] = toProbe[i + 1] /\ toProbe'[j] = toProbe[j + 1]
      BY <2>2, <3>1
    <3> QED BY <3>2, <3>3 DEF InOrder
  <2> QED BY <2>1, <2>2
<1>5. Packets'
  <2> SUFFICES ASSUME NEW i \in DOMAIN toProbe' PROVE Describes(toProbe[i])'
    BY DEF Packets
  <2>1. PICK j \in DOMAIN toProbe : toProbe'[i] = toProbe[j]
    BY <1>3
  <2>2. Describes(toProbe[j])
    BY DEF Packets
  <2> QED BY <1>1, <2>1, <2>2 DEF Describes
<1> QED BY <1>1, <1>3, <1>4, <1>5

\* Of the packets under way some may be gone, and nothing new is known of the
\* probe.
LEMMA Carried ==
  ASSUME Inv, Exchange, Inv',
         UNCHANGED <<seq, part>>, routerState' \in {routerState, "Down"},
         toProbe' = toProbe \/ (toProbe # <<>> /\ toProbe' = Tail(toProbe)),
         \A n \in Nat : Replied(n)' => Replied(n),
         Reading' => Reading /\ \A l \in Lsas : Here(l) => Here(l)'
  PROVE  Exchange'
<1>0. TypeOK /\ Stage
  BY DEF Inv, Exchange
<1>1. /\ Base' = Base /\ Base \in Nat
      /\ \A i \in DOMAIN toProbe' : \E j \in DOMAIN toProbe : toProbe'[i] = toProbe[j]
      /\ InOrder' /\ Packets'
  BY <1>0, Fewer DEF Exchange
<1>2. Stage'
  BY DEF Exchange, Stage
<1>6. Replies'
  BY DEF Exchange, Replies
<1>7. ReadInOrder'
  <2> SUFFICES ASSUME NEW k \in 1 .. LastPart, Evidence(k)'
               PROVE  /\ \A i \in DOMAIN toProbe' : toProbe'[i].seq >= Base' + k
                      /\ Reading' => Known(k)'
    BY DEF ReadInOrder
  <2>1. Base + k \in Nat
    BY <1>0, <1>1, Numbers
  <2>2. Evidence(k)
    BY <1>1, <2>1 DEF Evidence
  <2>3. /\ \A i \in DOMAIN toProbe : toProbe[i].seq >= Base + k
        /\ Reading => Known(k)
    BY <2>2 DEF Exchange, ReadInOrder
  <2>4. Parts[k] \subseteq Lsas
    BY AdjacencyAssumption DEF LastPart
  <2>5. Reading' => Known(k)'
    BY <2>3, <2>4 DEF Known
  <2> QED BY <1>1, <2>3, <2>5
<1> QED BY <1>1, <1>2, <1>6, <1>7 DEF Exchange
-----------------------------------------------------------------------------
LEMMA NoReplyAdded ==
  ASSUME TypeOK, NEW m \in ProbePacket, \A n \in Nat : m # Reply(n),
         toRouter' = Append(toRouter, m)
  PROVE  \A n \in Nat : Replied(n)' => Replied(n)
<1>1. toRouter \in Seq(ProbePacket)
  BY DEF TypeOK
<1>2. \A x : Holds(Append(toRouter, m), x) => Holds(toRouter, x) \/ m = x
  BY <1>1, HoldsAppended
<1> QED BY <1>2 DEF Replied, Holds, Reply

LEMMA ReplyTaken ==
  ASSUME TypeOK, toRouter # <<>>, toRouter' = Tail(toRouter)
  PROVE  \A n \in Nat : Replied(n)' => Replied(n)
<1>1. toRouter \in Seq(ProbePacket)
  BY DEF TypeOK
<1>2. \A x : Holds(Tail(toRouter), x) => Holds(toRouter, x)
  BY <1>1, HoldsTaken
<1> QED BY <1>2 DEF Replied, Holds, Reply

LEMMA ExStartReplies ==
  ASSUME TypeOK, ToExStart
  PROVE  /\ \A n \in Nat : Replied(n)' => Replied(n)
         /\ ~Reading' /\ state' = "ExStart"
<1>1. ddSeq' \in Nat
  BY ExStartType
<1>2. FirstDd(ddSeq') \in ProbePacket /\ \A n \in Nat : FirstDd(ddSeq') # Reply(n)
  BY <1>1, DdType, ReplyIs
<1>3. toRouter' = Append(toRouter, FirstDd(ddSeq')) /\ state' = "ExStart"
  BY DEF ToExStart
<1> QED BY <1>2, <1>3, NoReplyAdded DEF Reading, Exchanging

\* The hellos and the timers of the probe, and the router's steps, add no
\* reply.
LEMMA HelloReplies ==
  ASSUME TypeOK,
         HelloTwoWay \/ HelloOneWay \/ Dead \/ FirstDdAgain \/ RequestsEnd
         \/ \E list \in Resent : RequestAgain(list)
  PROVE  /\ \A n \in Nat : Replied(n)' => Replied(n)
         /\ UNCHANGED <<seq, part, routerState, heard, own, flooding, toProbe, updates>>
         /\ Reading' => UNCHANGED <<state, greeting, lsdb, lsReq, late>>
         /\ \/ UNCHANGED <<lsdb, late, finishing>>
            \/ lsdb' = Nothing /\ UNCHANGED finishing /\ ~heard
            \/ lsdb' = Nothing /\ finishing' = <<>>
<1>1. CASE HelloTwoWay
  BY <1>1, ExStartReplies DEF HelloTwoWay, routerVars, threadVars
<1>2. CASE HelloOneWay \/ Dead
  BY <1>2 DEF HelloOneWay, Dead, ResetTo, Reading, Exchanging, routerVars, threadVars, Replied,
              Holds
<1>3. CASE FirstDdAgain
  <2>1. FirstDd(ddSeq) \in ProbePacket /\ \A n \in Nat : FirstDd(ddSeq) # Reply(n)
    BY DdType, ReplyIs DEF TypeOK
  <2>2. \A n \in Nat : Replied(n)' => Replied(n)
    BY <1>3, <2>1, NoReplyAdded DEF FirstDdAgain
  <2> QED BY <1>3, <2>2 DEF FirstDdAgain, routerVars, probeVars, threadVars
<1>4. ASSUME NEW list \in Resent, RequestAgain(list) PROVE \A n \in Nat : Replied(n)' => Replied(n)
  <2> DEFINE m == [type |-> "lsr", lsas |-> list]
  <2>1. m \in ProbePacket /\ \A n \in Nat : m # Reply(n)
    <3>1. list \in SUBSET Lsas
      BY TimerType DEF Resent, Lists, TypeOK
    <3> QED BY <3>1, DdType, ReplyIs
  <2>2. toRouter' = Append(toRouter, m)
    BY <1>4 DEF RequestAgain
  <2> HIDE DEF m
  <2> QED BY <2>1, <2>2, NoReplyAdded
<1>5. CASE \E list \in Resent : RequestAgain(list)
  BY <1>4, <1>5 DEF RequestAgain, routerVars, probeVars, threadVars
<1>6. CASE RequestsEnd
  BY <1>6 DEF RequestsEnd, routerVars, threadVars, Replied, Holds
<1> QED BY <1>1, <1>2, <1>3, <1>5, <1>6

LEMMA HelloCarries ==
  ASSUME Inv, Exchange, Inv',
         HelloTwoWay \/ HelloOneWay \/ Dead \/ FirstDdAgain \/ RequestsEnd
         \/ \E list \in Resent : RequestAgain(list)
  PROVE  Exchange'
<1>1. TypeOK
  BY DEF Inv
<1> QED BY <1>1, HelloReplies, Carried DEF Reading, Exchanging, Here

\* A worker that ends the requests reads no description; it makes the state Full
\* during an exchange, or in ExStart while the first packet is sent.
LEMMA WorkerReads ==
  ASSUME Inv, NEW i \in DOMAIN finishing, Worker(i)
  PROVE  /\ UNCHANGED <<lsdb, lsReq, greeting, late, overtaken, toRouter, updates>>
         /\ Reading' => Reading
<1>1. CASE LsuFinished(i)
  BY <1>1 DEF LsuFinished, Reading, Exchanging, Inv, TypeOK, Threads, States
<1>2. CASE LsuEndsWorker(i)
  BY <1>2 DEF LsuEndsWorker, Reading, Exchanging
<1> QED BY <1>1, <1>2 DEF Worker

\* What an update installs was here before it only if it was wanted.
LEMMA LsuCarries ==
  ASSUME Inv, Exchange, Inv', CheckLsu
  PROVE  Exchange'
<1>1. TypeOK /\ UNCHANGED <<seq, part, routerState, toProbe>>
  BY DEF Inv, CheckLsu, LsuDropped, LsuInstalled, LsuFinished, LsuEndsWorker, LsuOfNobody,
         LsuAcknowledged, LsuMismatch, routerVars
<1>2. CASE LsuMismatch
  <2>1. ToExStart
    BY <1>2 DEF LsuMismatch, Mismatch
  <2> QED BY <1>1, <2>1, ExStartReplies, Carried
<1>3. CASE LsuDropped \/ LsuOfNobody \/ LsuAcknowledged
  <2>1. UNCHANGED <<state, greeting, lsdb, lsReq, toRouter>>
    BY <1>3 DEF LsuDropped, LsuOfNobody, LsuAcknowledged, probeVars
  <2> QED BY <1>1, <2>1, Carried DEF Reading, Exchanging, Here, Replied, Holds
<1>4. CASE LsuInstalled
  <2>1. /\ UNCHANGED <<state, greeting, toRouter>>
        /\ lsdb' = [lsdb EXCEPT ![Lsu.lsa] = Lsu.inst]
        /\ lsReq' = Without(lsReq, Lsu.lsa)
    BY <1>4 DEF LsuInstalled, Install
  <2>2. Lsu.lsa \in Lsas /\ Lsu.inst \in Nat /\ Lsu.inst > 0
    BY <1>1, <1>4, Fields DEF LsuInstalled, Handles, Lsu, Update, Instances
  <2>3. lsdb \in [Lsas -> Nat] /\ lsReq \in [Lsas -> Nat]
    BY <1>1 DEF TypeOK
  <2>4. \A l \in Lsas : Here(l) => Here(l)'
    <3> SUFFICES ASSUME NEW l \in Lsas, Here(l) PROVE Here(l)'
      OBVIOUS
    <3>1. CASE l = Lsu.lsa
      BY <2>1, <2>2, <2>3, <3>1 DEF Here
    <3>2. CASE l # Lsu.lsa
      BY <2>1, <2>2, <2>3, <3>2 DEF Here, Without
    <3> QED BY <3>1, <3>2
  <2> QED BY <1>1, <2>1, <2>4, Carried DEF Reading, Exchanging, Replied, Holds
\* Full is a state of the exchange; it is reached from one, or from ExStart.
<1>5. CASE \E i \in DOMAIN finishing : Worker(i)
  <2>1. UNCHANGED <<lsdb, lsReq, greeting, toRouter>> /\ (Reading' => Reading)
    BY <1>5, WorkerReads
  <2> QED BY <1>1, <2>1, Carried DEF Here, Replied, Holds
<1> QED BY <1>2, <1>3, <1>4, <1>5 DEF CheckLsu, Worker

\* What is wanted is not replaced when the requests end.
LEMMA WantedKept ==
  ASSUME Inv, Emptied, [Next]_vars
  PROVE  Emptied'
<1>0. /\ TypeOK /\ finishing \in Seq(Update)
      /\ (\A l \in Lsas : ~(lsReq'[l] > 0)) => Emptied'
  BY DEF Inv, TypeOK, Emptied, Wanted
<1>1. CASE UNCHANGED <<state, lsReq, finishing, overtaken>>
  BY <1>1 DEF Emptied, Wanted
<1>2. CASE state' # "Full" /\ UNCHANGED <<lsReq, finishing, overtaken>>
  BY <1>2 DEF Emptied, Wanted
<1>3. CASE lsReq' = Nothing
  BY <1>0, <1>3 DEF Nothing
<1>4. CASE DdIgnored \/ DdInInit \/ DdNegotiates \/ DdMismatch
  BY <1>1, <1>2, <1>3, <1>4
     DEF DdIgnored, DdInInit, DdNegotiates, DdMismatch, Mismatch, ToExStart, probeVars, threadVars
<1>5. CASE DdExchange
  <2>1. /\ state' = "Exchange" /\ finishing' = finishing
        /\ overtaken' = overtaken \cup { l \in Lsas : finishing # <<>> /\ lsReq'[l] > lsReq[l] }
        /\ lsReq \in [Lsas -> Nat] /\ lsReq' \in [Lsas -> Nat]
    BY <1>0, <1>5, NewerType DEF DdExchange, TypeOK
  <2>2. ASSUME finishing # <<>>, NEW l \in Lsas, lsReq'[l] > 0, ~(lsReq'[l] > lsReq[l])
        PROVE  l \in overtaken
    <3>1. lsReq[l] > 0
      BY <2>1, <2>2
    <3> QED BY <2>2, <3>1 DEF Emptied, Wanted
  <2> QED BY <2>1, <2>2 DEF Emptied, Wanted
<1>6. CASE Loads
  BY <1>1, <1>2, <1>6 DEF Loads, Emptied, Wanted
<1>7. CASE Starts
  BY <1>1, <1>7 DEF Starts
<1>8. CASE LsuInstalled
  <2>1. /\ lsReq' = Without(lsReq, Lsu.lsa) /\ overtaken' = overtaken \cap Wanted'
        /\ state' = state /\ Lsu.lsa \in Lsas
    BY <1>0, <1>8, Fields DEF LsuInstalled, Handles, Lsu, Update
  <2>2. \A l \in Lsas : lsReq'[l] > 0 => lsReq[l] > 0
    BY <1>0, <2>1, WithoutType
  <2>3. CASE LastWanted
    <3>1. lsReq[Lsu.lsa] = 1 /\ Wanted = {Lsu.lsa} /\ lsReq \in [Lsas -> Nat]
      BY <1>0, <2>3 DEF LastWanted, TypeOK
    <3>2. \A l \in Lsas : ~(lsReq'[l] > 0)
      BY <2>1, <2>2, <3>1 DEF Without, Wanted
    <3> QED BY <1>0, <3>2
  <2>4. CASE ~LastWanted
    <3>1. finishing' = finishing
      BY <1>8, <2>4 DEF LsuInstalled
    <3> QED BY <2>1, <2>2, <3>1 DEF Emptied, Wanted
  <2> QED BY <2>3, <2>4
<1>9. CASE \E i \in DOMAIN finishing : Worker(i)
  <2>1. PICK i \in DOMAIN finishing : Worker(i)
    BY <1>9
  <2>2. finishing # <<>>
    BY <1>0
  <2>3. UNCHANGED <<lsReq, overtaken>>
    BY <2>1 DEF Worker, LsuFinished, LsuEndsWorker
  <2> QED BY <2>2, <2>3 DEF Emptied, Wanted
<1>10. CASE LsuDropped \/ LsuOfNobody \/ LsuAcknowledged \/ LsuMismatch
  BY <1>1, <1>3, <1>10 DEF LsuDropped, LsuOfNobody, LsuAcknowledged, LsuMismatch, Mismatch,
                           probeVars, threadVars
<1>11. CASE HelloTwoWay \/ HelloOneWay \/ Dead \/ FirstDdAgain \/ RequestsEnd \/ Overtakes
  BY <1>1, <1>2, <1>3, <1>11
     DEF HelloTwoWay, HelloOneWay, Dead, FirstDdAgain, RequestsEnd, Overtakes, ToExStart, ResetTo,
         probeVars, threadVars
<1>12. CASE \E list \in Resent : RequestAgain(list)
  BY <1>1, <1>12 DEF RequestAgain, probeVars, threadVars
<1>13. CASE \/ RouterHears \/ RouterRestarts \/ RouterDdAgain \/ Lost \/ RouterAnswersLsr
           \/ \E l \in Lsas : Originates(l) \/ Floods(l)
  BY <1>1, <1>13 DEF RouterHears, RouterRestarts, RouterDdAgain, Lost, RouterAnswersLsr,
                    Receives, Originates, Floods, probeVars, threadVars
<1>14. CASE RouterDdAsMaster \/ RouterDdAsSlave
  <2>1. Receives("dd")
    BY <1>14 DEF RouterDdAsMaster, RouterDdAsSlave
  <2> QED BY <1>1, <2>1 DEF Receives, probeVars, threadVars
<1>15. CASE UNCHANGED vars
  BY <1>1, <1>15 DEF vars, probeVars, threadVars
<1> QED BY <1>4, <1>5, <1>6, <1>7, <1>8, <1>9, <1>10, <1>11, <1>12, <1>13, <1>14, <1>15
        DEF Next, Probe, Router, RouterReads, CheckDd, CheckLsu, Worker
-----------------------------------------------------------------------------
\* The first packet is read and answered; what it describes is known then.
LEMMA ReadCarries ==
  ASSUME Inv, Exchange, UNCHANGED <<seq, part, routerState>>,
         toProbe # <<>>, toProbe' = Tail(toProbe),
         \A n \in Nat : Replied(n)' => Replied(n) \/ n = Got.seq,
         \A k \in 1 .. LastPart : Got.seq = Base + k /\ Reading' => Known(k)',
         \A k \in 1 .. LastPart : Evidence(k) /\ Reading' => Known(k)'
  PROVE  Exchange'
<1>0. TypeOK /\ Stage /\ InOrder /\ Packets
  BY DEF Inv, Exchange
<1>1. /\ Base' = Base /\ Base \in Nat
      /\ \A i \in DOMAIN toProbe' : \E j \in DOMAIN toProbe : toProbe'[i] = toProbe[j]
      /\ InOrder' /\ Packets'
  BY <1>0, Fewer
<1>2. Stage'
  BY <1>0 DEF Stage
<1>3. 1 \in DOMAIN toProbe /\ Got = toProbe[1] /\ \A i \in DOMAIN toProbe : i \in Nat /\ 1 <= i
  BY <1>0, TakenIs, Numbers DEF Got
<1>4. Got.seq \in Nat /\ Got.seq <= seq
  BY <1>0, <1>3, Numbers DEF Packets, Describes
<1>5. Replies'
  BY <1>4 DEF Exchange, Replies
<1>6. ReadInOrder'
  <2> SUFFICES ASSUME NEW k \in 1 .. LastPart, Evidence(k)'
               PROVE  /\ \A i \in DOMAIN toProbe' : toProbe'[i].seq >= Base' + k
                      /\ Reading' => Known(k)'
    BY DEF ReadInOrder
  <2>1. Base + k \in Nat
    BY <1>0, <1>1, Numbers
  <2>2. Evidence(k) \/ Got.seq = Base + k
    BY <1>1, <2>1 DEF Evidence
  <2>3. CASE Evidence(k)
    <3>1. \A i \in DOMAIN toProbe : toProbe[i].seq >= Base + k
      BY <2>3 DEF Exchange, ReadInOrder
    <3> QED BY <1>1, <2>3, <3>1
  <2>4. CASE Got.seq = Base + k
    <3>1. \A i \in DOMAIN toProbe : toProbe[i].seq >= Base + k
      BY <1>0, <1>3, <2>4, Numbers DEF InOrder
    <3> QED BY <1>1, <2>4, <3>1
  <2> QED BY <2>2, <2>3, <2>4
<1> QED BY <1>1, <1>2, <1>5, <1>6 DEF Exchange

\* As slave the probe answers a packet with its number.
LEMMA DdReplies ==
  ASSUME TypeOK, ~probeMaster, Got \in Description, Got.seq \in Nat, DdNegotiates \/ DdExchange
  PROVE  \A n \in Nat : Replied(n)' => Replied(n) \/ n = Got.seq
<1>1. toRouter \in Seq(ProbePacket) /\ Reply(Got.seq) \in ProbePacket
  BY DdType DEF TypeOK
<1>2. toRouter' = Append(toRouter, Reply(Got.seq))
  BY DEF DdNegotiates, DdExchange, Answers, Answer
<1>3. \A x : Holds(Append(toRouter, Reply(Got.seq)), x) =>
               Holds(toRouter, x) \/ Reply(Got.seq) = x
  BY <1>1, HoldsAppended
<1> QED BY <1>2, <1>3, ReplyIs DEF Replied, Holds, Reply

\* What is read: a description, or the first packet before any of them.
LEMMA GotIs ==
  ASSUME TypeOK, Exchange, ~probeMaster, toProbe # <<>>
  PROVE  /\ Got \in Description /\ Got.seq \in Nat /\ Describes(Got)
         /\ \A h \in Got.lsas : h.lsa \in Lsas /\ h.inst \in Nat /\ h.inst > 0
         /\ \E i \in DOMAIN toProbe : Got = toProbe[i]
         /\ DdNegotiates => \A k \in 1 .. LastPart : ~Evidence(k) /\ Got.seq # Base + k
<1>1. Stage /\ Got \in Description
  BY Fields DEF Got, Exchange
<1>2. 1 \in DOMAIN toProbe /\ Got = toProbe[1]
  BY <1>1, TakenIs, Numbers DEF Got
<1>3. /\ Got.seq \in Nat /\ Describes(Got)
      /\ \A h \in Got.lsas : h.lsa \in Lsas /\ h.inst \in Nat /\ h.inst > 0
  BY <1>1, <1>2 DEF Exchange, Packets, Description, Instances
<1>4. ASSUME DdNegotiates
      PROVE  \A k \in 1 .. LastPart : ~Evidence(k) /\ Got.seq # Base + k
  <2>1. Got.init
    <3>1. Got.init \in BOOLEAN
      BY <1>1 DEF Description
    <3>2. Got.init # probeMaster
      BY <1>4 DEF DdNegotiates
    <3>3. probeMaster = FALSE
      BY DEF TypeOK
    <3> QED BY <3>1, <3>2, <3>3
  <2>2. \A k \in 1 .. LastPart : ~(Got.seq >= Base + k)
    BY <1>1, <1>3, <2>1, Numbers DEF Describes
  <2>3. \A k \in 1 .. LastPart : ~Evidence(k)
    BY <1>2, <2>2 DEF Exchange, ReadInOrder
  <2>4. \A k \in 1 .. LastPart : Got.seq # Base + k
    BY <1>1, <1>3, <2>2, Numbers
  <2> QED BY <2>3, <2>4
<1> QED BY <1>1, <1>2, <1>3, <1>4

\* What ends or starts the requests reads and answers no description.
LEMMA LoadingReplies ==
  ASSUME TypeOK, Loads \/ Starts
  PROVE  \A n \in Nat : Replied(n)' => Replied(n)
<1>1. CASE toRouter' = toRouter
  BY <1>1 DEF Replied, Holds
<1>2. CASE toRouter' = Append(toRouter, [type |-> "lsr", lsas |-> Wanted])
  <2> DEFINE m == [type |-> "lsr", lsas |-> Wanted]
  <2>1. m \in ProbePacket /\ \A n \in Nat : m # Reply(n)
    BY TimerType, DdType, ReplyIs
  <2> HIDE DEF m
  <2> QED BY <1>2, <2>1, NoReplyAdded DEF m
<1> QED BY <1>1, <1>2 DEF Loads, Starts

LEMMA LoadingCarries ==
  ASSUME Inv, SlaveInv, Inv', Loads \/ Starts
  PROVE  SlaveInv'
<1>1. /\ TypeOK /\ Exchange
      /\ ~probeMaster' /\ UNCHANGED <<seq, part, routerState, toProbe, lsdb, lsReq, greeting>>
  BY DEF Inv, SlaveInv, Loads, Starts, routerVars
<1>2. Reading' => Reading
  BY DEF Inv, Threads, TypeOK, States, Loads, Starts, Reading, Exchanging
<1>3. \A n \in Nat : Replied(n)' => Replied(n)
  BY <1>1, LoadingReplies
<1> QED BY <1>1, <1>2, <1>3, Carried DEF SlaveInv, Here

\* What is read from the router.
DdReads == DdIgnored \/ DdInInit \/ DdNegotiates \/ DdExchange \/ DdMismatch

\* The packets of the router move the probe on.
LEMMA DdCarries ==
  ASSUME Inv, SlaveInv, Inv', DdReads
  PROVE  SlaveInv'
<1>1. /\ TypeOK /\ Stage /\ toProbe # <<>> /\ toProbe' = Tail(toProbe)
      /\ UNCHANGED <<probeMaster, lsdb, seq, part, routerState>>
      /\ ~probeMaster /\ Exchange
  BY DEF Inv, SlaveInv, Exchange, DdReads, DdIgnored, DdInInit, DdNegotiates, DdExchange,
         DdMismatch, Reads, routerVars, probeVars
<1>2. CASE DdIgnored
  <2>1. UNCHANGED <<state, greeting, lsdb, lsReq, toRouter>>
    BY <1>2 DEF DdIgnored, probeVars
  <2> QED BY <1>1, <2>1, Carried DEF SlaveInv, Reading, Exchanging, Here, Replied, Holds
<1>3. CASE DdInInit \/ DdMismatch
  <2>1. ToExStart
    BY <1>3 DEF DdInInit, DdMismatch, Mismatch
  <2> QED BY <1>1, <2>1, ExStartReplies, Carried DEF SlaveInv
<1>4. /\ Got \in Description /\ Got.seq \in Nat /\ Describes(Got)
      /\ \A h \in Got.lsas : h.inst \in Nat /\ h.inst > 0
  BY <1>1, GotIs
<1>5. DdNegotiates \/ DdExchange => \A n \in Nat : Replied(n)' => Replied(n) \/ n = Got.seq
  BY <1>1, <1>4, DdReplies
<1>6. CASE DdNegotiates
  <2>1. \A k \in 1 .. LastPart : ~Evidence(k) /\ Got.seq # Base + k
    BY <1>1, <1>6, GotIs
  <2> QED BY <1>1, <1>5, <1>6, <2>1, ReadCarries DEF SlaveInv
<1>7. CASE DdExchange
  <2>1. /\ Reading' => Reading
        /\ lsReq' = WithNewer(lsReq, Got.lsas) /\ lsdb' = lsdb
        /\ lsReq \in [Lsas -> Nat] /\ lsdb \in [Lsas -> Nat]
    BY <1>1, <1>7 DEF DdExchange, Reading, Exchanging, TypeOK
  <2>2. \A l \in Lsas : Here(l) => Here(l)'
    BY <2>1 DEF Here, WithNewer
  <2>3. \A k \in 1 .. LastPart : Parts[k] \subseteq Lsas
    BY AdjacencyAssumption DEF LastPart
  <2>4. \A k \in 1 .. LastPart : Evidence(k) /\ Reading' => Known(k)'
    <3>1. \A k \in 1 .. LastPart : Evidence(k) /\ Reading' => Known(k)
      BY <1>1, <2>1 DEF Exchange, ReadInOrder
    <3> QED BY <2>2, <2>3, <3>1 DEF Known
  <2>5. ASSUME NEW k \in 1 .. LastPart, Got.seq = Base + k PROVE Known(k)'
    <3> SUFFICES ASSUME NEW l \in Parts[k] PROVE Here(l)'
      BY DEF Known
    <3>1. PICK h \in Got.lsas : h.lsa = l
      BY <1>4, <2>5 DEF Describes
    <3>2. l \in Lsas /\ h.inst \in Nat /\ h.inst > 0
      BY <1>4, <2>3
    <3>3. lsdb[l] > 0 \/ lsReq'[l] = lsReq[l] + 1
      BY <2>1, <3>1, <3>2 DEF WithNewer
    <3> QED BY <2>1, <3>2, <3>3 DEF Here
  <2> QED BY <1>1, <1>5, <1>7, <2>4, <2>5, ReadCarries DEF SlaveInv
<1> QED BY <1>2, <1>3, <1>6, <1>7 DEF DdReads
-----------------------------------------------------------------------------
LEMMA AfterIs ==
  ASSUME NotRound, seq \in Nat
  PROVE  After(seq) = seq + 1
<1>1. SeqLimit \in Nat /\ seq + 1 \in Nat /\ seq + 1 < SeqLimit
  BY AdjacencyAssumption DEF NotRound
<1>2. \A a, b \in Nat : a < b => a % b = a
  OBVIOUS
<1> QED BY <1>1, <1>2 DEF After

\* What is sent to the probe keeps the packets in order.
LEMMA OrderKept ==
  ASSUME TypeOK, Stage, InOrder, Packets, NEW m \in Description, m.seq >= seq,
         toProbe' = Append(toProbe, m)
  PROVE  /\ InOrder'
         /\ \A i \in DOMAIN toProbe' :
              (\E j \in DOMAIN toProbe : toProbe'[i] = toProbe[j]) \/ toProbe'[i] = m
<1> DEFINE last == Len(toProbe) + 1
<1>1. /\ DOMAIN Append(toProbe, m) = DOMAIN toProbe \cup {last}
      /\ Append(toProbe, m)[last] = m
      /\ \A i \in DOMAIN toProbe : Append(toProbe, m)[i] = toProbe[i]
      /\ \A i \in DOMAIN toProbe : i \in Nat /\ i < last
      /\ last \in Nat
  BY AppendedIs, Numbers
<1> HIDE DEF last
<1>2. \A i \in DOMAIN toProbe : toProbe[i].seq \in Nat /\ toProbe[i].seq <= m.seq
  BY Numbers DEF Packets, Describes, Description
<1>3. m.seq \in Nat
  BY DEF Description
<1>4. InOrder'
  <2> SUFFICES ASSUME NEW i \in DOMAIN toProbe', NEW j \in DOMAIN toProbe', i <= j
               PROVE  toProbe'[i].seq <= toProbe'[j].seq
    BY DEF InOrder
  <2>1. CASE i \in DOMAIN toProbe /\ j \in DOMAIN toProbe
    BY <1>1, <2>1 DEF InOrder
  <2>2. CASE j = last
    BY <1>1, <1>2, <1>3, <2>2
  <2>3. CASE i = last /\ j \in DOMAIN toProbe
    BY <1>1, <2>3
  <2> QED BY <1>1, <2>1, <2>2, <2>3
<1> QED BY <1>1, <1>4

\* A packet that is sent shows nothing new of the probe.
LEMMA PacketCarries ==
  ASSUME Inv, Exchange, Stage', Base' = Base, seq' >= seq, seq' \in Nat,
         NEW m \in Description, m.seq = seq', m.init => m.seq <= Base,
         \A k \in 1 .. LastPart :
           m.seq = Base + k => \A l \in Parts[k] : \E h \in m.lsas : h.lsa = l,
         toProbe' = Append(toProbe, m),
         \A n \in Nat : Replied(n)' => Replied(n),
         \A k \in 1 .. LastPart : Evidence(k)' => Evidence(k),
         UNCHANGED <<state, greeting, lsdb, lsReq>>
  PROVE  Exchange'
<1>0. /\ TypeOK /\ Stage /\ InOrder /\ Packets
      /\ seq \in Nat /\ part \in Nat /\ Base \in Nat /\ seq = Base + part
  BY Numbers DEF Inv, Exchange
<1>1. /\ InOrder'
      /\ \A i \in DOMAIN toProbe' :
           (\E j \in DOMAIN toProbe : toProbe'[i] = toProbe[j]) \/ toProbe'[i] = m
  BY <1>0, OrderKept
<1>2. Packets'
  <2> SUFFICES ASSUME NEW i \in DOMAIN toProbe' PROVE Describes(toProbe[i])'
    BY DEF Packets
  <2>1. CASE toProbe'[i] = m
    BY <1>0, <2>1 DEF Describes
  <2>2. ASSUME NEW j \in DOMAIN toProbe, toProbe'[i] = toProbe[j]
        PROVE  Describes(toProbe[i])'
    <3>1. Describes(toProbe[j]) /\ toProbe[j].seq \in Nat
      BY <1>0, Numbers DEF Packets
    <3> QED BY <1>0, <2>2, <3>1 DEF Describes
  <2> QED BY <1>1, <2>1, <2>2
<1>3. Replies'
  BY <1>0 DEF Exchange, Replies
<1>4. ReadInOrder'
  <2> SUFFICES ASSUME NEW k \in 1 .. LastPart, Evidence(k)'
               PROVE  /\ \A i \in DOMAIN toProbe' : toProbe'[i].seq >= Base' + k
                      /\ Reading' => Known(k)'
    BY DEF ReadInOrder
  <2>1. Evidence(k) /\ k \in Nat
    BY <1>0, Numbers
  <2>2. /\ \A i \in DOMAIN toProbe : toProbe[i].seq >= Base + k
        /\ Reading => Known(k)
    BY <2>1 DEF Exchange, ReadInOrder
  <2>3. Reading' => Known(k)'
    BY <2>2 DEF Reading, Exchanging, Known, Here
  <2>4. Base + k <= seq
    <3>1. Base + k \in Nat
      BY <1>0, <2>1
    <3>2. part >= k \/ Base + k <= seq
      BY <1>0, <2>1, <3>1 DEF Evidence, Exchange, Replies
    <3> QED BY <1>0, <2>1, <3>2
  <2> QED BY <1>0, <1>1, <2>1, <2>2, <2>3, <2>4
<1> QED BY <1>1, <1>2, <1>3, <1>4 DEF Exchange

\* A new exchange: nothing of an earlier one has its numbers.
LEMMA ExStartCarries ==
  ASSUME Inv, Exchange, NotRound, RouterExStart,
         \A n \in Nat : Replied(n)' => Replied(n)
  PROVE  Exchange'
<1>0. /\ TypeOK /\ Stage /\ InOrder /\ Packets
      /\ seq \in Nat /\ part \in Nat /\ Base \in Nat /\ seq = Base + part
  BY Numbers DEF Inv, Exchange
<1>1. /\ routerState' = "ExStart" /\ seq' = seq + 1 /\ part' = 0
      /\ toProbe' = Append(toProbe, RouterFirst(seq'))
  BY <1>0, AfterIs DEF RouterExStart
<1>2. Base' = seq' /\ seq' \in Nat /\ Base' = seq + 1
  BY <1>0, <1>1 DEF Base
<1>3. /\ RouterFirst(seq') \in Description /\ RouterFirst(seq').seq = seq'
  BY <1>2, FirstType DEF RouterFirst
<1>4. Stage'
  BY <1>1, <1>2 DEF Stage
<1>5. /\ InOrder'
      /\ \A i \in DOMAIN toProbe' :
           (\E j \in DOMAIN toProbe : toProbe'[i] = toProbe[j]) \/ toProbe'[i] = RouterFirst(seq')
  <2>1. RouterFirst(seq').seq >= seq
    BY <1>0, <1>1, <1>3
  <2> QED BY <1>0, <1>1, <1>3, <2>1, OrderKept
<1>6. Packets'
  <2> SUFFICES ASSUME NEW i \in DOMAIN toProbe' PROVE Describes(toProbe[i])'
    BY DEF Packets
  <2>1. CASE toProbe'[i] = RouterFirst(seq')
    <3>1. \A k \in 1 .. LastPart : k \in Nat /\ k >= 1
      BY <1>0, Numbers
    <3>2. toProbe'[i].seq = seq'
      BY <1>3, <2>1
    <3>3. \A k \in 1 .. LastPart : seq' # Base' + k
      BY <1>2, <3>1
    <3>4. seq' <= seq' /\ seq' <= Base'
      BY <1>2
    <3>5. toProbe'[i].seq <= seq' /\ toProbe'[i].seq <= Base'
      BY <3>2, <3>4, Zenon
    <3>6. \A k \in 1 .. LastPart : toProbe'[i].seq # Base' + k
      BY <3>2, <3>3
    <3> QED BY <3>5, <3>6 DEF Describes
  <2>2. ASSUME NEW j \in DOMAIN toProbe, toProbe'[i] = toProbe[j]
        PROVE  Describes(toProbe[i])'
    <3>1. Describes(toProbe[j]) /\ toProbe[j].seq \in Nat
      BY <1>0, Numbers DEF Packets
    <3>2. toProbe'[i].seq <= seq
      BY <2>2, <3>1 DEF Describes
    <3> QED BY <1>0, <1>1, <1>2, <2>2, <3>1, <3>2 DEF Describes
  <2> QED BY <1>5, <2>1, <2>2
<1>7. Replies'
  BY <1>0, <1>1 DEF Exchange, Replies
<1>8. ReadInOrder'
  <2> SUFFICES ASSUME NEW k \in 1 .. LastPart, Evidence(k)' PROVE FALSE
    BY DEF ReadInOrder
  <2>1. k \in Nat /\ k >= 1
    BY <1>0, Numbers
  <2>2. Replied(Base + k)'
    BY <1>1, <2>1 DEF Evidence
  <2>3. Base' + k \in Nat
    BY <1>2, <2>1
  <2>4. Replied(Base' + k)
    BY <2>2, <2>3
  <2>5. Base' + k <= seq
    BY <2>3, <2>4 DEF Exchange, Replies
  <2> QED BY <1>0, <1>2, <2>1, <2>5
<1> QED BY <1>4, <1>5, <1>6, <1>7, <1>8 DEF Exchange
-----------------------------------------------------------------------------
\* The description goes on when the answer to the last packet is there.
GoesOn ==
  /\ ~Head(toRouter).init /\ Head(toRouter).seq = seq
  /\ routerState \in {"ExStart", "Exchange"}
  /\ IF part < LastPart THEN Sends(part + 1, After(seq), "Exchange")
     ELSE routerState' = "Full" /\ UNCHANGED <<seq, part, toProbe>>

LEMMA GoesOnRead ==
  ASSUME TypeOK, Exchange, NotRound, GoesOn,
         toRouter # <<>>, Head(toRouter).type = "dd", toRouter' = Tail(toRouter)
  PROVE  /\ Base' = Base /\ Stage' /\ seq' \in Nat /\ seq' >= seq
         /\ \A k \in 1 .. LastPart : Evidence(k)' => Evidence(k)
         /\ \/ /\ routerState' = "Exchange" /\ part' = part + 1 /\ seq' = seq + 1
               /\ part + 1 \in 1 .. LastPart
               /\ toProbe' = Append(toProbe, RouterPart(part + 1, seq + 1))
            \/ routerState' = "Full" /\ UNCHANGED <<seq, part, toProbe>>
<1>0. /\ Stage /\ seq \in Nat /\ part \in Nat /\ part <= LastPart /\ LastPart \in Nat \ {0}
      /\ Base \in Nat /\ seq = Base + part
  BY Numbers DEF Exchange
<1>1. Replied(seq)
  <2>1. Head(toRouter) \in ProbePacket /\ 1 \in DOMAIN toRouter /\ Head(toRouter) = toRouter[1]
    BY <1>0, Fields, TakenIs, Numbers
  <2>2. Head(toRouter) = Reply(seq)
    BY <2>1, ReplyIs DEF GoesOn
  <2> QED BY <2>1, <2>2 DEF Replied, Holds
<1>2. \A k \in 1 .. LastPart : k = part => Evidence(k)
  BY <1>0, <1>1 DEF Evidence
<1>3. \A n \in Nat : Replied(n)' => Replied(n)
  BY ReplyTaken
<1>4. \/ /\ routerState' = "Exchange" /\ part' = part + 1 /\ seq' = seq + 1
         /\ part + 1 \in 1 .. LastPart
         /\ toProbe' = Append(toProbe, RouterPart(part + 1, seq + 1))
      \/ /\ routerState' = "Full" /\ UNCHANGED <<seq, part, toProbe>> /\ part = LastPart
  <2>1. CASE part < LastPart
    <3>1. Sends(part + 1, seq + 1, "Exchange")
      BY <1>0, <2>1, AfterIs DEF GoesOn
    <3> QED BY <1>0, <2>1, <3>1 DEF Sends
  <2>2. CASE ~(part < LastPart)
    BY <1>0, <2>2 DEF GoesOn
  <2> QED BY <2>1, <2>2
<1>5. Base' = Base /\ Stage' /\ seq' \in Nat /\ seq' >= seq
  <2>1. CASE /\ routerState' = "Exchange" /\ part' = part + 1 /\ seq' = seq + 1
             /\ part + 1 \in 1 .. LastPart
    <3>1. /\ seq' \in Nat /\ seq' >= seq
          /\ (seq + 1) - (part + 1) = seq - part /\ part + 1 <= seq + 1
      BY <1>0, <2>1 DEF Stage
    <3> QED BY <2>1, <3>1 DEF Base, Stage
  <2>2. CASE routerState' = "Full" /\ UNCHANGED <<seq, part>> /\ part = LastPart
    BY <1>0, <2>2 DEF Base, Stage
  <2> QED BY <1>4, <2>1, <2>2
<1>6. ASSUME NEW k \in 1 .. LastPart, Evidence(k)' PROVE Evidence(k)
  <2>1. k \in Nat /\ Base + k \in Nat
    BY <1>0
  <2>2. part + 1 > k \/ Replied(Base + k)
    BY <1>0, <1>3, <1>4, <1>5, <1>6, <2>1 DEF Evidence
  <2>3. part > k \/ part = k \/ Replied(Base + k)
    BY <1>0, <2>1, <2>2
  <2> QED BY <1>2, <2>3 DEF Evidence
<1> QED BY <1>4, <1>5, <1>6

LEMMA MasterCarries ==
  ASSUME Inv, SlaveInv, Inv', NotRound, RouterDdAsMaster
  PROVE  SlaveInv'
<1>0. /\ TypeOK /\ Stage /\ Exchange
      /\ seq \in Nat /\ part \in Nat /\ part <= LastPart /\ LastPart \in Nat \ {0}
      /\ Base \in Nat /\ seq = Base + part
  BY Numbers DEF Inv, SlaveInv, Exchange
<1>1. /\ ~probeMaster' /\ toRouter # <<>> /\ toRouter' = Tail(toRouter)
      /\ Head(toRouter).type = "dd"
      /\ UNCHANGED <<state, greeting, lsdb, lsReq>>
  BY DEF SlaveInv, RouterDdAsMaster, Receives, probeVars
<1>2. \A n \in Nat : Replied(n)' => Replied(n)
  BY <1>0, <1>1, ReplyTaken
<1>3. CASE RouterKeeps
  BY <1>0, <1>1, <1>2, <1>3, Carried DEF SlaveInv, RouterKeeps, Reading, Exchanging, Here
<1>4. CASE RouterExStart
  BY <1>0, <1>1, <1>2, <1>4, ExStartCarries DEF SlaveInv
<1>5. CASE GoesOn
  <2>1. /\ Base' = Base /\ Stage' /\ seq' \in Nat /\ seq' >= seq
        /\ \A k \in 1 .. LastPart : Evidence(k)' => Evidence(k)
        /\ \/ /\ routerState' = "Exchange" /\ part' = part + 1 /\ seq' = seq + 1
              /\ part + 1 \in 1 .. LastPart
              /\ toProbe' = Append(toProbe, RouterPart(part + 1, seq + 1))
           \/ routerState' = "Full" /\ UNCHANGED <<seq, part, toProbe>>
    BY <1>0, <1>1, <1>5, GoesOnRead
  <2>2. CASE /\ seq' = seq + 1 /\ part + 1 \in 1 .. LastPart
             /\ toProbe' = Append(toProbe, RouterPart(part + 1, seq + 1))
    <3> DEFINE m == RouterPart(part + 1, seq + 1)
    <3>1. m \in Description
      BY <1>0, <2>2, PartType
    <3>2. m.seq = seq' /\ m.init = FALSE /\ m.lsas = Headers(part + 1)
      BY <2>2 DEF RouterPart
    <3>3. ASSUME NEW k \in 1 .. LastPart, m.seq = Base + k, NEW l \in Parts[k]
          PROVE  \E h \in m.lsas : h.lsa = l
      <4>1. k = part + 1
        BY <1>0, <2>2, <3>2, <3>3
      <4>2. [lsa |-> l, inst |-> own[l]] \in Headers(part + 1)
        BY <3>3, <4>1 DEF Headers
      <4> HIDE DEF m
      <4> QED BY <3>2, <4>2
    <3> HIDE DEF m
    <3>4. toProbe' = Append(toProbe, m)
      BY <2>2 DEF m
    <3>5. Exchange'
      BY <1>0, <1>1, <1>2, <2>1, <3>1, <3>2, <3>3, <3>4, PacketCarries
    <3> QED BY <1>1, <3>5 DEF SlaveInv
  <2>3. CASE UNCHANGED <<seq, part, toProbe>>
    <3>1. InOrder'
      BY <1>0, <2>1, <2>3 DEF Exchange, InOrder
    <3>4. Packets'
      BY <1>0, <2>1, <2>3 DEF Exchange, Packets, Describes
    <3>2. Replies'
      BY <1>0, <1>2, <2>3 DEF Exchange, Replies
    <3>3. ReadInOrder'
      BY <1>0, <1>1, <2>1, <2>3 DEF Exchange, ReadInOrder, Reading, Exchanging, Known, Here
    <3> QED BY <1>1, <2>1, <3>1, <3>2, <3>3, <3>4 DEF SlaveInv, Exchange
  <2> QED BY <2>1, <2>2, <2>3
<1> QED BY <1>3, <1>4, <1>5 DEF RouterDdAsMaster, GoesOn

\* What the router sends again.
LEMMA AgainCarries ==
  ASSUME Inv, Sent, SlaveInv, RouterDdAgain
  PROVE  SlaveInv'
<1>0. /\ TypeOK /\ Stage /\ Exchange
      /\ seq \in Nat /\ part \in Nat /\ part <= LastPart /\ LastPart \in Nat \ {0}
      /\ Base \in Nat /\ seq = Base + part
  BY Numbers DEF Inv, SlaveInv, Exchange
<1>1. /\ ~probeMaster'
      /\ UNCHANGED <<state, greeting, lsdb, lsReq, seq, part, routerState, toRouter>>
  BY DEF SlaveInv, RouterDdAgain, probeVars, routerVars
<1>2. /\ Base' = Base /\ Stage' /\ seq' \in Nat /\ seq' >= seq
      /\ \A n \in Nat : Replied(n)' => Replied(n)
      /\ \A k \in 1 .. LastPart : Evidence(k)' => Evidence(k)
  BY <1>0, <1>1 DEF Base, Stage, Evidence, Replied, Holds
<1>3. CASE routerState = "ExStart" /\ toProbe' = Append(toProbe, RouterFirst(seq))
  <2> DEFINE m == RouterFirst(seq)
  <2>1. m \in Description /\ m.seq = seq
    BY <1>0, FirstType DEF RouterFirst
  <2>2. seq = Base
    BY <1>0, <1>3 DEF Stage
  <2> HIDE DEF m
  <2>3. m.seq = seq' /\ m.seq <= Base
    BY <1>0, <1>1, <2>1, <2>2
  <2>4. \A k \in 1 .. LastPart : m.seq # Base + k
    BY <1>0, <2>1, <2>2
  <2>5. toProbe' = Append(toProbe, m)
    BY <1>3 DEF m
  <2>6. Exchange'
    BY <1>0, <1>1, <1>2, <2>1, <2>3, <2>4, <2>5, PacketCarries
  <2> QED BY <1>1, <2>6 DEF SlaveInv
<1>4. CASE routerState = "Exchange" /\ toProbe' = Append(toProbe, RouterPart(part, seq))
  <2> DEFINE m == RouterPart(part, seq)
  <2>1. part \in 1 .. LastPart
    BY <1>0, <1>4 DEF Sent
  <2>2. m \in Description
    BY <1>0, <2>1, PartType
  <2>3. m.seq = seq /\ m.init = FALSE /\ m.lsas = Headers(part)
    BY DEF RouterPart
  <2>4. ASSUME NEW k \in 1 .. LastPart, m.seq = Base + k, NEW l \in Parts[k]
        PROVE  \E h \in m.lsas : h.lsa = l
    <3>1. k = part
      BY <1>0, <2>3, <2>4
    <3>2. [lsa |-> l, inst |-> own[l]] \in Headers(part)
      BY <2>4, <3>1 DEF Headers
    <3> HIDE DEF m
    <3> QED BY <2>3, <3>2
  <2> HIDE DEF m
  <2>5. toProbe' = Append(toProbe, m)
    BY <1>4 DEF m
  <2>6. m.seq = seq'
    BY <1>1, <2>3
  <2>7. Exchange'
    BY <1>0, <1>1, <1>2, <2>2, <2>3, <2>4, <2>5, <2>6, PacketCarries
  <2> QED BY <1>1, <2>7 DEF SlaveInv
<1> QED BY <1>3, <1>4 DEF RouterDdAgain

LEMMA RouterReplies ==
  ASSUME TypeOK,
         \/ RouterHears \/ RouterRestarts \/ RouterAnswersLsr \/ Lost
         \/ \E l \in Lsas : Originates(l) \/ Floods(l)
  PROVE  /\ \A n \in Nat : Replied(n)' => Replied(n)
         /\ UNCHANGED <<probeMaster, state, greeting, lsdb, lsReq, late, finishing>>
<1>1. UNCHANGED <<probeMaster, probeVars>>
  <2>1. CASE RouterHears
    BY <2>1 DEF RouterHears
  <2>2. CASE RouterRestarts \/ Lost
    BY <2>2 DEF RouterRestarts, Lost
  <2>3. CASE RouterAnswersLsr
    BY <2>3 DEF RouterAnswersLsr, Receives
  <2>4. CASE \E l \in Lsas : Originates(l) \/ Floods(l)
    BY <2>4 DEF Originates, Floods
  <2> QED BY <2>1, <2>2, <2>3, <2>4
<1>2. toRouter' = toRouter \/ (toRouter # <<>> /\ toRouter' = Tail(toRouter))
  BY DEF RouterHears, RouterRestarts, RouterAnswersLsr, Receives, Lost, Originates, Floods
<1> QED BY <1>1, <1>2, ReplyTaken DEF Replied, Holds, probeVars, threadVars

LEMMA OthersCarry ==
  ASSUME Inv, SlaveInv, Inv', NotRound,
         \/ RouterHears \/ RouterRestarts \/ RouterAnswersLsr \/ Lost
         \/ \E l \in Lsas : Originates(l) \/ Floods(l)
  PROVE  SlaveInv'
<1>0. TypeOK /\ Exchange /\ ~probeMaster
  BY DEF Inv, SlaveInv
<1>1. ~probeMaster' /\ UNCHANGED <<state, greeting, lsdb, lsReq>>
  BY <1>0, RouterReplies
<1>2. \A n \in Nat : Replied(n)' => Replied(n)
  BY <1>0, RouterReplies
<1>3. CASE RouterExStart
  BY <1>0, <1>1, <1>2, <1>3, ExStartCarries DEF SlaveInv
<1>4. CASE /\ UNCHANGED <<seq, part>> /\ routerState' \in {routerState, "Down"}
           /\ toProbe' = toProbe \/ (toProbe # <<>> /\ toProbe' = Tail(toProbe))
  BY <1>0, <1>1, <1>2, <1>4, Carried DEF SlaveInv, Reading, Exchanging, Here
<1> QED BY <1>3, <1>4 DEF RouterHears, RouterRestarts, RouterAnswersLsr, Receives, Lost,
                          Originates, Floods, routerVars
-----------------------------------------------------------------------------
LEMMA RolesKept ==
  ASSUME [Next]_vars
  PROVE  probeMaster' = probeMaster
<1>1. CASE \/ Probe \/ Dead \/ FirstDdAgain \/ RequestsEnd
           \/ \E list \in Resent : RequestAgain(list)
  BY <1>1, ProbeLeavesRouter
<1>2. CASE RouterHears \/ RouterRestarts \/ RouterDdAgain \/ Lost
  BY <1>2 DEF RouterHears, RouterRestarts, RouterDdAgain, Lost
<1>3. CASE RouterDdAsMaster \/ RouterDdAsSlave \/ RouterAnswersLsr
  BY <1>3 DEF RouterDdAsMaster, RouterDdAsSlave, RouterAnswersLsr, Receives
<1>4. CASE \E l \in Lsas : Originates(l) \/ Floods(l)
  BY <1>4 DEF Originates, Floods
<1>5. CASE UNCHANGED vars
  BY <1>5 DEF vars
<1> QED BY <1>1, <1>2, <1>3, <1>4, <1>5 DEF Next, Router, RouterReads

\* Updates are under way to the probe; their order says nothing of packets.
LEMMA OvertakesCarries ==
  ASSUME Inv, SlaveInv, Overtakes
  PROVE  SlaveInv'
<1>1. UNCHANGED <<probeMaster, state, greeting, lsdb, lsReq, seq, part, routerState, toProbe,
                  toRouter>>
  BY DEF Overtakes, probeVars, routerVars
<1>2. Inv'
  BY OvertakesKeeps
<1> QED BY <1>1, <1>2, Carried DEF Inv, SlaveInv, Reading, Exchanging, Here, Replied, Holds

LEMMA SlaveNext ==
  ASSUME Inv, Sent, SlaveInv, NotRound, [Next]_vars
  PROVE  SlaveInv'
<1>0. Inv' /\ Exchange /\ ~probeMaster /\ ~probeMaster'
  BY InvNext, RolesKept DEF SlaveInv
<1>1. CASE HelloTwoWay \/ HelloOneWay \/ Dead \/ FirstDdAgain \/ RequestsEnd
           \/ \E list \in Resent : RequestAgain(list)
  BY <1>0, <1>1, HelloCarries DEF SlaveInv
<1>2. CASE CheckDd
  BY <1>0, <1>2, DdCarries, LoadingCarries DEF CheckDd, DdReads
<1>3. CASE CheckLsu
  BY <1>0, <1>3, LsuCarries DEF SlaveInv
<1>4. CASE RouterDdAsMaster
  BY <1>0, <1>4, MasterCarries
<1>5. CASE RouterDdAgain
  BY <1>5, AgainCarries
<1>6. CASE \/ RouterHears \/ RouterRestarts \/ RouterAnswersLsr \/ Lost
           \/ \E l \in Lsas : Originates(l) \/ Floods(l)
  BY <1>0, <1>6, OthersCarry
<1>7. CASE UNCHANGED vars
  BY <1>0, <1>7, Carried
     DEF vars, SlaveInv, probeVars, routerVars, Reading, Exchanging, Here, Replied, Holds
<1>8. ~RouterDdAsSlave
  BY <1>0 DEF RouterDdAsSlave
<1>9. CASE Overtakes
  BY <1>9, OvertakesCarries
<1> QED BY <1>1, <1>2, <1>3, <1>4, <1>5, <1>6, <1>7, <1>8, <1>9
        DEF Next, Probe, Router, RouterReads

DescribedInv == Inv /\ Sent /\ Emptied /\ (probeMaster \/ SlaveInv)

LEMMA DescribedInit == Init => DescribedInv
<1> SUFFICES ASSUME Init PROVE DescribedInv
  OBVIOUS
<1>1. Inv /\ Sent
  BY InvInit
<1>2. Emptied
  BY DEF Init, Emptied, Wanted, Nothing
<1>3. Exchange
  <2>1. seq = 0 /\ part = 0 /\ routerState = "Down" /\ toProbe = <<>> /\ toRouter = <<>>
    BY DEF Init
  <2>2. DOMAIN toProbe = {} /\ DOMAIN toRouter = {}
    BY <2>1
  <2>3. \A n : ~Replied(n)
    BY <2>2 DEF Replied, Holds
  <2>4. LastPart \in Nat
    BY AdjacencyAssumption DEF LastPart
  <2>5. \A k \in 1 .. LastPart : ~Evidence(k)
    BY <2>1, <2>3, <2>4 DEF Evidence
  <2> QED BY <2>1, <2>2, <2>3, <2>5
          DEF Exchange, Stage, InOrder, Packets, Replies, ReadInOrder
<1> QED BY <1>1, <1>2, <1>3 DEF DescribedInv, SlaveInv

LEMMA DescribedNext == DescribedInv /\ NotRound /\ [Next]_vars => DescribedInv'
<1> SUFFICES ASSUME DescribedInv, NotRound, [Next]_vars PROVE DescribedInv'
  OBVIOUS
<1>1. Inv /\ Sent /\ Emptied /\ (probeMaster \/ SlaveInv)
  BY DEF DescribedInv
<1>2. Inv' /\ Sent'
  BY <1>1, InvNext
<1>3. Emptied'
  BY <1>1, WantedKept
<1>4. probeMaster' \/ SlaveInv'
  BY <1>1, RolesKept, SlaveNext
<1> QED BY <1>2, <1>3, <1>4 DEF DescribedInv

(***************************************************************************)
(* As slave, a probe that is Full with a router that is Full lacks no LSA  *)
(* of it (exchange.py, check_dd; flood.py, check_lsu), for any database,   *)
(* however its description is cut, whatever was lost, sent again too early *)
(* or restarted and however LSAs changed meanwhile, until the router's     *)
(* 32-bit sequence number comes round.  Once it does, TLC finds that a     *)
(* reply of long ago can answer a packet the probe never read.             *)
(***************************************************************************)
THEOREM FullIsComplete == Spec /\ []NotRound => []Complete
<1>1. DescribedInv => Complete
  <2> SUFFICES ASSUME DescribedInv, BothFull, ~probeMaster, ~greeting,
                      NEW l \in Lsas \ overtaken
               PROVE  lsdb[l] > 0
    BY DEF Complete
  <2>1. /\ TypeOK /\ Stage /\ ReadInOrder /\ Wanted \subseteq overtaken
        /\ routerState = "Full" /\ Reading
    BY DEF DescribedInv, Inv, SlaveInv, Exchange, Emptied, BothFull, Reading, Exchanging
  <2>2. PICK k \in 1 .. LastPart : l \in Parts[k]
    BY AdjacencyAssumption DEF Lsas, LastPart, Range
  <2>3. part = LastPart /\ LastPart \in Nat /\ k \in Nat /\ k <= LastPart
    BY <2>1, Numbers DEF Stage
  <2>4. part > k \/ part = k
    BY <2>3
  <2>5. Evidence(k)
    BY <2>1, <2>4 DEF Evidence
  <2>6. lsdb[l] > 0 \/ lsReq[l] > 0
    BY <2>1, <2>2, <2>5 DEF ReadInOrder, Known, Here
  <2> QED BY <2>1, <2>6 DEF Wanted
<1> QED BY <1>1, DescribedInit, DescribedNext, PTL DEF Spec
-----------------------------------------------------------------------------
(***************************************************************************)
(* The database is never ahead of the router, and of an LSA that the probe *)
(* has read of, it has the router's instance, or wants it, or the router   *)
(* will flood it, or its update was late (ReadSettled).  A description may *)
(* be older than the router's database; then the router floods what        *)
(* changed, or has done so (Clean).                                        *)
(***************************************************************************)
NotAhead ==
  /\ \A l \in Lsas : lsdb[l] <= own[l]
  /\ \A i \in DOMAIN updates : updates[i].inst <= own[updates[i].lsa]

Clean(l) == lsdb[l] = 0 \/ lsdb[l] = own[l] \/ l \in late

Fresh(h) == h.inst = own[h.lsa] \/ h.lsa \in flooding \/ Clean(h.lsa)
FreshPackets ==
  Adjoins(routerState) =>
    \A i \in DOMAIN toProbe : toProbe[i].seq > Base => \A h \in toProbe[i].lsas : Fresh(h)

Settled(l) == lsdb[l] = own[l] \/ l \in flooding \/ lsReq[l] > 0 \/ l \in late
ReadSettled ==
  Adjoins(routerState) /\ Reading =>
    \A k \in 1 .. LastPart : Evidence(k) => \A l \in Parts[k] : Settled(l)

\* A worker that is about to acknowledge what the router still floods has put
\* that into the database.  A router that does not list the probe floods nothing.
Ended(u, newest, floods, db) ==
  /\ u.inst <= newest[u.lsa]
  /\ u.inst = newest[u.lsa] /\ u.lsa \in floods => db[u.lsa] = newest[u.lsa]
Pending == \A i \in DOMAIN finishing : Ended(finishing[i], own, flooding, lsdb)
Unheard == ~heard => routerState = "Down" /\ flooding = {}

Newest == NotAhead /\ FreshPackets /\ ReadSettled
-----------------------------------------------------------------------------
LEMMA ElementIs ==
  ASSUME NEW S, NEW s \in Seq(S)
  PROVE  \A i \in DOMAIN s : s[i] \in S
OBVIOUS

\* What TypeOK says of instances.
LEMMA InstancesAre ==
  ASSUME TypeOK
  PROVE  /\ lsdb \in [Lsas -> Nat] /\ lsReq \in [Lsas -> Nat]
         /\ own \in [Lsas -> Nat] /\ \A l \in Lsas : own[l] > 0
         /\ updates \in Seq(Update) /\ finishing \in Seq(Update)
         /\ \A i \in DOMAIN updates : updates[i].lsa \in Lsas /\ updates[i].inst \in Nat
         /\ \A i \in DOMAIN finishing : finishing[i].lsa \in Lsas /\ finishing[i].inst \in Nat
         /\ Nothing \in [Lsas -> Nat] /\ \A l \in Lsas : Nothing[l] = 0
         /\ \A k \in 1 .. LastPart : Parts[k] \subseteq Lsas
<1>1. /\ updates \in Seq(Update) /\ finishing \in Seq(Update)
      /\ \A i \in DOMAIN updates : updates[i] \in Update
      /\ \A i \in DOMAIN finishing : finishing[i] \in Update
  <2>1. updates \in Seq(Update) /\ finishing \in Seq(Update)
    BY DEF TypeOK
  <2> QED BY <2>1, ElementIs
<1>2. \A k \in 1 .. LastPart : Parts[k] \subseteq Lsas
  BY AdjacencyAssumption DEF LastPart
<1>3. /\ lsdb \in [Lsas -> Nat] /\ lsReq \in [Lsas -> Nat] /\ own \in [Lsas -> Instances]
  BY DEF TypeOK
<1>4. own \in [Lsas -> Nat] /\ \A l \in Lsas : own[l] > 0
  BY <1>3 DEF Instances
<1>5. /\ \A i \in DOMAIN updates : updates[i].lsa \in Lsas /\ updates[i].inst \in Nat
      /\ \A i \in DOMAIN finishing : finishing[i].lsa \in Lsas /\ finishing[i].inst \in Nat
  BY <1>1 DEF Update, Instances
<1>6. Nothing \in [Lsas -> Nat] /\ \A l \in Lsas : Nothing[l] = 0
  BY DEF Nothing
<1> QED BY <1>1, <1>2, <1>3, <1>4, <1>5, <1>6

\* No update under way is ahead of the router, as none was before.
LEMMA UpdatesKept ==
  ASSUME TypeOK, NotAhead, own' = own, \A l \in Lsas : lsdb'[l] <= own[l],
         \A i \in DOMAIN updates' :
           \/ \E j \in DOMAIN updates : updates'[i] = updates[j]
           \/ updates'[i].lsa \in Lsas /\ updates'[i].inst = own[updates'[i].lsa]
  PROVE  NotAhead'
<1>1. ASSUME NEW i \in DOMAIN updates' PROVE updates'[i].inst <= own[updates'[i].lsa]
  <2>1. CASE \E j \in DOMAIN updates : updates'[i] = updates[j]
    BY <2>1 DEF NotAhead
  <2>2. CASE updates'[i].lsa \in Lsas /\ updates'[i].inst = own[updates'[i].lsa]
    <3> DEFINE n == own[updates'[i].lsa]
    <3>1. n \in Nat
      BY <2>2, InstancesAre
    <3> QED BY <2>2, <3>1
  <2> QED BY <2>1, <2>2
<1> QED BY <1>1 DEF NotAhead

\* Of the updates the first may be gone.
LEMMA UpdatesTaken ==
  ASSUME TypeOK, updates' = updates \/ (updates # <<>> /\ updates' = Tail(updates))
  PROVE  \A i \in DOMAIN updates' : \E j \in DOMAIN updates : updates'[i] = updates[j]
<1>1. CASE updates # <<>> /\ updates' = Tail(updates)
  <2>1. \A i \in DOMAIN Tail(updates) :
          i + 1 \in DOMAIN updates /\ Tail(updates)[i] = updates[i + 1]
    BY <1>1, TakenIs, InstancesAre
  <2> QED BY <1>1, <2>1
<1> QED BY <1>1

\* What the router sends is the newest.
LEMMA UpdatesSent ==
  ASSUME TypeOK, NEW t \in Seq(Latest), updates' = updates \o t
  PROVE  \A i \in DOMAIN updates' :
           \/ \E j \in DOMAIN updates : updates'[i] = updates[j]
           \/ updates'[i].lsa \in Lsas /\ updates'[i].inst = own[updates'[i].lsa]
<1>1. /\ DOMAIN (updates \o t) = 1 .. Len(updates) + Len(t)
      /\ DOMAIN updates = 1 .. Len(updates) /\ DOMAIN t = 1 .. Len(t)
      /\ Len(updates) \in Nat /\ Len(t) \in Nat
      /\ \A i \in 1 .. Len(updates) + Len(t) :
           (updates \o t)[i] = IF i <= Len(updates) THEN updates[i] ELSE t[i - Len(updates)]
  BY InstancesAre
<1>2. \A i \in DOMAIN t : t[i].lsa \in Lsas /\ t[i].inst = own[t[i].lsa]
  <2>1. \A i \in DOMAIN t : t[i] \in Latest
    BY ElementIs
  <2> QED BY <2>1 DEF Latest, Update
<1> SUFFICES ASSUME NEW i \in 1 .. Len(updates) + Len(t), ~(i <= Len(updates))
             PROVE  updates'[i].lsa \in Lsas /\ updates'[i].inst = own[updates'[i].lsa]
  BY <1>1
<1>3. i - Len(updates) \in DOMAIN t /\ updates'[i] = t[i - Len(updates)]
  BY <1>1
<1> QED BY <1>2, <1>3

\* The packets that are there stay fresh, and those that are sent are fresh.
LEMMA FreshKept ==
  ASSUME TypeOK, FreshPackets, Adjoins(routerState') => Adjoins(routerState) /\ Base' = Base,
         \A i \in DOMAIN toProbe' :
           \/ \E j \in DOMAIN toProbe : toProbe'[i] = toProbe[j]
           \/ \A h \in toProbe'[i].lsas : h.inst = own'[h.lsa],
         Adjoins(routerState') =>
           \A l \in Lsas : /\ own'[l] = own[l] \/ l \in flooding'
                           /\ l \in flooding \/ Clean(l) => l \in flooding' \/ Clean(l)'
  PROVE  FreshPackets'
<1> SUFFICES ASSUME Adjoins(routerState'), NEW i \in DOMAIN toProbe', toProbe'[i].seq > Base',
                    NEW h \in toProbe'[i].lsas
             PROVE  Fresh(h)'
  BY DEF FreshPackets, Adjoins
<1>1. CASE h.inst = own'[h.lsa]
  BY <1>1 DEF Fresh
<1>2. CASE \E j \in DOMAIN toProbe : toProbe'[i] = toProbe[j]
  <2>1. PICK j \in DOMAIN toProbe : toProbe'[i] = toProbe[j]
    BY <1>2
  <2>2. Fresh(h)
    BY <2>1 DEF FreshPackets
  <2>3. h.lsa \in Lsas
    <3>1. toProbe[j] \in Description
      BY ElementIs DEF TypeOK
    <3> QED BY <2>1, <3>1 DEF Description
  <2> QED BY <2>2, <2>3 DEF Fresh, Clean
<1> QED BY <1>1, <1>2

\* What was settled stays settled.
LEMMA SettledKept ==
  ASSUME TypeOK, ReadSettled,
         Adjoins(routerState') /\ Reading' =>
           /\ Adjoins(routerState) /\ Reading
           /\ \A k \in 1 .. LastPart : Evidence(k)' => Evidence(k)
           /\ \A l \in Lsas : Settled(l) => Settled(l)'
  PROVE  ReadSettled'
BY InstancesAre DEF ReadSettled, Adjoins

\* Of the exchange nothing new is known when no reply is sent.
LEMMA EvidenceKept ==
  ASSUME TypeOK, Stage, UNCHANGED <<seq, part>>, routerState' \in {routerState, "Down"},
         \A n \in Nat : Replied(n)' => Replied(n)
  PROVE  /\ Base' = Base
         /\ \A k \in 1 .. LastPart : Evidence(k)' => Evidence(k)
<1>1. Base' = Base /\ Base \in Nat /\ LastPart \in Nat
  BY Numbers DEF Base
<1>2. \A k \in 1 .. LastPart : Base + k \in Nat
  BY <1>1
<1> QED BY <1>1, <1>2 DEF Evidence
-----------------------------------------------------------------------------
LEMMA HelloNewest ==
  ASSUME Inv, SlaveInv, Newest,
         HelloTwoWay \/ HelloOneWay \/ Dead \/ FirstDdAgain \/ RequestsEnd
         \/ \E list \in Resent : RequestAgain(list)
  PROVE  Newest'
<1>0. TypeOK /\ Stage /\ NotAhead /\ FreshPackets /\ ReadSettled
  BY DEF Inv, SlaveInv, Exchange, Newest
<1>1. /\ \A n \in Nat : Replied(n)' => Replied(n)
      /\ UNCHANGED <<seq, part, routerState, own, flooding, toProbe, updates>>
      /\ Reading' => UNCHANGED <<state, greeting, lsdb, lsReq, late>>
      /\ UNCHANGED <<lsdb, late>> \/ lsdb' = Nothing
  BY <1>0, HelloReplies
<1>2. Base' = Base /\ \A k \in 1 .. LastPart : Evidence(k)' => Evidence(k)
  BY <1>0, <1>1, EvidenceKept
<1>3. \A l \in Lsas : lsdb'[l] <= own[l]
  BY <1>0, <1>1, InstancesAre DEF NotAhead
<1>4. NotAhead'
  BY <1>0, <1>1, <1>3, UpdatesKept
<1>5. \A l \in Lsas : Clean(l) => Clean(l)'
  BY <1>0, <1>1, InstancesAre DEF Clean
<1>6. FreshPackets'
  BY <1>0, <1>1, <1>2, <1>5, FreshKept
<1>7. ReadSettled'
  BY <1>0, <1>1, <1>2, SettledKept DEF Reading, Exchanging, Settled
<1> QED BY <1>4, <1>6, <1>7 DEF Newest

\* What a packet describes is there, wanted or about to be flooded.
LEMMA DdNewest ==
  ASSUME Inv, SlaveInv, Newest, DdReads
  PROVE  Newest'
<1>0. /\ TypeOK /\ Stage /\ Exchange /\ ~probeMaster
      /\ NotAhead /\ FreshPackets /\ ReadSettled
  BY DEF Inv, SlaveInv, Exchange, Newest
<1>1. /\ toProbe # <<>> /\ toProbe' = Tail(toProbe)
      /\ UNCHANGED <<lsdb, late, seq, part, routerState, own, flooding, updates>>
  BY DEF DdReads, DdIgnored, DdInInit, DdNegotiates, DdExchange, DdMismatch, Reads,
         routerVars, probeVars
<1>2. NotAhead'
  BY <1>0, <1>1 DEF NotAhead
<1>3. \A l \in Lsas : Clean(l) => Clean(l)'
  BY <1>1 DEF Clean
<1>4. Base' = Base /\ Base \in Nat /\ LastPart \in Nat
  BY <1>0, <1>1, Numbers DEF Base
<1>5. FreshPackets'
  <2>1. \A i \in DOMAIN toProbe' : \E j \in DOMAIN toProbe : toProbe'[i] = toProbe[j]
    BY <1>0, <1>1, Fewer DEF Exchange
  <2> QED BY <1>0, <1>1, <1>3, <1>4, <2>1, FreshKept
<1>6. CASE DdIgnored
  <2>1. UNCHANGED <<state, greeting, lsdb, lsReq, toRouter>>
    BY <1>6 DEF DdIgnored, probeVars
  <2>2. \A k \in 1 .. LastPart : Evidence(k)' => Evidence(k)
    BY <1>0, <1>1, <2>1, EvidenceKept DEF Replied, Holds
  <2>3. ReadSettled'
    BY <1>0, <1>1, <2>1, <2>2, SettledKept DEF Reading, Exchanging, Settled
  <2> QED BY <1>2, <1>5, <2>3 DEF Newest
<1>7. CASE DdInInit \/ DdMismatch
  <2>1. ~Reading'
    BY <1>0, <1>7, ExStartReplies DEF DdInInit, DdMismatch, Mismatch
  <2> QED BY <1>2, <1>5, <2>1 DEF Newest, ReadSettled
<1>8. CASE DdNegotiates \/ DdExchange
  <2>1. /\ Got \in Description /\ Got.seq \in Nat /\ Describes(Got)
        /\ \A h \in Got.lsas : h.lsa \in Lsas /\ h.inst \in Nat /\ h.inst > 0
        /\ \E i \in DOMAIN toProbe : Got = toProbe[i]
        /\ DdNegotiates => \A k \in 1 .. LastPart : ~Evidence(k) /\ Got.seq # Base + k
    BY <1>0, <1>1, GotIs
  <2>2. \A n \in Nat : Replied(n)' => Replied(n) \/ n = Got.seq
    BY <1>0, <1>8, <2>1, DdReplies
  <2>3. \A k \in 1 .. LastPart : Evidence(k)' => Evidence(k) \/ Got.seq = Base + k
    <3>1. \A k \in 1 .. LastPart : Base + k \in Nat
      BY <1>4
    <3> QED BY <1>1, <1>4, <2>2, <3>1 DEF Evidence
  <2>4. CASE DdNegotiates
    BY <1>2, <1>5, <2>1, <2>3, <2>4 DEF Newest, ReadSettled
  <2>5. CASE DdExchange
    <3>1. /\ Reading' => Reading
          /\ lsReq' = WithNewer(lsReq, Got.lsas)
          /\ lsReq \in [Lsas -> Nat] /\ lsdb \in [Lsas -> Nat]
      BY <1>0, <2>5, InstancesAre DEF DdExchange, Reading, Exchanging
    <3>2. \A l \in Lsas : Settled(l) => Settled(l)'
      BY <1>1, <3>1 DEF Settled, WithNewer
    <3>3. ASSUME Adjoins(routerState), NEW k \in 1 .. LastPart, Got.seq = Base + k,
                 NEW l \in Parts[k]
          PROVE  Settled(l)'
      <4>1. PICK h \in Got.lsas : h.lsa = l
        BY <2>1, <3>3 DEF Describes
      <4>2. Got.seq > Base
        BY <1>4, <2>1, <3>3
      <4>3. Fresh(h)
        BY <1>0, <2>1, <3>3, <4>2 DEF FreshPackets
      <4>4. l \in Lsas /\ h.inst \in Nat /\ h.inst > 0
        BY <2>1, <4>1
      <4>5. lsdb[l] \in Nat /\ own[l] \in Nat /\ lsdb[l] <= own[l] /\ lsReq[l] \in Nat
        BY <1>0, <4>4, InstancesAre DEF NotAhead
      <4>6. lsdb[l] < h.inst => lsReq'[l] > 0
        BY <3>1, <4>1, <4>4, <4>5 DEF WithNewer
      <4>7. l \in flooding \/ lsdb[l] = own[l] \/ lsdb[l] < h.inst \/ l \in late
        BY <4>1, <4>3, <4>4, <4>5 DEF Fresh, Clean
      <4> QED BY <1>1, <4>6, <4>7 DEF Settled
    <3>4. ReadSettled'
      <4> SUFFICES ASSUME Adjoins(routerState), Reading,
                          NEW k \in 1 .. LastPart, Evidence(k)', NEW l \in Parts[k]
                   PROVE  Settled(l)'
        BY <1>1, <3>1 DEF ReadSettled, Adjoins
      <4>1. CASE Evidence(k)
        BY <1>0, <3>1, <3>2, <4>1, InstancesAre DEF ReadSettled
      <4>2. CASE Got.seq = Base + k
        BY <3>3, <4>2
      <4> QED BY <2>3, <4>1, <4>2
    <3> QED BY <1>2, <1>5, <3>4 DEF Newest
  <2> QED BY <1>8, <2>4, <2>5
<1> QED BY <1>6, <1>7, <1>8 DEF DdReads

LEMMA LoadingNewest ==
  ASSUME Inv, SlaveInv, Newest, Loads \/ Starts
  PROVE  Newest'
<1>0. TypeOK /\ Stage /\ NotAhead /\ FreshPackets /\ ReadSettled
  BY DEF Inv, SlaveInv, Exchange, Newest
<1>1. UNCHANGED <<lsdb, lsReq, late, greeting, own, flooding, updates, seq, part, routerState,
                  toProbe>>
  BY DEF Loads, Starts, routerVars
<1>2. Reading' => Reading
  BY DEF Inv, Threads, TypeOK, States, Loads, Starts, Reading, Exchanging
<1>3. \A n \in Nat : Replied(n)' => Replied(n)
  BY <1>0, LoadingReplies
<1>4. \A k \in 1 .. LastPart : Evidence(k)' => Evidence(k)
  BY <1>0, <1>1, <1>3, EvidenceKept
<1>5. ReadSettled'
  BY <1>0, <1>1, <1>2, <1>4, SettledKept DEF Settled
<1> QED BY <1>0, <1>1, <1>5 DEF Newest, NotAhead, FreshPackets, Adjoins, Fresh, Clean, Base

-----------------------------------------------------------------------------
\* The update that is handled is not ahead of the router.
LEMMA LsuIs ==
  ASSUME TypeOK, NotAhead, updates # <<>>
  PROVE  /\ Lsu \in Update /\ Lsu.lsa \in Lsas /\ Lsu.inst \in Nat /\ own[Lsu.lsa] \in Nat
         /\ Lsu.inst <= own[Lsu.lsa]
<1>1. 1 \in DOMAIN updates /\ Lsu = updates[1] /\ Lsu \in Update
  BY InstancesAre, TakenIs, Fields DEF Lsu
<1> QED BY <1>1, InstancesAre DEF NotAhead

\* Which LSAs the router still floods, and what is there.
LEMMA LsuFloods ==
  ASSUME TypeOK, NotAhead, Pending, CheckLsu
  PROVE  /\ flooding' \subseteq flooding
         /\ \A l \in Lsas : l \in flooding => l \in flooding' \/ lsdb'[l] = own[l]
<1>1. lsdb \in [Lsas -> Nat] /\ \A l \in Lsas : lsdb[l] <= own[l] /\ own[l] \in Nat
  BY InstancesAre DEF NotAhead
<1>2. CASE flooding' = flooding
  BY <1>2
<1>3. CASE LsuInstalled /\ Acknowledge(Lsu)
  <2>1. /\ Lsu.lsa \in Lsas /\ lsdb' = [lsdb EXCEPT ![Lsu.lsa] = Lsu.inst]
    BY <1>3, LsuIs DEF LsuInstalled, Install, Handles
  <2> QED BY <1>1, <1>3, <2>1 DEF Acknowledge
<1>4. CASE LsuAcknowledged
  <2>1. /\ Lsu.lsa \in Lsas /\ Lsu.inst \in Nat /\ lsdb' = lsdb
        /\ ~(lsdb[Lsu.lsa] < Lsu.inst) /\ Acknowledge(Lsu)
    BY <1>4, LsuIs DEF LsuAcknowledged, Handles, IsNewer, probeVars
  <2>2. Lsu.inst = own[Lsu.lsa] => lsdb'[Lsu.lsa] = own[Lsu.lsa]
    BY <1>1, <2>1
  <2> QED BY <2>1, <2>2 DEF Acknowledge
<1>5. ASSUME NEW i \in DOMAIN finishing, LsuFinished(i)
      PROVE  /\ flooding' \subseteq flooding
             /\ \A l \in Lsas : l \in flooding => l \in flooding' \/ lsdb'[l] = own[l]
  <2>1. Acknowledge(finishing[i]) /\ lsdb' = lsdb /\ Ended(finishing[i], own, flooding, lsdb)
    BY <1>5 DEF LsuFinished, Pending
  <2> QED BY <2>1 DEF Acknowledge, Ended
<1>6. CASE \E i \in DOMAIN finishing : LsuFinished(i)
  BY <1>5, <1>6
<1> QED BY <1>2, <1>3, <1>4, <1>6
        DEF CheckLsu, LsuDropped, LsuInstalled, LsuOfNobody, LsuMismatch, LsuEndsWorker, routerVars

\* What an update installs is the router's instance, or the router will flood
\* that, or the update was late.
LEMMA LsuNewest ==
  ASSUME Inv, SlaveInv, Newest, Pending, CheckLsu
  PROVE  Newest'
<1>0. TypeOK /\ Stage /\ NotAhead /\ FreshPackets /\ ReadSettled
  BY DEF Inv, SlaveInv, Exchange, Newest
<1>1. /\ updates' = updates \/ (updates # <<>> /\ updates' = Tail(updates))
      /\ UNCHANGED <<seq, part, routerState, own, toProbe>>
  BY DEF CheckLsu, LsuDropped, LsuInstalled, LsuFinished, LsuEndsWorker, LsuOfNobody,
         LsuAcknowledged, LsuMismatch, Handles, routerVars
<1>2. /\ lsdb \in [Lsas -> Nat] /\ lsReq \in [Lsas -> Nat] /\ own \in [Lsas -> Nat]
      /\ \A l \in Lsas : lsdb[l] <= own[l]
  BY <1>0, InstancesAre DEF NotAhead
<1> DEFINE Installs == /\ updates # <<>> /\ Install
                       /\ \A l \in Lsas \ {Lsu.lsa} : lsReq[l] > 0 => lsReq'[l] > 0
                       /\ UNCHANGED <<state, greeting, toRouter>>
           Leaves == UNCHANGED <<lsdb, lsReq, late, toRouter>> /\ (Reading' => Reading)
<1>3. \/ Installs
      \/ UNCHANGED <<lsdb, late>> /\ ~Reading'
      \/ Leaves
  <2>1. CASE LsuInstalled
    <3>1. Lsu.lsa \in Lsas /\ updates # <<>>
      BY <1>0, <2>1, LsuIs DEF LsuInstalled, Handles
    <3> QED BY <1>2, <2>1, <3>1 DEF LsuInstalled, Without
  <2>2. CASE \E i \in DOMAIN finishing : Worker(i)
    BY <2>2, WorkerReads
  <2>3. CASE LsuMismatch
    BY <1>0, <2>3, ExStartReplies DEF LsuMismatch, Mismatch
  <2>4. CASE LsuDropped \/ LsuOfNobody \/ LsuAcknowledged
    BY <2>4 DEF LsuDropped, LsuOfNobody, LsuAcknowledged, probeVars, Reading, Exchanging
  <2> QED BY <2>1, <2>2, <2>3, <2>4 DEF CheckLsu, Worker
<1>4. flooding' \subseteq flooding /\ \A l \in Lsas : l \in flooding => l \in flooding' \/ lsdb'[l] = own[l]
  BY <1>0, LsuFloods
<1>5. ASSUME updates # <<>>, Install
      PROVE  /\ Lsu.lsa \in Lsas /\ lsdb'[Lsu.lsa] = Lsu.inst /\ Lsu.inst <= own[Lsu.lsa]
             /\ \/ Lsu.inst = own[Lsu.lsa]
                \/ Lsu.lsa \in late'
                \/ Lsu.lsa \in flooding /\ Lsu.inst # own[Lsu.lsa]
             /\ \A l \in Lsas \ {Lsu.lsa} : lsdb'[l] = lsdb[l] /\ (l \in late => l \in late')
  <2>1. /\ Lsu.lsa \in Lsas /\ Lsu.inst \in Nat /\ own[Lsu.lsa] \in Nat
        /\ Lsu.inst <= own[Lsu.lsa]
    BY <1>0, <1>5, LsuIs
  <2> QED BY <1>2, <1>5, <2>1 DEF Install
<1>6. \A l \in Lsas : lsdb'[l] <= own[l]
  BY <1>2, <1>3, <1>5
<1>7. NotAhead'
  <2>1. \A i \in DOMAIN updates' : \E j \in DOMAIN updates : updates'[i] = updates[j]
    BY <1>0, <1>1, UpdatesTaken
  <2> QED BY <1>0, <1>1, <1>6, <2>1, UpdatesKept
<1>8. ASSUME NEW l \in Lsas, l \in flooding \/ Clean(l) PROVE l \in flooding' \/ Clean(l)'
  <2>1. CASE l \in flooding
    BY <1>1, <1>4, <2>1 DEF Clean
  <2>2. CASE l \notin flooding /\ Installs /\ l = Lsu.lsa
    BY <1>1, <1>5, <2>2 DEF Clean
  <2>3. CASE l \notin flooding /\ Installs /\ l # Lsu.lsa
    BY <1>1, <1>5, <1>8, <2>3 DEF Clean
  <2>4. CASE l \notin flooding /\ UNCHANGED <<lsdb, late>>
    BY <1>1, <1>8, <2>4 DEF Clean
  <2> QED BY <1>3, <2>1, <2>2, <2>3, <2>4
<1>9. Base' = Base
  BY <1>1 DEF Base
<1>10. FreshPackets'
  BY <1>0, <1>1, <1>8, <1>9, FreshKept
<1>11. CASE ~Reading'
  BY <1>7, <1>10, <1>11 DEF Newest, ReadSettled
<1>12. CASE Installs \/ Leaves
  <2>1. \A k \in 1 .. LastPart : Evidence(k)' => Evidence(k)
    BY <1>0, <1>1, <1>12, EvidenceKept DEF Replied, Holds
  <2>2. Reading' => Reading
    BY <1>12 DEF Reading, Exchanging
  <2>3. ASSUME NEW l \in Lsas, Settled(l) PROVE Settled(l)'
    <3>1. CASE l \in flooding
      BY <1>1, <1>4, <3>1 DEF Settled
    <3>2. CASE l \notin flooding /\ Installs /\ l = Lsu.lsa
      BY <1>1, <1>5, <3>2 DEF Settled
    <3>3. CASE l \notin flooding /\ Installs /\ l # Lsu.lsa
      BY <1>1, <1>5, <2>3, <3>3 DEF Settled
    <3>4. CASE l \notin flooding /\ Leaves
      BY <1>1, <2>3, <3>4 DEF Settled
    <3> QED BY <1>12, <3>1, <3>2, <3>3, <3>4
  <2>4. ReadSettled'
    BY <1>0, <1>1, <2>1, <2>2, <2>3, SettledKept
  <2> QED BY <1>7, <1>10, <2>4 DEF Newest
<1> QED BY <1>3, <1>11, <1>12
-----------------------------------------------------------------------------
\* In ExStart nothing of the exchange is under way or known.
LEMMA ExStartIsEmpty ==
  ASSUME TypeOK, Exchange, routerState = "ExStart"
  PROVE  /\ \A i \in DOMAIN toProbe : ~(toProbe[i].seq > Base)
         /\ \A k \in 1 .. LastPart : ~Evidence(k)
<1>1. /\ part = 0 /\ seq = Base /\ Base \in Nat /\ LastPart \in Nat
      /\ \A i \in DOMAIN toProbe : toProbe[i].seq \in Nat /\ toProbe[i].seq <= seq
  BY Numbers DEF Exchange, Stage, Packets, Describes
<1>2. \A k \in 1 .. LastPart : k \in Nat /\ k > 0 /\ Base + k \in Nat
  BY <1>1
<1> QED BY <1>1, <1>2 DEF Evidence, Exchange, Replies

\* The router sends the headers of what it has.
LEMMA SentIs ==
  ASSUME TypeOK, NEW i, NEW n, toProbe' = Append(toProbe, RouterPart(i, n)),
         RouterPart(i, n) \in Description
  PROVE  \A j \in DOMAIN toProbe' :
           \/ \E m \in DOMAIN toProbe : toProbe'[j] = toProbe[m]
           \/ \A h \in toProbe'[j].lsas : h.inst = own[h.lsa]
<1>1. \A h \in RouterPart(i, n).lsas : h.inst = own[h.lsa]
  BY DEF RouterPart, Headers
<1> DEFINE e == RouterPart(i, n)
<1>2. e \in Description /\ toProbe' = Append(toProbe, e) /\ toProbe \in Seq(Description)
  BY DEF TypeOK
<1>3. \A h \in e.lsas : h.inst = own[h.lsa]
  BY <1>1
<1> HIDE DEF e
<1>4. /\ DOMAIN toProbe' = DOMAIN toProbe \cup {Len(toProbe) + 1}
      /\ toProbe'[Len(toProbe) + 1] = e
      /\ \A j \in DOMAIN toProbe : toProbe'[j] = toProbe[j]
  BY <1>2, AppendedIs
<1> QED BY <1>3, <1>4

LEMMA MasterNewest ==
  ASSUME Inv, SlaveInv, Newest, NotRound, RouterDdAsMaster
  PROVE  Newest'
<1>0. TypeOK /\ Stage /\ Exchange /\ NotAhead /\ FreshPackets /\ ReadSettled
  BY DEF Inv, SlaveInv, Exchange, Newest
<1>1. /\ toRouter # <<>> /\ toRouter' = Tail(toRouter) /\ Head(toRouter).type = "dd"
      /\ UNCHANGED <<state, greeting, lsdb, lsReq, late, own, updates>>
  BY DEF RouterDdAsMaster, Receives, probeVars
<1>2. NotAhead' /\ \A l \in Lsas : Clean(l) => Clean(l)'
  BY <1>0, <1>1 DEF NotAhead, Clean
<1>3. CASE RouterExStart
  <2>1. ~Adjoins(routerState')
    BY <1>3 DEF RouterExStart, Adjoins
  <2> QED BY <1>2, <2>1 DEF Newest, FreshPackets, ReadSettled, Adjoins
<1>4. CASE RouterKeeps /\ UNCHANGED flooding
  <2>1. UNCHANGED <<routerState, seq, part, toProbe>>
    BY <1>4 DEF RouterKeeps
  <2>2. \A n \in Nat : Replied(n)' => Replied(n)
    BY <1>0, <1>1, ReplyTaken
  <2>3. Base' = Base /\ \A k \in 1 .. LastPart : Evidence(k)' => Evidence(k)
    BY <1>0, <2>1, <2>2, EvidenceKept
  <2>4. FreshPackets'
    BY <1>0, <1>1, <1>2, <1>4, <2>1, <2>3, FreshKept
  <2>5. ReadSettled'
    BY <1>0, <1>1, <1>4, <2>1, <2>3, SettledKept DEF Reading, Exchanging, Settled
  <2> QED BY <1>2, <2>4, <2>5 DEF Newest
<1>5. CASE GoesOn /\ UNCHANGED flooding
  <2>1. /\ Base' = Base
        /\ \A k \in 1 .. LastPart : Evidence(k)' => Evidence(k)
        /\ \/ /\ part + 1 \in 1 .. LastPart /\ seq + 1 \in Nat
              /\ toProbe' = Append(toProbe, RouterPart(part + 1, seq + 1))
           \/ UNCHANGED toProbe
    BY <1>0, <1>1, <1>5, GoesOnRead, Numbers
  <2>2. \A j \in DOMAIN toProbe' :
          \/ \E m \in DOMAIN toProbe : toProbe'[j] = toProbe[m]
          \/ \A h \in toProbe'[j].lsas : h.inst = own[h.lsa]
    <3>1. CASE /\ part + 1 \in 1 .. LastPart /\ seq + 1 \in Nat
               /\ toProbe' = Append(toProbe, RouterPart(part + 1, seq + 1))
      BY <1>0, <3>1, PartType, SentIs
    <3> QED BY <2>1, <3>1
  <2>3. CASE routerState = "ExStart"
    <3>1. /\ \A i \in DOMAIN toProbe : ~(toProbe[i].seq > Base)
          /\ \A k \in 1 .. LastPart : ~Evidence(k)
      BY <1>0, <2>3, ExStartIsEmpty
    <3>2. FreshPackets'
      BY <1>1, <2>1, <2>2, <3>1 DEF FreshPackets, Fresh
    <3>3. ReadSettled'
      BY <2>1, <3>1 DEF ReadSettled
    <3> QED BY <1>2, <3>2, <3>3 DEF Newest
  <2>4. CASE Adjoins(routerState)
    <3>1. FreshPackets'
      BY <1>0, <1>1, <1>2, <1>5, <2>1, <2>2, <2>4, FreshKept
    <3>2. ReadSettled'
      BY <1>0, <1>1, <1>5, <2>1, <2>4, SettledKept DEF Reading, Exchanging, Settled
    <3> QED BY <1>2, <3>1, <3>2 DEF Newest
  <2> QED BY <1>5, <2>3, <2>4 DEF GoesOn, Adjoins
<1> QED BY <1>3, <1>4, <1>5 DEF RouterDdAsMaster, GoesOn

LEMMA AgainNewest ==
  ASSUME Inv, Sent, SlaveInv, Newest, RouterDdAgain
  PROVE  Newest'
<1>0. TypeOK /\ Stage /\ Exchange /\ NotAhead /\ FreshPackets /\ ReadSettled
  BY DEF Inv, SlaveInv, Exchange, Newest
<1>1. UNCHANGED <<state, greeting, lsdb, lsReq, late, own, updates, seq, part, routerState,
                  flooding, toRouter>>
  BY DEF RouterDdAgain, probeVars, routerVars
<1>2. NotAhead' /\ \A l \in Lsas : Clean(l) => Clean(l)'
  BY <1>0, <1>1 DEF NotAhead, Clean
<1>3. Base' = Base /\ \A k \in 1 .. LastPart : Evidence(k)' => Evidence(k)
  BY <1>0, <1>1, EvidenceKept DEF Replied, Holds
<1>4. ReadSettled'
  BY <1>0, <1>1, <1>3, SettledKept DEF Reading, Exchanging, Settled
<1>5. FreshPackets'
  <2>1. CASE routerState = "ExStart"
    BY <1>1, <2>1 DEF FreshPackets, Adjoins
  <2>2. CASE routerState = "Exchange" /\ toProbe' = Append(toProbe, RouterPart(part, seq))
    <3>1. part \in 1 .. LastPart /\ seq \in Nat
      BY <1>0, <2>2, Numbers DEF Sent
    <3>2. RouterPart(part, seq) \in Description
      BY <1>0, <3>1, PartType
    <3>3. \A j \in DOMAIN toProbe' :
            \/ \E m \in DOMAIN toProbe : toProbe'[j] = toProbe[m]
            \/ \A h \in toProbe'[j].lsas : h.inst = own[h.lsa]
      BY <1>0, <2>2, <3>2, SentIs
    <3> QED BY <1>0, <1>1, <1>2, <1>3, <3>3, FreshKept
  <2> QED BY <2>1, <2>2 DEF RouterDdAgain
<1> QED BY <1>2, <1>4, <1>5 DEF Newest

\* What changes is flooded.
LEMMA OriginatesNewest ==
  ASSUME Inv, SlaveInv, Newest, NEW l \in Lsas, Originates(l)
  PROVE  Newest'
<1>0. TypeOK /\ Stage /\ Exchange /\ NotAhead /\ FreshPackets /\ ReadSettled
  BY DEF Inv, SlaveInv, Exchange, Newest
<1>1. /\ own' = [own EXCEPT ![l] = own[l] + 1]
      /\ flooding' = IF Adjoins(routerState) THEN flooding \cup {l} ELSE flooding
      /\ UNCHANGED <<state, greeting, lsdb, lsReq, late, updates, seq, part, routerState,
                     toProbe, toRouter>>
  BY DEF Originates, probeVars
<1>2. \A m \in Lsas : /\ own[m] \in Nat /\ own'[m] \in Nat /\ own[m] <= own'[m]
                      /\ own'[m] = own[m] \/ m = l
  BY <1>0, <1>1, InstancesAre
<1>3. NotAhead'
  <2>1. \A m \in Lsas : lsdb'[m] <= own'[m]
    BY <1>0, <1>1, <1>2, InstancesAre DEF NotAhead
  <2>2. ASSUME NEW i \in DOMAIN updates PROVE updates[i].inst <= own'[updates[i].lsa]
    <3> DEFINE m == updates[i].lsa
    <3>1. m \in Lsas /\ updates[i].inst \in Nat /\ updates[i].inst <= own[m]
      BY <1>0, InstancesAre DEF NotAhead
    <3> HIDE DEF m
    <3>2. updates[i].inst <= own'[m]
      BY <1>2, <3>1
    <3> QED BY <3>2 DEF m
  <2> QED BY <1>0, <1>1, <2>1, <2>2 DEF NotAhead
<1>4. Base' = Base /\ \A k \in 1 .. LastPart : Evidence(k)' => Evidence(k)
  BY <1>0, <1>1, EvidenceKept DEF Replied, Holds
<1>5. FreshPackets'
  <2>1. Adjoins(routerState) =>
          \A m \in Lsas : /\ own'[m] = own[m] \/ m \in flooding'
                          /\ m \in flooding \/ Clean(m) => m \in flooding' \/ Clean(m)'
    BY <1>1, <1>2 DEF Clean
  <2> QED BY <1>0, <1>1, <1>4, <2>1, FreshKept
<1>6. ReadSettled'
  <2>1. Adjoins(routerState) => \A m \in Lsas : Settled(m) => Settled(m)'
    BY <1>1, <1>2 DEF Settled
  <2> QED BY <1>0, <1>1, <1>4, <2>1, SettledKept DEF Reading, Exchanging
<1> QED BY <1>3, <1>5, <1>6 DEF Newest

LEMMA OthersNewest ==
  ASSUME Inv, SlaveInv, Newest,
         \/ RouterHears \/ RouterRestarts \/ RouterAnswersLsr \/ Lost
         \/ \E l \in Lsas : Floods(l)
  PROVE  Newest'
<1>0. TypeOK /\ Stage /\ Exchange /\ NotAhead /\ FreshPackets /\ ReadSettled
  BY DEF Inv, SlaveInv, Exchange, Newest
<1>1. /\ \A n \in Nat : Replied(n)' => Replied(n)
      /\ UNCHANGED <<state, greeting, lsdb, lsReq, late>>
  BY <1>0, RouterReplies
<1>2. own' = own
  BY DEF RouterHears, RouterRestarts, RouterAnswersLsr, Receives, Lost, Floods, routerVars
<1>3. \A i \in DOMAIN updates' :
        \/ \E j \in DOMAIN updates : updates'[i] = updates[j]
        \/ updates'[i].lsa \in Lsas /\ updates'[i].inst = own[updates'[i].lsa]
  <2>1. CASE RouterHears \/ RouterRestarts \/ Lost
    <3>1. updates' = updates \/ (updates # <<>> /\ updates' = Tail(updates))
      BY <2>1 DEF RouterHears, RouterRestarts, Lost
    <3> QED BY <1>0, <3>1, UpdatesTaken
  <2>2. CASE RouterAnswersLsr
    <3>1. PICK t \in Seq(Latest) : updates' = updates \o t
      BY <1>0, <2>2, Answered
    <3> QED BY <1>0, <3>1, UpdatesSent
  <2>3. ASSUME NEW l \in Lsas, Floods(l) PROVE \E t \in Seq(Latest) : updates' = updates \o t
    <3> DEFINE e == [lsa |-> l, inst |-> own[l]]
    <3>1. e \in Latest
      BY <1>0 DEF TypeOK, Latest, Update
    <3>2. updates = <<>> /\ updates' = Append(updates, e)
      BY <2>3 DEF Floods
    <3> HIDE DEF e
    <3>3. <<e>> \in Seq(Latest) /\ updates' = updates \o <<e>>
      BY <3>1, <3>2
    <3> QED BY <3>3
  <2>4. CASE \E l \in Lsas : Floods(l)
    BY <1>0, <2>3, <2>4, UpdatesSent
  <2> QED BY <2>1, <2>2, <2>4
<1>4. NotAhead' /\ \A l \in Lsas : Clean(l) => Clean(l)'
  <2>1. \A l \in Lsas : lsdb'[l] <= own[l]
    BY <1>0, <1>1 DEF NotAhead
  <2> QED BY <1>0, <1>1, <1>2, <1>3, <2>1, UpdatesKept DEF Clean
<1>5. \/ ~Adjoins(routerState')
      \/ /\ UNCHANGED <<seq, part, routerState, flooding>>
         /\ toProbe' = toProbe \/ (toProbe # <<>> /\ toProbe' = Tail(toProbe))
  BY DEF RouterHears, RouterExStart, RouterRestarts, RouterAnswersLsr, Receives, Lost, Floods,
         routerVars, Adjoins
<1>6. CASE ~Adjoins(routerState')
  BY <1>4, <1>6 DEF Newest, FreshPackets, ReadSettled, Adjoins
<1>7. CASE /\ UNCHANGED <<seq, part, routerState, flooding>>
           /\ toProbe' = toProbe \/ (toProbe # <<>> /\ toProbe' = Tail(toProbe))
  <2>1. Base' = Base /\ \A k \in 1 .. LastPart : Evidence(k)' => Evidence(k)
    BY <1>0, <1>1, <1>7, EvidenceKept
  <2>2. \A i \in DOMAIN toProbe' : \E j \in DOMAIN toProbe : toProbe'[i] = toProbe[j]
    BY <1>0, <1>7, Fewer DEF Exchange
  <2>3. FreshPackets'
    BY <1>0, <1>2, <1>4, <1>7, <2>1, <2>2, FreshKept
  <2>4. ReadSettled'
    BY <1>0, <1>1, <1>2, <1>7, <2>1, SettledKept DEF Reading, Exchanging, Settled
  <2> QED BY <1>4, <2>3, <2>4 DEF Newest
<1> QED BY <1>5, <1>6, <1>7

\* The workers take the updates in either order.
LEMMA OvertakesNewest ==
  ASSUME Inv, SlaveInv, Newest, Overtakes
  PROVE  Newest'
<1>0. TypeOK /\ Stage /\ NotAhead /\ FreshPackets /\ ReadSettled
  BY DEF Inv, SlaveInv, Exchange, Newest
<1>1. UNCHANGED <<state, greeting, lsdb, lsReq, late, own, seq, part, routerState, flooding,
                  toProbe, toRouter>>
  BY DEF Overtakes, probeVars, routerVars
<1>2. NotAhead'
  <2>1. updates' = Swapped /\ Len(updates) > 1 /\ updates \in Seq(Update)
    BY <1>0 DEF Overtakes, Swapped, TypeOK
  <2>2. \A i \in DOMAIN updates' : \E j \in DOMAIN updates : updates'[i] = updates[j]
    BY <2>1, SwappedIs
  <2>3. \A l \in Lsas : lsdb'[l] <= own[l]
    BY <1>0, <1>1 DEF NotAhead
  <2> QED BY <1>0, <1>1, <2>2, <2>3, UpdatesKept
<1>3. FreshPackets' /\ ReadSettled'
  BY <1>0, <1>1
     DEF FreshPackets, ReadSettled, Adjoins, Fresh, Clean, Settled, Reading, Exchanging, Evidence, Base,
         Replied, Holds
<1> QED BY <1>2, <1>3 DEF Newest
-----------------------------------------------------------------------------
\* What the workers that are left are to acknowledge.
LEMMA EndedKept ==
  ASSUME TypeOK, Pending,
         \A i \in DOMAIN finishing' : \E j \in DOMAIN finishing : finishing'[i] = finishing[j],
         \A l \in Lsas : own'[l] = own[l] \/ own'[l] = own[l] + 1,
         \A l \in Lsas : own'[l] = own[l] /\ l \in flooding' =>
                           l \in flooding /\ (lsdb[l] = own[l] => lsdb'[l] = own[l])
  PROVE  Pending'
<1> SUFFICES ASSUME NEW i \in DOMAIN finishing' PROVE Ended(finishing'[i], own', flooding', lsdb')
  BY DEF Pending
<1>1. PICK j \in DOMAIN finishing : finishing'[i] = finishing[j]
  OBVIOUS
<1> DEFINE u == finishing[j]
<1>2. u.lsa \in Lsas /\ u.inst \in Nat /\ own[u.lsa] \in Nat
  BY InstancesAre
<1>3. Ended(u, own, flooding, lsdb)
  BY DEF Pending
<1> HIDE DEF u
<1>4. u.inst <= own'[u.lsa]
  BY <1>2, <1>3 DEF Ended
<1>5. ASSUME u.inst = own'[u.lsa], u.lsa \in flooding' PROVE lsdb'[u.lsa] = own'[u.lsa]
  <2>1. own'[u.lsa] = own[u.lsa]
    BY <1>2, <1>3, <1>5 DEF Ended
  <2> QED BY <1>2, <1>3, <1>5, <2>1 DEF Ended
<1>6. finishing'[i] = u
  BY <1>1 DEF u
<1> QED BY <1>4, <1>5, <1>6 DEF Ended

LEMMA PendingKept ==
  ASSUME Inv, NotAhead, Unheard, Pending, [Next]_vars
  PROVE  Pending'
<1>0. TypeOK
  BY DEF Inv
<1>1. CASE UNCHANGED <<finishing, own, lsdb>> /\ flooding' \subseteq flooding
  BY <1>0, <1>1, EndedKept
<1>2. CASE UNCHANGED <<finishing, own>> /\ flooding' = {}
  BY <1>0, <1>2, EndedKept
<1>3. CASE HelloTwoWay \/ HelloOneWay \/ Dead \/ FirstDdAgain \/ RequestsEnd
           \/ \E list \in Resent : RequestAgain(list)
  <2>1. /\ UNCHANGED <<own, flooding>>
        /\ \/ UNCHANGED <<lsdb, late, finishing>>
           \/ lsdb' = Nothing /\ UNCHANGED finishing /\ ~heard
           \/ lsdb' = Nothing /\ finishing' = <<>>
    BY <1>0, <1>3, HelloReplies
  <2>2. CASE finishing' = <<>>
    BY <2>2 DEF Pending
  <2>3. CASE UNCHANGED finishing /\ ~heard
    BY <1>2, <2>1, <2>3 DEF Unheard
  <2> QED BY <1>1, <2>1, <2>2, <2>3
<1>4. CASE CheckDd
  BY <1>1, <1>4 DEF CheckDd, DdIgnored, DdInInit, DdNegotiates, DdExchange, DdMismatch, Loads,
                    Starts, routerVars, probeVars, threadVars
<1>5. CASE CheckLsu
  <2>1. flooding' \subseteq flooding
    BY <1>0, <1>5, LsuFloods
  <2>2. CASE \E i \in DOMAIN finishing : Worker(i)
    <3>1. PICK i \in DOMAIN finishing : Worker(i)
      BY <2>2
    <3>2. finishing' = RemoveAt(finishing, i) /\ UNCHANGED <<own, lsdb>>
      BY <3>1 DEF Worker, LsuFinished, LsuEndsWorker, routerVars
    <3>3. \A j \in DOMAIN finishing' : \E k \in DOMAIN finishing : finishing'[j] = finishing[k]
      BY <1>0, <3>2, RemovedIs, InstancesAre
    <3> QED BY <1>0, <2>1, <3>2, <3>3, EndedKept
  <2>3. CASE LsuInstalled
    <3>1. /\ Lsu \in Update /\ Lsu.lsa \in Lsas /\ Lsu.inst \in Nat /\ own[Lsu.lsa] \in Nat
          /\ Lsu.inst <= own[Lsu.lsa]
      BY <1>0, <2>3, LsuIs DEF LsuInstalled, Handles
    <3>2. /\ lsdb' = [lsdb EXCEPT ![Lsu.lsa] = Lsu.inst] /\ lsdb[Lsu.lsa] < Lsu.inst
          /\ own' = own /\ lsdb \in [Lsas -> Nat]
          /\ finishing' = finishing \/ finishing' = Append(finishing, Lsu)
      BY <1>0, <2>3, InstancesAre DEF LsuInstalled, Install, IsNewer
    <3>3. \A l \in Lsas : lsdb[l] = own[l] => lsdb'[l] = own[l]
      BY <3>1, <3>2
    <3>4. CASE finishing' = finishing
      BY <1>0, <2>1, <3>2, <3>3, <3>4, EndedKept
    <3>5. CASE finishing' = Append(finishing, Lsu)
      <4>1. /\ DOMAIN finishing' = DOMAIN finishing \cup {Len(finishing) + 1}
            /\ finishing'[Len(finishing) + 1] = Lsu
            /\ \A i \in DOMAIN finishing : finishing'[i] = finishing[i]
        BY <1>0, <3>1, <3>5, AppendedIs, InstancesAre
      <4>2. Ended(Lsu, own', flooding', lsdb')
        BY <3>1, <3>2 DEF Ended, Lsu
      <4>3. ASSUME NEW j \in DOMAIN finishing
            PROVE  Ended(finishing[j], own', flooding', lsdb')
        <5>1. Ended(finishing[j], own, flooding, lsdb) /\ finishing[j].lsa \in Lsas
          BY <1>0, InstancesAre DEF Pending
        <5> QED BY <2>1, <3>2, <3>3, <5>1 DEF Ended
      <4> QED BY <4>1, <4>2, <4>3 DEF Pending
    <3> QED BY <3>2, <3>4, <3>5
  <2>4. CASE LsuDropped \/ LsuOfNobody \/ LsuAcknowledged \/ LsuMismatch
    BY <1>1, <2>1, <2>4 DEF LsuDropped, LsuOfNobody, LsuAcknowledged, LsuMismatch, routerVars,
                            probeVars, threadVars
  <2> QED BY <1>5, <2>2, <2>3, <2>4 DEF CheckLsu, Worker
<1>6. CASE RouterHears \/ RouterRestarts \/ RouterDdAgain \/ Lost \/ RouterAnswersLsr
           \/ (\E l \in Lsas : Floods(l)) \/ Overtakes
  BY <1>1, <1>2, <1>6
     DEF RouterHears, RouterExStart, RouterRestarts, RouterDdAgain, Lost, RouterAnswersLsr,
         Receives, Floods, Overtakes, routerVars, probeVars, threadVars
<1>7. CASE RouterDdAsMaster \/ RouterDdAsSlave
  <2>1. Receives("dd") /\ (flooding' = flooding \/ flooding' = {})
    BY <1>7 DEF RouterDdAsMaster, RouterDdAsSlave, RouterExStart
  <2> QED BY <1>1, <1>2, <2>1 DEF Receives, probeVars, threadVars
<1>8. ASSUME NEW l \in Lsas, Originates(l) PROVE Pending'
  <2>1. /\ UNCHANGED <<finishing, lsdb>> /\ flooding' \subseteq flooding \cup {l}
        /\ own' = [own EXCEPT ![l] = own[l] + 1] /\ own \in [Lsas -> Nat]
    BY <1>0, <1>8, InstancesAre DEF Originates, probeVars, threadVars
  <2>2. \A m \in Lsas : own'[m] = own[m] \/ own'[m] = own[m] + 1
    BY <2>1
  <2>3. \A m \in Lsas : own'[m] = own[m] => m # l
    BY <2>1
  <2>4. \A m \in Lsas : own'[m] = own[m] /\ m \in flooding' => m \in flooding
    BY <2>1, <2>3
  <2> QED BY <1>0, <2>1, <2>2, <2>4, EndedKept
<1>9. CASE UNCHANGED vars
  BY <1>1, <1>9 DEF vars, routerVars, probeVars, threadVars
<1> QED BY <1>3, <1>4, <1>5, <1>6, <1>7, <1>8, <1>9 DEF Next, Probe, Router, RouterReads

LEMMA UnheardKept ==
  ASSUME Inv, NotAhead, Unheard, Pending, [Next]_vars
  PROVE  Unheard'
<1>0. TypeOK
  BY DEF Inv
<1>1. CASE UNCHANGED <<heard, routerState>> /\ flooding' \subseteq flooding
  BY <1>1 DEF Unheard
<1>2. CASE HelloTwoWay \/ HelloOneWay \/ Dead \/ FirstDdAgain \/ RequestsEnd
           \/ \E list \in Resent : RequestAgain(list)
  BY <1>0, <1>1, <1>2, HelloReplies
<1>3. CASE CheckDd \/ Overtakes
  BY <1>1, <1>3 DEF CheckDd, DdIgnored, DdInInit, DdNegotiates, DdExchange, DdMismatch, Loads,
                    Starts, Overtakes, routerVars
<1>4. CASE CheckLsu
  <2>1. UNCHANGED <<heard, routerState>>
    BY <1>4, ProbeLeavesRouter DEF Probe
  <2> QED BY <1>0, <1>1, <1>4, <2>1, LsuFloods
<1>5. CASE RouterHears \/ RouterRestarts
  BY <1>5 DEF RouterHears, RouterRestarts, Unheard
<1>6. CASE RouterDdAgain \/ Lost \/ RouterAnswersLsr \/ \E l \in Lsas : Floods(l)
  BY <1>1, <1>6 DEF RouterDdAgain, Lost, RouterAnswersLsr, Receives, Floods, routerVars
<1>7. CASE RouterDdAsMaster \/ RouterDdAsSlave
  <2>1. Receives("dd")
    BY <1>7 DEF RouterDdAsMaster, RouterDdAsSlave
  <2>2. routerState = "Down" => UNCHANGED <<routerState, flooding>>
    BY <1>7 DEF RouterDdAsMaster, RouterDdAsSlave, RouterKeeps, Adjoins
  <2> QED BY <2>1, <2>2 DEF Receives, Unheard
<1>8. CASE \E l \in Lsas : Originates(l)
  BY <1>8 DEF Originates, Adjoins, Unheard
<1>9. CASE UNCHANGED vars
  BY <1>1, <1>9 DEF vars, routerVars
<1> QED BY <1>2, <1>3, <1>4, <1>5, <1>6, <1>7, <1>8, <1>9 DEF Next, Probe, Router, RouterReads
-----------------------------------------------------------------------------
NewestInv == DescribedInv /\ (probeMaster \/ (Newest /\ Unheard /\ Pending))

LEMMA NewestInit == Init => NewestInv
<1> SUFFICES ASSUME Init PROVE NewestInv
  OBVIOUS
<1>1. /\ updates = <<>> /\ routerState = "Down" /\ lsdb = Nothing
      /\ own = [l \in Lsas |-> 1] /\ DescribedInv
  BY DescribedInit DEF Init
<1>2. NotAhead
  <2>1. DOMAIN updates = {}
    BY <1>1
  <2> QED BY <1>1, <2>1 DEF NotAhead, Nothing
<1>3. Unheard /\ Pending
  BY DEF Init, Unheard, Pending
<1> QED BY <1>1, <1>2, <1>3 DEF NewestInv, Newest, FreshPackets, ReadSettled, Adjoins

LEMMA NewestNext == NewestInv /\ NotRound /\ [Next]_vars => NewestInv'
<1> SUFFICES ASSUME NewestInv, NotRound, [Next]_vars PROVE NewestInv'
  OBVIOUS
<1>1. DescribedInv' /\ probeMaster' = probeMaster /\ Inv /\ Sent /\ (probeMaster \/ SlaveInv)
  BY DescribedNext, RolesKept DEF NewestInv, DescribedInv
<1>2. ASSUME ~probeMaster PROVE Newest'
  <2>0. SlaveInv /\ Newest /\ Pending
    BY <1>1, <1>2 DEF NewestInv
  <2>1. CASE HelloTwoWay \/ HelloOneWay \/ Dead \/ FirstDdAgain \/ RequestsEnd
             \/ \E list \in Resent : RequestAgain(list)
    BY <1>1, <2>0, <2>1, HelloNewest
  <2>2. CASE CheckDd
    BY <1>1, <2>0, <2>2, DdNewest, LoadingNewest DEF CheckDd, DdReads
  <2>3. CASE CheckLsu
    BY <1>1, <2>0, <2>3, LsuNewest
  <2>4. CASE RouterDdAsMaster
    BY <1>1, <2>0, <2>4, MasterNewest
  <2>5. CASE RouterDdAgain
    BY <1>1, <2>0, <2>5, AgainNewest
  <2>6. CASE \E l \in Lsas : Originates(l)
    BY <1>1, <2>0, <2>6, OriginatesNewest
  <2>7. CASE \/ RouterHears \/ RouterRestarts \/ RouterAnswersLsr \/ Lost
             \/ \E l \in Lsas : Floods(l)
    BY <1>1, <2>0, <2>7, OthersNewest
  <2>8. CASE UNCHANGED vars
    BY <2>0, <2>8
       DEF vars, probeVars, routerVars, Newest, NotAhead, FreshPackets, ReadSettled, Adjoins,
           Fresh, Clean, Settled, Reading, Exchanging, Evidence, Base, Replied, Holds
  <2>9. ~RouterDdAsSlave
    BY <1>2 DEF RouterDdAsSlave
  <2>10. CASE Overtakes
    BY <1>1, <2>0, <2>10, OvertakesNewest
  <2> QED BY <2>1, <2>2, <2>3, <2>4, <2>5, <2>6, <2>7, <2>8, <2>9, <2>10
          DEF Next, Probe, Router, RouterReads
<1>3. ASSUME ~probeMaster PROVE Unheard' /\ Pending'
  BY <1>1, <1>3, UnheardKept, PendingKept DEF NewestInv, Newest
<1> QED BY <1>1, <1>2, <1>3 DEF NewestInv

(***************************************************************************)
(* As slave, a probe that is Full with a router that is Full and floods    *)
(* nothing to it has the router's database (exchange.py, check_dd;         *)
(* flood.py, check_lsu) but for the LSAs whose update was late: for any    *)
(* database, any number of changes, losses and restarts, in whatever order *)
(* the workers handle the updates, until the router's sequence number      *)
(* comes round.                                                            *)
(***************************************************************************)
THEOREM FullIsSynced == Spec /\ []NotRound => []Synced
<1>1. NewestInv => Synced
  <2> SUFFICES ASSUME NewestInv, BothFull, ~probeMaster, ~greeting, flooding = {},
                      NEW l \in Lsas \ (late \cup overtaken)
               PROVE  lsdb[l] = own[l]
    BY DEF Synced
  <2>1. /\ TypeOK /\ Stage /\ ReadSettled /\ Wanted \subseteq overtaken
        /\ routerState = "Full" /\ Reading
    BY DEF NewestInv, Newest, DescribedInv, Inv, SlaveInv, Exchange, Emptied, BothFull,
           Reading, Exchanging
  <2>2. PICK k \in 1 .. LastPart : l \in Parts[k]
    BY AdjacencyAssumption DEF Lsas, LastPart, Range
  <2>3. part = LastPart /\ LastPart \in Nat /\ k \in Nat /\ k <= LastPart
    BY <2>1, Numbers DEF Stage
  <2>4. part > k \/ part = k
    BY <2>3
  <2>5. Evidence(k)
    BY <2>1, <2>4 DEF Evidence
  <2>6. Settled(l)
    BY <2>1, <2>2, <2>5 DEF ReadSettled, Adjoins
  <2> QED BY <2>1, <2>6 DEF Settled, Wanted
<1> QED BY <1>1, NewestInit, NewestNext, PTL DEF Spec
=============================================================================
