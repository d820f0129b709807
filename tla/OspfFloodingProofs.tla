------------------------- MODULE OspfFloodingProofs -------------------------
(***************************************************************************)
(* Proofs about OspfFlooding: its types, and that what the network manager *)
(* was told last is what is in the database once all is quiet, unless the  *)
(* threads raced.                                                          *)
(***************************************************************************)
EXTENDS OspfFlooding, FiniteSetTheorems, TLAPS

\* Induction over the numbers, from counting.
LEMMA FromZeroUp ==
  ASSUME NEW S, 0 \in S, \A n \in Nat : n \in S => n + 1 \in S
  PROVE  \A n \in Nat : n \in S
<1> SUFFICES ASSUME NEW m \in Nat, m \notin S PROVE FALSE
  OBVIOUS
<1> DEFINE T == { n \in 0 .. m : n \in S }
           up == [n \in T |-> n + 1]
<1>1. IsFiniteSet(T)
  <2>1. IsFiniteSet(0 .. m)
    BY FS_Interval
  <2>2. T \in SUBSET (0 .. m)
    OBVIOUS
  <2> HIDE DEF T
  <2> QED BY <2>1, <2>2, FS_Subset
<1>2. up \in Injection(T, T \ {0})
  <2>1. \A n \in T : n + 1 \in T \ {0}
    OBVIOUS
  <2> QED BY <2>1 DEF Injection, IsInjective
<1>3. /\ IsFiniteSet(T \ {0}) /\ Cardinality(T \ {0}) = Cardinality(T) - 1
      /\ Cardinality(T) \in Nat
  <2>1. 0 \in T
    OBVIOUS
  <2> HIDE DEF T
  <2> QED BY <1>1, <2>1, FS_RemoveElement, FS_CardinalityType
<1>4. Cardinality(T) <= Cardinality(T \ {0})
  <2> HIDE DEF T, up
  <2> QED BY <1>2, <1>3, FS_Injection
<1> QED BY <1>3, <1>4

\* A set of numbers that is not empty has a first one.
LEMMA FirstIs ==
  ASSUME NEW T \in SUBSET Nat, T # {}
  PROVE  First(T) \in T
<1> DEFINE S == { m \in Nat : \A U \in SUBSET Nat :
                    (\E x \in U : x <= m) => \E x \in U : \A y \in U : x <= y }
<1>1. 0 \in S
  <2> SUFFICES ASSUME NEW U \in SUBSET Nat, NEW z \in U, z <= 0
               PROVE  \E x \in U : \A y \in U : x <= y
    OBVIOUS
  <2>1. z = 0
    OBVIOUS
  <2>2. \A y \in U : z <= y
    BY <2>1
  <2> QED BY <2>2
<1>2. ASSUME NEW m \in Nat, m \in S PROVE m + 1 \in S
  <2> SUFFICES ASSUME NEW U \in SUBSET Nat, NEW z \in U, z <= m + 1
               PROVE  \E x \in U : \A y \in U : x <= y
    OBVIOUS
  <2>1. CASE \E x \in U : x <= m
    BY <1>2, <2>1
  <2>2. CASE ~ \E x \in U : x <= m
    <3>1. \A y \in U : z <= y
      BY <2>2
    <3> QED BY <3>1
  <2> QED BY <2>1, <2>2
<1>3. \A n \in Nat : n \in S
  <2> HIDE DEF S
  <2> QED BY <1>1, <1>2, FromZeroUp
<1>4. PICK z \in T : TRUE
  OBVIOUS
<1>5. z \in Nat /\ z <= z /\ z \in S
  <2>1. z \in Nat
    BY <1>4
  <2>2. z <= z
    BY <2>1
  <2> HIDE DEF S
  <2> QED BY <1>3, <2>1, <2>2
<1>6. \E x \in T : \A y \in T : x <= y
  BY <1>4, <1>5
<1> QED BY <1>6 DEF First

LEMMA EntriesAreFinite ==
  IsFiniteSet(Entries) /\ Cardinality(Entries) \in Nat
<1>1. Entries \in SUBSET Lsas
  BY DEF Entries
<1> QED BY <1>1, FloodingAssumption, FS_Subset, FS_CardinalityType
-----------------------------------------------------------------------------
(***************************************************************************)
(* Types.  A worker has a packet in hand while it carries a task out.      *)
(***************************************************************************)
InHandInv ==
  \A w \in Workers : workerAt[w] \in {"task", "install", "ack"} => job[w] \in Packets

TypeInv == TypeOK /\ InHandInv

LEMMA TypesFromInit ==
  ASSUME Init
  PROVE  TypeInv
<1>1. TimerTypeOK
  BY DEF Init, TimerInit, TimerTypeOK, Statement
<1>2. PoolTypeOK /\ InHandInv
  <2>1. tasks \in Seq(Packets)
    BY DEF Init, PoolInit
  <2> QED BY <2>1 DEF Init, PoolInit, PoolTypeOK, InHandInv, WorkerStatement
<1>3. NoLinks \in Database /\ NoLinks \in [Lsas -> 0 .. MaxInstances]
  <2>1. MaxInstances \in Nat
    BY FloodingAssumption
  <2>2. 0 \in 0 .. MaxInstances
    BY <2>1
  <2> QED BY <2>2 DEF NoLinks, Database
<1>4. links \in [Timers -> Database]
  BY <1>3 DEF Init
<1>5. /\ callAt \in [Callers -> {"none", "test", "create", "launch", "raise",
                                 "bell", "dead"}]
      /\ target \in [Callers -> Timers \cup {0}]
  BY DEF Init
<1>6. /\ lsdb \in Database /\ published \in Database
      /\ sent \in [Lsas -> 0 .. MaxInstances]
  BY <1>3 DEF Init
<1> QED BY <1>1, <1>2, <1>4, <1>5, <1>6 DEF Init, TypeInv, TypeOK

\* What is left alone keeps its type.
areaTypes ==
  /\ holdTimer \in Timers \cup {0}
  /\ callAt \in [Callers -> {"none", "test", "create", "launch", "raise",
                             "bell", "dead"}]
  /\ target \in [Callers -> Timers \cup {0}]

computeTypes ==
  /\ todo \in [Timers -> SUBSET Lsas]
  /\ size \in [Timers -> Nat]
  /\ links \in [Timers -> Database]
  /\ published \in Database

envTypes ==
  /\ unacked \in SUBSET Packets
  /\ sent \in [Lsas -> 0 .. MaxInstances]
  /\ agings \in Nat

restTypes == lsdb \in Database /\ aging \in SUBSET Lsas /\ raced \in BOOLEAN

LEMMA TypeParts ==
  /\ TypeInv <=> /\ TimerTypeOK /\ PoolTypeOK /\ InHandInv
                 /\ areaTypes /\ computeTypes /\ envTypes /\ restTypes
  /\ TypeInv' <=> /\ TimerTypeOK' /\ PoolTypeOK' /\ InHandInv'
                  /\ areaTypes' /\ computeTypes' /\ envTypes' /\ restTypes'
BY DEF TypeInv, TypeOK, areaTypes, computeTypes, envTypes, restTypes

LEMMA LeftAlone ==
  /\ TimerTypeOK /\ UNCHANGED timerVars => TimerTypeOK'
  /\ PoolTypeOK /\ InHandInv /\ UNCHANGED poolVars => PoolTypeOK' /\ InHandInv'
  /\ areaTypes /\ UNCHANGED areaVars => areaTypes'
  /\ computeTypes /\ UNCHANGED computeVars => computeTypes'
  /\ envTypes /\ UNCHANGED envVars => envTypes'
<1>1. TimerTypeOK /\ UNCHANGED timerVars => TimerTypeOK'
  BY DEF TimerTypeOK, timerVars
<1>2. PoolTypeOK /\ InHandInv /\ UNCHANGED poolVars => PoolTypeOK' /\ InHandInv'
  BY DEF PoolTypeOK, poolVars, InHandInv
<1>3. areaTypes /\ UNCHANGED areaVars => areaTypes'
  BY DEF areaTypes, areaVars
<1>4. computeTypes /\ UNCHANGED computeVars => computeTypes'
  BY DEF computeTypes, computeVars
<1>5. envTypes /\ UNCHANGED envVars => envTypes'
  BY DEF envTypes, envVars
<1> QED BY <1>1, <1>2, <1>3, <1>4, <1>5

LEMMA TimerMoves ==
  ASSUME TimerTypeOK, NEW t \in Timers, TimerStep(t)
  PROVE  TimerTypeOK'
<1> USE DEF TimerTypeOK, At, To, Statement
<1>1. CASE InnerTest(t)
  BY <1>1 DEF InnerTest
<1>2. CASE ClearEvent(t)
  BY <1>2 DEF ClearEvent
<1>3. CASE LowerFlag(t)
  BY <1>3 DEF LowerFlag
<1>4. CASE WaitEnds(t)
  BY <1>4 DEF WaitEnds
<1>5. CASE ActionTest(t)
  BY <1>5 DEF ActionTest
<1>6. CASE AfterAction(t)
  BY <1>6 DEF AfterAction
<1>7. CASE End(t)
  BY <1>7 DEF End
<1> QED BY <1>1, <1>2, <1>3, <1>4, <1>5, <1>6, <1>7 DEF TimerStep

LEMMA WorkerMoves ==
  ASSUME PoolTypeOK, InHandInv, NEW w \in Workers, PoolStep(w)
  PROVE  PoolTypeOK' /\ InHandInv'
<1> USE DEF PoolTypeOK, InHandInv, WorkerTo, WorkerStatement
<1>1. CASE WorkerStarts(w)
  BY <1>1 DEF WorkerStarts
<1>2. CASE WorkerLooks(w)
  BY <1>2 DEF WorkerLooks
<1>3. CASE WorkerPops(w)
  <2>1. CASE tasks = <<>>
    BY <1>3, <2>1 DEF WorkerPops
  <2>2. CASE tasks # <<>>
    <3>1. Head(tasks) \in Packets /\ Tail(tasks) \in Seq(Packets)
      BY <2>2
    <3>2. /\ workerAt' = [workerAt EXCEPT ![w] = "task"]
          /\ job' = [job EXCEPT ![w] = Head(tasks)] /\ tasks' = Tail(tasks)
          /\ UNCHANGED <<busy, bell, choosing, waking>>
      BY <1>3, <2>2 DEF WorkerPops
    <3>3. job' \in [Workers -> Packets \cup {<<>>}]
      BY <3>1, <3>2
    <3>4. InHandInv'
      BY <3>1, <3>2
    <3> QED BY <3>1, <3>2, <3>3, <3>4
  <2> QED BY <2>1, <2>2
<1>4. CASE WorkerIdle(w)
  BY <1>4 DEF WorkerIdle
<1>5. CASE WorkerClears(w)
  BY <1>5 DEF WorkerClears
<1> QED BY <1>1, <1>2, <1>3, <1>4, <1>5 DEF PoolStep

LEMMA AdderMoves ==
  ASSUME PoolTypeOK, InHandInv, Adder
  PROVE  PoolTypeOK' /\ InHandInv'
<1>1. CASE ChooseWorker
  <2> DEFINE free == {w \in Created : ~busy[w]}
             new == Workers \ Created
  <2>1. free \in SUBSET Nat /\ new \in SUBSET Nat /\ free \in SUBSET Workers
    BY WorkerAssumption DEF Created
  <2>2. free # {} => First(free) \in Workers
    BY <2>1, FirstIs
  <2>3. new # {} => First(new) \in Workers
    BY <2>1, FirstIs
  <2>4. waking' = IF free # {} THEN First(free) ELSE IF new # {} THEN First(new) ELSE 0
    BY <1>1 DEF ChooseWorker
  <2>5. waking' \in Workers \cup {0}
    <3> HIDE DEF free, new
    <3> QED BY <2>2, <2>3, <2>4
  <2> QED BY <1>1, <2>5 DEF ChooseWorker, PoolTypeOK, InHandInv
<1>2. CASE Work
  BY <1>2 DEF Work, Starts, PoolTypeOK, InHandInv, WorkerStatement
<1> QED BY <1>1, <1>2 DEF Adder

LEMMA TimersMakeTypes ==
  ASSUME TypeInv, NEW c \in Callers, TopoChange(c)
  PROVE  /\ TimerTypeOK' /\ PoolTypeOK' /\ InHandInv' /\ areaTypes'
         /\ raced' \in BOOLEAN
<1> USE DEF CallTo, areaTypes
<1>0. /\ TimerTypeOK /\ PoolTypeOK /\ InHandInv /\ areaTypes /\ restTypes
      /\ raced \in BOOLEAN
  BY TypeParts DEF restTypes
<1>1. CASE TestHoldTimer(c)
  <2>1. holdTimer # 0 => stopFlag[holdTimer] \in BOOLEAN
    BY <1>0 DEF TimerTypeOK
  <2>2. areaTypes'
    BY <1>0, <1>1 DEF TestHoldTimer
  <2> QED BY <1>0, <1>1, <2>2, LeftAlone DEF TestHoldTimer
<1>2. CASE CreateHoldTimer(c)
  <2>1. PICK t \in Timers : Make(t) /\ holdTimer' = t
                            /\ raced' = (raced \/ \E u \in Timers : Undecided(u))
    BY <1>2 DEF CreateHoldTimer
  <2>2. TimerTypeOK'
    BY <1>0, <2>1 DEF Make, To, TimerTypeOK, Statement
  <2>3. areaTypes'
    BY <1>0, <1>2, <2>1 DEF CreateHoldTimer
  <2> QED BY <1>0, <1>2, <2>1, <2>2, <2>3, LeftAlone DEF CreateHoldTimer
<1>3. CASE StartHoldTimer(c)
  <2>1. TimerTypeOK'
    BY <1>0, <1>3 DEF StartHoldTimer, Start, At, To, TimerTypeOK, Statement
  <2>2. areaTypes'
    BY <1>0, <1>3 DEF StartHoldTimer
  <2> QED BY <1>0, <1>3, <2>1, <2>2, LeftAlone DEF StartHoldTimer
<1>4. CASE StartAgain(c)
  <2>1. PoolTypeOK' /\ InHandInv'
    <3>1. CASE c = Ager
      BY <1>0, <1>4, <3>1 DEF StartAgain, PoolTypeOK, InHandInv
    <3>2. CASE c # Ager
      <4>1. c \in Workers
        BY <3>2 DEF Callers
      <4> QED BY <1>0, <1>4, <3>2, <4>1
              DEF StartAgain, WorkerTo, PoolTypeOK, InHandInv, WorkerStatement
    <3> QED BY <3>1, <3>2
  <2>2. areaTypes'
    BY <1>0, <1>4 DEF StartAgain
  <2> QED BY <1>0, <1>4, <2>1, <2>2, LeftAlone DEF StartAgain
<1>5. CASE ResetHoldTimer(c)
  <2>1. PICK t \in {target[c], holdTimer} :
          /\ target' = [target EXCEPT ![c] = t]
          /\ ResetRaise(t)
          /\ raced' = (raced \/ TooLate(t))
    BY <1>5 DEF ResetHoldTimer
  <2>2. t \in Timers \cup {0}
    BY <1>0, <2>1
  <2>3. TimerTypeOK'
    BY <1>0, <2>1 DEF ResetRaise, TimerTypeOK
  <2>4. areaTypes'
    BY <1>0, <1>5, <2>1, <2>2 DEF ResetHoldTimer
  <2>5. raced' \in BOOLEAN
    <3>1. TooLate(t) \in BOOLEAN
      BY DEF TooLate
    <3> QED BY <1>0, <2>1, <3>1
  <2> QED BY <1>0, <1>5, <2>3, <2>4, <2>5, LeftAlone DEF ResetHoldTimer
<1>6. CASE SignalHoldTimer(c)
  <2>1. TimerTypeOK'
    BY <1>0, <1>6 DEF SignalHoldTimer, ResetSignal, TimerTypeOK
  <2>2. areaTypes'
    BY <1>0, <1>6 DEF SignalHoldTimer
  <2> QED BY <1>0, <1>6, <2>1, <2>2, LeftAlone DEF SignalHoldTimer
<1> QED BY <1>1, <1>2, <1>3, <1>4, <1>5, <1>6 DEF TopoChange

\* A signal leaves the rest alone.
LEMMA TopoChangeFrame ==
  ASSUME NEW c, TopoChange(c)
  PROVE  UNCHANGED <<lsdb, aging, computeVars, envVars>>
BY DEF TopoChange, TestHoldTimer, CreateHoldTimer, StartHoldTimer, StartAgain,
       ResetHoldTimer, SignalHoldTimer

LEMMA TopoChangeTypes ==
  ASSUME TypeInv, NEW c \in Callers, TopoChange(c)
  PROVE  TypeInv'
<1>1. UNCHANGED <<lsdb, aging, computeVars, envVars>>
  BY TopoChangeFrame
<1>2. TimerTypeOK' /\ PoolTypeOK' /\ InHandInv' /\ areaTypes' /\ raced' \in BOOLEAN
  BY TimersMakeTypes
<1>3. computeTypes' /\ envTypes'
  BY <1>1, TypeParts, LeftAlone
<1>4. restTypes'
  BY <1>1, <1>2, TypeParts DEF restTypes
<1> QED BY <1>2, <1>3, <1>4, TypeParts

LEMMA ComputeTypes ==
  ASSUME TypeInv, NEW t \in Timers, ComputeChange(t)
  PROVE  TypeInv'
<1> USE DEF At, To
<1>0. /\ TimerTypeOK /\ PoolTypeOK /\ InHandInv
      /\ areaTypes /\ computeTypes /\ envTypes /\ restTypes
  BY TypeParts
<1>00. NoLinks \in Database
  <2>1. MaxInstances \in Nat
    BY FloodingAssumption
  <2>2. 0 \in 0 .. MaxInstances
    BY <2>1
  <2> QED BY <2>2 DEF NoLinks, Database
<1>01. UNCHANGED <<poolVars, lsdb, areaVars, aging, envVars, raced>>
  BY DEF ComputeChange, ComputeBegins, ComputeReads, ComputePublishes, ComputeFails
<1>02. PoolTypeOK' /\ InHandInv' /\ areaTypes' /\ envTypes' /\ restTypes'
  BY <1>0, <1>01, LeftAlone DEF restTypes
<1>1. CASE ComputeBegins(t)
  <2>1. TimerTypeOK'
    BY <1>0, <1>1 DEF ComputeBegins, TimerTypeOK, Statement
  <2>2. Entries \in SUBSET Lsas /\ Cardinality(Entries) \in Nat
    BY EntriesAreFinite DEF Entries
  <2>3. computeTypes'
    BY <1>0, <1>00, <1>1, <2>2 DEF ComputeBegins, computeTypes
  <2> QED BY <1>02, <2>1, <2>3, TypeParts
<1>2. CASE ComputeReads(t)
  <2>1. PICK l \in todo[t] \cap Entries :
          /\ todo' = [todo EXCEPT ![t] = @ \ {l}]
          /\ links' = [links EXCEPT ![t][l] = lsdb[l]]
    BY <1>2 DEF ComputeReads
  <2>2. l \in Lsas /\ lsdb[l] \in 0 .. MaxInstances
    BY <1>0, <2>1 DEF Entries, restTypes, Database
  <2>3. links' \in [Timers -> Database]
    BY <1>0, <2>1, <2>2 DEF computeTypes, Database
  <2>4. todo' \in [Timers -> SUBSET Lsas]
    BY <1>0, <2>1 DEF computeTypes
  <2>5. computeTypes'
    BY <1>0, <1>2, <2>3, <2>4 DEF computeTypes, ComputeReads
  <2>6. TimerTypeOK'
    BY <1>0, <1>2, LeftAlone DEF ComputeReads
  <2> QED BY <1>02, <2>5, <2>6, TypeParts
<1>3. CASE ComputePublishes(t) \/ ComputeFails(t)
  <2>1. TimerTypeOK'
    BY <1>0, <1>3 DEF ComputePublishes, ComputeFails, TimerTypeOK, Statement
  <2>2. published' \in Database
    BY <1>0, <1>3 DEF ComputePublishes, ComputeFails, computeTypes
  <2>3. computeTypes'
    BY <1>0, <1>00, <1>3, <2>2 DEF ComputePublishes, ComputeFails, Forget, computeTypes
  <2> QED BY <1>02, <2>1, <2>3, TypeParts
<1> QED BY <1>1, <1>2, <1>3 DEF ComputeChange

LEMMA TasksTypes ==
  ASSUME TypeInv, NEW w \in Workers,
         CheckLsu(w) \/ InstallLsa(w) \/ SendLsack(w)
  PROVE  TypeInv'
<1> USE DEF WorkerTo
<1>0. /\ TimerTypeOK /\ PoolTypeOK /\ InHandInv
      /\ areaTypes /\ computeTypes /\ envTypes /\ restTypes
  BY TypeParts
<1>01. UNCHANGED <<timerVars, computeVars, aging, raced>>
  BY DEF CheckLsu, InstallLsa, SendLsack
<1>02. TimerTypeOK' /\ computeTypes'
  BY <1>0, <1>01, LeftAlone
<1>1. CASE CheckLsu(w)
  <2>1. PoolTypeOK' /\ InHandInv'
    BY <1>0, <1>1 DEF CheckLsu, PoolTypeOK, InHandInv, WorkerStatement
  <2>2. areaTypes' /\ envTypes' /\ restTypes'
    BY <1>0, <1>1, <1>01, LeftAlone DEF CheckLsu, restTypes
  <2> QED BY <1>02, <2>1, <2>2, TypeParts
<1>2. CASE InstallLsa(w)
  <2>1. PoolTypeOK' /\ InHandInv'
    BY <1>0, <1>2 DEF InstallLsa, PoolTypeOK, InHandInv, WorkerStatement
  <2>2. w \in Callers
    BY DEF Callers
  <2>3. areaTypes' /\ envTypes'
    BY <1>0, <1>2, <2>2, LeftAlone DEF InstallLsa, areaTypes
  <2>4. job[w] \in Packets
    BY <1>0, <1>2 DEF InstallLsa, InHandInv
  <2>5. job[w].inst \in 0 .. MaxInstances /\ 0 \in 0 .. MaxInstances
    <3>1. MaxInstances \in Nat /\ job[w].inst \in 1 .. MaxInstances
      BY <2>4, FloodingAssumption
    <3> QED BY <3>1
  <2>6. restTypes'
    BY <1>0, <1>2, <1>01, <2>5 DEF InstallLsa, restTypes, Database
  <2> QED BY <1>02, <2>1, <2>3, <2>6, TypeParts
<1>3. CASE SendLsack(w)
  <2>1. PoolTypeOK' /\ InHandInv'
    BY <1>0, <1>3 DEF SendLsack, PoolTypeOK, InHandInv, WorkerStatement
  <2>2. areaTypes' /\ restTypes'
    BY <1>0, <1>3, <1>01, LeftAlone DEF SendLsack, restTypes
  <2>3. envTypes'
    BY <1>0, <1>3 DEF SendLsack, envTypes
  <2> QED BY <1>02, <2>1, <2>2, <2>3, TypeParts
<1> QED BY <1>1, <1>2, <1>3

LEMMA EnvironmentTypes ==
  ASSUME TypeInv,
         \/ \E l \in Lsas, f \in BOOLEAN : Originate(l, f)
         \/ \E m \in Packets : Arrive(m)
         \/ \E l \in Lsas : AgeFound(l)
         \/ AgeRemove
  PROVE  TypeInv'
<1>0. /\ TimerTypeOK /\ PoolTypeOK /\ InHandInv
      /\ areaTypes /\ computeTypes /\ envTypes /\ restTypes
  BY TypeParts
<1>1. ASSUME NEW l \in Lsas, NEW f \in BOOLEAN, Originate(l, f) PROVE TypeInv'
  <2>1. MaxInstances \in Nat /\ sent[l] \in 0 .. MaxInstances /\ sent[l] < MaxInstances
    BY <1>0, <1>1, FloodingAssumption DEF envTypes, Originate
  <2>2. sent[l] + 1 \in 1 .. MaxInstances /\ sent[l] + 1 \in 0 .. MaxInstances
    BY <2>1
  <2>3. sent' \in [Lsas -> 0 .. MaxInstances] /\ sent'[l] \in 1 .. MaxInstances
    BY <1>0, <1>1, <2>2 DEF envTypes, Originate
  <2>4. [lsa |-> l, inst |-> sent'[l], flush |-> f] \in Packets
    BY <2>3, FloodingAssumption
  <2>5. envTypes'
    BY <1>0, <1>1, <2>3, <2>4 DEF envTypes, Originate
  <2>6. /\ TimerTypeOK' /\ PoolTypeOK' /\ InHandInv'
        /\ areaTypes' /\ computeTypes' /\ restTypes'
    BY <1>0, <1>1, LeftAlone DEF Originate, restTypes
  <2> QED BY <2>5, <2>6, TypeParts
<1>2. ASSUME NEW m \in Packets, Arrive(m) PROVE TypeInv'
  <2>1. AddTask(m) /\ UNCHANGED <<timerVars, lsdb, areaVars, aging, computeVars, envVars, raced>>
    BY <1>2 DEF Arrive
  <2>2. Append(tasks, m) \in Seq(Packets)
    BY <1>0 DEF PoolTypeOK
  <2>3. PoolTypeOK' /\ InHandInv'
    BY <1>0, <2>1, <2>2 DEF AddTask, PoolTypeOK, InHandInv
  <2>4. TimerTypeOK' /\ areaTypes' /\ computeTypes' /\ envTypes' /\ restTypes'
    BY <1>0, <2>1, LeftAlone DEF restTypes
  <2> QED BY <2>3, <2>4, TypeParts
<1>3. ASSUME NEW l \in Lsas, AgeFound(l) PROVE TypeInv'
  <2>1. envTypes' /\ restTypes'
    BY <1>0, <1>3 DEF AgeFound, envTypes, restTypes
  <2>2. /\ TimerTypeOK' /\ PoolTypeOK' /\ InHandInv' /\ areaTypes' /\ computeTypes'
    BY <1>0, <1>3, LeftAlone DEF AgeFound
  <2> QED BY <2>1, <2>2, TypeParts
<1>4. CASE AgeRemove
  <2>1. 0 \in 0 .. MaxInstances
    <3>1. MaxInstances \in Nat
      BY FloodingAssumption
    <3> QED BY <3>1
  <2>2. restTypes'
    BY <1>0, <1>4, <2>1 DEF AgeRemove, restTypes, Database
  <2>3. areaTypes'
    BY <1>0, <1>4 DEF AgeRemove, areaTypes
  <2>4. TimerTypeOK' /\ PoolTypeOK' /\ InHandInv' /\ computeTypes' /\ envTypes'
    BY <1>0, <1>4, LeftAlone DEF AgeRemove
  <2> QED BY <2>2, <2>3, <2>4, TypeParts
<1> QED BY <1>1, <1>2, <1>3, <1>4

LEMMA TypesKept ==
  ASSUME TypeInv, [Next]_vars
  PROVE  TypeInv'
<1>0. /\ TimerTypeOK /\ PoolTypeOK /\ InHandInv
      /\ areaTypes /\ computeTypes /\ envTypes /\ restTypes
  BY TypeParts
<1>1. CASE \/ \E l \in Lsas, f \in BOOLEAN : Originate(l, f)
           \/ \E m \in Packets : Arrive(m)
           \/ \E l \in Lsas : AgeFound(l)
           \/ AgeRemove
  BY <1>1, EnvironmentTypes
<1>2. CASE Receiver
  <2>1. PoolTypeOK' /\ InHandInv'
    BY <1>0, <1>2, AdderMoves DEF Receiver
  <2>2. TimerTypeOK' /\ areaTypes' /\ computeTypes' /\ envTypes' /\ restTypes'
    BY <1>0, <1>2, LeftAlone DEF Receiver, others, restTypes
  <2> QED BY <2>1, <2>2, TypeParts
<1>3. ASSUME NEW c \in Callers, TopoChange(c) PROVE TypeInv'
  BY <1>3, TopoChangeTypes
<1>4. ASSUME NEW w \in Workers, PoolStep(w) /\ UNCHANGED <<timerVars, others>>
      PROVE  TypeInv'
  <2>1. PoolTypeOK' /\ InHandInv'
    BY <1>0, <1>4, WorkerMoves
  <2>2. TimerTypeOK' /\ areaTypes' /\ computeTypes' /\ envTypes' /\ restTypes'
    BY <1>0, <1>4, LeftAlone DEF others, restTypes
  <2> QED BY <2>1, <2>2, TypeParts
<1>5. ASSUME NEW w \in Workers, CheckLsu(w) \/ InstallLsa(w) \/ SendLsack(w)
      PROVE  TypeInv'
  BY <1>5, TasksTypes
<1>6. ASSUME NEW t \in Timers, TimerStep(t) /\ UNCHANGED <<poolVars, others>>
      PROVE  TypeInv'
  <2>1. TimerTypeOK'
    BY <1>0, <1>6, TimerMoves
  <2>2. PoolTypeOK' /\ InHandInv' /\ areaTypes' /\ computeTypes' /\ envTypes' /\ restTypes'
    BY <1>0, <1>6, LeftAlone DEF others, restTypes
  <2> QED BY <2>1, <2>2, TypeParts
<1>7. ASSUME NEW t \in Timers, ComputeChange(t) PROVE TypeInv'
  BY <1>7, ComputeTypes
<1>8. CASE UNCHANGED vars
  BY <1>0, <1>8, LeftAlone, TypeParts DEF vars, restTypes
<1>9. \A w \in Workers : w \in Callers
  BY DEF Callers
<1>10. Ager \in Callers
  BY DEF Callers
<1> QED BY <1>1, <1>2, <1>3, <1>4, <1>5, <1>6, <1>7, <1>8, <1>9, <1>10
        DEF Next, AgingThread, WorkerThread, TimerThread

\* Every variable of the listener keeps its type, for any number of workers,
\* timers, advertisements and instances.
THEOREM TypeCorrect == Spec => []TypeOK
<1>1. Init => TypeInv
  BY TypesFromInit
<1>2. TypeInv /\ [Next]_vars => TypeInv'
  BY TypesKept
<1>3. TypeInv => TypeOK
  BY DEF TypeInv
<1> QED BY <1>1, <1>2, <1>3, PTL DEF Spec
-----------------------------------------------------------------------------
(***************************************************************************)
(* What a step may be, for what follows: one that touches neither a timer  *)
(* nor the database nor a signal, or one of a few.                         *)
(***************************************************************************)
Quiet == UNCHANGED <<timerVars, lsdb, areaVars, computeVars, raced>>

LEMMA StepKinds ==
  ASSUME [Next]_vars
  PROVE  \/ Quiet
         \/ AgeRemove
         \/ \E w \in Workers : InstallLsa(w)
         \/ \E c \in Callers : TopoChange(c)
         \/ \E t \in Timers : TimerStep(t) /\ UNCHANGED <<poolVars, others>>
         \/ \E t \in Timers : ComputeChange(t)
<1>1. ASSUME NEW l \in Lsas, NEW f \in BOOLEAN, Originate(l, f) PROVE Quiet
  BY <1>1 DEF Originate, Quiet
<1>2. ASSUME NEW m \in Packets, Arrive(m) PROVE Quiet
  BY <1>2 DEF Arrive, Quiet
<1>3. ASSUME NEW l \in Lsas, AgeFound(l) PROVE Quiet
  BY <1>3 DEF AgeFound, Quiet
<1>4. CASE Receiver
  <2>1. Quiet
    BY <1>4 DEF Receiver, others, Quiet
  <2> QED BY <2>1
<1>5. ASSUME NEW w \in Workers,
             (PoolStep(w) /\ UNCHANGED <<timerVars, others>>) \/ CheckLsu(w) \/ SendLsack(w)
      PROVE  Quiet
  BY <1>5 DEF others, CheckLsu, SendLsack, Quiet
<1>6. CASE UNCHANGED vars
  <2>1. Quiet
    BY <1>6 DEF vars, Quiet
  <2> QED BY <2>1
<1>7. \A w \in Workers : w \in Callers
  BY DEF Callers
<1>8. Ager \in Callers
  BY DEF Callers
<1> QED BY <1>1, <1>2, <1>3, <1>4, <1>5, <1>6, <1>7, <1>8
        DEF Next, AgingThread, WorkerThread, TimerThread

(***************************************************************************)
(* Where a worker is that called topo_change, and what the caller and the  *)
(* area know of the timers.                                                *)
(***************************************************************************)
WorkerInv ==
  \A w \in Workers :
    /\ callAt[w] # "none" => workerAt[w] \in {"ack", "dead"}
    /\ workerAt[w] = "dead" => callAt[w] = "dead"

StoppedInv == \A t \in Timers : stopFlag[t] <=> timerAt[t] \in {"end", "ended"}

TargetInv ==
  \A c \in Callers :
    /\ target[c] # 0 => timerAt[target[c]] # "none"
    /\ callAt[c] \in {"raise", "bell"} => target[c] # 0
    /\ callAt[c] = "raise" => holdTimer # 0

HoldInv == holdTimer # 0 => timerAt[holdTimer] # "none"

ThreadInv == WorkerInv /\ StoppedInv /\ TargetInv /\ HoldInv

LEMMA ThreadsFromInit ==
  ASSUME Init
  PROVE  ThreadInv
<1>1. WorkerInv
  BY DEF Init, PoolInit, WorkerInv, Callers
<1>2. StoppedInv /\ TargetInv /\ HoldInv
  BY DEF Init, TimerInit, StoppedInv, TargetInv, HoldInv
<1> QED BY <1>1, <1>2 DEF ThreadInv

LEMMA WorkersKept ==
  ASSUME TypeInv, WorkerInv, [Next]_vars
  PROVE  WorkerInv'
<1> USE DEF WorkerInv, WorkerTo, CallTo
<1>0. /\ workerAt \in [Workers -> WorkerStatement]
      /\ \A w \in Workers : w \in Callers /\ w # Ager
      /\ callAt \in [Callers -> {"none", "test", "create", "launch", "raise",
                                 "bell", "dead"}]
  BY WorkerAssumption DEF TypeInv, TypeOK, PoolTypeOK, Callers, Ager
<1>1. ASSUME NEW l \in Lsas, NEW f \in BOOLEAN, Originate(l, f) PROVE WorkerInv'
  BY <1>0, <1>1 DEF Originate, poolVars, areaVars
<1>2. ASSUME NEW m \in Packets, Arrive(m) PROVE WorkerInv'
  BY <1>0, <1>2 DEF Arrive, AddTask, areaVars
<1>3. ASSUME NEW l \in Lsas, AgeFound(l) PROVE WorkerInv'
  BY <1>0, <1>3 DEF AgeFound, poolVars, areaVars
<1>4. CASE Receiver
  <2>1. callAt' = callAt
    BY <1>4 DEF Receiver, others, areaVars
  <2>2. CASE ChooseWorker
    BY <1>0, <2>1, <2>2 DEF ChooseWorker
  <2>3. CASE Work
    BY <1>0, <2>1, <2>3 DEF Work, Starts
  <2> QED BY <1>4, <2>2, <2>3 DEF Receiver, Adder
<1>5. CASE AgeRemove
  BY <1>0, <1>5 DEF AgeRemove, poolVars
<1>6. ASSUME NEW w \in Workers, PoolStep(w) /\ UNCHANGED <<timerVars, others>>
      PROVE  WorkerInv'
  <2>1. callAt' = callAt
    BY <1>6 DEF others, areaVars
  <2>2. workerAt[w] \notin {"ack", "dead"}
    BY <1>6 DEF PoolStep, WorkerStarts, WorkerLooks, WorkerPops, WorkerIdle, WorkerClears
  <2>3. \E s \in WorkerStatement : s # "dead" /\ workerAt' = [workerAt EXCEPT ![w] = s]
    BY <1>6 DEF PoolStep, WorkerStarts, WorkerLooks, WorkerPops, WorkerIdle, WorkerClears, WorkerStatement
  <2> QED BY <1>0, <2>1, <2>2, <2>3
<1>7. ASSUME NEW w \in Workers, CheckLsu(w) \/ InstallLsa(w) \/ SendLsack(w)
      PROVE  WorkerInv'
  <2>1. CASE CheckLsu(w)
    BY <1>0, <2>1 DEF CheckLsu, areaVars
  <2>2. CASE InstallLsa(w)
    BY <1>0, <2>2 DEF InstallLsa
  <2>3. CASE SendLsack(w)
    BY <1>0, <2>3 DEF SendLsack, areaVars
  <2> QED BY <1>7, <2>1, <2>2, <2>3
<1>8. ASSUME NEW c \in Callers, TopoChange(c) PROVE WorkerInv'
  <2>1. CASE StartAgain(c)
    <3>1. CASE c = Ager
      BY <1>0, <2>1, <3>1 DEF StartAgain
    <3>2. CASE c # Ager
      <4>1. c \in Workers
        BY <3>2 DEF Callers
      <4> QED BY <1>0, <2>1, <3>2, <4>1 DEF StartAgain
    <3> QED BY <3>1, <3>2
  <2>2. CASE ~StartAgain(c)
    <3>1. callAt[c] \notin {"none", "dead"} /\ workerAt' = workerAt
      BY <1>8, <2>2 DEF TopoChange, TestHoldTimer, CreateHoldTimer, StartHoldTimer,
           ResetHoldTimer, SignalHoldTimer, poolVars
    <3>2. \E s : callAt' = [callAt EXCEPT ![c] = s]
      BY <1>8, <2>2 DEF TopoChange, TestHoldTimer, CreateHoldTimer, StartHoldTimer,
           ResetHoldTimer, SignalHoldTimer
    <3> QED BY <1>0, <3>1, <3>2
  <2> QED BY <2>1, <2>2
<1>9. ASSUME NEW t \in Timers,
             (TimerStep(t) /\ UNCHANGED <<poolVars, others>>) \/ ComputeChange(t)
      PROVE  WorkerInv'
  <2>1. UNCHANGED <<workerAt, callAt>>
    BY <1>9 DEF others, poolVars, areaVars, ComputeChange, ComputeBegins,
         ComputeReads, ComputePublishes, ComputeFails
  <2> QED BY <1>0, <2>1
<1>10. CASE UNCHANGED vars
  BY <1>0, <1>10 DEF vars, poolVars, areaVars
<1> QED BY <1>0, <1>1, <1>2, <1>3, <1>4, <1>5, <1>6, <1>7, <1>8, <1>9, <1>10
        DEF Next, AgingThread, WorkerThread, TimerThread, Callers

LEMMA QuietKeeps ==
  ASSUME Quiet
  PROVE  /\ UNCHANGED <<timerAt, resetFlag, stopFlag, event, lsdb, holdTimer, callAt, target>>
         /\ UNCHANGED <<todo, size, links, published, raced>>
BY DEF Quiet, timerVars, areaVars, computeVars

\* A timer that runs goes on, and never to where none was.
LEMMA TimerGoes ==
  ASSUME TypeInv, StoppedInv, NEW t \in Timers,
         TimerStep(t) \/ ComputeChange(t)
  PROVE  /\ timerAt[t] \notin {"none", "made", "ended"}
         /\ \E s \in Statement \ {"none", "made"} : timerAt' = [timerAt EXCEPT ![t] = s]
         /\ StoppedInv'
<1>0. timerAt \in [Timers -> Statement] /\ stopFlag \in [Timers -> BOOLEAN]
  BY DEF TypeInv, TypeOK, TimerTypeOK
<1> USE DEF At, To, StoppedInv
<1>1. CASE InnerTest(t)
  BY <1>0, <1>1 DEF InnerTest, TimerStep, Statement
<1>2. CASE ClearEvent(t)
  BY <1>0, <1>2 DEF ClearEvent, TimerStep, Statement
<1>3. CASE LowerFlag(t)
  BY <1>0, <1>3 DEF LowerFlag, TimerStep, Statement
<1>4. CASE WaitEnds(t)
  BY <1>0, <1>4 DEF WaitEnds, TimerStep, Statement
<1>5. CASE ActionTest(t)
  BY <1>0, <1>5 DEF ActionTest, TimerStep, Statement
<1>6. CASE AfterAction(t)
  BY <1>0, <1>6 DEF AfterAction, TimerStep, Statement
<1>7. CASE End(t)
  BY <1>0, <1>7 DEF End, TimerStep, Statement
<1>8. CASE ComputeChange(t)
  <2>1. UNCHANGED <<stopFlag, holdTimer, callAt, target>>
    BY <1>8 DEF ComputeChange, ComputeBegins, ComputeReads, ComputePublishes,
         ComputeFails, areaVars, timerVars
  <2>2. /\ timerAt[t] \in {"action", "reading"}
        /\ \E s \in {"reading", "after"} : timerAt' = [timerAt EXCEPT ![t] = s]
    <3>1. CASE ComputeBegins(t)
      BY <3>1 DEF ComputeBegins
    <3>2. CASE ComputeReads(t)
      <4>1. timerAt[t] = "reading" /\ timerAt' = timerAt
        BY <3>2 DEF ComputeReads, timerVars
      <4>2. timerAt' = [timerAt EXCEPT ![t] = "reading"]
        BY <1>0, <4>1
      <4> QED BY <4>1, <4>2
    <3>3. CASE ComputePublishes(t) \/ ComputeFails(t)
      BY <3>3 DEF ComputePublishes, ComputeFails
    <3> QED BY <1>8, <3>1, <3>2, <3>3 DEF ComputeChange
  <2> QED BY <1>0, <2>1, <2>2 DEF Statement
<1> QED BY <1>1, <1>2, <1>3, <1>4, <1>5, <1>6, <1>7, <1>8 DEF TimerStep

LEMMA ThreadsKept ==
  ASSUME TypeInv, ThreadInv, [Next]_vars
  PROVE  ThreadInv'
<1>0. /\ timerAt \in [Timers -> Statement] /\ stopFlag \in [Timers -> BOOLEAN]
      /\ holdTimer \in Timers \cup {0} /\ target \in [Callers -> Timers \cup {0}]
      /\ callAt \in [Callers -> {"none", "test", "create", "launch", "raise",
                                 "bell", "dead"}]
      /\ 0 \notin Timers
  BY FloodingAssumption DEF TypeInv, TypeOK, TimerTypeOK
<1>1. WorkerInv'
  BY WorkersKept DEF ThreadInv
<1> DEFINE Rest == StoppedInv /\ TargetInv /\ HoldInv
<1>2. Rest
  BY DEF ThreadInv
<1> USE DEF StoppedInv, TargetInv, HoldInv
<1>3. CASE Quiet
  BY <1>1, <1>2, <1>3, QuietKeeps DEF ThreadInv
<1>4. ASSUME NEW c \in Callers, callAt' = [callAt EXCEPT ![c] = "test"],
             UNCHANGED <<timerVars, holdTimer, target>>
      PROVE  Rest'
  BY <1>0, <1>2, <1>4 DEF timerVars
<1>5. CASE AgeRemove
  BY <1>1, <1>4, <1>5 DEF AgeRemove, Callers, ThreadInv
<1>6. ASSUME NEW w \in Workers, InstallLsa(w) PROVE Rest'
  <2>1. w \in Callers
    BY DEF Callers
  <2> QED BY <1>4, <1>6, <2>1 DEF InstallLsa
<1>7. ASSUME NEW c \in Callers, TopoChange(c) PROVE Rest'
  <2> USE DEF CallTo
  <2>1. CASE TestHoldTimer(c)
    BY <1>0, <1>2, <2>1 DEF TestHoldTimer, timerVars
  <2>2. CASE CreateHoldTimer(c)
    <3>1. PICK t \in Timers : Make(t) /\ holdTimer' = t
      BY <2>2 DEF CreateHoldTimer
    <3>2. UNCHANGED target /\ callAt' = [callAt EXCEPT ![c] = "launch"]
      BY <2>2 DEF CreateHoldTimer
    <3>3. timerAt' = [timerAt EXCEPT ![t] = "made"] /\ stopFlag' = [stopFlag EXCEPT ![t] = FALSE]
      BY <3>1 DEF Make, To
    <3>4. StoppedInv' /\ HoldInv'
      BY <1>0, <1>2, <3>1, <3>3
    <3>5. TargetInv'
      BY <1>0, <1>2, <3>1, <3>2, <3>3
    <3> QED BY <3>4, <3>5
  <2>3. CASE StartHoldTimer(c)
    <3>1. /\ UNCHANGED <<target, holdTimer, stopFlag>>
          /\ callAt' = [callAt EXCEPT ![c] = "none"]
          /\ timerAt' = [timerAt EXCEPT ![holdTimer] = "inner"]
          /\ timerAt[holdTimer] = "made"
      BY <2>3 DEF StartHoldTimer, Start, To, At
    <3> QED BY <1>0, <1>2, <3>1
  <2>4. CASE StartAgain(c)
    BY <1>0, <1>2, <2>4 DEF StartAgain, timerVars
  <2>5. CASE ResetHoldTimer(c)
    <3>1. PICK t \in {target[c], holdTimer} :
            target' = [target EXCEPT ![c] = t] /\ ResetRaise(t)
      BY <2>5 DEF ResetHoldTimer
    <3>2. callAt[c] = "raise" /\ callAt' = [callAt EXCEPT ![c] = "bell"]
          /\ UNCHANGED <<timerAt, stopFlag, holdTimer>>
      BY <2>5, <3>1 DEF ResetHoldTimer, ResetRaise
    <3>3. t # 0 /\ timerAt[t] # "none"
      BY <1>2, <3>1, <3>2
    <3> QED BY <1>0, <1>2, <3>1, <3>2, <3>3
  <2>6. CASE SignalHoldTimer(c)
    BY <1>0, <1>2, <2>6 DEF SignalHoldTimer, ResetSignal
  <2> QED BY <1>7, <2>1, <2>2, <2>3, <2>4, <2>5, <2>6 DEF TopoChange
<1>8. ASSUME NEW t \in Timers,
             (TimerStep(t) /\ UNCHANGED <<poolVars, others>>) \/ ComputeChange(t)
      PROVE  Rest'
  <2>1. UNCHANGED <<holdTimer, callAt, target>>
    BY <1>8 DEF others, areaVars, ComputeChange, ComputeBegins, ComputeReads,
         ComputePublishes, ComputeFails
  <2>2. /\ \E s \in Statement \ {"none", "made"} : timerAt' = [timerAt EXCEPT ![t] = s]
        /\ StoppedInv'
    BY <1>2, <1>8, TimerGoes
  <2>3. \A u \in Timers : timerAt[u] # "none" => timerAt'[u] # "none"
    BY <1>0, <2>2
  <2> QED BY <1>0, <1>2, <2>1, <2>2, <2>3
<1> HIDE DEF StoppedInv, TargetInv, HoldInv
<1>9. Rest'
  BY <1>2, <1>3, <1>5, <1>6, <1>7, <1>8, StepKinds DEF ThreadInv
<1> QED BY <1>1, <1>9 DEF ThreadInv
-----------------------------------------------------------------------------
(***************************************************************************)
(* While no threads raced there is one timer at work, the one the area     *)
(* holds; it acts only with its flag lowered; a timer just made has the    *)
(* one caller that starts it.                                              *)
(***************************************************************************)
AtWorkInv ==
  \A t \in Timers :
    /\ timerAt[t] \notin {"none", "end", "ended"} => t = holdTimer
    /\ timerAt[t] = "test" => ~resetFlag[t]
    /\ timerAt[t] = "made" => \E c \in Callers : callAt[c] = "launch"

LaunchInv ==
  \A c \in Callers : callAt[c] = "launch" =>
    /\ holdTimer \in Timers /\ timerAt[holdTimer] = "made"
    /\ \A d \in Callers : callAt[d] = "launch" => d = c

OneTimerInv == AtWorkInv /\ LaunchInv

(***************************************************************************)
(* While no threads raced, a change is on its way: a caller of topo_change *)
(* has not signalled it yet, or the timer has not read the database yet,   *)
(* or has read what is still there; or it has arrived.                     *)
(***************************************************************************)
CallPending == \E c \in Callers : callAt[c] \in {"test", "create", "launch", "raise"}

Early == {"inner", "clear", "lower", "wait", "test", "action"}

Fresh(t) ==
  /\ timerAt[t] = "reading"
  /\ size[t] = Cardinality(Entries)
  /\ todo[t] \subseteq Entries
  /\ \A l \in Lsas \ todo[t] : links[t][l] = lsdb[l]

TimerPending == \E t \in Timers : timerAt[t] \in Early \/ Fresh(t)

Arrived == published = lsdb /\ \A t \in Timers : timerAt[t] # "reading"

PendingInv == CallPending \/ TimerPending \/ Arrived

FloodingInv == TypeInv /\ ThreadInv /\ (~raced => OneTimerInv /\ PendingInv)

LEMMA FloodingFromInit ==
  ASSUME Init
  PROVE  FloodingInv
<1>1. OneTimerInv
  BY DEF Init, TimerInit, OneTimerInv, AtWorkInv, LaunchInv
<1>2. Arrived
  BY DEF Init, TimerInit, Arrived
<1> QED BY <1>1, <1>2, TypesFromInit, ThreadsFromInit DEF FloodingInv, PendingInv

\* A race is never forgotten.
LEMMA RaceStays ==
  ASSUME [Next]_vars, ~raced'
  PROVE  ~raced
<1>1. CASE Quiet
  BY <1>1, QuietKeeps
<1>2. CASE AgeRemove
  BY <1>2 DEF AgeRemove
<1>3. ASSUME NEW w \in Workers, InstallLsa(w) PROVE raced' = raced
  BY <1>3 DEF InstallLsa
<1>4. ASSUME NEW c \in Callers, TopoChange(c) PROVE ~raced
  BY <1>4 DEF TopoChange, TestHoldTimer, CreateHoldTimer, StartHoldTimer,
       StartAgain, ResetHoldTimer, SignalHoldTimer
<1>5. ASSUME NEW t \in Timers,
             (TimerStep(t) /\ UNCHANGED <<poolVars, others>>) \/ ComputeChange(t)
      PROVE  raced' = raced
  BY <1>5 DEF others, ComputeChange, ComputeBegins, ComputeReads,
       ComputePublishes, ComputeFails
<1> QED BY <1>1, <1>2, <1>3, <1>4, <1>5, StepKinds

\* What a step of a timer outside its action does to the two flags and to
\* where it is.
LEMMA TimerFlags ==
  ASSUME TypeInv, StoppedInv, OneTimerInv, NEW t \in Timers, TimerStep(t)
  PROVE  /\ timerAt[t] = "end" => timerAt'[t] = "ended"
         /\ timerAt'[t] = "test" => ~resetFlag'[t]
         /\ timerAt'[t] # "reading" /\ timerAt[t] # "reading"
         /\ timerAt[t] \in Early => timerAt'[t] \in Early
         /\ \A u \in Timers \ {t} : resetFlag'[u] = resetFlag[u]
<1>0. /\ timerAt \in [Timers -> Statement] /\ stopFlag \in [Timers -> BOOLEAN]
      /\ resetFlag \in [Timers -> BOOLEAN]
  BY DEF TypeInv, TypeOK, TimerTypeOK
<1>00. timerAt[t] = "test" => ~resetFlag[t] /\ ~stopFlag[t]
  BY <1>0 DEF OneTimerInv, AtWorkInv, StoppedInv
<1>01. timerAt[t] = "inner" => ~stopFlag[t]
  BY <1>0 DEF StoppedInv
<1> USE DEF At, To, Early
<1>1. CASE InnerTest(t)
  BY <1>0, <1>01, <1>1 DEF InnerTest
<1>2. CASE ClearEvent(t)
  BY <1>0, <1>2 DEF ClearEvent
<1>3. CASE LowerFlag(t)
  BY <1>0, <1>3 DEF LowerFlag
<1>4. CASE WaitEnds(t)
  BY <1>0, <1>4 DEF WaitEnds
<1>5. CASE ActionTest(t)
  BY <1>0, <1>00, <1>5 DEF ActionTest
<1>6. CASE AfterAction(t)
  BY <1>0, <1>6 DEF AfterAction
<1>7. CASE End(t)
  BY <1>0, <1>7 DEF End
<1> QED BY <1>1, <1>2, <1>3, <1>4, <1>5, <1>6, <1>7 DEF TimerStep

\* What a step of the computation does to where its timer is.
LEMMA ComputeGoes ==
  ASSUME TypeInv, NEW t \in Timers, ComputeChange(t)
  PROVE  /\ timerAt[t] \in {"action", "reading"} /\ timerAt'[t] \in {"reading", "after"}
         /\ UNCHANGED <<resetFlag, stopFlag, lsdb, holdTimer, callAt, target>>
         /\ \A u \in Timers \ {t} : timerAt'[u] = timerAt[u]
<1>0. timerAt \in [Timers -> Statement]
  BY DEF TypeInv, TypeOK, TimerTypeOK
<1> USE DEF At, To
<1>1. CASE ComputeBegins(t)
  BY <1>0, <1>1 DEF ComputeBegins, areaVars
<1>2. CASE ComputeReads(t)
  BY <1>0, <1>2 DEF ComputeReads, areaVars, timerVars
<1>3. CASE ComputePublishes(t) \/ ComputeFails(t)
  BY <1>0, <1>3 DEF ComputePublishes, ComputeFails, areaVars
<1> QED BY <1>1, <1>2, <1>3 DEF ComputeChange

LEMMA AreaTypes ==
  ASSUME TypeInv
  PROVE  /\ timerAt \in [Timers -> Statement] /\ stopFlag \in [Timers -> BOOLEAN]
         /\ resetFlag \in [Timers -> BOOLEAN]
         /\ holdTimer \in Timers \cup {0} /\ target \in [Callers -> Timers \cup {0}]
         /\ callAt \in [Callers -> {"none", "test", "create", "launch", "raise",
                                    "bell", "dead"}]
         /\ 0 \notin Timers
         /\ \A w \in Workers : w \in Callers
         /\ Ager \in Callers
BY FloodingAssumption DEF TypeInv, TypeOK, TimerTypeOK, Callers

\* Both places that signal a change begin a call.
LEMMA CallsBegin ==
  ASSUME TypeInv, WorkerInv, AgeRemove \/ \E w \in Workers : InstallLsa(w)
  PROVE  \E c \in Callers :
           /\ callAt[c] = "none" /\ callAt' = [callAt EXCEPT ![c] = "test"]
           /\ UNCHANGED <<timerAt, resetFlag, stopFlag, event, holdTimer, target>>
<1>0. Ager \in Callers /\ \A w \in Workers : w \in Callers
  BY AreaTypes
<1>1. CASE AgeRemove
  BY <1>0, <1>1 DEF AgeRemove, timerVars
<1>2. ASSUME NEW w \in Workers, InstallLsa(w)
      PROVE  /\ callAt[w] = "none" /\ callAt' = [callAt EXCEPT ![w] = "test"]
             /\ UNCHANGED <<timerAt, resetFlag, stopFlag, event, holdTimer, target>>
  BY <1>2 DEF InstallLsa, WorkerInv, timerVars
<1> QED BY <1>0, <1>1, <1>2

LEMMA OneTimerKept ==
  ASSUME TypeInv, ThreadInv, OneTimerInv, [Next]_vars, ~raced'
  PROVE  OneTimerInv'
<1>0. /\ timerAt \in [Timers -> Statement] /\ stopFlag \in [Timers -> BOOLEAN]
      /\ resetFlag \in [Timers -> BOOLEAN]
      /\ holdTimer \in Timers \cup {0} /\ target \in [Callers -> Timers \cup {0}]
      /\ callAt \in [Callers -> {"none", "test", "create", "launch", "raise",
                                 "bell", "dead"}]
      /\ 0 \notin Timers
  BY AreaTypes
<1>01. AtWorkInv /\ LaunchInv
  BY DEF OneTimerInv
<1> USE DEF AtWorkInv, LaunchInv
<1>1. CASE Quiet
  BY <1>1, <1>01, QuietKeeps DEF OneTimerInv
<1>2. CASE AgeRemove \/ \E w \in Workers : InstallLsa(w)
  <2>1. PICK c \in Callers :
           /\ callAt[c] = "none" /\ callAt' = [callAt EXCEPT ![c] = "test"]
           /\ UNCHANGED <<timerAt, resetFlag, stopFlag, event, holdTimer, target>>
    BY <1>2, CallsBegin DEF ThreadInv
  <2>2. \A d \in Callers : callAt'[d] = "launch" <=> callAt[d] = "launch"
    BY <1>0, <2>1
  <2> QED BY <1>0, <1>01, <2>1, <2>2 DEF OneTimerInv
<1>3. ASSUME NEW c \in Callers, TopoChange(c) PROVE OneTimerInv'
  <2> USE DEF CallTo
  <2>1. CASE TestHoldTimer(c)
    <3>1. \A d \in Callers : callAt'[d] = "launch" <=> callAt[d] = "launch"
      BY <1>0, <2>1 DEF TestHoldTimer
    <3>2. UNCHANGED <<timerAt, resetFlag, holdTimer>>
      BY <2>1 DEF TestHoldTimer, timerVars
    <3> QED BY <1>01, <3>1, <3>2 DEF OneTimerInv
  <2>2. CASE CreateHoldTimer(c)
    <3>1. PICK t \in Timers : /\ Make(t) /\ holdTimer' = t
                              /\ raced' = (raced \/ \E u \in Timers : Undecided(u))
      BY <2>2 DEF CreateHoldTimer
    <3>2. callAt' = [callAt EXCEPT ![c] = "launch"]
      BY <2>2 DEF CreateHoldTimer
    <3>3. timerAt' = [timerAt EXCEPT ![t] = "made"]
      BY <3>1 DEF Make, To
    <3>4. holdTimer \in Timers => stopFlag[holdTimer]
      BY <3>1 DEF Undecided
    <3>5. \A u \in Timers : timerAt[u] \in {"none", "end", "ended"}
      BY <1>01, <3>4 DEF ThreadInv, StoppedInv
    <3>6. \A d \in Callers : callAt[d] # "launch"
      BY <1>01, <3>5
    <3>7. LaunchInv'
      BY <1>0, <3>1, <3>2, <3>3, <3>6
    <3>8. \A u \in Timers : u = t \/ timerAt'[u] \in {"none", "end", "ended"}
      BY <1>0, <3>3, <3>5
    <3>9. timerAt'[t] = "made" /\ callAt'[c] = "launch"
      BY <1>0, <3>2, <3>3
    <3>10. AtWorkInv'
      BY <3>1, <3>8, <3>9
    <3> QED BY <3>7, <3>10 DEF OneTimerInv
  <2>3. CASE StartHoldTimer(c)
    <3>1. /\ UNCHANGED <<holdTimer, resetFlag>> /\ callAt[c] = "launch"
          /\ callAt' = [callAt EXCEPT ![c] = "none"]
          /\ timerAt' = [timerAt EXCEPT ![holdTimer] = "inner"]
          /\ timerAt[holdTimer] = "made"
      BY <2>3 DEF StartHoldTimer, Start, To, At
    <3>2. \A d \in Callers : callAt'[d] # "launch"
      BY <1>0, <1>01, <3>1
    <3>3. holdTimer \in Timers /\ timerAt'[holdTimer] = "inner"
      BY <1>0, <1>01, <3>1
    <3>4. \A u \in Timers : u = holdTimer \/ timerAt'[u] \in {"none", "end", "ended"}
      BY <1>0, <1>01, <3>1
    <3> QED BY <3>1, <3>2, <3>3, <3>4 DEF OneTimerInv
  <2>4. CASE StartAgain(c)
    BY <1>01, <2>4 DEF StartAgain, At
  <2>5. CASE ResetHoldTimer(c)
    <3>1. PICK t \in {target[c], holdTimer} :
            ResetRaise(t) /\ raced' = (raced \/ TooLate(t))
      BY <2>5 DEF ResetHoldTimer
    <3>2. timerAt[t] # "test" /\ resetFlag' = [resetFlag EXCEPT ![t] = TRUE]
          /\ UNCHANGED timerAt
      BY <3>1 DEF TooLate, ResetRaise
    <3>3. UNCHANGED holdTimer /\ \A d \in Callers : callAt'[d] = "launch" <=> callAt[d] = "launch"
      BY <1>0, <2>5 DEF ResetHoldTimer
    <3>4. \A u \in Timers : timerAt[u] = "test" => resetFlag'[u] = resetFlag[u]
      BY <1>0, <3>2
    <3> QED BY <1>01, <3>2, <3>3, <3>4 DEF OneTimerInv
  <2>6. CASE SignalHoldTimer(c)
    <3>1. \A d \in Callers : callAt'[d] = "launch" <=> callAt[d] = "launch"
      BY <1>0, <2>6 DEF SignalHoldTimer
    <3>2. UNCHANGED <<timerAt, resetFlag, holdTimer>>
      BY <2>6 DEF SignalHoldTimer, ResetSignal
    <3> QED BY <1>01, <3>1, <3>2 DEF OneTimerInv
  <2> QED BY <1>3, <2>1, <2>2, <2>3, <2>4, <2>5, <2>6 DEF TopoChange
<1>4. ASSUME NEW t \in Timers, TimerStep(t) /\ UNCHANGED <<poolVars, others>>
      PROVE  OneTimerInv'
  <2>1. UNCHANGED <<holdTimer, callAt>>
    BY <1>4 DEF others, areaVars
  <2>2. /\ timerAt[t] \notin {"none", "made", "ended"}
        /\ \E s \in Statement \ {"none", "made"} : timerAt' = [timerAt EXCEPT ![t] = s]
    BY <1>4, TimerGoes DEF ThreadInv
  <2>3. /\ timerAt[t] = "end" => timerAt'[t] = "ended"
        /\ timerAt'[t] = "test" => ~resetFlag'[t]
        /\ \A u \in Timers \ {t} : resetFlag'[u] = resetFlag[u]
    BY <1>4, TimerFlags DEF ThreadInv
  <2>4. timerAt'[t] # "made" /\ \A u \in Timers \ {t} : timerAt'[u] = timerAt[u]
    BY <1>0, <2>2
  <2>5. LaunchInv'
    BY <1>01, <2>1, <2>2, <2>4
  <2>6. timerAt'[t] \in {"none", "end", "ended"} \/ t = holdTimer
    BY <1>01, <2>2, <2>3
  <2>7. AtWorkInv'
    BY <1>01, <2>1, <2>3, <2>4, <2>6
  <2> QED BY <2>5, <2>7 DEF OneTimerInv
<1>5. ASSUME NEW t \in Timers, ComputeChange(t) PROVE OneTimerInv'
  <2>1. /\ timerAt[t] \in {"action", "reading"} /\ timerAt'[t] \in {"reading", "after"}
        /\ UNCHANGED <<resetFlag, holdTimer, callAt>>
        /\ \A u \in Timers \ {t} : timerAt'[u] = timerAt[u]
    BY <1>5, ComputeGoes
  <2>2. t = holdTimer
    BY <1>01, <2>1
  <2>3. LaunchInv'
    BY <1>01, <2>1
  <2>4. AtWorkInv'
    BY <1>01, <2>1, <2>2
  <2> QED BY <2>3, <2>4 DEF OneTimerInv
<1> QED BY <1>1, <1>2, <1>3, <1>4, <1>5, StepKinds
-----------------------------------------------------------------------------
\* The computation: it begins fresh, stays fresh while the database does not
\* change, and publishes what is there if it is fresh.
LEMMA ComputeBeginsFresh ==
  ASSUME TypeInv, NEW t \in Timers, ComputeBegins(t)
  PROVE  Fresh(t)'
<1>0. /\ timerAt \in [Timers -> Statement] /\ todo \in [Timers -> SUBSET Lsas]
      /\ size \in [Timers -> Nat] /\ links \in [Timers -> Database]
  BY DEF TypeInv, TypeOK, TimerTypeOK
<1>1. /\ timerAt' = [timerAt EXCEPT ![t] = "reading"]
      /\ todo' = [todo EXCEPT ![t] = Entries]
      /\ size' = [size EXCEPT ![t] = Cardinality(Entries)]
      /\ links' = [links EXCEPT ![t] = NoLinks]
      /\ lsdb' = lsdb
  BY DEF ComputeBegins, To
<1>2. Entries' = Entries
  BY <1>1 DEF Entries
<1>3. /\ timerAt'[t] = "reading" /\ todo'[t] = Entries
      /\ size'[t] = Cardinality(Entries) /\ links'[t] = NoLinks
  BY <1>0, <1>1
<1>4. \A l \in Lsas \ Entries : NoLinks[l] = lsdb[l]
  BY DEF NoLinks, Entries
<1> QED BY <1>1, <1>2, <1>3, <1>4 DEF Fresh

LEMMA ComputeReadsFresh ==
  ASSUME TypeInv, NEW t \in Timers, ComputeReads(t), Fresh(t)
  PROVE  Fresh(t)'
<1>0. /\ todo \in [Timers -> SUBSET Lsas] /\ links \in [Timers -> Database]
  BY DEF TypeInv, TypeOK
<1>1. PICK l \in todo[t] \cap Entries :
        /\ todo' = [todo EXCEPT ![t] = @ \ {l}]
        /\ links' = [links EXCEPT ![t][l] = lsdb[l]]
  BY DEF ComputeReads
<1>2. UNCHANGED <<timerAt, lsdb, size>>
  BY DEF ComputeReads, timerVars
<1>3. Entries' = Entries
  BY <1>2 DEF Entries
<1>4. todo'[t] = todo[t] \ {l}
  BY <1>0, <1>1
<1>5. links[t] \in Database /\ l \in Lsas
  BY <1>0, <1>1
<1>6. links'[t] = [links[t] EXCEPT ![l] = lsdb[l]]
  BY <1>0, <1>1
<1>7. \A k \in Lsas \ todo'[t] : links'[t][k] = lsdb[k]
  BY <1>4, <1>5, <1>6 DEF Fresh, Database
<1> QED BY <1>2, <1>3, <1>4, <1>7 DEF Fresh

LEMMA FreshPublishes ==
  ASSUME TypeInv, NEW t \in Timers, ComputePublishes(t), Fresh(t)
  PROVE  published' = lsdb'
<1>1. todo[t] = {}
  BY DEF ComputePublishes, Fresh
<1>2. \A l \in Lsas : links[t][l] = lsdb[l]
  BY <1>1 DEF Fresh
<1>3. links[t] \in Database /\ lsdb \in Database
  BY DEF TypeInv, TypeOK
<1>4. links[t] = lsdb
  BY <1>2, <1>3 DEF Database
<1> QED BY <1>4 DEF ComputePublishes

\* A timer that reads what is still there does so undisturbed by the steps of
\* other threads that leave the database and the computation alone.
LEMMA FreshStays ==
  ASSUME NEW t, Fresh(t), UNCHANGED <<lsdb, todo, size, links>>, timerAt'[t] = timerAt[t]
  PROVE  Fresh(t)'
<1>1. Entries' = Entries
  BY DEF Entries
<1> QED BY <1>1 DEF Fresh

LEMMA PendingKept ==
  ASSUME TypeInv, ThreadInv, OneTimerInv, PendingInv, [Next]_vars, ~raced'
  PROVE  PendingInv'
<1>0. /\ timerAt \in [Timers -> Statement] /\ stopFlag \in [Timers -> BOOLEAN]
      /\ holdTimer \in Timers \cup {0} /\ target \in [Callers -> Timers \cup {0}]
      /\ callAt \in [Callers -> {"none", "test", "create", "launch", "raise",
                                 "bell", "dead"}]
      /\ 0 \notin Timers
  BY AreaTypes
<1>01. AtWorkInv /\ LaunchInv
  BY DEF OneTimerInv
<1>02. ASSUME NEW c \in Callers, callAt'[c] \in {"test", "create", "launch", "raise"}
       PROVE  PendingInv'
  BY <1>02 DEF PendingInv, CallPending
<1>03. ASSUME NEW t \in Timers, timerAt'[t] \in Early
       PROVE  PendingInv'
  BY <1>03 DEF PendingInv, TimerPending
<1>1. CASE Quiet
  <2>1. /\ UNCHANGED <<timerAt, lsdb, callAt>>
        /\ UNCHANGED <<todo, size, links, published>>
    BY <1>1, QuietKeeps
  <2>2. CASE CallPending
    BY <1>02, <2>1, <2>2 DEF CallPending
  <2>3. CASE TimerPending
    BY <1>03, <2>1, <2>3, FreshStays DEF PendingInv, TimerPending
  <2>4. CASE Arrived
    BY <2>1, <2>4 DEF PendingInv, Arrived
  <2> QED BY <2>2, <2>3, <2>4 DEF PendingInv
<1>2. CASE AgeRemove \/ \E w \in Workers : InstallLsa(w)
  <2>1. PICK c \in Callers :
           callAt[c] = "none" /\ callAt' = [callAt EXCEPT ![c] = "test"]
    BY <1>2, CallsBegin DEF ThreadInv
  <2> QED BY <1>0, <1>02, <2>1
<1>3. ASSUME NEW c \in Callers, TopoChange(c) PROVE PendingInv'
  <2> USE DEF CallTo
  <2>0. UNCHANGED <<lsdb, computeVars>>
    BY <1>3, TopoChangeFrame
  <2>1. CASE TestHoldTimer(c) \/ CreateHoldTimer(c)
    BY <1>0, <1>02, <2>1 DEF TestHoldTimer, CreateHoldTimer
  <2>3. CASE StartHoldTimer(c)
    <3>1. /\ callAt[c] = "launch"
          /\ timerAt' = [timerAt EXCEPT ![holdTimer] = "inner"]
      BY <2>3 DEF StartHoldTimer, Start, To
    <3>2. holdTimer \in Timers /\ timerAt'[holdTimer] \in Early
      BY <1>0, <1>01, <3>1 DEF LaunchInv, Early
    <3> QED BY <1>03, <3>2
  <2>4. CASE StartAgain(c)
    BY <1>01, <2>4 DEF StartAgain, At, LaunchInv
  <2>5. CASE ResetHoldTimer(c)
    <3>1. PICK t \in {target[c], holdTimer} :
            ResetRaise(t) /\ raced' = (raced \/ TooLate(t))
      BY <2>5 DEF ResetHoldTimer
    <3>2. callAt[c] = "raise" /\ callAt' = [callAt EXCEPT ![c] = "bell"]
          /\ UNCHANGED timerAt
      BY <2>5, <3>1 DEF ResetHoldTimer, ResetRaise
    <3>3. t \in Timers /\ timerAt[t] # "none"
      BY <1>0, <3>1, <3>2 DEF ThreadInv, TargetInv, HoldInv
    <3>4. timerAt[t] \notin {"test", "reading", "after", "end", "ended"}
      BY <3>1 DEF TooLate
    <3>5. timerAt[t] \in Early \/ timerAt[t] = "made"
      BY <1>0, <3>3, <3>4 DEF Early, Statement
    <3>6. CASE timerAt[t] \in Early
      BY <1>03, <3>2, <3>3, <3>6
    <3>7. CASE timerAt[t] = "made"
      <4>1. PICK d \in Callers : callAt[d] = "launch"
        BY <1>01, <3>3, <3>7 DEF AtWorkInv
      <4>2. callAt'[d] = "launch"
        BY <1>0, <3>2, <4>1
      <4> QED BY <1>02, <4>1, <4>2
    <3> QED BY <3>5, <3>6, <3>7
  <2>6. CASE SignalHoldTimer(c)
    <3>1. /\ callAt[c] = "bell" /\ callAt' = [callAt EXCEPT ![c] = "none"]
          /\ UNCHANGED <<timerAt, lsdb, todo, size, links, published>>
      BY <2>0, <2>6 DEF SignalHoldTimer, ResetSignal, computeVars
    <3>2. CASE CallPending
      <4>1. PICK d \in Callers : callAt[d] \in {"test", "create", "launch", "raise"}
        BY <3>2 DEF CallPending
      <4>2. callAt'[d] = callAt[d]
        BY <1>0, <3>1, <4>1
      <4> QED BY <1>02, <4>1, <4>2
    <3>3. CASE TimerPending
      BY <1>03, <3>1, <3>3, FreshStays DEF PendingInv, TimerPending
    <3>4. CASE Arrived
      BY <3>1, <3>4 DEF PendingInv, Arrived
    <3> QED BY <3>2, <3>3, <3>4 DEF PendingInv
  <2> QED BY <1>3, <2>1, <2>3, <2>4, <2>5, <2>6 DEF TopoChange
<1>4. ASSUME NEW t \in Timers, TimerStep(t) /\ UNCHANGED <<poolVars, others>>
      PROVE  PendingInv'
  <2>1. UNCHANGED <<callAt, lsdb, todo, size, links, published>>
    BY <1>4 DEF others, areaVars, computeVars
  <2>2. \E s \in Statement : timerAt' = [timerAt EXCEPT ![t] = s]
    BY <1>4, TimerGoes DEF ThreadInv
  <2>3. /\ timerAt'[t] # "reading" /\ timerAt[t] # "reading"
        /\ timerAt[t] \in Early => timerAt'[t] \in Early
    BY <1>4, TimerFlags DEF ThreadInv
  <2>4. \A u \in Timers \ {t} : timerAt'[u] = timerAt[u]
    BY <1>0, <2>2
  <2>5. CASE CallPending
    BY <1>02, <2>1, <2>5 DEF CallPending
  <2>6. CASE TimerPending
    <3>1. PICK u \in Timers : timerAt[u] \in Early \/ Fresh(u)
      BY <2>6 DEF TimerPending
    <3>2. CASE timerAt[u] \in Early
      BY <1>03, <2>3, <2>4, <3>1, <3>2
    <3>3. CASE Fresh(u)
      <4>1. timerAt'[u] = timerAt[u]
        BY <2>3, <2>4, <3>1, <3>3 DEF Fresh
      <4>2. Fresh(u)'
        BY <2>1, <3>3, <4>1, FreshStays
      <4> QED BY <3>1, <4>2 DEF PendingInv, TimerPending
    <3> QED BY <3>1, <3>2, <3>3
  <2>7. CASE Arrived
    <3>1. \A u \in Timers : timerAt'[u] # "reading"
      BY <2>3, <2>4, <2>7 DEF Arrived
    <3> QED BY <2>1, <2>7, <3>1 DEF PendingInv, Arrived
  <2> QED BY <2>5, <2>6, <2>7 DEF PendingInv
<1>5. ASSUME NEW t \in Timers, ComputeChange(t) PROVE PendingInv'
  <2>1. /\ timerAt[t] \in {"action", "reading"} /\ timerAt'[t] \in {"reading", "after"}
        /\ UNCHANGED <<lsdb, callAt>>
        /\ \A u \in Timers \ {t} : timerAt'[u] = timerAt[u]
    BY <1>5, ComputeGoes
  <2>2. CASE CallPending
    BY <1>02, <2>1, <2>2 DEF CallPending
  <2>3. CASE ComputeBegins(t)
    <3>1. Fresh(t)'
      BY <2>3, ComputeBeginsFresh
    <3> QED BY <3>1 DEF PendingInv, TimerPending
  <2>4. CASE ~CallPending /\ timerAt[t] = "reading"
    <3>1. PICK u \in Timers : timerAt[u] \in Early \/ Fresh(u)
      BY <2>4 DEF PendingInv, TimerPending, Arrived
    <3>2. u = holdTimer /\ t = holdTimer
      <4>1. timerAt[u] \notin {"none", "end", "ended"}
        BY <3>1 DEF Early, Fresh
      <4> QED BY <1>01, <2>4, <3>1, <4>1 DEF AtWorkInv
    <3>3. Fresh(t)
      BY <2>4, <3>1, <3>2 DEF Early
    <3>4. CASE ComputeReads(t)
      <4>1. Fresh(t)'
        BY <3>3, <3>4, ComputeReadsFresh
      <4> QED BY <4>1 DEF PendingInv, TimerPending
    <3>5. CASE ComputePublishes(t)
      <4>1. published' = lsdb'
        BY <3>3, <3>5, FreshPublishes
      <4>2. timerAt'[t] # "reading"
        BY <1>0, <3>5 DEF ComputePublishes, To
      <4>3. \A v \in Timers \ {t} : timerAt[v] # "reading"
        BY <1>01, <3>2 DEF AtWorkInv
      <4>4. \A v \in Timers : timerAt'[v] # "reading"
        BY <2>1, <4>2, <4>3
      <4> QED BY <4>1, <4>4 DEF PendingInv, Arrived
    <3>6. CASE ComputeFails(t)
      BY <3>3, <3>6 DEF ComputeFails, Fresh
    <3>7. CASE ComputeBegins(t)
      BY <2>3, <3>7
    <3> QED BY <1>5, <3>4, <3>5, <3>6, <3>7 DEF ComputeChange
  <2>5. CASE timerAt[t] # "reading"
    BY <1>5, <2>3, <2>5 DEF ComputeChange, ComputeReads, ComputePublishes, ComputeFails, At
  <2> QED BY <2>2, <2>4, <2>5
<1> QED BY <1>1, <1>2, <1>3, <1>4, <1>5, StepKinds

LEMMA FloodingKept ==
  ASSUME FloodingInv, [Next]_vars
  PROVE  FloodingInv'
<1>1. TypeInv' /\ ThreadInv'
  BY TypesKept, ThreadsKept DEF FloodingInv
<1>2. ASSUME ~raced' PROVE OneTimerInv' /\ PendingInv'
  <2>1. OneTimerInv /\ PendingInv
    BY <1>2, RaceStays DEF FloodingInv
  <2> QED BY <1>2, <2>1, OneTimerKept, PendingKept DEF FloodingInv
<1> QED BY <1>1, <1>2 DEF FloodingInv

\* When all threads sleep or are dead, no change is on its way.
LEMMA QuietMeansArrived ==
  ASSUME FloodingInv
  PROVE  PublishedUnlessRaced
<1> SUFFICES ASSUME Quiescent, ~raced PROVE published = lsdb
  BY DEF PublishedUnlessRaced
<1>1. TypeInv /\ ThreadInv /\ OneTimerInv /\ PendingInv
  BY DEF FloodingInv
<1>2. ~CallPending
  <2> SUFFICES ASSUME NEW c \in Callers PROVE callAt[c] \in {"none", "dead"}
    BY <1>1, AreaTypes DEF CallPending
  <2>1. CASE c = Ager
    BY <2>1 DEF Quiescent
  <2>2. CASE c \in Workers
    <3>1. callAt[c] # "none" => workerAt[c] \in {"ack", "dead"}
      BY <1>1, <2>2 DEF ThreadInv, WorkerInv
    <3>2. workerAt[c] # "none" => workerAt[c] \in {"wait", "dead"}
      BY <2>2 DEF Quiescent, Created, Asleep
    <3>3. workerAt[c] = "dead" => callAt[c] = "dead"
      BY <1>1, <2>2 DEF ThreadInv, WorkerInv
    <3> QED BY <3>1, <3>2, <3>3
  <2> QED BY <2>1, <2>2 DEF Callers
<1>3. ~TimerPending
  BY DEF TimerPending, Quiescent, Running, Early, Fresh
<1> QED BY <1>1, <1>2, <1>3 DEF PendingInv, Arrived

\* Once all threads are quiet the network manager was told last what is in the
\* database, unless threads raced: for any number of workers, timers,
\* advertisements and instances, and in whatever order flooding, aging, the
\* two halves of a reset and the waits come.
THEOREM PublishedOrRaced == Spec => []PublishedUnlessRaced
<1>1. Init => FloodingInv
  BY FloodingFromInit
<1>2. FloodingInv /\ [Next]_vars => FloodingInv'
  BY FloodingKept
<1>3. FloodingInv => PublishedUnlessRaced
  BY QuietMeansArrived
<1> QED BY <1>1, <1>2, <1>3, PTL DEF Spec
=============================================================================
