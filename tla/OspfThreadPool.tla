--------------------------- MODULE OspfThreadPool ---------------------------
(***************************************************************************)
(* The thread pool that handles link-state updates                         *)
(* (pyospf/utils/threadpool.py).  addTask appends to a list that all       *)
(* workers take from, looks for a worker that does not say it is busy, or  *)
(* creates one, and wakes it.  ThreadPool(1) creates up to two.  Nothing   *)
(* is locked: a worker that is about to sleep misses the call.  A task is  *)
(* carried out by the composition, from the statement "task" on.           *)
(***************************************************************************)
EXTENDS Naturals, Sequences, FiniteSets

CONSTANTS
  Workers,   \* the workers the pool may create, numbered in that order
  Packets    \* what a task is about

ASSUME WorkerAssumption == Workers \subseteq Nat \ {0}

VARIABLES
  tasks,      \* ThreadPool._tasks
  workerAt,   \* workerAt[w]: the statement worker w runs next
  job,        \* job[w]: the task w took last
  busy,       \* WorkerThread.busy
  bell,       \* WorkerThread._event: "none", "clear" or "set"
  choosing,   \* addTask appended its task and looks for a worker
  waking      \* the worker addTask is about to wake, 0 if none

poolVars == <<tasks, workerAt, job, busy, bell, choosing, waking>>

WorkerStatement ==
  {"none", "start", "look", "pop", "task", "install", "ack", "idle",
   "clear", "wait", "dead"}

PoolTypeOK ==
  /\ tasks \in Seq(Packets)
  /\ workerAt \in [Workers -> WorkerStatement]
  /\ job \in [Workers -> Packets \cup {<<>>}]
  /\ busy \in [Workers -> BOOLEAN]
  /\ bell \in [Workers -> {"none", "clear", "set"}]
  /\ choosing \in BOOLEAN
  /\ waking \in Workers \cup {0}

PoolInit ==
  /\ tasks = <<>>
  /\ workerAt = [w \in Workers |-> "none"]
  /\ job = [w \in Workers |-> <<>>]
  /\ busy = [w \in Workers |-> FALSE]
  /\ bell = [w \in Workers |-> "none"]
  /\ choosing = FALSE
  /\ waking = 0

WorkerTo(w, there) == workerAt' = [workerAt EXCEPT ![w] = there]

Created == {w \in Workers : workerAt[w] # "none"}
Asleep(w) == workerAt[w] = "wait" /\ bell[w] = "clear"
Adding == choosing \/ waking # 0
-----------------------------------------------------------------------------
\* A faulty variant, with which the checks are shown to notice a change of the
\* code: a task is made of less than the packet.
AddTaskOfLsa(m) ==
  /\ ~Adding
  /\ tasks' = Append(tasks, m.lsa)
  /\ choosing' = TRUE
  /\ UNCHANGED <<workerAt, job, busy, bell, waking>>

AddTask(m) ==
  /\ ~Adding
  /\ tasks' = Append(tasks, m)
  /\ choosing' = TRUE
  /\ UNCHANGED <<workerAt, job, busy, bell, waking>>

First(S) == CHOOSE w \in S : \A v \in S : w <= v

\* The first worker that is not busy, else a new one, else none.
ChooseWorker ==
  /\ choosing
  /\ choosing' = FALSE
  /\ LET free == {w \in Created : ~busy[w]}
         new == Workers \ Created
     IN  waking' = IF free # {} THEN First(free)
                   ELSE IF new # {} THEN First(new) ELSE 0
  /\ UNCHANGED <<tasks, workerAt, job, busy, bell>>

Starts(w) == workerAt' = [workerAt EXCEPT ![w] = IF @ = "none" THEN "start" ELSE @]

\* WorkerThread.work: a new worker starts; another one is woken if its event
\* exists and is not set.
Work ==
  /\ waking # 0
  /\ waking' = 0
  /\ Starts(waking)
  /\ bell' = [bell EXCEPT ![waking] = IF @ = "clear" THEN "set" ELSE @]
  /\ UNCHANGED <<tasks, job, busy, choosing>>
-----------------------------------------------------------------------------
WorkerStarts(w) ==
  /\ workerAt[w] = "start" \/ (workerAt[w] = "wait" /\ bell[w] = "set")
  /\ WorkerTo(w, "look")
  /\ busy' = [busy EXCEPT ![w] = TRUE]
  /\ UNCHANGED <<tasks, job, bell, choosing, waking>>

WorkerLooks(w) ==
  /\ workerAt[w] = "look"
  /\ WorkerTo(w, IF tasks = <<>> THEN "idle" ELSE "pop")
  /\ UNCHANGED <<tasks, job, busy, bell, choosing, waking>>

\* Another worker may have been faster.
WorkerPops(w) ==
  /\ workerAt[w] = "pop"
  /\ IF tasks = <<>>
     THEN WorkerTo(w, "look") /\ UNCHANGED <<tasks, job>>
     ELSE /\ WorkerTo(w, "task")
          /\ job' = [job EXCEPT ![w] = Head(tasks)]
          /\ tasks' = Tail(tasks)
  /\ UNCHANGED <<busy, bell, choosing, waking>>

WorkerIdle(w) ==
  /\ workerAt[w] = "idle"
  /\ WorkerTo(w, "clear")
  /\ busy' = [busy EXCEPT ![w] = FALSE]
  /\ UNCHANGED <<tasks, job, bell, choosing, waking>>

\* Creates or clears the event, then waits for it.
WorkerClears(w) ==
  /\ workerAt[w] = "clear"
  /\ WorkerTo(w, "wait")
  /\ bell' = [bell EXCEPT ![w] = "clear"]
  /\ UNCHANGED <<tasks, job, busy, choosing, waking>>

\* The thread of w outside a task, and the thread that adds tasks.
PoolStep(w) ==
  \/ WorkerStarts(w) \/ WorkerLooks(w) \/ WorkerPops(w) \/ WorkerIdle(w)
  \/ WorkerClears(w)

Adder == ChooseWorker \/ Work
=============================================================================
