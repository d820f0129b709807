----------------------------- MODULE OspfTimer -----------------------------
(***************************************************************************)
(* The timers of the OSPF listener (pyospf/utils/timer.py): each is a      *)
(* thread that waits for its event with a time-out, runs its action unless *)
(* it was reset, and starts over or, if it is a once timer, ends.  reset() *)
(* is called by other threads and synchronises with nothing: it raises a   *)
(* flag, then the event.  A step here is what the interpreter may do       *)
(* between two switches of threads and another thread can notice.  All     *)
(* timers here are once timers, which nobody stops.                        *)
(***************************************************************************)
EXTENDS Naturals, FiniteSets

CONSTANT Timers   \* the timer objects a behaviour may create

VARIABLES
  timerAt,    \* timerAt[t]: the statement the thread of t runs next
  resetFlag,  \* Timer.resetFlag
  stopFlag,   \* Timer.stopFlag
  event       \* Timer.stopEvent is set

timerVars == <<timerAt, resetFlag, stopFlag, event>>

Statement ==
  {"none", "made", "inner", "clear", "lower", "wait", "test", "action",
   "reading", "after", "end", "ended"}

TimerTypeOK ==
  /\ timerAt \in [Timers -> Statement]
  /\ resetFlag \in [Timers -> BOOLEAN]
  /\ stopFlag \in [Timers -> BOOLEAN]
  /\ event \in [Timers -> BOOLEAN]

TimerInit ==
  /\ timerAt = [t \in Timers |-> "none"]
  /\ resetFlag = [t \in Timers |-> TRUE]
  /\ stopFlag = [t \in Timers |-> FALSE]
  /\ event = [t \in Timers |-> FALSE]

At(t, here) == timerAt[t] = here
To(t, there) == timerAt' = [timerAt EXCEPT ![t] = there]

Running(t) == timerAt[t] \notin {"none", "made", "ended"}
-----------------------------------------------------------------------------
\* Faulty variants, with which the checks are shown to notice a change of the
\* code: the flag is not looked at again after a wait; a once timer does not
\* stop.
WaitEndsOnce(t) ==
  /\ At(t, "wait")
  /\ To(t, "test")
  /\ UNCHANGED <<resetFlag, stopFlag, event>>

AfterActionGoesOn(t) ==
  /\ At(t, "after")
  /\ To(t, "inner")
  /\ resetFlag' = [resetFlag EXCEPT ![t] = TRUE]
  /\ UNCHANGED <<stopFlag, event>>

\* Leaves the inner loop unless the flag is raised.
InnerTest(t) ==
  /\ At(t, "inner")
  /\ To(t, IF resetFlag[t] /\ ~stopFlag[t] THEN "clear" ELSE "test")
  /\ UNCHANGED <<resetFlag, stopFlag, event>>

ClearEvent(t) ==
  /\ At(t, "clear")
  /\ To(t, "lower")
  /\ event' = [event EXCEPT ![t] = FALSE]
  /\ UNCHANGED <<resetFlag, stopFlag>>

LowerFlag(t) ==
  /\ At(t, "lower")
  /\ To(t, "wait")
  /\ resetFlag' = [resetFlag EXCEPT ![t] = FALSE]
  /\ UNCHANGED <<stopFlag, event>>

\* The wait ends when the event is set, or when the time is over.
WaitEnds(t) ==
  /\ At(t, "wait")
  /\ To(t, "inner")
  /\ UNCHANGED <<resetFlag, stopFlag, event>>

ActionTest(t) ==
  /\ At(t, "test")
  /\ To(t, IF resetFlag[t] \/ stopFlag[t] THEN "after" ELSE "action")
  /\ UNCHANGED <<resetFlag, stopFlag, event>>

AfterAction(t) ==
  /\ At(t, "after")
  /\ To(t, "end")
  /\ stopFlag' = [stopFlag EXCEPT ![t] = TRUE]
  /\ UNCHANGED <<resetFlag, event>>

\* Nobody looks at the two flags of a once timer that stopped.
End(t) ==
  /\ At(t, "end")
  /\ To(t, "ended")
  /\ resetFlag' = [resetFlag EXCEPT ![t] = TRUE]
  /\ event' = [event EXCEPT ![t] = TRUE]
  /\ UNCHANGED stopFlag

\* The thread of t outside the action.
TimerStep(t) ==
  \/ InnerTest(t) \/ ClearEvent(t) \/ LowerFlag(t) \/ WaitEnds(t)
  \/ ActionTest(t) \/ AfterAction(t) \/ End(t)
-----------------------------------------------------------------------------
\* What other threads do with a timer: Timer(), start() and the two halves of
\* reset().  An object nobody refers to any more stands for a new one.
Make(t) ==
  /\ To(t, "made")
  /\ resetFlag' = [resetFlag EXCEPT ![t] = TRUE]
  /\ stopFlag' = [stopFlag EXCEPT ![t] = FALSE]
  /\ event' = [event EXCEPT ![t] = FALSE]

Start(t) ==
  /\ At(t, "made")
  /\ To(t, "inner")
  /\ UNCHANGED <<resetFlag, stopFlag, event>>

ResetRaise(t) ==
  /\ resetFlag' = [resetFlag EXCEPT ![t] = TRUE]
  /\ UNCHANGED <<timerAt, stopFlag, event>>

ResetSignal(t) ==
  /\ event' = [event EXCEPT ![t] = TRUE]
  /\ UNCHANGED <<timerAt, resetFlag, stopFlag>>
=============================================================================
