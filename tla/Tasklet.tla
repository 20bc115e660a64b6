------------------------------ MODULE Tasklet ------------------------------
(***************************************************************************)
(* A tasklet, a script that runs on its own beside the server              *)
(* (lib/slowpy/slowpy/mesh/tasklet.py): initialize callbacks, the main     *)
(* tasks (once, loop and schedule), a stop, the cancellation of the tasks, *)
(* finalize callbacks.  All of it runs on one event loop.  There is one    *)
(* task of each kind; the intervals and delays of the other two are left   *)
(* out, and the clock of the scheduled one counts the minutes of a day of  *)
(* DayLength minutes, over and over.                                       *)
(***************************************************************************)
EXTENDS Naturals, FiniteSets, FiniteSetsExt

CONSTANTS DayLength,
          TimeLists       \* the sets of times a task may be scheduled at

ASSUME TaskletAssumption ==
  /\ DayLength \in Nat \ {0}
  /\ TimeLists \subseteq SUBSET (0 .. DayLength - 1) /\ {} \notin TimeLists

Kind == {"once", "loop", "schedule"}

VARIABLES tlPhase,      \* where _start() is
          tlTask,       \* each task: none, idle, in its callback, resting, ended
          tlStop,       \* ControlSystem.stop(), by a signal
          tlTarget,     \* the tasks cancelled and not yet ended: at most one
          tlTimes, tlNow, tlNext,
          tlRest,       \* minutes passed in the sleep of 100 s
          tlServed,     \* the minute that is now needs no (other) call
          tlBehind,     \* the minute tlNext passed without a call
          tlJumped      \* the clock was put forward, once at most

tlVars == <<tlPhase, tlTask, tlStop, tlTarget, tlTimes, tlNow, tlNext, tlRest, tlServed, tlBehind,
          tlJumped>>
clockVars == <<tlTimes, tlNow, tlNext, tlRest, tlServed, tlBehind, tlJumped>>

Minute == 0 .. DayLength - 1

TaskletTypeOK ==
  /\ tlPhase \in {"init", "main", "cancel", "finalize", "close", "ended"}
  /\ tlTask \in [Kind -> {"none", "idle", "call", "rest", "ended"}]
  /\ tlTarget \in SUBSET Kind
  /\ tlTimes \in SUBSET Minute /\ tlNow \in Minute /\ tlNext \in Minute
  /\ tlRest \in 0 .. 2
  /\ {tlStop, tlServed, tlBehind, tlJumped} \subseteq BOOLEAN

\* Mutant: a time that is now counts as one to come.
MutAfter(times, t) ==
  IF \E u \in times : u >= t THEN Min({u \in times : u >= t}) ELSE Min(times)

\* Mutant: the times of tomorrow are counted from the midnight before.
MutAfterMidnight(times, t) ==
  IF \E u \in times : u > t THEN Min({u \in times : u > t}) ELSE Min(times) + DayLength

\* The next time of the list, around midnight.
After(times, t) ==
  IF \E u \in times : u > t THEN Min({u \in times : u > t}) ELSE Min(times)

TaskletInit ==
  /\ tlPhase = "init" /\ tlStop = FALSE /\ tlTarget = {}
  /\ tlTask = [k \in Kind |-> "none"]
  /\ tlTimes \in TimeLists /\ tlNow = 0 /\ tlNext = 0
  /\ tlRest = 0 /\ tlServed = TRUE /\ tlBehind = FALSE /\ tlJumped = FALSE

SetTask(k, s) == tlTask' = [tlTask EXCEPT ![k] = s]

\* The initialize callbacks are over; an exception in one is only logged.  The
\* scheduled task looks for its first time when it begins: a time that is now
\* is left for tomorrow, which is again now when it is the only one.
InitializeDone ==
  /\ tlPhase = "init"
  /\ tlPhase' = "main"
  /\ tlTask' = [k \in Kind |-> "idle"]
  /\ tlNext' = After(tlTimes, tlNow)
  /\ tlServed' = (tlNext' # tlNow) /\ tlBehind' = FALSE
  /\ UNCHANGED <<tlStop, tlTarget, tlTimes, tlNow, tlRest, tlJumped>>

CallOnceOrLoop(k) ==
  /\ k \in {"once", "loop"} /\ tlTask[k] = "idle" /\ ~tlStop
  /\ SetTask(k, "call")
  /\ UNCHANGED <<tlPhase, tlStop, tlTarget, clockVars>>

CallScheduled ==
  /\ tlTask["schedule"] = "idle" /\ ~tlStop
  /\ tlNow = tlNext
  /\ tlNext' = After(tlTimes, tlNext)
  /\ tlServed' = TRUE /\ tlBehind' = FALSE
  /\ SetTask("schedule", "call")
  /\ UNCHANGED <<tlPhase, tlStop, tlTarget, tlTimes, tlNow, tlRest, tlJumped>>

\* A callback returns; with a single time the scheduled task then sleeps for
\* 100 s, to be in another minute when it looks again.
CallReturns(k) ==
  /\ tlTask[k] = "call"
  /\ SetTask(k, CASE k = "once" -> "ended"
                  [] k = "schedule" /\ Cardinality(tlTimes) = 1 -> "rest"
                  [] OTHER -> "idle")
  /\ tlRest' = IF k = "schedule" THEN 0 ELSE tlRest
  /\ UNCHANGED <<tlPhase, tlStop, tlTarget, tlTimes, tlNow, tlNext, tlServed, tlBehind, tlJumped>>

RestEnds ==
  /\ tlTask["schedule"] = "rest" /\ (tlRest > 0 \/ tlStop)
  /\ SetTask("schedule", "idle")
  /\ UNCHANGED <<tlPhase, tlStop, tlTarget, clockVars>>

\* An exception of the callback ends its task; a task that sees the request to
\* stop ends.
TaskEnds(k) ==
  /\ tlTask[k] = "call" \/ (tlTask[k] = "idle" /\ tlStop)
  /\ SetTask(k, "ended")
  /\ UNCHANGED <<tlPhase, tlStop, tlTarget, clockVars>>

\* The clock: a minute passes, whatever the task does, or it is put forward
\* (the local time, in spring).
Passed(n) == {(tlNow + i) % DayLength : i \in 0 .. n - 1}
Tick(n) ==
  /\ n > 1 => ~tlJumped
  /\ tlTask["schedule"] = "rest" => tlRest < 2
  /\ tlJumped' = (tlJumped \/ n > 1)
  /\ tlNow' = (tlNow + n) % DayLength
  /\ tlServed' = FALSE
  /\ tlBehind' = (tlBehind \/ \E t \in Passed(n) : t = tlNext /\ ~(t = tlNow /\ tlServed))
  /\ tlRest' = IF tlTask["schedule"] = "rest" THEN tlRest + 1 ELSE tlRest
  /\ UNCHANGED <<tlPhase, tlTask, tlStop, tlTarget, tlTimes, tlNext>>

StopRequested ==
  /\ ~tlStop
  /\ tlStop' = TRUE
  /\ UNCHANGED <<tlPhase, tlTask, tlTarget, clockVars>>

\* _start() sees the request, cancels one task after the other and waits for
\* each; the done callbacks take the ended ones out of the set.
SeeStop ==
  /\ tlPhase = "main" /\ tlStop
  /\ tlPhase' = "cancel"
  /\ UNCHANGED <<tlTask, tlStop, tlTarget, clockVars>>

CancelTask(k) ==
  /\ tlPhase = "cancel" /\ tlTarget = {} /\ tlTask[k] # "ended"
  /\ tlTarget' = {k}
  /\ UNCHANGED <<tlPhase, tlTask, tlStop, clockVars>>

\* Cancelled at its await.  The sleeps of ControlSystem swallow that, so that a
\* task may also go on to the next look at the stop event.
CancelArrives(k) ==
  /\ k \in tlTarget /\ tlTask[k] # "ended"
  /\ SetTask(k, "ended")
  /\ UNCHANGED <<tlPhase, tlStop, tlTarget, clockVars>>

AwaitTask(k) ==
  /\ k \in tlTarget /\ tlTask[k] = "ended"
  /\ tlTarget' = {}
  /\ UNCHANGED <<tlPhase, tlTask, tlStop, clockVars>>

CancelDone ==
  /\ tlPhase = "cancel" /\ tlTarget = {}
  /\ \A k \in Kind : tlTask[k] = "ended"
  /\ tlPhase' = "finalize"
  /\ UNCHANGED <<tlTask, tlStop, tlTarget, clockVars>>

\* The finalize callbacks end, then the meshes and the connection to the
\* server are closed.
FinalizeDone ==
  /\ tlPhase = "finalize" /\ tlPhase' = "close"
  /\ UNCHANGED <<tlTask, tlStop, tlTarget, clockVars>>

CloseDone ==
  /\ tlPhase = "close" /\ tlPhase' = "ended"
  /\ UNCHANGED <<tlTask, tlStop, tlTarget, clockVars>>

TaskSteps(k) == \/ CallReturns(k) \/ TaskEnds(k)
                \/ CancelTask(k) \/ CancelArrives(k) \/ AwaitTask(k)

TaskletNext ==
  \/ InitializeDone
  \/ \E k \in Kind : CallOnceOrLoop(k) \/ TaskSteps(k)
  \/ CallScheduled \/ RestEnds
  \/ \E n \in 1 .. 2 : Tick(n)
  \/ StopRequested \/ SeeStop \/ CancelDone \/ FinalizeDone \/ CloseDone

TaskletSpec == TaskletInit /\ [][TaskletNext]_tlVars

(***************************************************************************)
(* Properties                                                              *)
(***************************************************************************)
Scheduling == tlTask["schedule"] \in {"idle", "call", "rest"} /\ ~tlStop

\* A minute of the list passes without a call only while the task is behind:
\* a call ran on, the loop was blocked or the clock was put forward over the
\* time it waits for; and no minute is served twice.
ScheduleKept ==
  [][/\ (Scheduling /\ tlNow' # tlNow /\ tlNow \in tlTimes /\ ~tlServed) => tlBehind'
     /\ (tlTask["schedule"] = "idle" /\ tlTask'["schedule"] = "call") => ~tlServed]_tlVars

=============================================================================
