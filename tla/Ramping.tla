------------------------------ MODULE Ramping ------------------------------
(***************************************************************************)
(* Child nodes of a control variable (lib/slowpy/slowpy/control/node.py):  *)
(* SetpointNode, RampingNode and its status node.  The children of one     *)
(* variable are made once and shared, so that all calls of aio_set() of    *)
(* the ramping node share its target and its running flag, while each call *)
(* keeps the value it has come to in a local variable.                     *)
(*                                                                         *)
(* rampSuspends tells the two kinds of devices apart.  Reading and writing *)
(* a plain node does not leave the event loop (ControlNode.aio_set); a     *)
(* thread-safe one is used in a worker thread, and the blocking set() runs *)
(* in the thread of its caller: then calls interleave at every step.       *)
(***************************************************************************)
EXTENDS Integers

CONSTANTS RampCall,      \* calls of RampingNode.aio_set(), each made once
          MaxLevel,      \* the device takes the values 0 .. MaxLevel
          ChangePerSec,  \* positive: anything else is refused at once
          UpperLimit     \* the upper limit of the setpoint node

ASSUME RampingAssumption ==
  MaxLevel \in Nat /\ ChangePerSec \in Nat \ {0} /\ UpperLimit \in Int

VARIABLES deviceValue, setpoint, rampTarget, rampRunning, rampStop,
          ramp,          \* ramp[c]: where call c is and the value it has come to
          rampSuspends,
          rampAsked      \* the last call was not stopped, nor did a call fail

rampVars == <<deviceValue, setpoint, rampTarget, rampRunning, rampStop, ramp,
              rampSuspends, rampAsked>>

Level == 0 .. MaxLevel

RampingTypeOK ==
  /\ deviceValue \in Level
  /\ setpoint \in Level \cup {-1}
  /\ rampTarget \in Level \cup {-1}
  /\ {rampRunning, rampStop, rampSuspends, rampAsked} \subseteq BOOLEAN
  /\ ramp \in [RampCall -> [at : {"new", "read", "step", "write", "sleep", "end"}, cur : Level]]

RampingInit ==
  /\ deviceValue = 0 /\ setpoint = -1 /\ rampTarget = -1
  /\ rampRunning = FALSE /\ rampStop = FALSE /\ rampAsked = FALSE
  /\ ramp = [c \in RampCall |-> [at |-> "new", cur |-> 0]]
  /\ rampSuspends \in BOOLEAN

Active(c) == ramp[c].at \in {"read", "step", "write", "sleep"}

\* Without suspension a call that has the event loop keeps it until it sleeps.
HasLoop(c) ==
  rampSuspends \/ \A d \in RampCall \ {c} : ramp[d].at \notin {"read", "step", "write"}

GoTo(c, at) == ramp' = [ramp EXCEPT ![c].at = at]

RampCallSet(c, v) ==
  /\ ramp[c].at = "new" /\ HasLoop(c)
  /\ rampTarget' = v
  /\ GoTo(c, "read")
  /\ UNCHANGED <<deviceValue, setpoint, rampRunning, rampStop, rampSuspends, rampAsked>>

RampStart(c) ==
  /\ ramp[c].at = "read" /\ HasLoop(c)
  /\ ramp' = [ramp EXCEPT ![c] = [at |-> "step", cur |-> deviceValue]]
  /\ rampRunning' = TRUE
  /\ rampAsked' = TRUE
  /\ UNCHANGED <<deviceValue, setpoint, rampTarget, rampStop, rampSuspends>>

\* The value cannot be read: a warning, and the target is left as it was set.
RampUnreadable(c) ==
  /\ ramp[c].at = "read" /\ HasLoop(c)
  /\ GoTo(c, "end")
  /\ rampAsked' = FALSE
  /\ UNCHANGED <<deviceValue, setpoint, rampTarget, rampRunning, rampStop, rampSuspends>>

\* Mutant: the last step goes a whole step.
MutToward(v, target) == IF v - target > 0 THEN v - ChangePerSec ELSE v + ChangePerSec

Near(v, target) == v - target \in -ChangePerSec .. ChangePerSec

Toward(v, target) ==
  CASE Near(v, target) -> target
    [] v - target > ChangePerSec -> v - ChangePerSec
    [] OTHER -> v + ChangePerSec

\* One turn of the loop up to the write.  The setpoint node refuses a value
\* out of its limits with an exception, which ends the call as it is: with
\* _running still True.
RampStep(c) ==
  /\ ramp[c].at = "step" /\ HasLoop(c)
  /\ rampRunning
  /\ LET v == Toward(ramp[c].cur, rampTarget) IN
     /\ rampRunning' = ~Near(ramp[c].cur, rampTarget)
     /\ IF v <= UpperLimit
        THEN /\ ramp' = [ramp EXCEPT ![c] = [at |-> "write", cur |-> v]]
             /\ setpoint' = v
             /\ UNCHANGED rampAsked
        ELSE /\ GoTo(c, "end")
             /\ rampAsked' = FALSE
             /\ UNCHANGED setpoint
  /\ UNCHANGED <<deviceValue, rampTarget, rampStop, rampSuspends>>

RampLeave(c) ==
  /\ ramp[c].at = "step" /\ HasLoop(c)
  /\ ~rampRunning
  /\ GoTo(c, "end")
  /\ UNCHANGED <<deviceValue, setpoint, rampTarget, rampRunning, rampStop, rampSuspends, rampAsked>>

RampWrite(c) ==
  /\ ramp[c].at = "write"
  /\ deviceValue' = ramp[c].cur
  /\ GoTo(c, "sleep")
  /\ UNCHANGED <<setpoint, rampTarget, rampRunning, rampStop, rampSuspends, rampAsked>>

\* The device refuses the value, before or after it has taken it; the call ends as
\* above.
RampWriteFails(c) ==
  /\ ramp[c].at = "write"
  /\ deviceValue' \in {deviceValue, ramp[c].cur}
  /\ GoTo(c, "end")
  /\ rampAsked' = FALSE
  /\ UNCHANGED <<setpoint, rampTarget, rampRunning, rampStop, rampSuspends>>

\* The ten naps of 0.1 s end: by themselves, or on a request to stop.
RampWake(c) ==
  /\ ramp[c].at = "sleep" /\ HasLoop(c)
  /\ rampRunning' = (rampRunning /\ ~rampStop)
  /\ GoTo(c, "step")
  /\ UNCHANGED <<deviceValue, setpoint, rampTarget, rampStop, rampSuspends, rampAsked>>

\* RampingStatusNode.set(0): the calls notice after their naps, unless another
\* call sets the flag again before.
RampStatusSet ==
  /\ rampSuspends \/ \A c \in RampCall : ramp[c].at \notin {"read", "step", "write"}
  /\ rampRunning
  /\ rampRunning' = FALSE
  /\ rampAsked' = FALSE
  /\ UNCHANGED <<deviceValue, setpoint, rampTarget, rampStop, ramp, rampSuspends>>

\* ControlSystem.stop(), from a signal or from a task that ends.
RampSystemStop ==
  /\ ~rampStop
  /\ rampStop' = TRUE
  /\ UNCHANGED <<deviceValue, setpoint, rampTarget, rampRunning, ramp, rampSuspends, rampAsked>>

RampGo(c) == \/ RampStart(c) \/ RampUnreadable(c) \/ RampStep(c) \/ RampLeave(c)
             \/ RampWrite(c) \/ RampWriteFails(c) \/ RampWake(c)

RampingNext ==
  \/ \E c \in RampCall : RampGo(c) \/ \E v \in Level : RampCallSet(c, v)
  \/ RampStatusSet
  \/ RampSystemStop

RampingSpec == RampingInit /\ [][RampingNext]_rampVars

(***************************************************************************)
(* Properties                                                              *)
(***************************************************************************)
\* Calls of aio_set() may overlap, each moving from where it is toward the
\* target of the last.  When all have ended, without a request to stop or a
\* failure since, the device is at that target: none of them leaves it on the
\* way, as long as reads and writes do not suspend.
RampEndsAtLastTarget ==
  (/\ ~rampSuspends /\ ~rampStop /\ rampAsked
   /\ \A c \in RampCall : ~Active(c)) => deviceValue = rampTarget

=============================================================================
