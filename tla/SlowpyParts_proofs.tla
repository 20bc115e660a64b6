-------------------------- MODULE SlowpyParts_proofs --------------------------
(*************************************************************************)
(* What the parts of the client library guarantee for every value of their *)
(* constants: nodes and their threads, ramps, tasklets, the calls and the *)
(* clients of message brokers, the clock of an HDL module, and trends.   *)
(*************************************************************************)
EXTENDS Ramping, NodeThread, Tasklet, HdlClock, RabbitRPC, BrokerClient, Trend,
        DataLemmas, TLAPS

(*************************************************************************)
(* Ramping: whatever the levels and the number of calls, the device ends at *)
(* the last target.  A call that has begun has set a target (TargetInv). *)
(* There is always somebody who sees to it that the device comes there   *)
(* (RampInv); that needs that one call at most is on its way from a nap to *)
(* the next (OneOnLoop).                                                 *)
(*************************************************************************)
\* A call that has begun has set a target.
TargetInv == (\E c \in RampCall : ramp[c].at # "new") => rampTarget \in Level

\* Without suspension one call at most is on its way from a nap to the next.
OnLoop(c) == ramp[c].at \in {"read", "step", "write"}
OneOnLoop == ~rampSuspends => \A c, d \in RampCall : OnLoop(c) /\ OnLoop(d) => c = d

\* Who sees to it that the device comes to the target: a call that is about to
\* start the ramp, one that goes on with it, or the one that writes the target;
\* or it is there and nothing else is about to be written.
Starting == \E c \in RampCall : ramp[c].at = "read"
Moving   == rampRunning /\ \E c \in RampCall : ramp[c].at \in {"step", "write", "sleep"}
Arriving == ~rampRunning /\ \E c \in RampCall : ramp[c].at = "write" /\ ramp[c].cur = rampTarget
Arrived  == /\ ~rampRunning /\ deviceValue = rampTarget
            /\ \A c \in RampCall : ramp[c].at # "write"

RampInv ==
  (~rampSuspends /\ ~rampStop /\ rampAsked) => Starting \/ Moving \/ Arriving \/ Arrived

RampingInv == RampingTypeOK /\ TargetInv /\ OneOnLoop /\ RampInv

-----------------------------------------------------------------------------
\* A step toward a target does not pass it, nor leave the range of the device.
LEMMA TowardType ==
  ASSUME NEW v \in Level, NEW target \in Level
  PROVE  /\ Toward(v, target) \in Level
         /\ Near(v, target) <=> Toward(v, target) = target
<1> USE RampingAssumption DEF Level, Near, Toward
<1>1. CASE Near(v, target)
    BY <1>1
<1>2. CASE v - target > ChangePerSec
    BY <1>2
<1>3. CASE ~Near(v, target) /\ ~(v - target > ChangePerSec)
    BY <1>3
<1> QED
    BY <1>1, <1>2, <1>3

\* Every step of the ramps keeps the types, and a call that runs has a target.
LEMMA RampingStepType ==
  RampingTypeOK /\ TargetInv /\ [RampingNext]_rampVars => RampingTypeOK' /\ TargetInv'
<1> SUFFICES ASSUME RampingTypeOK, TargetInv, [RampingNext]_rampVars
             PROVE  RampingTypeOK' /\ TargetInv'
    OBVIOUS
<1> USE DEF RampingTypeOK, TargetInv, GoTo
<1>1. ASSUME NEW c \in RampCall, NEW v \in Level, RampCallSet(c, v)
      PROVE  RampingTypeOK' /\ TargetInv'
    BY <1>1 DEF RampCallSet
<1>2. ASSUME NEW c \in RampCall, RampStart(c) PROVE RampingTypeOK' /\ TargetInv'
    BY <1>2 DEF RampStart
<1>3. ASSUME NEW c \in RampCall, RampUnreadable(c) PROVE RampingTypeOK' /\ TargetInv'
    BY <1>3 DEF RampUnreadable
<1>4. ASSUME NEW c \in RampCall, RampStep(c) PROVE RampingTypeOK' /\ TargetInv'
  <2> DEFINE v == Toward(ramp[c].cur, rampTarget)
  <2>1. v \in Level /\ rampTarget \in Level
      BY <1>4, TowardType DEF RampStep
  <2> HIDE DEF v
  <2>2. CASE v <= UpperLimit
      BY <1>4, <2>1, <2>2 DEF RampStep, v
  <2>3. CASE ~(v <= UpperLimit)
      BY <1>4, <2>1, <2>3 DEF RampStep, v
  <2> QED
      BY <2>2, <2>3
<1>5. ASSUME NEW c \in RampCall, RampLeave(c) PROVE RampingTypeOK' /\ TargetInv'
    BY <1>5 DEF RampLeave
<1>6. ASSUME NEW c \in RampCall, RampWrite(c) PROVE RampingTypeOK' /\ TargetInv'
    BY <1>6 DEF RampWrite
<1>11. ASSUME NEW c \in RampCall, RampWriteFails(c) PROVE RampingTypeOK' /\ TargetInv'
    BY <1>11 DEF RampWriteFails
<1>7. ASSUME NEW c \in RampCall, RampWake(c) PROVE RampingTypeOK' /\ TargetInv'
    BY <1>7 DEF RampWake
<1>8. CASE RampStatusSet
    BY <1>8 DEF RampStatusSet
<1>9. CASE RampSystemStop
    BY <1>9 DEF RampSystemStop
<1>10. CASE UNCHANGED rampVars
    BY <1>10 DEF rampVars
<1> QED
    BY <1>1, <1>2, <1>3, <1>4, <1>5, <1>6, <1>7, <1>8, <1>9, <1>10, <1>11 DEF RampingNext, RampGo

\* A call that ends or naps leaves the target to one that goes on, or is there.
LEMMA RampingStepInv == RampingInv /\ [RampingNext]_rampVars => OneOnLoop' /\ RampInv'
<1> SUFFICES ASSUME RampingInv, [RampingNext]_rampVars PROVE OneOnLoop' /\ RampInv'
    OBVIOUS
<1> USE DEF RampingInv, RampingTypeOK, OneOnLoop, OnLoop, RampInv, HasLoop, GoTo,
            Starting, Moving, Arriving, Arrived
<1>1. ASSUME NEW c \in RampCall, NEW v \in Level, RampCallSet(c, v) PROVE OneOnLoop' /\ RampInv'
    BY <1>1 DEF RampCallSet
<1>2. ASSUME NEW c \in RampCall, RampStart(c) PROVE OneOnLoop' /\ RampInv'
    BY <1>2 DEF RampStart
<1>3. ASSUME NEW c \in RampCall, RampUnreadable(c) PROVE OneOnLoop' /\ RampInv'
    BY <1>3 DEF RampUnreadable
<1>4. ASSUME NEW c \in RampCall, RampStep(c) PROVE OneOnLoop' /\ RampInv'
  <2> DEFINE v == Toward(ramp[c].cur, rampTarget)
             near == Near(ramp[c].cur, rampTarget)
  <2>1. near <=> v = rampTarget
      BY <1>4, TowardType DEF RampStep, TargetInv
  <2>2. v \in Level
      BY <1>4, TowardType DEF RampStep, TargetInv
  <2>3. near \in BOOLEAN
      BY DEF Near
  <2>4. /\ HasLoop(c) /\ ramp[c].at = "step" /\ rampRunning /\ rampRunning' = ~near
        /\ IF v <= UpperLimit
           THEN /\ ramp' = [ramp EXCEPT ![c] = [at |-> "write", cur |-> v]]
                /\ setpoint' = v
                /\ UNCHANGED rampAsked
           ELSE /\ GoTo(c, "end")
                /\ rampAsked' = FALSE
                /\ UNCHANGED setpoint
        /\ UNCHANGED <<deviceValue, rampTarget, rampStop, rampSuspends>>
      BY <1>4 DEF RampStep
  <2> HIDE DEF v, near
  <2>5. CASE v <= UpperLimit
      BY <2>1, <2>2, <2>3, <2>4, <2>5
  <2>6. CASE ~(v <= UpperLimit)
      BY <2>4, <2>6
  <2> QED
      BY <2>5, <2>6
<1>5. ASSUME NEW c \in RampCall, RampLeave(c) PROVE OneOnLoop' /\ RampInv'
    BY <1>5 DEF RampLeave
<1>6. ASSUME NEW c \in RampCall, RampWrite(c) PROVE OneOnLoop' /\ RampInv'
    BY <1>6 DEF RampWrite
<1>11. ASSUME NEW c \in RampCall, RampWriteFails(c) PROVE OneOnLoop' /\ RampInv'
    BY <1>11 DEF RampWriteFails
<1>7. ASSUME NEW c \in RampCall, RampWake(c) PROVE OneOnLoop' /\ RampInv'
    BY <1>7 DEF RampWake
<1>8. CASE RampStatusSet
    BY <1>8 DEF RampStatusSet
<1>9. CASE RampSystemStop
    BY <1>9 DEF RampSystemStop
<1>10. CASE UNCHANGED rampVars
    BY <1>10 DEF rampVars
<1> QED
    BY <1>1, <1>2, <1>3, <1>4, <1>5, <1>6, <1>7, <1>8, <1>9, <1>10, <1>11 DEF RampingNext, RampGo

\* At first no call has begun.
LEMMA InitRamping == RampingInit => RampingInv
<1> SUFFICES ASSUME RampingInit PROVE RampingInv
    OBVIOUS
<1>1. 0 \in Level
    BY RampingAssumption DEF Level
<1>2. RampingTypeOK
    BY <1>1 DEF RampingInit, RampingTypeOK
<1>3. TargetInv /\ OneOnLoop /\ RampInv
    BY DEF RampingInit, TargetInv, OneOnLoop, OnLoop, RampInv
<1> QED
    BY <1>2, <1>3 DEF RampingInv

\* The invariant of the ramps is inductive.
LEMMA RampingStep == RampingInv /\ [RampingNext]_rampVars => RampingInv'
    BY RampingStepType, RampingStepInv DEF RampingInv

\* When all calls have ended, the device is where it was last asked to go.
LEMMA RampingInvEnds == RampingInv => RampEndsAtLastTarget
    BY DEF RampingInv, RampInv, Starting, Moving, Arriving, Arrived, RampEndsAtLastTarget, Active

\* Whatever the levels and the number of calls that overlap: when all have
\* ended, without a request to stop or a failure since, the device is at the
\* target of the last, as long as reads and writes do not suspend
\* (node.py:518-591).
THEOREM RampEnds == RampingSpec => []RampEndsAtLastTarget
    BY InitRamping, RampingStep, RampingInvEnds, PTL DEF RampingSpec

(***************************************************************************)
(* Node threads.  As long as the calls on a node came one at a time, the   *)
(* one under way holds the thread that the node knows, and a start() has   *)
(* been let in only when there is none.                                    *)
(***************************************************************************)
Calls == [Script -> [NodeCaller ->
       [at : {"no", "start", "clear", "run", "set", "join", "failed"}, thread : 0 .. MaxStarts]]]

OneCall(s) == \A c, d \in NodeCaller : c = d \/ CallAt(s, c, "no") \/ CallAt(s, d, "no")

CallsOK(s) ==
  /\ \A c \in NodeCaller : CallAt(s, c, "clear") \/ CallAt(s, c, "run") =>
       ntCall[s][c].thread \in 1 .. ntStarted[s]
  /\ s \notin ntOverlap =>
       /\ OneCall(s) /\ ntLive[s] \subseteq {ntThread[s]}
       /\ \A c \in NodeCaller :
            /\ CallAt(s, c, "start") => ntThread[s] = 0
            /\ CallAt(s, c, "clear") \/ CallAt(s, c, "run") \/ CallAt(s, c, "join") =>
                 ntCall[s][c].thread = ntThread[s]

NodeThreadInv == NodeThreadTypeOK /\ \A s \in Script : CallsOK(s)

\* What a call does when it goes on: the other calls stay where they are.
LEMMA GoesIs ==
  ASSUME NodeThreadTypeOK, NEW s \in Script, NEW c \in NodeCaller, NEW thread \in 0 .. MaxStarts,
         NEW at \in {"no", "start", "clear", "run", "set", "join", "failed"},
         Goes(s, c, at, thread)
  PROVE  /\ ntCall' \in Calls
         /\ ntCall'[s][c].at = at /\ ntCall'[s][c].thread = thread
         /\ \A d \in NodeCaller : d # c => ntCall'[s][d] = ntCall[s][d]
         /\ \A o \in Script : o # s => ntCall'[o] = ntCall[o]
<1>1. ntCall \in Calls
    BY DEF NodeThreadTypeOK, Calls
<1> DEFINE r == [at |-> at, thread |-> thread]
<1>2. r \in [at : {"no", "start", "clear", "run", "set", "join", "failed"}, thread : 0 .. MaxStarts]
      /\ r.at = at /\ r.thread = thread
    OBVIOUS
<1>3. ntCall' = [ntCall EXCEPT ![s][c] = r]
    BY DEF Goes
<1> HIDE DEF r
<1> QED
    BY <1>1, <1>2, <1>3 DEF Calls

\* The other scripts keep what they have.
LEMMA OthersKept ==
  ASSUME NodeThreadInv, NEW s \in Script, NEW o \in Script, o # s,
         ntCall'[o] = ntCall[o], ntThread'[o] = ntThread[o], ntStarted'[o] = ntStarted[o],
         ntLive'[o] = ntLive[o], o \in ntOverlap => o \in ntOverlap'
  PROVE  CallsOK(o)'
<1>1. CallsOK(o)
    BY DEF NodeThreadInv
<1> QED
    BY <1>1 DEF CallsOK, OneCall, CallAt

\* Initially there are no threads and no calls.
LEMMA InitNodeThread == NodeThreadInit => NodeThreadInv
<1> SUFFICES ASSUME NodeThreadInit PROVE NodeThreadInv
    OBVIOUS
<1> USE DEF NodeThreadInit
<1>0. MaxStarts \in Nat
    BY NodeThreadAssumption
<1>1. ntCall \in Calls
  <2>1. NoCall \in [at : {"no", "start", "clear", "run", "set", "join", "failed"},
                    thread : 0 .. MaxStarts]
      BY <1>0 DEF NoCall
  <2> HIDE DEF NoCall
  <2> QED
      BY <2>1 DEF Calls
<1>2. NodeThreadTypeOK
  <2>1. 0 \in 0 .. MaxStarts /\ 0 \in 0 .. 0 /\ {} \in SUBSET (1 .. MaxStarts)
      BY <1>0
  <2>2. /\ ntStarted \in [Script -> 0 .. MaxStarts] /\ ntThread \in [Script -> 0 .. MaxStarts]
        /\ ntLive \in [Script -> SUBSET (1 .. MaxStarts)]
      BY <2>1, Zenon
  <2>3. ntScript \in [Script -> {"no", "loaded", "stopping", "gone"}]
      BY SMT
  <2>4. ASSUME NEW s \in Script
        PROVE  ntThread[s] \in 0 .. ntStarted[s] /\ ntLive[s] \subseteq 1 .. ntStarted[s]
      BY <2>1
  <2> QED
      BY <1>1, <2>2, <2>3, <2>4 DEF NodeThreadTypeOK, Calls
<1>3. ASSUME NEW s \in Script PROVE CallsOK(s)
    BY <1>3 DEF CallsOK, OneCall, CallAt, NoCall
<1> QED
    BY <1>2, <1>3 DEF NodeThreadInv

\* Loading and stopping of scripts leaves threads and calls alone.
LEMMA ScriptStep ==
  ASSUME NodeThreadInv, NEW s \in Script, LoadScript(s) \/ StopScript(s) \/ ScriptGone(s)
  PROVE  NodeThreadInv'
<1>1. UNCHANGED <<ntNodeStop, ntThread, ntStarted, ntLive, ntCall, ntOverlap>>
    BY DEF LoadScript, StopScript, ScriptGone
<1>2. NodeThreadTypeOK'
    BY <1>1 DEF LoadScript, StopScript, ScriptGone, NodeThreadTypeOK, NodeThreadInv
<1>3. ASSUME NEW o \in Script PROVE CallsOK(o)'
  <2>1. CallsOK(o)
      BY DEF NodeThreadInv
  <2> QED
      BY <1>1, <2>1 DEF CallsOK, OneCall, CallAt
<1> QED
    BY <1>2, <1>3 DEF NodeThreadInv

\* A call that comes is the only one, or its node is counted with the overlaps.
LEMMA EntersIs ==
  ASSUME NodeThreadInv, NEW s \in Script, NEW c \in NodeCaller, Enters(s, c)
  PROVE  /\ ntOverlap' \subseteq Script /\ ntOverlap \subseteq ntOverlap'
         /\ s \notin ntOverlap' => \A d \in NodeCaller : CallAt(s, d, "no")
         /\ \A o \in Script : o # s => (o \in ntOverlap <=> o \in ntOverlap')
BY DEF Enters, NodeThreadInv, NodeThreadTypeOK

\* start() is let in when the node has no thread.
LEMMA StartEntersStep ==
  ASSUME NodeThreadInv, NEW s \in Script, NEW c \in NodeCaller, StartEnters(s, c)
  PROVE  NodeThreadInv'
<1>0. NodeThreadTypeOK /\ 0 \in 0 .. MaxStarts
    BY NodeThreadAssumption DEF NodeThreadInv
<1>1. /\ Enters(s, c) /\ ntThread[s] = 0 /\ Goes(s, c, "start", 0)
      /\ UNCHANGED <<ntSystemStop, ntScript, ntCleared, ntNodeStop, ntThread, ntStarted, ntLive>>
    BY DEF StartEnters, Enters
<1>2. /\ ntCall' \in Calls
      /\ ntCall'[s][c].at = "start" /\ ntCall'[s][c].thread = 0
      /\ \A d \in NodeCaller : d # c => ntCall'[s][d] = ntCall[s][d]
      /\ \A o \in Script : o # s => ntCall'[o] = ntCall[o]
    BY <1>0, <1>1, GoesIs
<1>3. /\ ntOverlap' \subseteq Script /\ ntOverlap \subseteq ntOverlap'
      /\ s \notin ntOverlap' => \A d \in NodeCaller : CallAt(s, d, "no")
    BY <1>1, EntersIs
<1>4. NodeThreadTypeOK'
    BY <1>0, <1>1, <1>2, <1>3 DEF NodeThreadTypeOK, Calls
<1>5. CallsOK(s)'
  <2>1. CallsOK(s)
      BY DEF NodeThreadInv
  <2> QED
      BY <1>1, <1>2, <1>3, <2>1 DEF CallsOK, OneCall, CallAt
<1>6. ASSUME NEW o \in Script, o # s PROVE CallsOK(o)'
    BY <1>1, <1>2, <1>3, <1>6, OthersKept
<1> QED
    BY <1>4, <1>5, <1>6 DEF NodeThreadInv

\* stop() is let in and sets the event of the node.
LEMMA StopEntersStep ==
  ASSUME NodeThreadInv, NEW s \in Script, NEW c \in NodeCaller, StopEnters(s, c)
  PROVE  NodeThreadInv'
<1>0. NodeThreadTypeOK /\ 0 \in 0 .. MaxStarts
    BY NodeThreadAssumption DEF NodeThreadInv
<1>1. /\ Enters(s, c) /\ ntNodeStop' = ntNodeStop \cup {s} /\ Goes(s, c, "set", 0)
      /\ UNCHANGED <<ntSystemStop, ntScript, ntCleared, ntThread, ntStarted, ntLive>>
    BY DEF StopEnters, Enters
<1>2. /\ ntCall' \in Calls
      /\ ntCall'[s][c].at = "set" /\ ntCall'[s][c].thread = 0
      /\ \A d \in NodeCaller : d # c => ntCall'[s][d] = ntCall[s][d]
      /\ \A o \in Script : o # s => ntCall'[o] = ntCall[o]
    BY <1>0, <1>1, GoesIs
<1>3. /\ ntOverlap' \subseteq Script /\ ntOverlap \subseteq ntOverlap'
      /\ s \notin ntOverlap' => \A d \in NodeCaller : CallAt(s, d, "no")
    BY <1>1, EntersIs
<1>4. NodeThreadTypeOK'
    BY <1>0, <1>1, <1>2, <1>3 DEF NodeThreadTypeOK, Calls
<1>5. CallsOK(s)'
  <2>1. CallsOK(s)
      BY DEF NodeThreadInv
  <2> QED
      BY <1>1, <1>2, <1>3, <2>1 DEF CallsOK, OneCall, CallAt
<1>6. ASSUME NEW o \in Script, o # s PROVE CallsOK(o)'
    BY <1>1, <1>2, <1>3, <1>6, OthersKept
<1> QED
    BY <1>4, <1>5, <1>6 DEF NodeThreadInv

\* start() makes a thread and the node knows it: none runs on a node whose
\* calls came one at a time.
LEMMA StartAssignsStep ==
  ASSUME NodeThreadInv, NEW s \in Script, NEW c \in NodeCaller, StartAssigns(s, c)
  PROVE  NodeThreadInv'
<1>0. NodeThreadTypeOK /\ MaxStarts \in Nat
    BY NodeThreadAssumption DEF NodeThreadInv
<1> DEFINE k == ntStarted[s] + 1
<1>1. k \in 1 .. MaxStarts /\ ntStarted[s] \in Nat
    BY <1>0 DEF NodeThreadTypeOK, StartAssigns
<1>2. /\ ntStarted' = [ntStarted EXCEPT ![s] = k]
      /\ ntStarted'[s] = k /\ \A o \in Script : o # s => ntStarted'[o] = ntStarted[o]
    BY <1>0 DEF NodeThreadTypeOK, StartAssigns
<1>3. /\ ntThread' = [ntThread EXCEPT ![s] = k] /\ Goes(s, c, "clear", k) /\ CallAt(s, c, "start")
      /\ UNCHANGED <<ntSystemStop, ntScript, ntNodeStop, ntLive, ntOverlap, ntCleared>>
    BY <1>2 DEF StartAssigns
<1> HIDE DEF k
<1>4. ntThread'[s] = k /\ \A o \in Script : o # s => ntThread'[o] = ntThread[o]
    BY <1>0, <1>3 DEF NodeThreadTypeOK
<1>5. /\ ntCall' \in Calls
      /\ ntCall'[s][c].at = "clear" /\ ntCall'[s][c].thread = k
      /\ \A d \in NodeCaller : d # c => ntCall'[s][d] = ntCall[s][d]
      /\ \A o \in Script : o # s => ntCall'[o] = ntCall[o]
  <2>1. k \in 0 .. MaxStarts
      BY <1>0, <1>1
  <2> QED
      BY <1>0, <1>3, <2>1, GoesIs
<1>6. NodeThreadTypeOK'
  <2>1. ntStarted' \in [Script -> 0 .. MaxStarts] /\ ntThread' \in [Script -> 0 .. MaxStarts]
      BY <1>0, <1>1, <1>2, <1>3 DEF NodeThreadTypeOK
  <2>2. k \in 0 .. k /\ \A i \in 1 .. ntStarted[s] : i \in 1 .. k
      BY <1>1 DEF k
  <2>3. ASSUME NEW o \in Script
        PROVE  ntThread'[o] \in 0 .. ntStarted'[o] /\ ntLive[o] \subseteq 1 .. ntStarted'[o]
    <3>1. ntThread[o] \in 0 .. ntStarted[o] /\ ntLive[o] \subseteq 1 .. ntStarted[o]
        BY <1>0 DEF NodeThreadTypeOK
    <3>2. CASE o = s
        BY <1>2, <1>4, <2>2, <3>1, <3>2
    <3>3. CASE o # s
        BY <1>2, <1>4, <3>1, <3>3
    <3> QED
        BY <3>2, <3>3
  <2>4. ntCall' \in [Script -> [NodeCaller ->
           [at : {"no", "start", "clear", "run", "set", "join", "failed"}, thread : 0 .. MaxStarts]]]
      BY <1>5 DEF Calls
  <2> QED
      BY <1>0, <1>3, <2>1, <2>3, <2>4 DEF NodeThreadTypeOK
<1>7. CallsOK(s)'
  <2>1. CallsOK(s)
      BY DEF NodeThreadInv
  <2>2. \A i \in 1 .. ntStarted[s] : i \in 1 .. k
      BY <1>1 DEF k
  <2>3. \A d \in NodeCaller : (CallAt(s, d, "clear") \/ CallAt(s, d, "run"))' =>
          ntCall'[s][d].thread \in 1 .. ntStarted'[s]
    <3> SUFFICES ASSUME NEW d \in NodeCaller, (CallAt(s, d, "clear") \/ CallAt(s, d, "run"))'
                 PROVE  ntCall'[s][d].thread \in 1 .. k
        BY <1>2
    <3>1. CASE d = c
        BY <1>1, <1>5, <3>1
    <3>2. CASE d # c
        BY <1>5, <2>1, <2>2, <3>2 DEF CallsOK, CallAt
    <3> QED
        BY <3>1, <3>2
  <2>4. ASSUME s \notin ntOverlap'
        PROVE  /\ OneCall(s)' /\ ntLive'[s] \subseteq {ntThread'[s]}
               /\ \A d \in NodeCaller :
                    /\ CallAt(s, d, "start")' => ntThread'[s] = 0
                    /\ (CallAt(s, d, "clear") \/ CallAt(s, d, "run") \/ CallAt(s, d, "join"))' =>
                         ntCall'[s][d].thread = ntThread'[s]
    <3>1. s \notin ntOverlap
        BY <1>3, <2>4
    <3>2. ntThread[s] = 0 /\ ntLive[s] \subseteq {0} /\ ntLive[s] \subseteq 1 .. ntStarted[s]
        BY <1>0, <1>3, <2>1, <3>1 DEF CallsOK, NodeThreadTypeOK
    <3>3. ntLive'[s] = {}
        BY <1>3, <3>2
    <3>4. \A d \in NodeCaller : d # c => CallAt(s, d, "no")
        BY <1>3, <2>1, <3>1 DEF CallsOK, OneCall, CallAt
    <3> QED
        BY <1>4, <1>5, <3>3, <3>4 DEF OneCall, CallAt
  <2> QED
      BY <2>3, <2>4 DEF CallsOK
<1>8. ASSUME NEW o \in Script, o # s PROVE CallsOK(o)'
    BY <1>2, <1>3, <1>4, <1>5, <1>8, OthersKept
<1> QED
    BY <1>6, <1>7, <1>8 DEF NodeThreadInv

\* start() clears the event.
LEMMA StartClearsStep ==
  ASSUME NodeThreadInv, NEW s \in Script, NEW c \in NodeCaller, StartClears(s, c)
  PROVE  NodeThreadInv'
<1>0. NodeThreadTypeOK
    BY DEF NodeThreadInv
<1> DEFINE k == ntCall[s][c].thread
<1>1. k \in 0 .. MaxStarts
    BY <1>0 DEF NodeThreadTypeOK
<1>2. /\ CallAt(s, c, "clear") /\ ntNodeStop' = ntNodeStop \ {s} /\ Goes(s, c, "run", k)
      /\ UNCHANGED <<ntSystemStop, ntScript, ntThread, ntStarted, ntLive, ntOverlap, ntCleared>>
    BY DEF StartClears
<1> HIDE DEF k
<1>3. /\ ntCall' \in Calls
      /\ ntCall'[s][c].at = "run" /\ ntCall'[s][c].thread = k
      /\ \A d \in NodeCaller : d # c => ntCall'[s][d] = ntCall[s][d]
      /\ \A o \in Script : o # s => ntCall'[o] = ntCall[o]
    BY <1>0, <1>1, <1>2, GoesIs
<1>4. NodeThreadTypeOK'
    BY <1>0, <1>2, <1>3 DEF NodeThreadTypeOK, Calls
<1>5. CallsOK(s)'
  <2>1. CallsOK(s)
      BY DEF NodeThreadInv
  <2> QED
      BY <1>2, <1>3, <2>1 DEF CallsOK, OneCall, CallAt, k
<1>6. ASSUME NEW o \in Script, o # s PROVE CallsOK(o)'
    BY <1>2, <1>3, <1>6, OthersKept
<1> QED
    BY <1>4, <1>5, <1>6 DEF NodeThreadInv

\* The thread runs: it is the one the node knows.
LEMMA StartRunsStep ==
  ASSUME NodeThreadInv, NEW s \in Script, NEW c \in NodeCaller, StartRuns(s, c)
  PROVE  NodeThreadInv'
<1>0. NodeThreadTypeOK /\ 0 \in 0 .. MaxStarts
    BY NodeThreadAssumption DEF NodeThreadInv
<1> DEFINE k == ntCall[s][c].thread
<1>1. CallsOK(s)
    BY DEF NodeThreadInv
<1>2. /\ CallAt(s, c, "run") /\ Goes(s, c, "no", 0)
      /\ ntLive' = [ntLive EXCEPT ![s] = ntLive[s] \cup {k}]
      /\ UNCHANGED <<ntSystemStop, ntScript, ntNodeStop, ntThread, ntStarted, ntOverlap, ntCleared>>
    BY DEF StartRuns
<1>3. k \in 1 .. ntStarted[s] /\ ntStarted[s] \in 0 .. MaxStarts /\ MaxStarts \in Nat
    BY <1>0, <1>1, <1>2, NodeThreadAssumption DEF CallsOK, NodeThreadTypeOK
<1>4. k \in 1 .. MaxStarts
    BY <1>3
<1>5. s \notin ntOverlap => k = ntThread[s]
    BY <1>1, <1>2 DEF CallsOK
<1> HIDE DEF k
<1>6. /\ ntCall' \in Calls
      /\ ntCall'[s][c].at = "no" /\ ntCall'[s][c].thread = 0
      /\ \A d \in NodeCaller : d # c => ntCall'[s][d] = ntCall[s][d]
      /\ \A o \in Script : o # s => ntCall'[o] = ntCall[o]
    BY <1>0, <1>2, GoesIs
<1>7. /\ ntLive' \in [Script -> SUBSET (1 .. MaxStarts)]
      /\ ntLive'[s] = ntLive[s] \cup {k} /\ \A o \in Script : o # s => ntLive'[o] = ntLive[o]
    BY <1>0, <1>2, <1>4 DEF NodeThreadTypeOK
<1>8. NodeThreadTypeOK'
  <2>1. \A o \in Script : ntLive'[o] \subseteq 1 .. ntStarted[o]
      BY <1>0, <1>3, <1>7 DEF NodeThreadTypeOK
  <2> QED
      BY <1>0, <1>2, <1>6, <1>7, <2>1 DEF NodeThreadTypeOK, Calls
<1>9. CallsOK(s)'
    BY <1>1, <1>2, <1>5, <1>6, <1>7 DEF CallsOK, OneCall, CallAt
<1>10. ASSUME NEW o \in Script, o # s PROVE CallsOK(o)'
    BY <1>2, <1>6, <1>7, <1>10, OthersKept
<1> QED
    BY <1>8, <1>9, <1>10 DEF NodeThreadInv

\* stop() looks at the thread again and joins it.
LEMMA StopJoinsStep ==
  ASSUME NodeThreadInv, NEW s \in Script, NEW c \in NodeCaller, StopJoins(s, c)
  PROVE  NodeThreadInv'
<1>0. NodeThreadTypeOK
    BY DEF NodeThreadInv
<1>1. PICK at \in {"failed", "join"} :
        /\ CallAt(s, c, "set") /\ Goes(s, c, at, ntThread[s])
        /\ UNCHANGED <<ntSystemStop, ntScript, ntNodeStop, ntThread, ntStarted, ntLive, ntOverlap,
                       ntCleared>>
    BY DEF StopJoins
<1> DEFINE k == ntThread[s]
<1>2. k \in 0 .. MaxStarts
    BY <1>0 DEF NodeThreadTypeOK
<1>3. Goes(s, c, at, k)
    BY <1>1
<1> HIDE DEF k
<1>4. /\ ntCall' \in Calls
      /\ ntCall'[s][c].at = at /\ ntCall'[s][c].thread = k
      /\ \A d \in NodeCaller : d # c => ntCall'[s][d] = ntCall[s][d]
      /\ \A o \in Script : o # s => ntCall'[o] = ntCall[o]
    BY <1>0, <1>2, <1>3, GoesIs
<1>5. NodeThreadTypeOK'
    BY <1>0, <1>1, <1>4 DEF NodeThreadTypeOK, Calls
<1>6. CallsOK(s)'
  <2>1. CallsOK(s)
      BY DEF NodeThreadInv
  <2> QED
      BY <1>1, <1>4, <2>1 DEF CallsOK, OneCall, CallAt, k
<1>7. ASSUME NEW o \in Script, o # s PROVE CallsOK(o)'
    BY <1>1, <1>4, <1>7, OthersKept
<1> QED
    BY <1>5, <1>6, <1>7 DEF NodeThreadInv

\* stop() forgets the thread when it has ended.
LEMMA StopForgetsStep ==
  ASSUME NodeThreadInv, NEW s \in Script, NEW c \in NodeCaller, StopForgets(s, c)
  PROVE  NodeThreadInv'
<1>0. NodeThreadTypeOK /\ 0 \in 0 .. MaxStarts
    BY NodeThreadAssumption DEF NodeThreadInv
<1>1. CallsOK(s)
    BY DEF NodeThreadInv
<1>2. /\ CallAt(s, c, "join") /\ ntCall[s][c].thread \notin ntLive[s] /\ Goes(s, c, "no", 0)
      /\ ntThread' = [ntThread EXCEPT ![s] = 0]
      /\ UNCHANGED <<ntSystemStop, ntScript, ntNodeStop, ntStarted, ntLive, ntOverlap, ntCleared>>
    BY DEF StopForgets
<1>3. /\ ntCall' \in Calls
      /\ ntCall'[s][c].at = "no" /\ ntCall'[s][c].thread = 0
      /\ \A d \in NodeCaller : d # c => ntCall'[s][d] = ntCall[s][d]
      /\ \A o \in Script : o # s => ntCall'[o] = ntCall[o]
    BY <1>0, <1>2, GoesIs
<1>4. /\ ntThread' \in [Script -> 0 .. MaxStarts]
      /\ ntThread'[s] = 0 /\ \A o \in Script : o # s => ntThread'[o] = ntThread[o]
    BY <1>0, <1>2 DEF NodeThreadTypeOK
<1>5. NodeThreadTypeOK'
  <2>1. \A o \in Script : ntThread'[o] \in 0 .. ntStarted[o]
    <3>1. \A o \in Script : ntStarted[o] \in Nat /\ ntThread[o] \in 0 .. ntStarted[o]
        BY <1>0, NodeThreadAssumption DEF NodeThreadTypeOK
    <3> QED
        BY <1>4, <3>1
  <2> QED
      BY <1>0, <1>2, <1>3, <1>4, <2>1 DEF NodeThreadTypeOK, Calls
<1>6. s \notin ntOverlap => ntLive[s] = {} /\ \A d \in NodeCaller : d # c => CallAt(s, d, "no")
    BY <1>1, <1>2 DEF CallsOK, OneCall, CallAt
<1>7. CallsOK(s)'
    BY <1>1, <1>2, <1>3, <1>4, <1>6 DEF CallsOK, OneCall, CallAt
<1>8. ASSUME NEW o \in Script, o # s PROVE CallsOK(o)'
    BY <1>2, <1>3, <1>4, <1>8, OthersKept
<1> QED
    BY <1>5, <1>7, <1>8 DEF NodeThreadInv

\* A loop ends.
LEMMA LoopSeesStep ==
  ASSUME NodeThreadInv, NEW s \in Script, NEW k, LoopSees(s, k)
  PROVE  NodeThreadInv'
<1>0. NodeThreadTypeOK
    BY DEF NodeThreadInv
<1>1. /\ ntLive' = [ntLive EXCEPT ![s] = @ \ {k}]
      /\ UNCHANGED <<ntSystemStop, ntScript, ntNodeStop, ntThread, ntStarted, ntCall, ntOverlap,
                 ntCleared>>
    BY DEF LoopSees
<1>2. /\ ntLive' \in [Script -> SUBSET (1 .. MaxStarts)]
      /\ \A o \in Script : ntLive'[o] \subseteq ntLive[o]
    BY <1>0, <1>1 DEF NodeThreadTypeOK
<1>3. NodeThreadTypeOK'
    BY <1>0, <1>1, <1>2 DEF NodeThreadTypeOK
<1>4. ASSUME NEW o \in Script PROVE CallsOK(o)'
  <2>1. CallsOK(o)
      BY DEF NodeThreadInv
  <2> QED
      BY <1>1, <1>2, <2>1 DEF CallsOK, OneCall, CallAt
<1> QED
    BY <1>3, <1>4 DEF NodeThreadInv

\* The invariant of the node threads is inductive.
LEMMA NodeThreadStep == NodeThreadInv /\ [NodeThreadNext]_ntVars => NodeThreadInv'
<1> SUFFICES ASSUME NodeThreadInv, [NodeThreadNext]_ntVars PROVE NodeThreadInv'
    OBVIOUS
<1>1. CASE \E s \in Script : LoadScript(s) \/ StopScript(s) \/ ScriptGone(s)
    BY <1>1, ScriptStep
<1>2. ASSUME NEW s \in WithNode, NEW c \in NodeCaller,
             StartEnters(s, c) \/ StopEnters(s, c) \/ NodeCallStep(s, c)
      PROVE  NodeThreadInv'
  <2>0. s \in Script
      BY NodeThreadAssumption
  <2> QED
      BY <1>2, <2>0, StartEntersStep, StopEntersStep, StartAssignsStep, StartClearsStep,
         StartRunsStep, StopJoinsStep, StopForgetsStep DEF NodeCallStep
<1>3. ASSUME NEW s \in WithNode, NEW k \in 1 .. MaxStarts, LoopSees(s, k) PROVE NodeThreadInv'
  <2>0. s \in Script
      BY NodeThreadAssumption
  <2> QED
      BY <1>3, <2>0, LoopSeesStep
<1>4. CASE UNCHANGED ntVars
  <2>1. NodeThreadTypeOK'
      BY <1>4 DEF ntVars, NodeThreadInv, NodeThreadTypeOK
  <2>2. ASSUME NEW o \in Script PROVE CallsOK(o)'
    <3>1. CallsOK(o)
        BY DEF NodeThreadInv
    <3> QED
        BY <1>4, <3>1 DEF ntVars, CallsOK, OneCall, CallAt
  <2> QED
      BY <2>1, <2>2 DEF NodeThreadInv
<1> QED
    BY <1>1, <1>2, <1>3, <1>4 DEF NodeThreadNext

\* Where calls are after one has gone on.
LEMMA GoesAt ==
  ASSUME NodeThreadTypeOK, NEW s \in Script, NEW c \in NodeCaller, NEW at, NEW thread,
         Goes(s, c, at, thread)
  PROVE  /\ ntCall'[s][c].at = at
         /\ \A o \in Script, d \in NodeCaller : o # s \/ d # c => ntCall'[o][d] = ntCall[o][d]
<1>1. ntCall \in Calls
    BY DEF NodeThreadTypeOK, Calls
<1> DEFINE r == [at |-> at, thread |-> thread]
<1>2. r.at = at /\ ntCall' = [ntCall EXCEPT ![s][c] = r]
    BY DEF Goes
<1> HIDE DEF r
<1> QED
    BY <1>1, <1>2 DEF Calls

\* Of the calls on a node only a start() clears its event.
LEMMA CallStands ==
  ASSUME NodeThreadInv, RequestsStand, NEW s \in Script, s \in WithNode, NEW c \in NodeCaller,
         StartEnters(s, c) \/ StopEnters(s, c) \/ NodeCallStep(s, c)
  PROVE  RequestsStand'
<1>0. NodeThreadTypeOK /\ CallsOK(s)
    BY DEF NodeThreadInv
<1>1. UNCHANGED <<ntSystemStop, ntScript, ntCleared>>
    BY DEF StartEnters, StopEnters, Enters, NodeCallStep, StartAssigns, StartClears, StartRuns,
           StopJoins, StopForgets
<1>2. /\ ntOverlap \subseteq ntOverlap'
      /\ (StartEnters(s, c) \/ StopEnters(s, c)) /\ s \notin ntOverlap' =>
           \A d \in NodeCaller : CallAt(s, d, "no")
  <2>1. CASE StartEnters(s, c) \/ StopEnters(s, c)
    <3>1. Enters(s, c)
        BY <2>1 DEF StartEnters, StopEnters
    <3> QED
        BY <3>1, EntersIs
  <2>2. CASE ~(StartEnters(s, c) \/ StopEnters(s, c))
      BY <2>2 DEF NodeCallStep, StartAssigns, StartClears, StartRuns, StopJoins, StopForgets
  <2> QED
      BY <2>1, <2>2
<1>3. ASSUME NEW o \in WithNode, o \notin ntOverlap', NEW d \in NodeCaller,
             CallAt(o, d, "set")' \/ CallAt(o, d, "join")'
      PROVE  o \in ntNodeStop'
  <2>0. o \in Script /\ o \notin ntOverlap
        /\ (CallAt(o, d, "set") \/ CallAt(o, d, "join") => o \in ntNodeStop)
      BY <1>2, <1>3, NodeThreadAssumption DEF RequestsStand
  <2>1. CASE StartEnters(s, c)
    <3>1. ntCall'[s][c].at = "start"
          /\ \A p \in Script, q \in NodeCaller : p # s \/ q # c => ntCall'[p][q] = ntCall[p][q]
      <4>1. Goes(s, c, "start", 0)
          BY <2>1 DEF StartEnters
      <4> QED
          BY <1>0, <4>1, GoesAt
    <3>2. ntNodeStop' = ntNodeStop
        BY <2>1 DEF StartEnters
    <3> QED
        BY <1>3, <2>0, <3>1, <3>2 DEF CallAt
  <2>2. CASE StopEnters(s, c)
    <3>1. \A p \in Script, q \in NodeCaller : p # s \/ q # c => ntCall'[p][q] = ntCall[p][q]
      <4>1. Goes(s, c, "set", 0)
          BY <2>2 DEF StopEnters
      <4> QED
          BY <1>0, <4>1, GoesAt
    <3>2. ntNodeStop' = ntNodeStop \cup {s}
        BY <2>2 DEF StopEnters
    <3> QED
        BY <1>3, <2>0, <3>1, <3>2 DEF CallAt
  <2>3. CASE StartAssigns(s, c)
    <3>1. ntCall'[s][c].at = "clear"
          /\ \A p \in Script, q \in NodeCaller : p # s \/ q # c => ntCall'[p][q] = ntCall[p][q]
      <4>1. Goes(s, c, "clear", ntStarted'[s])
          BY <2>3 DEF StartAssigns
      <4>2. PICK k : k = ntStarted'[s]
          OBVIOUS
      <4> QED
          BY <1>0, <4>1, <4>2, GoesAt
    <3>2. ntNodeStop' = ntNodeStop
        BY <2>3 DEF StartAssigns
    <3> QED
        BY <1>3, <2>0, <3>1, <3>2 DEF CallAt
  <2>4. CASE StartClears(s, c)
    <3>1. ntCall'[s][c].at = "run"
          /\ \A p \in Script, q \in NodeCaller : p # s \/ q # c => ntCall'[p][q] = ntCall[p][q]
      <4>1. Goes(s, c, "run", ntCall[s][c].thread)
          BY <2>4 DEF StartClears
      <4> QED
          BY <1>0, <4>1, GoesAt
    <3>2. ntNodeStop' = ntNodeStop \ {s} /\ CallAt(s, c, "clear")
        BY <2>4 DEF StartClears
    <3>3. o = s => d = c \/ CallAt(s, d, "no")
        BY <1>0, <2>0, <3>2 DEF CallsOK, OneCall, CallAt
    <3> QED
        BY <1>3, <2>0, <3>1, <3>2, <3>3 DEF CallAt
  <2>5. CASE StartRuns(s, c) \/ StopForgets(s, c)
    <3>1. ntCall'[s][c].at = "no"
          /\ \A p \in Script, q \in NodeCaller : p # s \/ q # c => ntCall'[p][q] = ntCall[p][q]
      <4>1. Goes(s, c, "no", 0)
          BY <2>5 DEF StartRuns, StopForgets
      <4> QED
          BY <1>0, <4>1, GoesAt
    <3>2. ntNodeStop' = ntNodeStop
        BY <2>5 DEF StartRuns, StopForgets
    <3> QED
        BY <1>3, <2>0, <3>1, <3>2 DEF CallAt
  <2>6. CASE StopJoins(s, c)
    <3>1. \A p \in Script, q \in NodeCaller : p # s \/ q # c => ntCall'[p][q] = ntCall[p][q]
      <4>1. PICK at : Goes(s, c, at, ntThread[s])
          BY <2>6 DEF StopJoins
      <4> QED
          BY <1>0, <4>1, GoesAt
    <3>2. ntNodeStop' = ntNodeStop /\ CallAt(s, c, "set")
        BY <2>6 DEF StopJoins
    <3> QED
        BY <1>3, <2>0, <3>1, <3>2 DEF CallAt
  <2> QED
      BY <2>1, <2>2, <2>3, <2>4, <2>5, <2>6 DEF NodeCallStep
<1>4. \A o \in Script : ntScript'[o] \in {"stopping", "gone"} => ntSystemStop' \/ o \in ntCleared'
    BY <1>1 DEF RequestsStand
<1> QED
    BY <1>3, <1>4 DEF RequestsStand

\* Only the loading of a script clears the shared event.
LEMMA ScriptStands ==
  ASSUME NodeThreadInv, RequestsStand, NEW s \in Script, LoadScript(s) \/ StopScript(s) \/ ScriptGone(s)
  PROVE  RequestsStand'
<1>0. ntScript \in [Script -> {"no", "loaded", "stopping", "gone"}]
    BY DEF NodeThreadInv, NodeThreadTypeOK
<1>1. UNCHANGED <<ntNodeStop, ntCall, ntOverlap>>
    BY DEF LoadScript, StopScript, ScriptGone
<1>2. ASSUME NEW o \in Script, ntScript'[o] \in {"stopping", "gone"}
      PROVE  ntSystemStop' \/ o \in ntCleared'
    BY <1>0, <1>2 DEF LoadScript, StopScript, ScriptGone, RequestsStand
<1> QED
    BY <1>1, <1>2 DEF RequestsStand, CallAt

\* A step keeps the requests.
LEMMA StandsStep == NodeThreadInv /\ RequestsStand /\ [NodeThreadNext]_ntVars => RequestsStand'
<1> SUFFICES ASSUME NodeThreadInv, RequestsStand, [NodeThreadNext]_ntVars PROVE RequestsStand'
    OBVIOUS
<1>1. CASE \E s \in Script : LoadScript(s) \/ StopScript(s) \/ ScriptGone(s)
    BY <1>1, ScriptStands
<1>2. ASSUME NEW s \in WithNode, NEW c \in NodeCaller,
             StartEnters(s, c) \/ StopEnters(s, c) \/ NodeCallStep(s, c)
      PROVE  RequestsStand'
  <2>0. s \in Script
      BY NodeThreadAssumption
  <2> QED
      BY <1>2, <2>0, CallStands
<1>3. CASE (\E s \in WithNode, k \in 1 .. MaxStarts : LoopSees(s, k)) \/ UNCHANGED ntVars
  <2>1. UNCHANGED <<ntSystemStop, ntScript, ntNodeStop, ntCall, ntOverlap, ntCleared>>
      BY <1>3 DEF LoopSees, ntVars
  <2> QED
      BY <2>1 DEF RequestsStand, CallAt
<1> QED
    BY <1>1, <1>2, <1>3 DEF NodeThreadNext

\* At first nothing is stopped.
LEMMA InitStands == NodeThreadInit => RequestsStand
    BY NodeThreadAssumption DEF NodeThreadInit, RequestsStand, CallAt, NoCall

\* The property, of the scripts that have a node.
LEMMA NodeThreadInvKnows == NodeThreadInv => KnownThread
    BY NodeThreadAssumption DEF NodeThreadInv, CallsOK, KnownThread

\* While the calls on a node come one at a time, the thread that runs is the
\* one the node knows (node.py:457-472).
THEOREM ThreadAlwaysKnown == NodeThreadSpec => []KnownThread
<1>1. NodeThreadInit => NodeThreadInv
    BY InitNodeThread
<1>2. NodeThreadInv /\ [NodeThreadNext]_ntVars => NodeThreadInv'
    BY NodeThreadStep
<1>3. NodeThreadInv => KnownThread
    BY NodeThreadInvKnows
<1> QED
    BY <1>1, <1>2, <1>3, PTL DEF NodeThreadSpec

\* Whatever the scripts, the callers and the number of starts: a request to stop
\* stays until the loop can have seen it (node.py:457-472, sd_taskmodule.py:53).
THEOREM StopRequestsStand == NodeThreadSpec => []RequestsStand
<1>1. NodeThreadInit => NodeThreadInv /\ RequestsStand
    BY InitNodeThread, InitStands
<1>2. NodeThreadInv /\ RequestsStand /\ [NodeThreadNext]_ntVars => (NodeThreadInv /\ RequestsStand)'
    BY NodeThreadStep, StandsStep
<1> QED
    BY <1>1, <1>2, PTL DEF NodeThreadSpec

(*************************************************************************)
(* Tasklet: for any list of times of the day.  The minute that is waited *)
(* for is the next of the list, but for the one that is now and has been *)
(* served (NextInv), and that is not waited for again at once (ServedInv). *)
(*************************************************************************)
SchedulePhase == tlTask["schedule"]

\* How far ahead a minute of the day is.
AheadOf(now, u) == IF u >= now THEN u - now ELSE u - now + DayLength
Ahead(u) == AheadOf(tlNow, u)

Single == \E t \in Minute : tlTimes = {t}

\* The minute that is waited for is the next one of the list, but for the one
\* that is now and has been served.
NextInv ==
  (Scheduling /\ ~tlBehind) =>
    \A u \in tlTimes : Ahead(u) < Ahead(tlNext) => u = tlNow /\ tlServed

\* What is served and waited for at once is the only minute of the list, and
\* the task is not done with its sleep.
ServedInv ==
  Scheduling /\ tlServed =>
    /\ tlNext = tlNow => Single /\ SchedulePhase # "idle"
    /\ SchedulePhase = "rest" => tlRest = 0

TaskletInv ==
  /\ TaskletTypeOK
  /\ tlTimes # {} /\ (SchedulePhase \in {"idle", "call", "rest"} => tlNext \in tlTimes)
  /\ NextInv /\ ServedInv

-----------------------------------------------------------------------------
\* The list has one element when there is one.
LEMMA SingleIs ==
  ASSUME TaskletTypeOK PROVE Cardinality(tlTimes) = 1 <=> Single
<1>1. IsFiniteSet(tlTimes)
  <2>1. IsFiniteSet(Minute)
      BY FS_Interval, TaskletAssumption DEF Minute
  <2> QED
      BY <2>1, FS_Subset DEF TaskletTypeOK
<1>2. Cardinality(tlTimes) = 1 <=> \E t : tlTimes = {t}
    BY <1>1, FS_Singleton
<1>3. ASSUME NEW t, tlTimes = {t} PROVE t \in Minute
    BY <1>3 DEF TaskletTypeOK
<1> QED
    BY <1>2, <1>3 DEF Single

\* The time that After finds is of the list, and no other one of the list comes
\* between.  Only a time that is alone comes after itself.
LEMMA AfterOf ==
  ASSUME NEW times \in SUBSET Minute, times # {}, NEW t \in Minute
  PROVE  /\ After(times, t) \in times
         /\ \A u \in times : u > t => After(times, t) > t /\ After(times, t) <= u
         /\ After(times, t) <= t => \A u \in times : After(times, t) <= u /\ u <= t
<1> DEFINE later == {u \in times : u > t}
<1>1. times \in SUBSET Nat /\ t \in Nat
    BY TaskletAssumption DEF Minute
<1>2. CASE later # {}
  <2>1. Min(later) \in later /\ \A u \in later : Min(later) <= u
      BY <1>1, <1>2, MinOf
  <2>2. After(times, t) = Min(later)
      BY <1>2 DEF After
  <2>3. PICK m \in later : After(times, t) = m /\ \A u \in later : m <= u
      BY <2>1, <2>2
  <2> QED
      BY <1>1, <2>3
<1>3. CASE later = {}
  <2>1. Min(times) \in times /\ \A u \in times : Min(times) <= u
      BY <1>1, MinOf
  <2>2. After(times, t) = Min(times)
      BY <1>3 DEF After
  <2>3. PICK m \in times : After(times, t) = m /\ \A u \in times : m <= u
      BY <2>1, <2>2
  <2> QED
      BY <1>1, <1>3, <2>3
<1> QED
    BY <1>2, <1>3

\* The tasklet begins with its loops set up.
LEMMA InitTasklet == TaskletInit => TaskletInv
<1> SUFFICES ASSUME TaskletInit PROVE TaskletInv
    OBVIOUS
<1>1. 0 \in Minute
    BY TaskletAssumption DEF Minute
<1>2. tlTimes \in SUBSET Minute /\ tlTimes # {}
  <2>1. tlTimes \in TimeLists
      BY DEF TaskletInit
  <2>2. tlTimes \in SUBSET (0 .. DayLength - 1) /\ tlTimes # {}
      BY <2>1, TaskletAssumption
  <2> QED
      BY <2>2 DEF Minute
<1>3. tlTask = [k \in Kind |-> "none"] /\ "schedule" \in Kind
    BY DEF TaskletInit, Kind
<1>4. TaskletTypeOK
  <2>1. tlTask \in [Kind -> {"none", "idle", "call", "rest", "ended"}]
      BY <1>3
  <2>2. tlTarget \in SUBSET Kind /\ tlRest \in 0 .. 2
      BY DEF TaskletInit
  <2> QED
      BY <1>1, <1>2, <2>1, <2>2 DEF TaskletInit, TaskletTypeOK
<1>5. SchedulePhase = "none" /\ ~Scheduling
    BY <1>3 DEF SchedulePhase, Scheduling
<1> QED
    BY <1>2, <1>4, <1>5 DEF TaskletInv, NextInv, ServedInv

\* Every step of the tasklet keeps the types.
LEMMA TaskletStepType == TaskletInv /\ [TaskletNext]_tlVars => TaskletTypeOK'
<1> SUFFICES ASSUME TaskletInv, [TaskletNext]_tlVars PROVE TaskletTypeOK'
    OBVIOUS
<1> USE DEF TaskletInv, TaskletTypeOK, SetTask, clockVars
<1>1. CASE InitializeDone
  <2>1. After(tlTimes, tlNow) \in Minute
      BY AfterOf
  <2> QED
      BY <1>1, <2>1 DEF InitializeDone
<1>2. ASSUME NEW k \in Kind, CallOnceOrLoop(k) PROVE TaskletTypeOK'
    BY <1>2 DEF CallOnceOrLoop
<1>3. CASE CallScheduled
  <2>1. After(tlTimes, tlNext) \in Minute
      BY AfterOf
  <2> QED
      BY <1>3, <2>1 DEF CallScheduled
<1>4. ASSUME NEW k \in Kind, CallReturns(k) PROVE TaskletTypeOK'
  <2>1. tlTask' \in [Kind -> {"none", "idle", "call", "rest", "ended"}]
      BY <1>4 DEF CallReturns
  <2>2. tlRest' \in 0 .. 2
      BY <1>4 DEF CallReturns
  <2> QED
      BY <1>4, <2>1, <2>2 DEF CallReturns
<1>5. CASE RestEnds
    BY <1>5 DEF RestEnds
<1>6. ASSUME NEW k \in Kind, TaskEnds(k) PROVE TaskletTypeOK'
    BY <1>6 DEF TaskEnds
<1>7. ASSUME NEW n \in 1 .. 2, Tick(n) PROVE TaskletTypeOK'
  <2>1. tlNow' \in Minute
    <3>1. tlNow + n \in Nat /\ tlNow' = (tlNow + n) % DayLength
        BY <1>7, TaskletAssumption DEF Tick, Minute
    <3> QED
        BY <3>1, ModOf, TaskletAssumption DEF Minute
  <2>2. tlRest' \in 0 .. 2
      BY <1>7 DEF Tick
  <2> QED
      BY <1>7, <2>1, <2>2 DEF Tick
<1>8. CASE StopRequested \/ SeeStop \/ CancelDone \/ FinalizeDone \/ CloseDone
    BY <1>8 DEF StopRequested, SeeStop, CancelDone, FinalizeDone, CloseDone
<1>9. ASSUME NEW k \in Kind, CancelTask(k) \/ CancelArrives(k) \/ AwaitTask(k) PROVE TaskletTypeOK'
    BY <1>9 DEF CancelTask, CancelArrives, AwaitTask
<1>10. CASE UNCHANGED tlVars
    BY <1>10 DEF tlVars
<1> QED
    BY <1>1, <1>2, <1>3, <1>4, <1>5, <1>6, <1>7, <1>8, <1>9, <1>10 DEF TaskletNext, TaskSteps

\* A new time to wait for has nothing of the list before it but what is now.
LEMMA NextAfter ==
  ASSUME TaskletTypeOK, tlTimes # {}, NEW next \in Minute, next = After(tlTimes, tlNow)
  PROVE  /\ \A u \in tlTimes : Ahead(u) < (IF next >= tlNow THEN next - tlNow
                                          ELSE next - tlNow + DayLength) => u = tlNow /\ next # tlNow
         /\ (next = tlNow) => Single
<1>1. tlTimes \in SUBSET Minute /\ tlNow \in Minute
    BY DEF TaskletTypeOK
<1>2. /\ next \in tlTimes
      /\ \A u \in tlTimes : u > tlNow => next > tlNow /\ next <= u
      /\ next <= tlNow => \A u \in tlTimes : next <= u /\ u <= tlNow
    BY <1>1, AfterOf
<1>3. ASSUME NEW u \in tlTimes, Ahead(u) < (IF next >= tlNow THEN next - tlNow
                                          ELSE next - tlNow + DayLength)
      PROVE  u = tlNow /\ next # tlNow
    BY <1>1, <1>2, <1>3, TaskletAssumption DEF Ahead, AheadOf, Minute
<1>4. ASSUME next = tlNow PROVE Single
  <2>1. \A u \in tlTimes : u = tlNow
      BY <1>1, <1>2, <1>4, TaskletAssumption DEF Minute
  <2>2. tlTimes = {tlNow}
      BY <1>2, <1>4, <2>1
  <2> QED
      BY <1>1, <2>2 DEF Single
<1> QED
    BY <1>3, <1>4

\* Where the clock goes, and that it comes nearer to what it does not pass.
LEMMA Later ==
  ASSUME DayLength >= 2, NEW now \in Minute, NEW next \in Minute, NEW u \in Minute,
         next # now, next # u, AheadOf(now, u) < AheadOf(now, next) => u = now
  PROVE  LET once  == IF now + 1 < DayLength THEN now + 1 ELSE 0
             twice == IF now + 2 < DayLength THEN now + 2 ELSE now + 2 - DayLength
         IN  /\ (now + 0) % DayLength = now /\ (now + 1) % DayLength = once
             /\ (now + 2) % DayLength = twice
             /\ ~(AheadOf(once, u) < AheadOf(once, next))
             /\ next # once => ~(AheadOf(twice, u) < AheadOf(twice, next))
<1>1. DayLength \in Nat \ {0} /\ now \in Nat /\ now < DayLength
    BY TaskletAssumption DEF Minute
<1>2. /\ (now + 0) % DayLength = now
      /\ (now + 1) % DayLength = IF now + 1 < DayLength THEN now + 1 ELSE now + 1 - DayLength
      /\ (now + 2) % DayLength = IF now + 2 < DayLength THEN now + 2 ELSE now + 2 - DayLength
  <2>1. \A i \in 0 .. 2 : now + i \in Nat /\ now + i < 2 * DayLength
      BY <1>1
  <2>2. \A i \in 0 .. 2 : (now + i) % DayLength =
                             IF now + i < DayLength THEN now + i ELSE now + i - DayLength
    <3> SUFFICES ASSUME NEW i \in 0 .. 2
                 PROVE  (now + i) % DayLength =
                          IF now + i < DayLength THEN now + i ELSE now + i - DayLength
        OBVIOUS
    <3>1. now \in Nat /\ now + i < 2 * DayLength /\ DayLength \in Nat \ {0}
        BY <1>1, <2>1
    <3> QED
        BY <3>1
  <2> QED
      BY <1>1, <2>2
<1> DEFINE once  == IF now + 1 < DayLength THEN now + 1 ELSE 0
           twice == IF now + 2 < DayLength THEN now + 2 ELSE now + 2 - DayLength
<1>3. once \in Minute /\ twice = (IF once + 1 < DayLength THEN once + 1 ELSE 0)
    BY <1>1 DEF Minute
<1>4. \A m, x \in Minute :
         /\ AheadOf(m, x) \in 0 .. DayLength - 1
         /\ AheadOf(m, x) = 0 <=> x = m
         /\ AheadOf(IF m + 1 < DayLength THEN m + 1 ELSE 0, x)
              = IF x = m THEN DayLength - 1 ELSE AheadOf(m, x) - 1
    BY <1>1 DEF AheadOf, Minute
<1>5. \A m, x, y \in Minute : AheadOf(m, x) = AheadOf(m, y) => x = y
    BY <1>1 DEF AheadOf, Minute
<1>6. once # now /\ AheadOf(now, once) = 1
    BY <1>1 DEF AheadOf, Minute
<1> HIDE DEF once, twice
<1>7. AheadOf(now, next) > 0 /\ (u # now => AheadOf(now, u) > AheadOf(now, next))
  <2>1. AheadOf(now, u) # AheadOf(now, next)
      BY <1>5
  <2> QED
      BY <1>4, <2>1
<1>8. AheadOf(once, next) = AheadOf(now, next) - 1
      /\ AheadOf(once, u) = IF u = now THEN DayLength - 1 ELSE AheadOf(now, u) - 1
    BY <1>4 DEF once
<1>9. ~(AheadOf(once, u) < AheadOf(once, next))
    BY <1>1, <1>4, <1>7, <1>8
<1>10. ASSUME next # once PROVE ~(AheadOf(twice, u) < AheadOf(twice, next))
  <2>1. AheadOf(twice, next) = AheadOf(once, next) - 1
        /\ AheadOf(twice, u) = IF u = once THEN DayLength - 1 ELSE AheadOf(once, u) - 1
      BY <1>3, <1>4, <1>10
  <2>2. AheadOf(once, u) \in Nat /\ AheadOf(once, next) \in 0 .. DayLength - 1
      BY <1>3, <1>4
  <2> QED
      BY <1>1, <1>9, <2>1, <2>2
<1>11. once = (IF now + 1 < DayLength THEN now + 1 ELSE 0)
       /\ (IF now + 1 < DayLength THEN now + 1 ELSE now + 1 - DayLength) = once
       /\ twice = (IF now + 2 < DayLength THEN now + 2 ELSE now + 2 - DayLength)
    BY <1>1 DEF once, twice
<1> QED
    BY <1>2, <1>9, <1>10, <1>11

\* The clock goes on, and what is waited for has not passed.
LEMMA TickStep ==
  ASSUME TaskletInv, NEW n \in 1 .. 2, Tick(n)
  PROVE  NextInv' /\ ServedInv'
<1> USE TaskletAssumption DEF TaskletInv, TaskletTypeOK
<1>1. /\ tlNow' = (tlNow + n) % DayLength /\ tlServed' = FALSE
      /\ tlBehind' = (tlBehind \/ \E t \in Passed(n) : t = tlNext /\ ~(t = tlNow /\ tlServed))
      /\ UNCHANGED <<tlPhase, tlTask, tlStop, tlTarget, tlTimes, tlNext>>
    BY DEF Tick
<1>2. ServedInv'
    BY <1>1 DEF ServedInv
<1>3. NextInv'
  <2> SUFFICES ASSUME Scheduling, ~tlBehind', NEW u \in tlTimes
               PROVE  ~(Ahead(u)' < Ahead(tlNext)')
      BY <1>1 DEF NextInv, Scheduling, Ahead, AheadOf
  <2>1. tlNow' \in Minute
    <3>1. tlNow + n \in Nat
        BY DEF Minute
    <3> QED
        BY <1>1, <3>1, ModOf DEF Minute
  <2>2. tlNext \in tlTimes /\ tlNext \in Minute /\ u \in Minute
      BY DEF Scheduling, SchedulePhase
  <2>3. ~tlBehind /\ \A t \in Passed(n) : ~(t = tlNext /\ ~(t = tlNow /\ tlServed))
      BY <1>1
  <2>4. CASE u = tlNext
      BY <1>1, <2>1, <2>2, <2>4 DEF Ahead, AheadOf, Minute
  <2>5. CASE u # tlNext
    <3>1. ~Single
        BY <2>2, <2>5 DEF Single
    <3>2. ~(tlNext = tlNow /\ tlServed)
        BY <3>1 DEF ServedInv
    <3>3. tlNext \notin Passed(n)
        BY <2>3, <3>2
    <3>4. Ahead(u) < Ahead(tlNext) => u = tlNow
        BY <2>3 DEF NextInv
    <3>5. DayLength >= 2
        BY <2>2, <2>5 DEF Minute
    <3>6. tlNext # (tlNow + 0) % DayLength
        BY <3>3 DEF Passed
    <3>7. tlNow \in Minute /\ (tlNow + 0) % DayLength = tlNow
      <4>1. tlNow \in Nat /\ tlNow < DayLength /\ DayLength \in Nat \ {0}
            /\ tlNow < 2 * DayLength /\ tlNow + 0 = tlNow
          BY DEF Minute
      <4>2. tlNow % DayLength = tlNow
          BY <4>1, ModOnce
      <4> QED
          BY <4>1, <4>2
    <3>8. CASE n = 1
        BY <1>1, <2>2, <2>5, <3>4, <3>5, <3>6, <3>7, <3>8, Later DEF Ahead
    <3>9. CASE n = 2
      <4>1. tlNext # (tlNow + 1) % DayLength
          BY <3>3, <3>9 DEF Passed
      <4> QED
          BY <1>1, <2>2, <2>5, <3>4, <3>5, <3>6, <3>7, <3>9, <4>1, Later DEF Ahead
    <3> QED
        BY <3>8, <3>9
  <2> QED
      BY <2>4, <2>5
<1> QED
    BY <1>2, <1>3

\* The invariant of the schedule is inductive.
LEMMA TaskletStep == TaskletInv /\ [TaskletNext]_tlVars => TaskletInv'
<1> SUFFICES ASSUME TaskletInv, [TaskletNext]_tlVars PROVE TaskletInv'
    OBVIOUS
<1> DEFINE Rest == /\ tlTimes # {} /\ (SchedulePhase \in {"idle", "call", "rest"} => tlNext \in tlTimes)
                   /\ NextInv /\ ServedInv
<1> SUFFICES Rest'
    BY TaskletStepType DEF TaskletInv
<1> USE DEF SetTask, clockVars
<1>0. "schedule" \in Kind /\ tlTask \in [Kind -> {"none", "idle", "call", "rest", "ended"}]
    BY DEF Kind, TaskletInv, TaskletTypeOK
<1>1. CASE InitializeDone
  <2>1. /\ tlNext' = After(tlTimes, tlNow) /\ tlServed' = (tlNext' # tlNow)
        /\ tlTimes' = tlTimes /\ tlNow' = tlNow /\ SchedulePhase' = "idle"
      BY <1>0, <1>1 DEF InitializeDone, SchedulePhase
  <2>2. tlNext' \in tlTimes /\ tlNext' \in Minute
      BY <2>1, AfterOf DEF TaskletInv, TaskletTypeOK
  <2>3. /\ \A u \in tlTimes : Ahead(u)' < Ahead(tlNext)' => u = tlNow /\ tlNext' # tlNow
        /\ tlNext' = tlNow => Single
      BY <2>1, <2>2, NextAfter DEF TaskletInv, Ahead, AheadOf
  <2> QED
      BY <2>1, <2>2, <2>3 DEF TaskletInv, NextInv, ServedInv, Single, Minute
<1>2. ASSUME NEW k \in Kind, CallOnceOrLoop(k) PROVE Rest'
  <2>1. SchedulePhase' = SchedulePhase
      BY <1>0, <1>2 DEF CallOnceOrLoop, SchedulePhase
  <2> QED
      BY <1>2, <2>1
      DEF CallOnceOrLoop, TaskletInv, NextInv, ServedInv, Scheduling, Ahead, AheadOf, Single, SchedulePhase
<1>3. CASE CallScheduled
  <2>1. /\ tlNext' = After(tlTimes, tlNow) /\ tlServed' = TRUE /\ tlNext = tlNow
        /\ tlTimes' = tlTimes /\ tlNow' = tlNow /\ SchedulePhase' = "call"
      BY <1>0, <1>3 DEF CallScheduled, SchedulePhase
  <2>2. tlNext' \in tlTimes /\ tlNext' \in Minute
      BY <2>1, AfterOf DEF TaskletInv, TaskletTypeOK
  <2>3. /\ \A u \in tlTimes : Ahead(u)' < Ahead(tlNext)' => u = tlNow /\ tlNext' # tlNow
        /\ tlNext' = tlNow => Single
      BY <2>1, <2>2, NextAfter DEF TaskletInv, Ahead, AheadOf
  <2> QED
      BY <2>1, <2>2, <2>3 DEF TaskletInv, NextInv, ServedInv, Single, Minute
<1>4. ASSUME NEW k \in Kind, CallReturns(k) PROVE Rest'
  <2>1. CASE k # "schedule"
    <3>1. SchedulePhase' = SchedulePhase /\ tlRest' = tlRest
        BY <1>0, <1>4, <2>1 DEF CallReturns, SchedulePhase
    <3> QED
        BY <1>4, <3>1
        DEF CallReturns, TaskletInv, NextInv, ServedInv, Scheduling, Ahead, AheadOf, Single, SchedulePhase
  <2>2. CASE k = "schedule"
    <3>1. /\ SchedulePhase' = IF Cardinality(tlTimes) = 1 THEN "rest" ELSE "idle"
          /\ tlRest' = 0 /\ SchedulePhase = "call"
        BY <1>0, <1>4, <2>2 DEF CallReturns, SchedulePhase
    <3>2. Cardinality(tlTimes) = 1 <=> Single
        BY SingleIs DEF TaskletInv
    <3> QED
        BY <1>4, <3>1, <3>2
        DEF CallReturns, TaskletInv, NextInv, ServedInv, Scheduling, Ahead, AheadOf, Single, SchedulePhase
  <2> QED
      BY <2>1, <2>2
<1>5. CASE RestEnds
  <2>1. /\ SchedulePhase = "rest" /\ SchedulePhase' = "idle" /\ (tlRest > 0 \/ tlStop)
        /\ UNCHANGED <<tlPhase, tlStop, tlTarget, clockVars>>
      BY <1>0, <1>5 DEF RestEnds, SchedulePhase
  <2>2. ServedInv'
      BY <2>1 DEF ServedInv, Scheduling, SchedulePhase, TaskletInv
  <2>3. NextInv'
      BY <2>1 DEF NextInv, Scheduling, SchedulePhase, TaskletInv, Ahead, AheadOf
  <2> QED
      BY <2>1, <2>2, <2>3 DEF TaskletInv
<1>6. ASSUME NEW k \in Kind, TaskEnds(k) \/ CancelArrives(k) PROVE Rest'
  <2>1. SchedulePhase' \in {SchedulePhase, "ended"} /\ UNCHANGED <<tlStop, clockVars>>
      BY <1>0, <1>6 DEF TaskEnds, CancelArrives, SchedulePhase
  <2> QED
      BY <2>1 DEF TaskletInv, NextInv, ServedInv, Scheduling, Ahead, AheadOf, Single, SchedulePhase
<1>7. ASSUME NEW n \in 1 .. 2, Tick(n) PROVE Rest'
  <2>1. UNCHANGED <<tlTask, tlTimes, tlNext>>
      BY <1>7 DEF Tick
  <2> QED
      BY <1>7, <2>1, TickStep DEF TaskletInv, SchedulePhase
<1>8. CASE StopRequested \/ SeeStop \/ CancelDone \/ FinalizeDone \/ CloseDone
    BY <1>8 DEF StopRequested, SeeStop, CancelDone, FinalizeDone, CloseDone,
       TaskletInv, NextInv, ServedInv, Scheduling, Ahead, AheadOf, Single, SchedulePhase
<1>9. ASSUME NEW k \in Kind, CancelTask(k) \/ AwaitTask(k) PROVE Rest'
    BY <1>9 DEF CancelTask, AwaitTask,
       TaskletInv, NextInv, ServedInv, Scheduling, Ahead, AheadOf, Single, SchedulePhase
<1>10. CASE UNCHANGED tlVars
    BY <1>10 DEF tlVars, TaskletInv, NextInv, ServedInv, Scheduling, Ahead, AheadOf, Single, SchedulePhase
<1> QED
    BY <1>1, <1>2, <1>3, <1>4, <1>5, <1>6, <1>7, <1>8, <1>9, <1>10 DEF TaskletNext, TaskSteps
\* A minute of the list that passes unserved leaves the task behind, and none
\* is served twice.
LEMMA TaskletInvKeepsSchedule ==
  TaskletInv /\ [TaskletNext]_tlVars =>
    /\ (Scheduling /\ tlNow' # tlNow /\ tlNow \in tlTimes /\ ~tlServed) => tlBehind'
    /\ (tlTask["schedule"] = "idle" /\ tlTask'["schedule"] = "call") => ~tlServed
<1> SUFFICES ASSUME TaskletInv, [TaskletNext]_tlVars
             PROVE  /\ (Scheduling /\ tlNow' # tlNow /\ tlNow \in tlTimes /\ ~tlServed) => tlBehind'
                    /\ (tlTask["schedule"] = "idle" /\ tlTask'["schedule"] = "call") => ~tlServed
    OBVIOUS
<1>0. "schedule" \in Kind /\ tlTask \in [Kind -> {"none", "idle", "call", "rest", "ended"}]
    BY DEF Kind, TaskletInv, TaskletTypeOK
<1>1. ASSUME Scheduling, tlNow' # tlNow, tlNow \in tlTimes, ~tlServed PROVE tlBehind'
  <2>1. PICK n \in 1 .. 2 : Tick(n)
      BY <1>1 DEF TaskletNext, TaskSteps, tlVars, clockVars, InitializeDone, CallOnceOrLoop,
         CallScheduled, CallReturns, RestEnds, TaskEnds, StopRequested, SeeStop, CancelDone,
         FinalizeDone, CloseDone, CancelTask, CancelArrives, AwaitTask
  <2> SUFFICES ASSUME ~tlBehind PROVE tlBehind'
      BY <2>1 DEF Tick, TaskletInv, TaskletTypeOK
  <2>2. tlNow \in Minute /\ tlNext \in Minute /\ ~(Ahead(tlNow) < Ahead(tlNext))
      BY <1>1, <2>1 DEF TaskletInv, TaskletTypeOK, NextInv
  <2>3. tlNext = tlNow
      BY <2>2, TaskletAssumption DEF Ahead, AheadOf, Minute
  <2>4. (tlNow + 0) % DayLength = tlNow
    <3>1. tlNow \in Nat /\ tlNow < DayLength /\ DayLength \in Nat \ {0}
          /\ tlNow < 2 * DayLength /\ tlNow + 0 = tlNow
        BY <2>2, TaskletAssumption DEF Minute
    <3>2. tlNow % DayLength = tlNow
        BY <3>1, ModOnce
    <3> QED
        BY <3>1, <3>2
  <2>5. tlNow \in Passed(n)
      BY <2>4 DEF Passed
  <2> QED
      BY <1>1, <2>1, <2>3, <2>5 DEF Tick
<1>2. ASSUME tlTask["schedule"] = "idle", tlTask'["schedule"] = "call" PROVE ~tlServed
  <2>1. CallScheduled
      BY <1>0, <1>2 DEF TaskletNext, TaskSteps, tlVars, clockVars, InitializeDone, CallOnceOrLoop,
         CallReturns, RestEnds, TaskEnds, StopRequested, SeeStop, CancelDone, SetTask, Tick,
         FinalizeDone, CloseDone, CancelTask, CancelArrives, AwaitTask
  <2> QED
      BY <1>2, <2>1 DEF CallScheduled, TaskletInv, ServedInv, Scheduling, SchedulePhase
<1> QED
    BY <1>1, <1>2

\* Whatever the list of times and the length of the day: a minute of the list
\* passes without a call only while the task is behind, and none is served
\* twice (dash.py).
THEOREM ScheduleIsKept == TaskletSpec => ScheduleKept
<1>1. TaskletInv /\ [TaskletNext]_tlVars =>
        [/\ (Scheduling /\ tlNow' # tlNow /\ tlNow \in tlTimes /\ ~tlServed) => tlBehind'
         /\ (tlTask["schedule"] = "idle" /\ tlTask'["schedule"] = "call") => ~tlServed]_tlVars
    BY TaskletInvKeepsSchedule
<1> QED
    BY <1>1, InitTasklet, TaskletStep, PTL DEF TaskletSpec, ScheduleKept

(***************************************************************************)
(* What HdlClock guarantees for a shift register of any length: the cycle  *)
(* is at once.  The invariant says what each phase has left of the         *)
(* registers as they were when the inputs were read (RegisterInv), and how *)
(* the button, its start time and what a read has got agree as long as no  *)
(* press has come during a read (ButtonInv).                               *)
(***************************************************************************)
-----------------------------------------------------------------------------
(* The registers.                                                          *)

\* Register k has been set to what the one before it had at the start of the
\* cycle, or has it already.
IsSet(k) == hdSet[k] = {hdLatched[k - 1]}
IsShifted(k) == hdGet[k] = hdLatched[k - 1]

RegisterInv ==
  /\ hdPhase = "idle" => \A k \in Inner : IsShifted(k)
  /\ hdPhase = "process" => hdGet = hdLatched /\ \A k \in Inner \ hdTodo : IsSet(k)
  /\ hdPhase = "output" => \A k \in Inner : IF k \in hdTodo THEN IsSet(k) ELSE IsShifted(k)

(* The button.                                                             *)

ButtonInv ==
  ~hdMixed =>
    /\ hdStart <=> hdPressed
    /\ Reads => ~hdPress /\ (hdRead <=> hdPressed)
    /\ hdPress => hdButton
    /\ hdPhase # "restored" /\ ~hdPress => (hdButton <=> hdPressed)
    /\ hdPhase = "read" => ~hdPressed
    /\ hdPhase = "restore" => hdPressed
    /\ hdPhase = "restored" => hdPressed /\ ~hdButton

HdlInv == HdlTypeOK /\ RegisterInv /\ ButtonInv

\* The inner registers have one before them.
LEMMA RegistersOf ==
  /\ Inner \subseteq Register /\ 0 \in Register /\ 0 \notin Inner
  /\ \A k \in Inner : k - 1 \in Register
<1>1. \A k \in Inner : k - 1 \in Register
    BY DepthAssumption DEF Inner, Register
<1> QED
    BY <1>1, DepthAssumption DEF Inner, Register

\* At first nothing has been latched, and the button is up.
THEOREM HdlInitInv == HdlInit => HdlInv
<1> SUFFICES ASSUME HdlInit PROVE HdlInv
    OBVIOUS
<1>1. HdlTypeOK
    BY DEF HdlInit, HdlTypeOK, Unset
<1>2. RegisterInv
    BY RegistersOf DEF HdlInit, RegisterInv, IsShifted
<1>3. ButtonInv
    BY DEF HdlInit, ButtonInv, Reads
<1> QED
    BY <1>1, <1>2, <1>3 DEF HdlInv

-----------------------------------------------------------------------------
(* One step.                                                               *)

\* Every step of the clock keeps the types.
LEMMA HdlStepType == HdlTypeOK /\ [HdlNext]_hdVars => HdlTypeOK'
<1> SUFFICES ASSUME HdlTypeOK, [HdlNext]_hdVars PROVE HdlTypeOK'
    OBVIOUS
<1> USE DEF HdlTypeOK, ButtonIs
<1>1. CASE PressBegins
    BY <1>1 DEF PressBegins, Reads
<1>2. CASE PressEnds
    BY <1>2 DEF PressEnds
<1>3. CASE \E k \in Inner, v \in BOOLEAN : OtherSets(k, v)
    BY <1>3 DEF OtherSets
<1>4. CASE ReadButton
    BY <1>4 DEF ReadButton
<1>5. CASE RestoreButton
    BY <1>5 DEF RestoreButton
<1>6. CASE InputRead
    BY <1>6, RegistersOf DEF InputRead
<1>7. CASE \E k \in Inner : Process(k)
  <2> PICK k \in Inner : Process(k)
      BY <1>7
  <2>1. hdGet[k - 1] \in BOOLEAN
      BY RegistersOf
  <2> QED
      BY <2>1 DEF Process, ProcessSets
<1>8. CASE \E k \in Inner : Output(k)
    BY <1>8, RegistersOf DEF Output, Unset
<1>9. CASE UNCHANGED hdVars
    BY <1>9 DEF hdVars
<1> QED
    BY <1>1, <1>2, <1>3, <1>4, <1>5, <1>6, <1>7, <1>8, <1>9 DEF HdlNext

\* Every step of the clock keeps what the phase has left of the registers.
LEMMA HdlStepRegister == HdlTypeOK /\ RegisterInv /\ [HdlNext]_hdVars => RegisterInv'
<1> SUFFICES ASSUME HdlTypeOK, RegisterInv, [HdlNext]_hdVars PROVE RegisterInv'
    OBVIOUS
<1> USE DEF RegisterInv, IsSet, IsShifted
<1>1. CASE PressBegins \/ PressEnds \/ ReadButton \/ RestoreButton \/ UNCHANGED hdVars
  <2>1. UNCHANGED <<hdGet, hdSet, hdTodo, hdLatched>>
      BY <1>1 DEF PressBegins, PressEnds, ReadButton, RestoreButton, hdVars
  <2>2. hdPhase' = hdPhase \/ hdPhase' \in {"read", "restore", "restored"}
      BY <1>1 DEF PressBegins, PressEnds, ReadButton, RestoreButton, hdVars
  <2> QED
      BY <2>1, <2>2
<1>2. CASE \E k \in Inner, v \in BOOLEAN : OtherSets(k, v)
    \* Only a register that is not set: none of those that wait to be updated.
  <2> PICK k \in Inner, v \in BOOLEAN : OtherSets(k, v)
      BY <1>2
  <2>1. hdSet[k] = {} /\ \A j \in Inner \ {k} : hdSet'[j] = hdSet[j]
      BY DEF OtherSets, HdlTypeOK, Unset
  <2>2. ~IsSet(k)
      BY <2>1
  <2> QED
      BY <2>1, <2>2 DEF OtherSets
<1>3. CASE InputRead
    BY <1>3 DEF InputRead
<1>4. CASE \E k \in Inner : Process(k)
  <2> PICK k \in Inner : Process(k)
      BY <1>4
  <2>1. CASE hdSet[k] = Unset
    <3>1. hdGet' = hdGet /\ hdLatched' = hdLatched /\ hdGet = hdLatched
        BY <2>1 DEF Process, ProcessSets
    <3>2. IsSet(k)' /\ \A j \in Inner \ hdTodo : IsSet(j)'
        BY <2>1, <3>1 DEF Process, ProcessSets, HdlTypeOK
    <3>3. CASE hdTodo = {k}
      <4>1. hdPhase' = "output" /\ hdTodo' = Inner
          BY <2>1, <3>3 DEF Process
      <4> QED
          BY <3>2, <3>3, <4>1
    <3>4. CASE hdTodo # {k}
      <4>1. hdPhase' = "process" /\ hdTodo' = hdTodo \ {k}
          BY <2>1, <3>4 DEF Process
      <4> QED
          BY <3>1, <3>2, <4>1
    <3> QED
        BY <3>3, <3>4
  <2>2. CASE hdSet[k] # Unset
      BY <2>2 DEF Process
  <2> QED
      BY <2>1, <2>2
<1>5. CASE \E k \in Inner : Output(k)
  <2> PICK k \in Inner : Output(k)
      BY <1>5
  <2>1. hdGet[k - 1] \in BOOLEAN /\ hdLatched[k - 1] \in BOOLEAN
      BY RegistersOf DEF HdlTypeOK
  <2>2. IsSet(k) /\ hdLatched' = hdLatched
      BY DEF Output
  <2>3. hdGet'[k] = hdLatched[k - 1]
    <3>1. hdGet'[k] = (TRUE \in hdSet[k])
        BY RegistersOf DEF Output, HdlTypeOK
    <3>2. CASE hdLatched[k - 1] = TRUE
        BY <2>2, <3>1, <3>2 DEF IsSet
    <3>3. CASE hdLatched[k - 1] = FALSE
      <4>1. hdSet[k] = {FALSE}
          BY <2>2, <3>3 DEF IsSet
      <4>2. (TRUE \in hdSet[k]) = FALSE
          BY <4>1
      <4> QED
          BY <3>1, <3>3, <4>2
    <3> QED
        BY <2>1, <3>2, <3>3
  <2>4. \A j \in Inner \ {k} : hdGet'[j] = hdGet[j] /\ hdSet'[j] = hdSet[j]
      BY RegistersOf DEF Output, HdlTypeOK
  <2>5. \A j \in Inner : IF j \in hdTodo \ {k} THEN IsSet(j)' ELSE IsShifted(j)'
      BY <2>2, <2>3, <2>4 DEF Output
  <2>6. CASE hdTodo = {k}
      BY <2>5, <2>6 DEF Output
  <2>7. CASE hdTodo # {k}
      BY <2>5, <2>7 DEF Output
  <2> QED
      BY <2>6, <2>7
<1> QED
    BY <1>1, <1>2, <1>3, <1>4, <1>5 DEF HdlNext

\* Every step keeps the agreement of the button with what is read of it.
LEMMA HdlStepButton == HdlTypeOK /\ ButtonInv /\ [HdlNext]_hdVars => ButtonInv'
<1> SUFFICES ASSUME HdlTypeOK, ButtonInv, [HdlNext]_hdVars, ~hdMixed' PROVE ButtonInv'
    BY DEF ButtonInv
<1> USE DEF ButtonInv, Reads
<1>1. CASE PressBegins
    BY <1>1 DEF PressBegins
<1>2. CASE PressEnds
    BY <1>2 DEF PressEnds
<1>3. CASE ReadButton
    BY <1>3 DEF ReadButton
<1>4. CASE RestoreButton
    BY <1>4 DEF RestoreButton
<1>5. CASE InputRead
    BY <1>5 DEF InputRead
<1>6. CASE \E k \in Inner : Output(k) \/ Process(k) \/ \E v \in BOOLEAN : OtherSets(k, v)
  <2>1. UNCHANGED ButtonIs
      BY <1>6 DEF Output, Process, OtherSets
  <2>2. hdPhase' = hdPhase \/ (~Reads /\ hdPhase' \in {"idle", "process", "output", "dead"})
      BY <1>6 DEF Output, Process, OtherSets
  <2> QED
      BY <2>1, <2>2 DEF ButtonIs
<1>7. CASE UNCHANGED hdVars
    BY <1>7 DEF hdVars
<1> QED
    BY <1>1, <1>2, <1>3, <1>4, <1>5, <1>6, <1>7 DEF HdlNext

\* A step of the clock, of an input or of a process keeps the invariant.
LEMMA HdlStep == HdlInv /\ [HdlNext]_hdVars => HdlInv'
    BY HdlStepType, HdlStepRegister, HdlStepButton DEF HdlInv

\* The property, of the registers and of the button.
LEMMA HdlInvCycle == HdlInv => CycleIsAtOnce
<1> SUFFICES ASSUME HdlInv PROVE CycleIsAtOnce
    OBVIOUS
<1>1. hdPhase = "idle" => \A k \in Inner : hdGet[k] = hdLatched[k - 1]
    BY DEF HdlInv, RegisterInv, IsShifted
<1>2. hdPhase \in {"read", "restored"} /\ ~hdMixed => hdRead = hdPressed
    BY DEF HdlInv, ButtonInv, Reads, HdlTypeOK
<1> QED
    BY <1>1, <1>2 DEF CycleIsAtOnce

-----------------------------------------------------------------------------
\* Whatever the length of the shift register, the order of its processes and
\* what other threads set and press meanwhile: the registers change at once,
\* and a press outside a read is read in exactly one cycle (hdl.py:129-147,
\* node.py:778-799).
THEOREM HdlCycle == HdlSpec => []CycleIsAtOnce
    BY HdlInitInv, HdlStep, HdlInvCycle, PTL DEF HdlSpec

(***************************************************************************)
(* What RabbitRPC guarantees for any number of calls on one reply queue    *)
(* and of replies: as long as a call waits, no other one loses its reply.  *)
(* Beside the type, the argument needs that a call holds one reply at most *)
(* and only between taking it and deciding about it (HeldInv): what a call *)
(* drops when it is done is its own reply, and what it takes replaces      *)
(* nothing it still holds.                                                 *)
(***************************************************************************)
HeldInv ==
  \A c \in RpcCaller :
    /\ rpcHeld[c] # {} => rpcCall[c] = "hold"
    /\ \A r, s \in rpcHeld[c] : r = s

RabbitInv == RabbitTypeOK /\ HeldInv /\ RepliesKept

-----------------------------------------------------------------------------
\* There is a first reply in a queue that is not empty.
LEMMA FirstOfQueue ==
  ASSUME rpcQueue \subseteq Reply, rpcQueue # {}
  PROVE  First \in rpcQueue
<1> DEFINE N == {r.n : r \in rpcQueue}
<1>1. N \subseteq Nat /\ N # {}
    BY RabbitAssumption DEF Reply
<1>2. PICK m \in N : \A k \in N : m <= k
  <2> HIDE DEF N
  <2> QED
      BY <1>1, MinOf
<1>3. \E r \in rpcQueue : \A s \in rpcQueue : r.n <= s.n
    BY <1>2
<1> QED
    BY <1>3 DEF First

\* Every step of the calls and of the callee keeps the types.
LEMMA RabbitStepType == RabbitTypeOK /\ [RabbitNext]_rabbitVars => RabbitTypeOK'
<1> SUFFICES ASSUME RabbitTypeOK, [RabbitNext]_rabbitVars PROVE RabbitTypeOK'
    OBVIOUS
<1> USE DEF RabbitTypeOK, Becomes, Waiting
<1>1. ASSUME NEW c \in RpcCaller, PublishRequest(c) PROVE RabbitTypeOK'
    BY <1>1 DEF PublishRequest
<1>2. ASSUME NEW c \in RpcCaller, PublishFails(c) PROVE RabbitTypeOK'
  <2>1. rpcQueue' \subseteq Reply /\ rpcHeld' \in [RpcCaller -> SUBSET Reply]
      BY <1>2 DEF PublishFails
  <2>2. rpcCall' \in [RpcCaller -> {"new", "poll", "hold", "sleep", "done", "none", "empty", "raised"}]
      BY <1>2 DEF PublishFails
  <2> QED
      BY <1>2, <2>1, <2>2 DEF PublishFails
<1>3. ASSUME NEW c \in RpcCaller, SendReply(c) PROVE RabbitTypeOK'
  <2>1. rpcSent + 1 \in 1 .. MaxReplies
      BY <1>3, RabbitAssumption DEF SendReply
  <2>2. [n |-> rpcSent + 1, to |-> c] \in Reply
      BY <2>1 DEF Reply
  <2> QED
      BY <1>3, <2>1, <2>2 DEF SendReply
<1>4. ASSUME NEW c \in RpcCaller, GetReply(c) PROVE RabbitTypeOK'
  <2>1. First \in rpcQueue
      BY <1>4, FirstOfQueue DEF GetReply
  <2> QED
      BY <1>4, <2>1 DEF GetReply
<1>5. ASSUME NEW c \in RpcCaller, GetNothing(c) PROVE RabbitTypeOK'
    BY <1>5 DEF GetNothing
<1>6. ASSUME NEW c \in RpcCaller, SelectReply(c) PROVE RabbitTypeOK'
    BY <1>6 DEF SelectReply, Requeue
<1>7. ASSUME NEW c \in RpcCaller, WakeUp(c) PROVE RabbitTypeOK'
    BY <1>7 DEF WakeUp
<1>8. CASE RabbitStop
    BY <1>8 DEF RabbitStop
<1>9. CASE UNCHANGED rabbitVars
    BY <1>9 DEF rabbitVars
<1> QED
    BY <1>1, <1>2, <1>3, <1>4, <1>5, <1>6, <1>7, <1>8, <1>9 DEF RabbitNext, CallStep

\* A call takes a reply only when it holds none.
LEMMA RabbitStepHeld == RabbitTypeOK /\ HeldInv /\ [RabbitNext]_rabbitVars => HeldInv'
<1> SUFFICES ASSUME RabbitTypeOK, HeldInv, [RabbitNext]_rabbitVars PROVE HeldInv'
    OBVIOUS
<1> USE DEF RabbitTypeOK, HeldInv, Becomes
<1>1. ASSUME NEW c \in RpcCaller, PublishRequest(c) PROVE HeldInv'
    BY <1>1 DEF PublishRequest
<1>2. ASSUME NEW c \in RpcCaller, PublishFails(c) PROVE HeldInv'
    BY <1>2 DEF PublishFails
<1>3. ASSUME NEW c \in RpcCaller, SendReply(c) PROVE HeldInv'
    BY <1>3 DEF SendReply
<1>4. ASSUME NEW c \in RpcCaller, GetReply(c) PROVE HeldInv'
    BY <1>4 DEF GetReply
<1>5. ASSUME NEW c \in RpcCaller, GetNothing(c) PROVE HeldInv'
    BY <1>5 DEF GetNothing
<1>6. ASSUME NEW c \in RpcCaller, SelectReply(c) PROVE HeldInv'
    BY <1>6 DEF SelectReply, Requeue
<1>7. ASSUME NEW c \in RpcCaller, WakeUp(c) PROVE HeldInv'
    BY <1>7 DEF WakeUp
<1>8. CASE RabbitStop \/ UNCHANGED rabbitVars
    BY <1>8 DEF RabbitStop, rabbitVars
<1> QED
    BY <1>1, <1>2, <1>3, <1>4, <1>5, <1>6, <1>7, <1>8 DEF RabbitNext, CallStep

-----------------------------------------------------------------------------
(* Replies are kept.                                                       *)

\* A call that waits is still to be answered, or its reply is around.
Kept(c) ==
  rpcCall[c] \in Waiting \cup {"hold"} =>
    \/ c \in rpcRequests
    \/ \E r \in rpcQueue : r.to = c
    \/ \E d \in RpcCaller : \E r \in rpcHeld[d] : r.to = c

\* The property, call by call.
LEMMA KeptIsRepliesKept == RepliesKept <=> \A c \in RpcCaller : Kept(c)
BY DEF RepliesKept, Kept, Around

\* No step loses the reply of a call that waits.
LEMMA RabbitStepKept ==
  RabbitTypeOK /\ HeldInv /\ (\A c \in RpcCaller : Kept(c)) /\ [RabbitNext]_rabbitVars
    => \A c \in RpcCaller : Kept(c)'
<1> SUFFICES ASSUME RabbitTypeOK, HeldInv, \A c \in RpcCaller : Kept(c), [RabbitNext]_rabbitVars,
                    NEW d \in RpcCaller
             PROVE  Kept(d)'
    OBVIOUS
<1> USE DEF RabbitTypeOK, Becomes, Waiting, Kept
<1>1. ASSUME NEW c \in RpcCaller, PublishRequest(c) PROVE Kept(d)'
    BY <1>1 DEF PublishRequest
<1>2. ASSUME NEW c \in RpcCaller, PublishFails(c) PROVE Kept(d)'
    \* Nobody waits after the connection was closed.
    BY <1>2 DEF PublishFails
<1>3. ASSUME NEW c \in RpcCaller, SendReply(c) PROVE Kept(d)'
  <2>1. \E r \in rpcQueue' : r.to = c
    <3> DEFINE r == [n |-> rpcSent + 1, to |-> c]
    <3>1. r \in rpcQueue' /\ r.to = c
        BY <1>3 DEF SendReply
    <3> QED
        BY <3>1
  <2>2. rpcQueue \subseteq rpcQueue' /\ rpcRequests \ {c} \subseteq rpcRequests'
      BY <1>3 DEF SendReply
  <2> QED
      BY <1>3, <2>1, <2>2 DEF SendReply
<1>4. ASSUME NEW c \in RpcCaller, GetReply(c) PROVE Kept(d)'
  <2>1. /\ rpcHeld[c] = {}
        /\ rpcCall'[d] \in Waiting \cup {"hold"} => rpcCall[d] \in Waiting \cup {"hold"}
      BY <1>4 DEF GetReply, HeldInv
  <2>2. rpcRequests' = rpcRequests /\ rpcQueue' = rpcQueue \ {First} /\ First \in rpcHeld'[c]
      BY <1>4 DEF GetReply
  <2>3. \A b \in RpcCaller : rpcHeld[b] \subseteq rpcHeld'[b]
      BY <1>4, <2>1 DEF GetReply, HeldInv
  <2>4. CASE d \in rpcRequests
      BY <2>2, <2>4
  <2>5. ASSUME NEW r \in rpcQueue, r.to = d PROVE Kept(d)'
      BY <2>2, <2>5
  <2>6. ASSUME NEW b \in RpcCaller, NEW r \in rpcHeld[b], r.to = d PROVE Kept(d)'
      BY <2>3, <2>6
  <2>7. CASE rpcCall[d] \notin Waiting \cup {"hold"}
      BY <2>1, <2>7
  <2>8. CASE \/ \E r \in rpcQueue : r.to = d
             \/ \E b \in RpcCaller : \E r \in rpcHeld[b] : r.to = d
      BY <2>5, <2>6, <2>8
  <2>9. Kept(d)
      OBVIOUS
  <2> QED
      BY <2>4, <2>7, <2>8, <2>9
<1>5. ASSUME NEW c \in RpcCaller, GetNothing(c) PROVE Kept(d)'
    BY <1>5 DEF GetNothing
<1>6. ASSUME NEW c \in RpcCaller, SelectReply(c) PROVE Kept(d)'
  <2> PICK r \in rpcHeld[c] : \/ r.to = c /\ Becomes(c, "done") /\ UNCHANGED rpcQueue
                              \/ r.to # c /\ Requeue(c)
      BY <1>6 DEF SelectReply
  <2>1. rpcHeld[c] = {r}
      BY DEF HeldInv
  <2>2. rpcRequests' = rpcRequests /\ \A b \in RpcCaller \ {c} : rpcHeld'[b] = rpcHeld[b]
      BY <1>6 DEF SelectReply
  <2>3. rpcCall[c] = "hold"
      BY <1>6 DEF SelectReply
  <2>4. CASE r.to = c /\ Becomes(c, "done") /\ UNCHANGED rpcQueue
    <3>1. CASE d = c
        BY <2>4, <3>1
    <3>2. CASE d # c
        BY <2>1, <2>2, <2>4, <3>2
    <3> QED
        BY <3>1, <3>2
  <2>5. CASE r.to # c /\ Requeue(c)
    <3>1. rpcQueue' = rpcQueue \cup {r}
        BY <2>1, <2>5 DEF Requeue
    <3>2. rpcCall'[d] \in Waiting \cup {"hold"} => rpcCall[d] \in Waiting \cup {"hold"}
        BY <2>3, <2>5 DEF Requeue
    <3> QED
        BY <2>1, <2>2, <3>1, <3>2
  <2> QED
      BY <2>4, <2>5
<1>7. ASSUME NEW c \in RpcCaller, WakeUp(c) PROVE Kept(d)'
    BY <1>7 DEF WakeUp
<1>8. CASE RabbitStop \/ UNCHANGED rabbitVars
    BY <1>8 DEF RabbitStop, rabbitVars
<1> QED
    BY <1>1, <1>2, <1>3, <1>4, <1>5, <1>6, <1>7, <1>8 DEF RabbitNext, CallStep

\* Nothing is held at first.
LEMMA InitRabbit == RabbitInit => RabbitInv
<1> SUFFICES ASSUME RabbitInit PROVE RabbitInv
    OBVIOUS
<1>1. RabbitTypeOK
  <2>1. 0 \in 0 .. MaxReplies
      BY RabbitAssumption
  <2> QED
      BY <2>1 DEF RabbitInit, RabbitTypeOK
<1>2. HeldInv /\ RepliesKept
    BY DEF RabbitInit, HeldInv, RepliesKept, Waiting
<1> QED
    BY <1>1, <1>2 DEF RabbitInv

\* What each call and the callee do keeps it.
LEMMA RabbitStep == RabbitInv /\ [RabbitNext]_rabbitVars => RabbitInv'
<1> SUFFICES ASSUME RabbitInv, [RabbitNext]_rabbitVars PROVE RabbitInv'
    OBVIOUS
<1>1. RepliesKept'
  <2>1. \A c \in RpcCaller : Kept(c)'
      BY RabbitStepKept, KeptIsRepliesKept DEF RabbitInv
  <2> QED
      BY <2>1 DEF RepliesKept, Kept, Around
<1> QED
    BY <1>1, RabbitStepType, RabbitStepHeld DEF RabbitInv

-----------------------------------------------------------------------------
\* However many calls share the reply queue, and with any number of callees
\* that answer: no call takes the reply of one that still waits for it
\* (control_AsyncRabbitMQ.py, RpcCallNode.aio_get).
THEOREM RabbitReplies == RabbitSpec => []RepliesKept
<1>1. RabbitInv => RepliesKept
    BY DEF RabbitInv
<1> QED
    BY InitRabbit, RabbitStep, <1>1, PTL DEF RabbitSpec

(*************************************************************************)
(* BrokerClient: for any number of drops and each kind of broker, what a *)
(* client takes for granted of its subscription is so while the          *)
(* connection is one.  A client of Redis does not take back that it is   *)
(* connected once its subscription is made (SubscriberInv).              *)
(*************************************************************************)
\* What the clients take for granted of their connection is true or false.
LEMMA InitBroker == BrokerInit => BrokerTypeOK
<1>1. 0 \in 0 .. MaxDrops
    BY BrokerAssumption
<1> QED
    BY <1>1 DEF BrokerInit, BrokerTypeOK

\* The steps of the clients of each broker, and of the link, keep the types.
LEMMA BrokerStep == BrokerTypeOK /\ [BrokerNext]_bkVars => BrokerTypeOK'
<1> SUFFICES ASSUME BrokerTypeOK, [BrokerNext]_bkVars PROVE BrokerTypeOK'
    OBVIOUS
<1> USE DEF BrokerTypeOK
<1>1. CASE LinkLost
  <2>1. bkDrops + 1 \in 0 .. MaxDrops
      BY <1>1, BrokerAssumption DEF LinkLost
  <2> QED
      BY <1>1, <2>1 DEF LinkLost
<1>2. CASE LinkBack
    BY <1>2 DEF LinkBack
<1>3. CASE SlowMQSubscribe \/ SlowMQSubscribeFails \/ SlowMQReplyUnread \/ SlowMQGetFails
    BY <1>3 DEF SlowMQSubscribe, SlowMQSubscribeFails, SlowMQReplyUnread, SlowMQGetFails,
         Become, Keep, bkFixed
<1>4. CASE RedisOpen \/ RedisSubscribe \/ RedisGet
    BY <1>4 DEF RedisOpen, RedisSubscribe, RedisGet, Become, Keep, bkFixed
<1>5. CASE RabbitConnect \/ RabbitChannel \/ RabbitExchange \/ RabbitDeclareQueue \/ RabbitCloses
    BY <1>5 DEF RabbitConnect, RabbitChannel, RabbitExchange, RabbitOpens, RabbitDeclareQueue,
         RabbitCloses, Become, Keep, bkFixed
<1>6. CASE NatsOpen \/ NatsRegister \/ NatsLibraryReconnects
    BY <1>6 DEF NatsOpen, NatsRegister, NatsLibraryReconnects, Become, Keep, bkFixed
<1>7. CASE MqttOpen \/ MqttSubscribe \/ MqttCloses
    BY <1>7 DEF MqttOpen, MqttSubscribe, MqttCloses, Become, Keep, bkFixed
<1>8. CASE UNCHANGED bkVars
    BY <1>8 DEF bkVars
<1> QED
    BY <1>1, <1>2, <1>3, <1>4, <1>5, <1>6, <1>7, <1>8 DEF BrokerNext, ClientStep

\* A client of Redis opens its connection before it makes a subscription, and
\* takes itself to be connected ever after.
SubscriberInv ==
  /\ BrokerTypeOK /\ SubscribedHears
  /\ bkKind = "redis" /\ bkMade => bkConnected

\* A client begins without a connection.
LEMMA InitSubscriber == BrokerInit => SubscriberInv
    BY InitBroker DEF BrokerInit, SubscriberInv, SubscribedHears

\* Each kind of client keeps the invariant, whatever the link does.
LEMMA SubscriberStep == SubscriberInv /\ [BrokerNext]_bkVars => SubscriberInv'
<1> SUFFICES ASSUME SubscriberInv, [BrokerNext]_bkVars PROVE SubscriberInv'
    OBVIOUS
<1>1. BrokerTypeOK'
    BY BrokerStep DEF SubscriberInv
<1> USE DEF SubscriberInv, SubscribedHears, BrokerTypeOK
<1>2. CASE LinkLost \/ LinkBack
    BY <1>1, <1>2 DEF LinkLost, LinkBack
<1>3. CASE SlowMQSubscribe \/ SlowMQSubscribeFails \/ SlowMQReplyUnread \/ SlowMQGetFails
    BY <1>1, <1>3 DEF SlowMQSubscribe, SlowMQSubscribeFails, SlowMQReplyUnread, SlowMQGetFails,
         Become, Keep, bkFixed
<1>4. CASE RedisOpen \/ RedisSubscribe \/ RedisGet
    BY <1>1, <1>4 DEF RedisOpen, RedisSubscribe, RedisGet, Become, Keep, bkFixed
<1>5. CASE RabbitConnect \/ RabbitChannel \/ RabbitExchange \/ RabbitDeclareQueue \/ RabbitCloses
    BY <1>1, <1>5 DEF RabbitConnect, RabbitChannel, RabbitExchange, RabbitOpens, RabbitDeclareQueue,
         RabbitCloses, Become, Keep, bkFixed
<1>6. CASE NatsOpen \/ NatsRegister \/ NatsLibraryReconnects
    BY <1>1, <1>6 DEF NatsOpen, NatsRegister, NatsLibraryReconnects, Become, Keep, bkFixed
<1>7. CASE MqttOpen \/ MqttSubscribe \/ MqttCloses
    BY <1>1, <1>7 DEF MqttOpen, MqttSubscribe, MqttCloses, Become, Keep, bkFixed
<1>8. CASE UNCHANGED bkVars
    BY <1>1, <1>8 DEF bkVars
<1> QED
    BY <1>2, <1>3, <1>4, <1>5, <1>6, <1>7, <1>8 DEF BrokerNext, ClientStep

\* With a client of any kind, whatever is lost, refused or repeated and in
\* whatever order: a client that takes itself to be subscribed over a connection
\* that is one hears what is published, unless it was refused
\* (control_AsyncSlowMQ.py, _AsyncRedis.py, _AsyncRabbitMQ.py, _AsyncNATS.py,
\* _AsyncMQTT.py: aio_open() and the aio_get() of the subscribers).
THEOREM BrokerSubscribedHears == BrokerSpec => []SubscribedHears
<1>1. SubscriberInv => SubscribedHears
    BY DEF SubscriberInv
<1> QED
    BY InitSubscriber, SubscriberStep, <1>1, PTL DEF BrokerSpec

\* A client of RabbitMQ is left with a connection that is one no more, and that no
\* call will close, by the loss of that connection only: whatever closes, opens or
\* declares (control_AsyncRabbitMQ.py: aio_close(), _construct()) leaves none.
THEOREM StrandedOnlyByLoss == BrokerSpec => StrandedByLoss
<1>1. [BrokerNext]_bkVars => [Stranded' => Stranded \/ LinkLost]_bkVars
  <2> SUFFICES ASSUME [BrokerNext]_bkVars, ~LinkLost, Stranded' PROVE Stranded
      OBVIOUS
  <2> USE DEF Stranded
  <2>1. CASE LinkBack
      BY <2>1 DEF LinkBack
  <2>2. CASE RabbitConnect \/ RabbitDeclareQueue \/ RabbitCloses
      BY <2>2 DEF RabbitConnect, RabbitDeclareQueue, RabbitCloses, Become
  <2>6. CASE RabbitChannel \/ RabbitExchange
      BY <2>6 DEF RabbitChannel, RabbitExchange, RabbitOpens, Become
  <2>3. CASE bkKind # "rabbitmq" /\ bkKind' = bkKind
      BY <2>3
  <2>4. SlowMQSubscribe \/ SlowMQSubscribeFails \/ SlowMQReplyUnread \/ SlowMQGetFails
        \/ RedisOpen \/ RedisSubscribe \/ RedisGet
        \/ NatsOpen \/ NatsRegister \/ NatsLibraryReconnects
        \/ MqttOpen \/ MqttSubscribe \/ MqttCloses
        => bkKind # "rabbitmq" /\ bkKind' = bkKind
      BY DEF SlowMQSubscribe, SlowMQSubscribeFails, SlowMQReplyUnread, SlowMQGetFails, RedisOpen,
         RedisSubscribe, RedisGet, NatsOpen, NatsRegister, NatsLibraryReconnects, MqttOpen,
         MqttSubscribe, MqttCloses, Become, bkFixed
  <2>5. CASE UNCHANGED bkVars
      BY <2>5 DEF bkVars
  <2> QED
      BY <2>1, <2>2, <2>3, <2>4, <2>5, <2>6 DEF BrokerNext, ClientStep
<1> QED
    BY <1>1, PTL DEF BrokerSpec, StrandedByLoss

(***************************************************************************)
(* What Trend guarantees for a ring of any number of bins and any times:   *)
(* what is shown of a tick are its fills.  As long as fills come in order, *)
(* the bins of the last TrendBins ticks hold the fills of these ticks, and *)
(* no later tick has any (FillsInv): two ticks less than TrendBins apart   *)
(* are in different bins (OtherSlot), so that the bins a fill clears are   *)
(* not theirs.                                                             *)
(***************************************************************************)
FillsInv ==
  trInOrder =>
    /\ trLast \in Nat /\ trCurrent = trLast \div 2
    /\ \A k \in 0 .. LastTick : k > trCurrent => trFills[k] = 0
    /\ \A k \in 0 .. LastTick :
         k <= trCurrent /\ trCurrent < k + TrendBins => trCount[k % TrendBins] = trFills[k]

TrendInv == TrendTypeOK /\ FillsInv

-----------------------------------------------------------------------------
(* Ticks and slots.                                                        *)

\* Ticks less than n apart are in different slots of n.
LEMMA OtherSlot ==
  ASSUME NEW n \in Nat \ {0}, NEW k \in Nat, NEW j \in Nat, k < j, j < k + n
  PROVE  k % n # j % n
<1> SUFFICES ASSUME k % n = j % n PROVE FALSE
    OBVIOUS
<1> DEFINE p == k \div n
           q == j \div n
           r == k % n
<1>1. p \in Nat /\ q \in Nat
    BY ModOf
<1>2. r \in Nat /\ k = n * p + r /\ j = n * q + r
    BY ModOf
<1> HIDE DEF p, q, r
<1>3. n * (q - p) = j - k
    BY <1>1, <1>2
<1>4. CASE q - p <= 0
  <2>1. n * (q - p) <= 0
      BY <1>1, <1>4
  <2> QED
      BY <1>3, <2>1
<1>5. CASE q - p >= 1
  <2>1. n * (q - p) >= n
      BY <1>1, <1>5
  <2> QED
      BY <1>3, <2>1
<1> QED
    BY <1>1, <1>4, <1>5

\* The remainder of a tick is a slot.
LEMMA SlotOf ==
  ASSUME NEW k \in Nat
  PROVE  k % TrendBins \in Slot
BY ModOf, TrendAssumption DEF Slot

\* The tick of a later time is not an earlier one.
LEMMA Halves ==
  ASSUME NEW a \in Nat, NEW b \in Nat, a <= b
  PROVE  a \div 2 \in Nat /\ a \div 2 <= b \div 2
OBVIOUS

\* The index of a time, and that of a time after the start.
LEMMA TickType ==
  ASSUME NEW t \in Times
  PROVE  /\ t \in Int /\ IndexOf(t) \in Int /\ LastTick \in Nat
         /\ t >= 0 => IndexOf(t) = t \div 2
         /\ IndexOf(t) >= 0 => IndexOf(t) \in 0 .. LastTick
<1>1. t \in Int /\ t <= MaxTime /\ MaxTime \in Nat
    BY TrendAssumption DEF Times
<1>2. LastTick \in Nat
    BY <1>1, Halves DEF LastTick
<1>3. CASE t >= 0
    BY <1>1, <1>2, <1>3, Halves DEF IndexOf, LastTick
<1>4. CASE t < 0
  <2>1. -t \in Nat /\ (-t) \div 2 \in Nat
      BY <1>1, <1>4
  <2>2. IndexOf(t) = -((-t) \div 2)
      BY <1>1, <1>4 DEF IndexOf
  <2> QED
      BY <1>1, <1>2, <1>4, <2>1, <2>2
<1> QED
    BY <1>1, <1>3, <1>4

-----------------------------------------------------------------------------
(* One step.                                                               *)

\* The index a fill goes to.
SlotAt(t) == IF IndexOf(t) < 0 THEN trCurrent ELSE IndexOf(t)

\* A fill goes to one bin, after clearing those it has passed.
LEMMA FillEffect ==
  ASSUME TrendTypeOK, NEW t \in Times, Fill(t)
  PROVE  /\ SlotAt(t) \in 0 .. LastTick /\ trCurrent' = SlotAt(t) /\ trFlushed' = trFlushed
         /\ trCount' = [Evolved(SlotAt(t)) EXCEPT ![SlotAt(t) % TrendBins] = @ + 1]
         /\ Evolved(SlotAt(t))[SlotAt(t) % TrendBins] < MaxFills
<1>1. SlotAt(t) \in 0 .. LastTick
    BY TickType DEF SlotAt, TrendTypeOK
<1> QED
    BY <1>1 DEF Fill, SlotAt

\* Every step of a trend keeps the types.
LEMMA TrendStepType == TrendTypeOK /\ [TrendNext]_trVars => TrendTypeOK'
<1> SUFFICES ASSUME TrendTypeOK, [TrendNext]_trVars PROVE TrendTypeOK'
    OBVIOUS
<1>0. MaxFills \in Nat /\ LastTick \in Nat
    BY TrendAssumption DEF LastTick
<1>1. ASSUME NEW t \in Times, Fill(t) PROVE TrendTypeOK'
  <2> DEFINE i == SlotAt(t)
  <2>1. i \in 0 .. LastTick /\ i % TrendBins \in Slot
      BY <1>1, FillEffect, SlotOf, <1>0
  <2>2. Evolved(i) \in [Slot -> 0 .. MaxFills]
      BY <1>0 DEF Evolved, TrendTypeOK
  <2>3. trCount' = [Evolved(i) EXCEPT ![i % TrendBins] = @ + 1]
      BY <1>1, FillEffect
  <2>4. Evolved(i)[i % TrendBins] < MaxFills
      BY <1>1, FillEffect
  <2>5. trCount' \in [Slot -> 0 .. MaxFills]
    <3> HIDE DEF i
    <3>1. Evolved(i)[i % TrendBins] + 1 \in 0 .. MaxFills
        BY <1>0, <2>1, <2>2, <2>4
    <3> QED
        BY <2>1, <2>2, <2>3, <3>1
  <2>6. trFills' \in [0 .. LastTick -> 0 .. MaxFills]
    <3> DEFINE k == t \div 2
    <3>1. CASE k \in DOMAIN trFills
      <4>1. trFills[k] < MaxFills /\ trFills' = [trFills EXCEPT ![k] = @ + 1]
          BY <1>1, <3>1 DEF Fill
      <4> HIDE DEF k
      <4>2. k \in 0 .. LastTick /\ trFills[k] + 1 \in 0 .. MaxFills
          BY <1>0, <3>1, <4>1 DEF TrendTypeOK
      <4> QED
          BY <4>1, <4>2 DEF TrendTypeOK
    <3>2. CASE k \notin DOMAIN trFills
        BY <1>1, <3>2 DEF Fill, TrendTypeOK
    <3> QED
        BY <3>1, <3>2
  <2>7. trInOrder' \in BOOLEAN /\ trLast' \in Times \cup {0}
      BY <1>1 DEF Fill, TrendTypeOK
  <2>8. trCurrent' \in 0 .. LastTick /\ trFlushed' \in 0 .. LastTick
      BY <1>1, FillEffect DEF TrendTypeOK
  <2> QED
      BY <2>5, <2>6, <2>7, <2>8 DEF TrendTypeOK
<1>2. CASE Flush
    BY <1>2 DEF Flush, TrendTypeOK
<1>3. CASE Clear
  <2>1. trCount' \in [Slot -> 0 .. MaxFills]
    <3>1. trCount' = [trCount EXCEPT ![0] = 0] /\ 0 \in 0 .. MaxFills
        BY <1>0, <1>3 DEF Clear
    <3>2. trCount \in [Slot -> 0 .. MaxFills]
        BY DEF TrendTypeOK
    <3> QED
        BY <3>1, <3>2
  <2>2. trFills' \in [0 .. LastTick -> 0 .. MaxFills]
      BY <1>0, <1>3 DEF Clear
  <2>3. {trCurrent', trFlushed'} \subseteq 0 .. LastTick
      BY <1>0, <1>3 DEF Clear
  <2> QED
      BY <1>3, <2>1, <2>2, <2>3 DEF Clear, TrendTypeOK
<1>4. CASE UNCHANGED trVars
    BY <1>4 DEF trVars, TrendTypeOK
<1> QED
    BY <1>1, <1>2, <1>3, <1>4 DEF TrendNext

\* A fill in order leaves the bins of the last ticks as they are, but its own.
LEMMA FillStep ==
  ASSUME TrendInv, NEW t \in Times, Fill(t)
  PROVE  FillsInv'
<1> SUFFICES ASSUME trInOrder'
             PROVE  /\ trLast' \in Nat /\ trCurrent' = trLast' \div 2
                    /\ \A k \in 0 .. LastTick : k > trCurrent' => trFills'[k] = 0
                    /\ \A k \in 0 .. LastTick :
                         k <= trCurrent' /\ trCurrent' < k + TrendBins
                           => trCount'[k % TrendBins] = trFills'[k]
    BY DEF FillsInv
<1> DEFINE i == t \div 2
<1>0. TrendBins \in Nat \ {0} /\ LastTick \in Nat
    BY TrendAssumption DEF LastTick
<1>1. /\ trInOrder /\ t >= trLast /\ trLast \in Nat /\ t \in Nat
      /\ trCurrent = trLast \div 2 /\ trCurrent \in 0 .. LastTick
  <2>1. trInOrder /\ t >= trLast
      BY DEF Fill
  <2>2. trLast \in Nat /\ trCurrent = trLast \div 2
      BY <2>1 DEF TrendInv, FillsInv
  <2>3. trCurrent \in 0 .. LastTick
      BY DEF TrendInv, TrendTypeOK
  <2>4. t \in Int
      BY TickType
  <2> QED
      BY <2>1, <2>2, <2>3, <2>4
<1>2. SlotAt(t) = i /\ i \in 0 .. LastTick /\ trCurrent <= i
    BY <1>1, TickType, Halves DEF SlotAt
<1>3. trLast' = t
    BY <1>1 DEF Fill
<1>4. trCurrent' = i /\ trCount' = [Evolved(i) EXCEPT ![i % TrendBins] = @ + 1]
    BY <1>2, FillEffect DEF TrendInv
<1>5. trFills' = [trFills EXCEPT ![i] = @ + 1]
    BY <1>2 DEF Fill, TrendInv, TrendTypeOK
<1> HIDE DEF i
<1>6. trFills \in [0 .. LastTick -> 0 .. MaxFills] /\ trCount \in [Slot -> 0 .. MaxFills]
    BY DEF TrendInv, TrendTypeOK
<1>7. ASSUME NEW k \in 0 .. LastTick, k > i PROVE trFills'[k] = 0
  <2>1. k > trCurrent /\ k # i
      BY <1>0, <1>1, <1>2, <1>7
  <2> QED
      BY <1>1, <1>5, <1>6, <2>1 DEF TrendInv, FillsInv
\* The bins of the last ticks are cleared if they were entered just now, and
\* left alone otherwise.
<1>8. ASSUME NEW k \in 0 .. LastTick, k <= i, i < k + TrendBins
      PROVE  Evolved(i)[k % TrendBins] = trFills[k]
  <2>1. k \in Nat /\ k % TrendBins \in Slot
      BY <1>0, SlotOf
  <2>2. CASE k > trCurrent
    <3>1. k \in trCurrent + 1 .. i
        BY <1>0, <1>1, <1>2, <1>8, <2>2
    <3>2. Evolved(i)[k % TrendBins] = 0
        BY <2>1, <3>1 DEF Evolved
    <3> QED
        BY <1>1, <2>2, <3>2 DEF TrendInv, FillsInv
  <2>3. CASE k <= trCurrent
    <3>1. ASSUME NEW j \in trCurrent + 1 .. i PROVE j % TrendBins # k % TrendBins
      <4>1. j \in Nat /\ k < j /\ j < k + TrendBins
          BY <1>0, <1>1, <1>2, <1>8, <2>3
      <4> QED
          BY <1>0, <2>1, <4>1, OtherSlot
    <3>2. Evolved(i)[k % TrendBins] = trCount[k % TrendBins]
        BY <2>1, <3>1 DEF Evolved
    <3>3. trCurrent < k + TrendBins
        BY <1>0, <1>1, <1>2, <1>8
    <3> QED
        BY <1>1, <2>3, <3>2, <3>3 DEF TrendInv, FillsInv
  <2> QED
      BY <1>1, <2>1, <2>2, <2>3
<1>9. ASSUME NEW k \in 0 .. LastTick, k <= i, i < k + TrendBins
      PROVE  trCount'[k % TrendBins] = trFills'[k]
  <2>0. Evolved(i) = [s \in Slot |-> Evolved(i)[s]] /\ k % TrendBins \in Slot /\ i % TrendBins \in Slot
      BY <1>0, <1>2, SlotOf DEF Evolved
  <2>1. Evolved(i)[k % TrendBins] = trFills[k]
      BY <1>8, <1>9
  <2>2. CASE k = i
      BY <1>2, <1>4, <1>5, <1>6, <2>0, <2>1, <2>2
  <2>3. CASE k # i
    <3>1. k % TrendBins # i % TrendBins
      <4>1. k \in Nat /\ i \in Nat /\ k < i
          BY <1>0, <1>2, <1>9, <2>3
      <4> QED
          BY <1>0, <1>9, <4>1, OtherSlot
    <3> QED
        BY <1>4, <1>5, <1>6, <2>0, <2>1, <2>3, <3>1
  <2> QED
      BY <2>2, <2>3
<1> QED
    BY <1>1, <1>3, <1>4, <1>7, <1>9 DEF i

\* The invariant of the trend is inductive.
LEMMA TrendStep == TrendInv /\ [TrendNext]_trVars => TrendInv'
<1> SUFFICES ASSUME TrendInv, [TrendNext]_trVars PROVE FillsInv'
    BY TrendStepType DEF TrendInv
<1>1. CASE \E t \in Times : Fill(t)
    BY <1>1, FillStep
<1>2. CASE Flush
    BY <1>2 DEF Flush, TrendInv, FillsInv
<1>3. CASE Clear
  <2>1. /\ trCurrent' = 0 /\ trLast' = 0 /\ trFills' = [k \in 0 .. LastTick |-> 0]
        /\ trCount' = [trCount EXCEPT ![0] = 0]
      BY <1>3 DEF Clear
  <2>2. 0 % TrendBins = 0 /\ 0 \in Slot /\ 0 \div 2 = 0
      BY TrendAssumption DEF Slot
  <2>3. trCount'[0] = 0
      BY <2>1, <2>2 DEF TrendInv, TrendTypeOK
  <2> QED
      BY <2>1, <2>2, <2>3 DEF FillsInv
<1>4. CASE UNCHANGED trVars
    BY <1>4 DEF trVars, TrendInv, FillsInv
<1> QED
    BY <1>1, <1>2, <1>3, <1>4 DEF TrendNext

\* A trend begins with empty bins.
LEMMA InitTrend == TrendInit => TrendInv
<1> SUFFICES ASSUME TrendInit PROVE TrendInv
    OBVIOUS
<1>1. LastTick \in Nat /\ MaxFills \in Nat /\ TrendBins \in Nat \ {0}
    BY TrendAssumption DEF LastTick
<1>2. TrendTypeOK
    BY <1>1 DEF TrendInit, TrendTypeOK
<1>3. 0 % TrendBins = 0 /\ 0 \in Slot /\ 0 \div 2 = 0
    BY <1>1 DEF Slot
<1>4. FillsInv
    BY <1>1, <1>3 DEF TrendInit, FillsInv
<1> QED
    BY <1>2, <1>4 DEF TrendInv

\* The bins that are shown are those of the last ticks.
LEMMA TrendInvShows == TrendInv => TrendShowsFills
<1> SUFFICES ASSUME TrendInv PROVE TrendShowsFills
    OBVIOUS
<1>1. /\ TrendBins \in Nat \ {0} /\ LastTick \in Nat
      /\ trCurrent \in 0 .. LastTick /\ trFlushed \in 0 .. LastTick
    BY TrendAssumption DEF LastTick, TrendInv, TrendTypeOK
<1>2. ASSUME NEW i \in Shown
      PROVE  /\ i \in 0 .. LastTick /\ i <= trCurrent /\ trCurrent < i + TrendBins
             /\ i \in SeriesStart .. SeriesStart + TrendBins - 1
    BY <1>1 DEF Shown, Least, SeriesStart
<1> QED
    BY <1>2 DEF TrendShowsFills, TrendInv, FillsInv

-----------------------------------------------------------------------------
\* Whatever the size of the ring, wherever fills jump to and whenever it is
\* cleared or flushed: of fills in order, the bins that are shown have the fills
\* of their ticks, and lie in the series (trend.py:34-72, 99-134).
THEOREM TrendShows == TrendSpec => []TrendShowsFills
    BY TrendInvShows, InitTrend, TrendStep, PTL DEF TrendSpec
=============================================================================
