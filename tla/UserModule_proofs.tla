-------------------------- MODULE UserModule_proofs --------------------------
(***************************************************************************)
(* What UserModule guarantees for any number of start(), stop() and        *)
(* process_command() calls and any scripts.                                *)
(*                                                                         *)
(* 1. The state has its type: a handler that holds the main event loop is  *)
(*    where it may hold it, and a halt is called of a script only.         *)
(* 2. In an orderly use there is one user thread, it is the one the module *)
(*    knows, a stop() halts its _run(), and no handler fails (OrderlyInv). *)
(* 3. A stop is final in an orderly use; and, until there is a second      *)
(*    start(), in any use (OnceInv).                                       *)
(***************************************************************************)
EXTENDS UserModule, TLAPS

-----------------------------------------------------------------------------
(* Type correctness.                                                       *)

\* A _halt() is awaited, or waited for, when a script was loaded.
FuncsInv ==
  \A h \in Starts \cup Stops : pc[h] \in {"halting", "posted"} => funcs # None

Point == {"new"} \cup Active \cup Ended

LEMMA HandlerTypes ==
  /\ Starts \subseteq Handlers /\ Stops \subseteq Handlers /\ Commands \subseteq Handlers
  /\ None \notin Handlers /\ None \notin Starts
  /\ \A h \in Starts \cup Stops : h \notin Commands
BY UserModuleAssumption DEF Handlers

\* The state but for pc, main and phase.
RestTypeOK ==
  /\ stop_event \in BOOLEAN /\ module \in BOOLEAN
  /\ user_thread \in Starts \cup {None} /\ funcs \in Starts \cup {None}
  /\ initialized \subseteq Starts /\ halted \subseteq Starts /\ requested \subseteq Starts
  /\ at \in [Handlers -> Starts \cup {None}]
  /\ script \in Scripts /\ orderly \in BOOLEAN

\* A handler goes on to x, keeps the loop or gives it up, and has no thread
\* unless it is polling for one.
LEMMA GoesOnType ==
  ASSUME TypeOK, FuncsInv, NEW h \in Handlers, NEW x \in Point,
         \/ Hold(h, x) /\ x \in {"halt", "posted", "lost", "set", "launch"}
         \/ Yield(h, x),
         \/ pc[h] \notin {"polling"} \cup Ended
         \/ x \in Ended,
         x \in {"halting", "posted"} /\ h \notin Commands => funcs # None,
         UNCHANGED <<phase, funcs>>, RestTypeOK'
  PROVE  TypeOK' /\ FuncsInv'
<1>1. pc' = [pc EXCEPT ![h] = x] /\ pc \in [Handlers -> Point]
    BY DEF Hold, Yield, TypeOK, Point
<1>2. pc' \in [Handlers -> Point]
    BY <1>1
<1>3. /\ main' \in Handlers \cup {None}
      /\ main' # None => pc'[main'] \in {"halt", "posted", "lost", "set", "launch"}
    BY <1>1 DEF Hold, Yield
<1>4. ASSUME NEW t \in Starts, phase'[t] # "none" PROVE pc'[t] \in {"polling"} \cup Ended
  <2>1. pc[t] \in {"polling"} \cup Ended
      BY <1>4 DEF TypeOK
  <2> QED
      BY <1>1, <1>4, <2>1, HandlerTypes
<1>5. FuncsInv'
    BY <1>1, HandlerTypes DEF FuncsInv
<1> QED
    BY <1>2, <1>3, <1>4, <1>5 DEF TypeOK, RestTypeOK, Point

\* What the callers of StopBegins have in common.
LEMMA StopBeginsType ==
  ASSUME TypeOK, FuncsInv, NEW h \in Starts \cup Stops, pc[h] = "new", ComesIn, StopBegins(h)
  PROVE  TypeOK' /\ FuncsInv'
<1>1. UNCHANGED <<phase, funcs>> /\ RestTypeOK'
    BY DEF StopBegins, ComesIn, thread, TypeOK, RestTypeOK
<1>2. Hold(h, "halt") \/ Yield(h, "sleep")
    BY DEF StopBegins
<1> QED
    BY <1>1, <1>2, GoesOnType, HandlerTypes DEF Point, Active, Ended

LEMMA StopStepsType ==
  ASSUME TypeOK, FuncsInv, NEW h \in Starts \cup Stops, StopSteps(h)
  PROVE  TypeOK' /\ FuncsInv'
<1> USE HandlerTypes DEF Point, Active, Ended, Calm, thread, RestTypeOK
<1>1. CASE StopSlept(h)
  <2>1. UNCHANGED <<phase, funcs>> /\ RestTypeOK' /\ pc[h] = "sleep"
      BY <1>1 DEF StopSlept, TypeOK
  <2>2. Hold(h, "halt") \/ Yield(h, "crashed")
      BY <1>1 DEF StopSlept
  <2> QED
      BY <2>1, <2>2, GoesOnType
<1>2. CASE CallHalt(h)
  <2>1. UNCHANGED <<phase, funcs>> /\ RestTypeOK' /\ pc[h] = "halt"
    <3>1. halted' \subseteq Starts
        BY <1>2 DEF CallHalt, TypeOK
    <3>2. at' \in [Handlers -> Starts \cup {None}]
        BY <1>2 DEF CallHalt, Post, TypeOK
    <3> QED
        BY <1>2, <3>1, <3>2 DEF CallHalt, TypeOK
  <2>2. \/ Hold(h, "set")
        \/ funcs # None /\ (Hold(h, "posted") \/ Hold(h, "lost") \/ Yield(h, "halting"))
      BY <1>2 DEF CallHalt, Post
  <2> QED
      BY <2>1, <2>2, GoesOnType
<1>3. CASE HaltAwaited(h)
  <2>1. funcs \in Starts
      BY <1>3 DEF HaltAwaited, TypeOK, FuncsInv
  <2>2. UNCHANGED <<phase, funcs>> /\ RestTypeOK' /\ pc[h] = "halting" /\ Hold(h, "set")
      BY <1>3, <2>1 DEF HaltAwaited, TypeOK
  <2> QED
      BY <2>2, GoesOnType
<1>4. CASE SetStop(h)
  <2>1. UNCHANGED <<phase, funcs>> /\ pc[h] = "set"
      BY <1>4 DEF SetStop
  <2>2. RestTypeOK'
    <3>1. requested' \subseteq Starts /\ at' \in [Handlers -> Starts \cup {None}]
        BY <1>4 DEF SetStop, TypeOK
    <3> QED
        BY <1>4, <3>1 DEF SetStop, TypeOK
  <2>3. Yield(h, "join") \/ Hold(h, "launch") \/ Yield(h, "done")
      BY <1>4 DEF SetStop, StopEnds
  <2> QED
      BY <2>1, <2>2, <2>3, GoesOnType
<1>5. CASE Joined(h)
  <2>1. UNCHANGED <<phase, funcs>> /\ pc[h] = "join"
      BY <1>5 DEF Joined
  <2>2. RestTypeOK'
      BY <1>5 DEF Joined, JoinReturns, TypeOK
  <2>3. Yield(h, "crashed") \/ Hold(h, "launch") \/ Yield(h, "done")
      BY <1>5 DEF Joined, StopEnds
  <2> QED
      BY <2>1, <2>2, <2>3, GoesOnType
<1> QED
    BY <1>1, <1>2, <1>3, <1>4, <1>5 DEF StopSteps

LEMMA PostedRunsType ==
  ASSUME TypeOK, FuncsInv, NEW h \in Handlers, PostedRuns(h)
  PROVE  TypeOK' /\ FuncsInv'
<1>1. pc[h] = "posted" /\ UNCHANGED <<phase, funcs>>
    BY DEF PostedRuns, thread
<1>2. h \notin Commands => funcs \in Starts
    BY <1>1, HandlerTypes DEF TypeOK, FuncsInv, Handlers
<1>3. RestTypeOK'
    BY <1>2 DEF PostedRuns, Calm, thread, TypeOK, RestTypeOK
<1>4. Hold(h, "set") \/ Yield(h, "done")
    BY DEF PostedRuns
<1> QED
    BY <1>1, <1>3, <1>4, GoesOnType DEF Point, Active, Ended

LEMMA CommandsType ==
  ASSUME TypeOK, FuncsInv, NEW c \in Commands, CommandCalled(c) \/ CommandSlept(c)
  PROVE  TypeOK' /\ FuncsInv'
<1> USE HandlerTypes DEF Point, Active, Ended
<1>1. UNCHANGED <<phase, funcs>> /\ pc[c] \in {"new", "sleep"}
    BY DEF CommandCalled, CommandSlept, thread
<1>2. at' = at \/ at' = [at EXCEPT ![c] = user_thread]
    BY DEF CommandCalled, CommandSlept, CallCommand, Post
<1>3. at' \in [Handlers -> Starts \cup {None}]
    BY <1>2 DEF TypeOK
<1>4. RestTypeOK'
    BY <1>3 DEF CommandCalled, CommandSlept, ComesIn, Calm, thread, TypeOK, RestTypeOK
<1>5. \/ Hold(c, "posted") \/ Hold(c, "lost")
      \/ Yield(c, "sleep") \/ Yield(c, "done") \/ Yield(c, "crashed")
    BY DEF CommandCalled, CommandSlept, CallCommand, Post
<1> QED
    BY <1>1, <1>4, <1>5, GoesOnType

LEMMA CalledType ==
  ASSUME TypeOK, FuncsInv, NEW h \in Starts \cup Stops,
         (StartCalled(h) /\ h \in Starts) \/ StopCalled(h)
  PROVE  TypeOK' /\ FuncsInv'
<1> USE HandlerTypes DEF Point, Active, Ended
<1>1. CASE StopBegins(h)
    BY <1>1, StopBeginsType DEF StartCalled, StopCalled
<1>2. CASE ~StopBegins(h)
  <2>1. UNCHANGED <<phase, funcs>> /\ RestTypeOK' /\ pc[h] = "new"
      BY <1>2 DEF StartCalled, StopCalled, ComesIn, thread, TypeOK, RestTypeOK
  <2>2. Hold(h, "launch") \/ Yield(h, "done")
      BY <1>2 DEF StartCalled, StopCalled
  <2> QED
      BY <2>1, <2>2, GoesOnType
<1> QED
    BY <1>1, <1>2

LEMMA LaunchType ==
  ASSUME TypeOK, FuncsInv, NEW h \in Starts, Launch(h) \/ Polled(h)
  PROVE  TypeOK' /\ FuncsInv'
<1>1. CASE Launch(h)
  <2>1. pc' = [pc EXCEPT ![h] = "polling"] /\ main' = None
      BY <1>1 DEF Launch, Yield
  <2>2. phase' = [phase EXCEPT ![h] = "clear"] /\ user_thread' = h /\ stop_event' = FALSE
      BY <1>1 DEF Launch
  <2>3. UNCHANGED <<module, funcs, initialized, halted, requested, at, script, orderly>>
      BY <1>1 DEF Launch, Calm
  <2>4. TypeOK'
    <3>1. phase' \in [Starts -> {"none", "check", "dead"} \cup Loading \cup Going]
        BY <2>2 DEF TypeOK, Loading
    <3>2. pc' \in [Handlers -> Point]
        BY <2>1, HandlerTypes DEF TypeOK, Point, Active
    <3>3. \A t \in Starts : phase'[t] # "none" => pc'[t] \in {"polling"} \cup Ended
        BY <2>1, <2>2, HandlerTypes DEF TypeOK
    <3> QED
        BY <2>1, <2>2, <2>3, <3>1, <3>2, <3>3 DEF TypeOK, Point
  <2>5. FuncsInv'
      BY <2>1, <2>3, HandlerTypes DEF FuncsInv, TypeOK
  <2> QED
      BY <2>4, <2>5
<1>2. CASE Polled(h)
  <2>1. UNCHANGED <<phase, funcs>> /\ RestTypeOK'
      BY <1>2 DEF Polled, Calm, thread, TypeOK, RestTypeOK
  <2>2. Yield(h, "crashed") \/ Yield(h, "done")
      BY <1>2 DEF Polled
  <2> QED
      BY <2>1, <2>2, GoesOnType, HandlerTypes DEF Point, Ended
<1> QED
    BY <1>1, <1>2

-----------------------------------------------------------------------------
(* A step of a user thread.                                                *)

Early  == {"clear", "find", "create"}
Loaded == {"check"} \cup Going

\* What all of them have in common, and what later steps need to know.
ThreadEffect(t) ==
  /\ Alive(t) /\ phase' = [phase EXCEPT ![t] = phase'[t]]
  /\ phase'[t] \in {"dead"} \cup Loading \cup Loaded
  /\ UNCHANGED <<user_thread, halted, requested, pc, at, main, script, orderly>>
  /\ initialized' \in {initialized, initialized \cup {t}}
  /\ module' \in {module, TRUE, FALSE}
  /\ stop_event' = stop_event \/ (phase[t] = "clear" /\ stop_event' = FALSE)
  /\ funcs' = funcs \/ (phase[t] = "exec" /\ funcs' = t)
  /\ phase'[t] \in Loading => phase[t] \in Loading
  /\ phase'[t] \in Early => phase[t] \in Early /\ (module' => module)
  /\ phase'[t] \in {"exec"} \cup Loaded =>
       module' = TRUE \/ (phase[t] \in {"exec"} \cup Loaded /\ module' = module)
  /\ phase'[t] \in Loaded => funcs' = t \/ (phase[t] \in Loaded /\ funcs' = funcs)
  /\ phase'[t] \in {"init", "run", "loop"} => phase'[t] = phase[t] \/ ~stop_event
  /\ phase[t] = "ending" => phase'[t] = "dead"

LEMMA ThreadEffects ==
  ASSUME TypeOK, NEW t \in Starts, Load(t) \/ Go(t)
  PROVE  ThreadEffect(t)
<1> USE DEF ThreadEffect, Goes, Calm, Alive, Loading, Going, Early, Loaded
<1>0. phase \in [Starts -> {"none", "check", "dead"} \cup Loading \cup Going]
    BY DEF TypeOK
<1>1. CASE Clears(t)
    BY <1>0, <1>1 DEF Clears
<1>2. CASE FindsFile(t)
    BY <1>0, <1>2 DEF FindsFile
<1>3. CASE Creates(t)
    BY <1>0, <1>3 DEF Creates
<1>4. CASE Executes(t)
    BY <1>0, <1>4 DEF Executes
<1>5. CASE Checks(t)
    BY <1>0, <1>5 DEF Checks
<1>6. CASE Initializes(t)
    BY <1>0, <1>6 DEF Initializes
<1>7. CASE Enters(t)
    BY <1>0, <1>7 DEF Enters
<1>8. CASE RunReturns(t)
    BY <1>0, <1>8 DEF RunReturns
<1>9. CASE Loops(t)
    BY <1>0, <1>9 DEF Loops
<1>10. CASE Ends(t)
    BY <1>0, <1>10 DEF Ends
<1> QED
    BY <1>1, <1>2, <1>3, <1>4, <1>5, <1>6, <1>7, <1>8, <1>9, <1>10 DEF Load, Go

LEMMA ThreadsType ==
  ASSUME TypeOK, FuncsInv, NEW t \in Starts, Load(t) \/ Go(t)
  PROVE  TypeOK' /\ FuncsInv'
<1>1. ThreadEffect(t)
    BY ThreadEffects
<1>2. phase[t] # "none" /\ phase' = [phase EXCEPT ![t] = phase'[t]]
    BY <1>1 DEF ThreadEffect, Alive, Loading, Going
<1>3. phase' \in [Starts -> {"none", "check", "dead"} \cup Loading \cup Going]
    BY <1>1 DEF ThreadEffect, Loaded, TypeOK
<1>4. /\ stop_event' \in BOOLEAN /\ module' \in BOOLEAN /\ initialized' \subseteq Starts
      /\ funcs' \in Starts \cup {None} /\ (funcs # None => funcs' # None)
    BY <1>1, HandlerTypes DEF ThreadEffect, TypeOK
<1>5. UNCHANGED <<user_thread, halted, requested, pc, at, main, script, orderly>>
    BY <1>1 DEF ThreadEffect
<1>6. \A u \in Starts : phase'[u] # "none" => pc'[u] \in {"polling"} \cup Ended
    BY <1>2, <1>5 DEF TypeOK
<1>7. TypeOK'
    BY <1>3, <1>4, <1>5, <1>6 DEF TypeOK
<1>8. FuncsInv'
    BY <1>4, <1>5 DEF FuncsInv
<1> QED
    BY <1>7, <1>8

LEMMA StepType == TypeOK /\ FuncsInv /\ [Next]_vars => TypeOK' /\ FuncsInv'
<1> SUFFICES ASSUME TypeOK, FuncsInv, [Next]_vars PROVE TypeOK' /\ FuncsInv'
    OBVIOUS
<1>1. ASSUME NEW h \in Starts, StartCalled(h) \/ StopSteps(h) \/ Launch(h) \/ Polled(h)
      PROVE  TypeOK' /\ FuncsInv'
    BY <1>1, CalledType, StopStepsType, LaunchType
<1>2. ASSUME NEW h \in Stops, StopCalled(h) \/ StopSteps(h) PROVE TypeOK' /\ FuncsInv'
    BY <1>2, CalledType, StopStepsType
<1>3. ASSUME NEW h \in Starts \cup Stops \cup Commands, PostedRuns(h) PROVE TypeOK' /\ FuncsInv'
    BY <1>3, PostedRunsType DEF Handlers
<1>4. ASSUME NEW c \in Commands, CommandCalled(c) \/ CommandSlept(c) PROVE TypeOK' /\ FuncsInv'
    BY <1>4, CommandsType
<1>5. ASSUME NEW t \in Starts, Load(t) \/ Go(t) PROVE TypeOK' /\ FuncsInv'
    BY <1>5, ThreadsType
<1>6. CASE UNCHANGED vars
    BY <1>6 DEF vars, thread, TypeOK, FuncsInv
<1> QED
    BY <1>1, <1>2, <1>3, <1>4, <1>5, <1>6 DEF Next

LEMMA InitType == Init => TypeOK /\ FuncsInv
BY DEF Init, TypeOK, FuncsInv, Handlers

\* Any overlap of the calls keeps the state within its type: in particular a
\* handler that holds the main event loop is where it may hold it
\* (sd_usermodule.py:317-378, 456-490).
THEOREM TypeCorrect == Spec => []TypeOK
<1>1. Spec => [](TypeOK /\ FuncsInv)
    BY InitType, StepType, PTL DEF Spec
<1> QED
    BY <1>1, PTL

-----------------------------------------------------------------------------
(* Orderly use.                                                            *)

Stopping == {"sleep", "halt", "halting", "posted", "lost", "set"}
Running  == {"exec"} \cup Loaded

\* One handler at a time.
OneHandler == \A g, h \in Handlers : pc[g] \in Active /\ pc[h] \in Active => g = h

\* The threads: the one that is alive is the one the module knows; while it
\* loads, its start() looks for it; from then on the module and the callbacks
\* are its own.
ThreadsInv ==
  /\ \A t \in Starts : Alive(t) => t = user_thread
  /\ \A t \in Starts : phase[t] \in Loading => pc[t] = "polling"
  /\ \A t \in Starts : phase[t] \in Running => module
  /\ \A t \in Starts : phase[t] \in Loaded => funcs = t
  /\ user_thread # None => phase[user_thread] # "none"

\* The handlers: user_thread is not taken away under any of them, a start()
\* launches when no thread is alive, and a stop() sets the event when the
\* _run() has been halted.
HandlersInv ==
  /\ \A h \in Starts : pc[h] = "polling" => user_thread = h
  /\ \A h \in Starts \cup Stops :
       /\ pc[h] = "launch" => \A t \in Starts : ~Alive(t)
       /\ pc[h] \in Stopping => user_thread # None /\ funcs = user_thread
       /\ pc[h] = "posted" => at[h] = user_thread
       /\ pc[h] = "join" => user_thread # None /\ at[h] = user_thread
       /\ pc[h] = "set" /\ script.halt # "none" =>
            user_thread \in halted \/ phase[user_thread] \in {"ending", "dead"}

\* A thread that has been told to stop, and is alive, finds the event set.
RequestedInv ==
  \A t \in requested : /\ phase[t] # "none"
                       /\ Alive(t) => stop_event /\ phase[t] \notin Loading

OrderlyParts ==
  OneHandler /\ ThreadsInv /\ HandlersInv /\ RequestedInv /\ RunIsHalted /\ LifecycleNeverCrashes

OrderlyInv == orderly => OrderlyParts

LEMMA OrderlyIsOrderlyUse == TypeOK /\ OrderlyInv => OrderlyUse
BY DEF OrderlyInv, OrderlyParts, OrderlyUse, OneUserThread, ThreadsInv

LEMMA ThreadStepOrderly ==
  ASSUME TypeOK, OrderlyParts, NEW t \in Starts, Load(t) \/ Go(t)
  PROVE  OrderlyParts'
<1>1. ThreadEffect(t)
    BY ThreadEffects
<1>2. UNCHANGED <<user_thread, halted, requested, pc, at, main, script, orderly>>
    BY <1>1 DEF ThreadEffect
<1>3. Alive(t) /\ t = user_thread /\ t # None /\ \A u \in Starts : Alive(u) => u = t
    BY <1>1, HandlerTypes DEF ThreadEffect, OrderlyParts, ThreadsInv
<1>4. phase \in [Starts -> {"none", "check", "dead"} \cup Loading \cup Going]
    BY DEF TypeOK
<1>5. \A u \in Starts \ {t} : phase'[u] = phase[u]
    BY <1>1, <1>4 DEF ThreadEffect
<1>6. \A u \in Starts : Alive(u)' => u = t
    BY <1>3, <1>5 DEF Alive
<1>7. phase'[t] # "none" /\ phase'[t] \in {"dead"} \cup Loading \cup Loaded
    BY <1>1 DEF ThreadEffect, Loading, Loaded, Going
<1>8. \A u \in Starts : phase'[u] \in Loading \cup Loaded => u = t
    BY <1>6 DEF Alive, Loaded
<1>9. OneHandler'
    BY <1>2 DEF OneHandler, OrderlyParts
<1>10. ThreadsInv'
  <2>1. \A u \in Starts : phase'[u] \in Loading => pc'[u] = "polling"
      BY <1>1, <1>2, <1>8 DEF ThreadEffect, OrderlyParts, ThreadsInv
  <2>2. \A u \in Starts : phase'[u] \in Running => module'
    <3>1. \A u \in Starts : phase'[u] \in Running => u = t
        BY <1>8 DEF Running, Loading
    <3>2. phase'[t] \in Running => module'
        BY <1>1 DEF ThreadEffect, OrderlyParts, ThreadsInv, Running
    <3> QED
        BY <3>1, <3>2
  <2>3. \A u \in Starts : phase'[u] \in Loaded => funcs' = u
      BY <1>1, <1>8 DEF ThreadEffect, OrderlyParts, ThreadsInv
  <2> QED
      BY <1>2, <1>3, <1>6, <1>7, <2>1, <2>2, <2>3 DEF ThreadsInv
<1>11. HandlersInv'
  <2>1. \A h \in Starts \cup Stops : pc[h] # "launch"
      BY <1>3 DEF OrderlyParts, HandlersInv
  <2>2. \A h \in Starts \cup Stops : pc[h] \in Stopping => phase[t] \notin Loading
    <3> SUFFICES ASSUME NEW h \in Starts \cup Stops, pc[h] \in Stopping, phase[t] \in Loading
                 PROVE  FALSE
        OBVIOUS
    <3>1. pc[t] = "polling"
        BY DEF OrderlyParts, ThreadsInv
    <3>2. t = h
        BY <3>1, HandlerTypes DEF OrderlyParts, OneHandler, Active, Stopping
    <3> QED
        BY <3>1, <3>2 DEF Stopping
  <2>3. \A h \in Starts \cup Stops : pc[h] \in Stopping => funcs' = funcs
      BY <1>1, <2>2 DEF ThreadEffect, Loading
  <2>4. phase[t] \in {"ending", "dead"} => phase'[t] \in {"ending", "dead"}
      BY <1>1, <1>3 DEF ThreadEffect, Alive, Loading, Going
  <2> QED
      BY <1>2, <1>3, <2>1, <2>3, <2>4 DEF HandlersInv, OrderlyParts, Stopping
<1>12. RequestedInv'
  <2> SUFFICES ASSUME NEW u \in requested
               PROVE  /\ phase'[u] # "none"
                      /\ Alive(u)' => stop_event' /\ phase'[u] \notin Loading
      BY <1>2 DEF RequestedInv
  <2>1. u \in Starts /\ phase[u] # "none"
      BY DEF TypeOK, OrderlyParts, RequestedInv
  <2>2. CASE u = t
    <3>1. stop_event /\ phase[t] \notin Loading
        BY <1>3, <2>2 DEF OrderlyParts, RequestedInv
    <3>2. stop_event' /\ phase'[t] \notin Loading
        BY <1>1, <3>1 DEF ThreadEffect, Loading
    <3> QED
        BY <1>7, <2>2, <3>2
  <2>3. CASE u # t
      BY <1>5, <1>6, <2>1, <2>3
  <2> QED
      BY <2>2, <2>3
<1>13. RunIsHalted'
  <2> SUFFICES ASSUME script.halt # "none", NEW u \in requested, phase'[u] = "run"
               PROVE  u \in halted
      BY <1>2 DEF RunIsHalted
  <2>1. u = t /\ u \in Starts
      BY <1>8 DEF TypeOK, Loaded, Going
  <2>2. stop_event
      BY <1>3, <2>1 DEF OrderlyParts, RequestedInv
  <2>3. phase[t] = "run"
      BY <1>1, <2>1, <2>2 DEF ThreadEffect
  <2> QED
      BY <2>1, <2>3 DEF OrderlyParts, RunIsHalted
<1>14. LifecycleNeverCrashes'
    BY <1>2 DEF OrderlyParts, LifecycleNeverCrashes
<1> QED
    BY <1>9, <1>10, <1>11, <1>12, <1>13, <1>14 DEF OrderlyParts

(* A step of a handler: it is the only one under way.                      *)

Alone(h) == \A g \in Handlers \ {h} : pc[g] \notin Active

LEMMA IsAlone ==
  ASSUME OrderlyParts, NEW h \in Handlers,
         pc[h] \in Active \/ UnderWay = {}
  PROVE  Alone(h)
BY DEF OrderlyParts, OneHandler, Alone, UnderWay

\* A handler that goes on to x, and changes nothing that the others are about.
LEMMA HandlerGoesOn ==
  ASSUME TypeOK, OrderlyParts, NEW h \in Handlers, Alone(h), NEW x,
         pc' = [pc EXCEPT ![h] = x],
         UNCHANGED <<phase, module, funcs, user_thread, script, requested, stop_event>>,
         halted \subseteq halted',
         x \notin {"polling", "join"},
         h \in Starts => phase[h] \notin Loading,
         h \in Starts \cup Stops =>
           /\ x = "launch" => \A t \in Starts : ~Alive(t)
           /\ x \in Stopping => user_thread # None /\ funcs = user_thread
           /\ x = "posted" => at'[h] = user_thread
           /\ x = "set" /\ script.halt # "none" =>
                user_thread \in halted' \/ phase[user_thread] \in {"ending", "dead"}
           /\ x # "crashed"
  PROVE  OrderlyParts'
<1>1. pc'[h] = x /\ \A g \in Handlers \ {h} : pc'[g] = pc[g] /\ pc'[g] \notin Active
    BY DEF TypeOK, Alone
<1>2. OneHandler'
    BY <1>1 DEF OneHandler
<1>3. ThreadsInv'
  <2>1. \A t \in Starts : phase'[t] \in Loading => pc'[t] = "polling"
      BY <1>1, HandlerTypes DEF OrderlyParts, ThreadsInv
  <2> QED
      BY <2>1 DEF OrderlyParts, ThreadsInv, Alive
<1>4. HandlersInv'
  <2>1. \A g \in Starts : pc'[g] # "polling"
      BY <1>1, HandlerTypes DEF Active
  <2>2. \A g \in (Starts \cup Stops) \ {h} :
          pc'[g] \notin Stopping \cup {"launch", "posted", "join", "set"}
      BY <1>1, HandlerTypes DEF Active, Stopping
  <2> QED
      BY <1>1, <2>1, <2>2 DEF HandlersInv, Alive, Stopping
<1>5. RequestedInv' /\ RunIsHalted'
    BY DEF OrderlyParts, RequestedInv, RunIsHalted, Alive
<1>6. LifecycleNeverCrashes'
    BY <1>1, HandlerTypes DEF OrderlyParts, LifecycleNeverCrashes
<1> QED
    BY <1>2, <1>3, <1>4, <1>5, <1>6 DEF OrderlyParts

\* When a handler other than a polling start() is under way, or none, the
\* module's thread has been loaded.
LEMMA NobodyLoads ==
  ASSUME OrderlyParts, NEW h \in Handlers, Alone(h), pc[h] # "polling"
  PROVE  \A t \in Starts : phase[t] \notin Loading
BY HandlerTypes DEF OrderlyParts, ThreadsInv, Alone, Active

\* What a call finds when it comes in.
LEMMA CalledOrderly ==
  ASSUME TypeOK, OrderlyParts, NEW h \in Starts \cup Stops, UnderWay = {}, ComesIn,
         StartCalled(h) \/ StopCalled(h)
  PROVE  OrderlyParts'
<1>1. Alone(h) /\ h \in Handlers /\ pc[h] = "new"
    BY IsAlone, HandlerTypes DEF StartCalled, StopCalled
<1>2. \A t \in Starts : phase[t] \notin Loading
    BY <1>1, NobodyLoads
<1>3. UNCHANGED <<phase, module, funcs, user_thread, script, requested, stop_event, halted>>
    BY DEF StartCalled, StopCalled, StopBegins, ComesIn, thread
<1>4. CASE StopBegins(h) /\ IsRunning
  <2>1. user_thread \in Starts /\ phase[user_thread] \in Loaded
      BY <1>2, <1>4 DEF IsRunning, TypeOK, Alive, Loaded
  <2>2. funcs = user_thread
      BY <2>1 DEF OrderlyParts, ThreadsInv
  <2>3. PICK x \in {"halt", "sleep"} : pc' = [pc EXCEPT ![h] = x]
      BY <1>4 DEF StopBegins, Hold, Yield
  <2> QED
      BY <1>1, <1>2, <1>3, <2>1, <2>2, <2>3, HandlerTypes, HandlerGoesOn
<1>5. CASE ~IsRunning
  <2>1. ASSUME NEW t \in Starts PROVE ~Alive(t)
    <3> SUFFICES ASSUME Alive(t) PROVE FALSE
        OBVIOUS
    <3>1. t = user_thread /\ phase[t] \in Loaded
        BY <1>2 DEF OrderlyParts, ThreadsInv, Alive, Loaded
    <3>2. module
        BY <3>1 DEF OrderlyParts, ThreadsInv, Running
    <3> QED
        BY <1>5, <3>1, <3>2, HandlerTypes DEF IsRunning
  <2>2. PICK x \in {"launch", "done"} : pc' = [pc EXCEPT ![h] = x]
      BY <1>5 DEF StartCalled, StopCalled, Hold, Yield
  <2> QED
      BY <1>1, <1>2, <1>3, <2>1, <2>2, HandlerTypes, HandlerGoesOn DEF Stopping
<1> QED
    BY <1>4, <1>5 DEF StartCalled, StopCalled

LEMMA CommandsOrderly ==
  ASSUME TypeOK, OrderlyParts, NEW c \in Commands, CommandCalled(c) \/ CommandSlept(c),
         UnderWay = {} \/ pc[c] = "sleep"
  PROVE  OrderlyParts'
<1>1. Alone(c) /\ c \in Handlers /\ c \notin Starts \cup Stops /\ c \notin Starts
    BY IsAlone, HandlerTypes DEF Active
<1>2. UNCHANGED <<phase, module, funcs, user_thread, script, requested, stop_event, halted>>
    BY DEF CommandCalled, CommandSlept, ComesIn, Calm, thread
<1>3. PICK x \in {"posted", "lost", "sleep", "done", "crashed"} : pc' = [pc EXCEPT ![c] = x]
    BY DEF CommandCalled, CommandSlept, CallCommand, Post, Hold, Yield
<1> QED
    BY <1>1, <1>2, <1>3, HandlerGoesOn

LEMMA PostedOrderly ==
  ASSUME TypeOK, OrderlyParts, NEW h \in Handlers, PostedRuns(h)
  PROVE  OrderlyParts'
<1>1. pc[h] = "posted" /\ Alone(h)
    BY IsAlone DEF PostedRuns, Active
<1>2. \A t \in Starts : phase[t] \notin Loading
    BY <1>1, NobodyLoads
<1>3. UNCHANGED <<phase, module, funcs, user_thread, script, requested, stop_event>>
    BY DEF PostedRuns, Calm, thread
<1>4. CASE h \in Commands
  <2>1. pc' = [pc EXCEPT ![h] = "done"] /\ halted' = halted
      BY <1>4 DEF PostedRuns, Yield
  <2> QED
      BY <1>1, <1>2, <1>3, <1>4, <2>1, HandlerTypes, HandlerGoesOn
<1>5. CASE h \notin Commands
  <2>1. h \in Starts \cup Stops
      BY <1>5 DEF Handlers
  <2>2. user_thread # None /\ funcs = user_thread /\ at[h] = user_thread
      BY <1>1, <2>1 DEF OrderlyParts, HandlersInv, Stopping
  <2>3. pc' = [pc EXCEPT ![h] = "set"] /\ halted \subseteq halted'
      BY <1>5 DEF PostedRuns, Hold
  <2>4. user_thread \in halted' \/ phase[user_thread] \in {"ending", "dead"}
      BY <1>5, <2>2 DEF PostedRuns
  <2>5. h \in Starts => phase[h] \notin Loading
      BY <1>2
  <2>6. PICK x \in {"set"} : pc' = [pc EXCEPT ![h] = x]
      BY <2>3
  <2> QED
      BY <1>1, <1>3, <2>2, <2>3, <2>4, <2>5, <2>6, HandlerGoesOn
<1> QED
    BY <1>4, <1>5

LEMMA HaltOrderly ==
  ASSUME TypeOK, OrderlyParts, NEW h \in Starts \cup Stops,
         StopSlept(h) \/ CallHalt(h) \/ HaltAwaited(h)
  PROVE  OrderlyParts'
<1>1. pc[h] \in {"sleep", "halt", "halting"} /\ h \in Handlers /\ Alone(h)
    BY IsAlone, HandlerTypes DEF StopSlept, CallHalt, HaltAwaited, Active
<1>2. \A t \in Starts : phase[t] \notin Loading
    BY <1>1, NobodyLoads
<1>3. UNCHANGED <<phase, module, funcs, user_thread, script, requested, stop_event>>
    BY DEF StopSlept, CallHalt, HaltAwaited, Calm, thread
<1>4. user_thread # None /\ funcs = user_thread
    BY <1>1 DEF OrderlyParts, HandlersInv, Stopping
<1>5. CASE StopSlept(h)
  <2>1. pc' = [pc EXCEPT ![h] = "halt"] /\ halted' = halted
      BY <1>4, <1>5 DEF StopSlept, Hold
  <2> QED
      BY <1>1, <1>2, <1>3, <1>4, <2>1, HandlerGoesOn
<1>6. CASE HaltAwaited(h)
  <2>1. pc' = [pc EXCEPT ![h] = "set"] /\ halted' = halted \cup {user_thread}
      BY <1>4, <1>6 DEF HaltAwaited, Hold
  <2> QED
      BY <1>1, <1>2, <1>3, <1>4, <2>1, HandlerGoesOn
<1>7. CASE CallHalt(h)
  <2>1. PICK x \in {"set", "posted", "lost", "halting"} : pc' = [pc EXCEPT ![h] = x]
      BY <1>7 DEF CallHalt, Post, Hold, Yield
  <2>2. pc'[h] = x
      BY <1>1, <2>1 DEF TypeOK
  <2>3. x = "set" /\ script.halt # "none" => user_thread \in halted'
    <3> SUFFICES ASSUME x = "set", script.halt # "none" PROVE user_thread \in halted'
        OBVIOUS
    <3>1. CASE script.halt = "sync"
        BY <1>4, <1>7, <3>1 DEF CallHalt
    <3>2. CASE script.halt = "async"
        BY <1>1, <1>4, <1>7, <2>2, <3>2 DEF CallHalt, Post, Hold, Yield, TypeOK
    <3> QED
        BY <1>4, <1>7, <3>1, <3>2 DEF CallHalt
  <2>4. x = "posted" => at'[h] = user_thread
      BY <1>1, <1>7, <2>2 DEF CallHalt, Post, Hold, Yield, TypeOK
  <2>5. halted \subseteq halted'
      BY <1>7 DEF CallHalt
  <2> QED
      BY <1>1, <1>2, <1>3, <1>4, <2>1, <2>3, <2>4, <2>5, HandlerGoesOn
<1> QED
    BY <1>5, <1>6, <1>7

LEMMA SetStopOrderly ==
  ASSUME TypeOK, OrderlyParts, NEW h \in Starts \cup Stops, SetStop(h)
  PROVE  OrderlyParts'
<1>1. pc[h] = "set" /\ h \in Handlers /\ Alone(h)
    BY IsAlone, HandlerTypes DEF SetStop, Active
<1>2. \A t \in Starts : phase[t] \notin Loading
    BY <1>1, NobodyLoads
<1>3. user_thread # None /\ user_thread \in Starts
    BY <1>1 DEF OrderlyParts, HandlersInv, Stopping, TypeOK
<1>4. UNCHANGED <<phase, module, funcs, user_thread, script, halted>> /\ stop_event' = TRUE
    BY DEF SetStop, Calm, thread
<1>5. /\ requested' = requested \cup {user_thread} /\ at' = [at EXCEPT ![h] = user_thread]
      /\ pc' = [pc EXCEPT ![h] = "join"]
    BY <1>3 DEF SetStop, Yield
<1>6. /\ pc'[h] = "join" /\ at'[h] = user_thread
      /\ \A g \in Handlers \ {h} : pc'[g] = pc[g] /\ pc'[g] \notin Active
    BY <1>1, <1>5 DEF TypeOK, Alone
<1>7. OneHandler'
    BY <1>6 DEF OneHandler
<1>8. ThreadsInv'
    BY <1>2, <1>4 DEF OrderlyParts, ThreadsInv, Alive
<1>9. HandlersInv'
  <2>1. \A g \in Starts : pc'[g] # "polling"
      BY <1>6, HandlerTypes DEF Active
  <2>2. \A g \in (Starts \cup Stops) \ {h} :
          pc'[g] \notin Stopping \cup {"launch", "posted", "join", "set"}
      BY <1>6, HandlerTypes DEF Active, Stopping
  <2> QED
      BY <1>3, <1>4, <1>6, <2>1, <2>2 DEF HandlersInv, Stopping
<1>10. RequestedInv'
    BY <1>2, <1>3, <1>4, <1>5 DEF OrderlyParts, RequestedInv, ThreadsInv, Alive, TypeOK
<1>11. RunIsHalted'
  <2>1. script.halt # "none" /\ phase[user_thread] = "run" => user_thread \in halted
      BY <1>1 DEF OrderlyParts, HandlersInv
  <2> QED
      BY <1>4, <1>5, <2>1 DEF OrderlyParts, RunIsHalted
<1>12. LifecycleNeverCrashes'
    BY <1>6, HandlerTypes DEF OrderlyParts, LifecycleNeverCrashes
<1> QED
    BY <1>7, <1>8, <1>9, <1>10, <1>11, <1>12 DEF OrderlyParts

LEMMA JoinedOrderly ==
  ASSUME TypeOK, OrderlyParts, NEW h \in Starts \cup Stops, Joined(h), orderly'
  PROVE  OrderlyParts'
<1>1. pc[h] = "join" /\ h \in Handlers /\ Alone(h)
    BY IsAlone, HandlerTypes DEF Joined, Active
<1>2. \A t \in Starts : phase[t] \notin Loading
    BY <1>1, NobodyLoads
<1>3. user_thread # None /\ at[h] = user_thread
    BY <1>1 DEF OrderlyParts, HandlersInv
<1>4. /\ UNCHANGED <<phase, module, funcs, script, requested, stop_event, halted>>
      /\ user_thread' = None
    BY <1>3 DEF Joined, JoinReturns, thread
<1>5. \A t \in Starts : ~Alive(t)
    BY <1>3 DEF Joined, JoinReturns, OrderlyParts, ThreadsInv
<1>6. PICK x \in {"launch", "done"} : pc' = [pc EXCEPT ![h] = x]
    BY <1>3 DEF Joined, StopEnds, Hold, Yield
<1>7. pc'[h] = x /\ \A g \in Handlers \ {h} : pc'[g] = pc[g] /\ pc'[g] \notin Active
    BY <1>1, <1>6 DEF TypeOK, Alone
<1>8. OneHandler'
    BY <1>7 DEF OneHandler
<1>9. ThreadsInv'
    BY <1>2, <1>4, <1>5 DEF OrderlyParts, ThreadsInv, Alive
<1>10. HandlersInv'
  <2>1. \A g \in Starts : pc'[g] # "polling"
      BY <1>7, HandlerTypes DEF Active
  <2>2. \A g \in Starts \cup Stops : pc'[g] \notin Stopping \cup {"posted", "join", "set"}
      BY <1>7, HandlerTypes DEF Active, Stopping
  <2>3. \A t \in Starts : ~Alive(t)'
      BY <1>4, <1>5 DEF Alive
  <2> QED
      BY <2>1, <2>2, <2>3 DEF HandlersInv
<1>11. RequestedInv' /\ RunIsHalted'
    BY <1>4 DEF OrderlyParts, RequestedInv, RunIsHalted, Alive
<1>12. LifecycleNeverCrashes'
    BY <1>7, HandlerTypes DEF OrderlyParts, LifecycleNeverCrashes
<1> QED
    BY <1>8, <1>9, <1>10, <1>11, <1>12 DEF OrderlyParts

LEMMA LaunchOrderly ==
  ASSUME TypeOK, OrderlyParts, NEW h \in Starts, Launch(h)
  PROVE  OrderlyParts'
<1>1. pc[h] = "launch" /\ h \in Handlers /\ Alone(h)
    BY IsAlone, HandlerTypes DEF Launch, Active
<1>2. phase[h] = "none" /\ h # None
    BY <1>1, HandlerTypes DEF TypeOK, Ended
<1>3. \A t \in Starts : ~Alive(t)
    BY <1>1 DEF OrderlyParts, HandlersInv
<1>4. /\ UNCHANGED <<module, funcs, script, requested, halted>>
      /\ user_thread' = h /\ stop_event' = FALSE
    BY DEF Launch, Calm
<1>5. phase'[h] = "clear" /\ \A t \in Starts \ {h} : phase'[t] = phase[t] /\ ~Alive(t)'
    BY <1>3 DEF Launch, TypeOK, Alive
<1>6. pc'[h] = "polling" /\ \A g \in Handlers \ {h} : pc'[g] = pc[g] /\ pc'[g] \notin Active
    BY <1>1 DEF Launch, Yield, TypeOK, Alone
<1>7. OneHandler'
    BY <1>6 DEF OneHandler
<1>8. ThreadsInv'
    BY <1>4, <1>5, <1>6 DEF ThreadsInv, Alive, Running, Loaded, Loading, Going
<1>9. HandlersInv'
  <2>1. \A g \in Starts : pc'[g] = "polling" => g = h
      BY <1>6, HandlerTypes DEF Active
  <2>2. \A g \in Starts \cup Stops :
          pc'[g] \notin Stopping \cup {"launch", "posted", "join", "set"}
      BY <1>6, HandlerTypes DEF Active, Stopping
  <2> QED
      BY <1>4, <2>1, <2>2 DEF HandlersInv
<1>10. h \notin requested
    BY <1>2 DEF OrderlyParts, RequestedInv
<1>11. RequestedInv' /\ RunIsHalted'
  <2>1. \A t \in requested : t \in Starts \ {h}
      BY <1>10 DEF TypeOK
  <2> QED
      BY <1>4, <1>5, <2>1 DEF OrderlyParts, RequestedInv, RunIsHalted
<1>12. LifecycleNeverCrashes'
    BY <1>6, HandlerTypes DEF OrderlyParts, LifecycleNeverCrashes
<1> QED
    BY <1>7, <1>8, <1>9, <1>11, <1>12 DEF OrderlyParts

LEMMA PolledOrderly ==
  ASSUME TypeOK, OrderlyParts, NEW h \in Starts, Polled(h), orderly'
  PROVE  OrderlyParts'
<1>1. pc[h] = "polling" /\ h \in Handlers /\ Alone(h)
    BY IsAlone, HandlerTypes DEF Polled, Active
<1>2. user_thread = h /\ user_thread # None
    BY <1>1, HandlerTypes DEF OrderlyParts, HandlersInv
<1>3. phase[h] \notin Loading
    BY <1>2 DEF Polled, IsLoaded
<1>4. UNCHANGED <<phase, module, funcs, user_thread, script, requested, stop_event, halted>>
    BY <1>2 DEF Polled, thread
<1>5. pc' = [pc EXCEPT ![h] = "done"]
    BY <1>2 DEF Polled, Yield
<1> QED
    BY <1>1, <1>3, <1>4, <1>5, HandlerGoesOn DEF Stopping

LEMMA StepOrderly == TypeOK /\ OrderlyInv /\ [Next]_vars => OrderlyInv'
<1> SUFFICES ASSUME TypeOK, OrderlyInv, [Next]_vars, orderly' PROVE OrderlyParts'
    BY DEF OrderlyInv
<1>1. ASSUME NEW h \in Starts \cup Stops, StartCalled(h) \/ StopCalled(h) PROVE OrderlyParts'
  <2>1. orderly /\ UnderWay = {} /\ ComesIn
      BY <1>1 DEF StartCalled, StopCalled, ComesIn
  <2> QED
      BY <1>1, <2>1, CalledOrderly DEF OrderlyInv
<1>2. ASSUME NEW h \in Starts \cup Stops, StopSteps(h) PROVE OrderlyParts'
  <2>1. orderly
      BY <1>2 DEF StopSteps, StopSlept, CallHalt, HaltAwaited, SetStop, Joined, JoinReturns, Calm
  <2> QED
      BY <1>2, <2>1, HaltOrderly, SetStopOrderly, JoinedOrderly DEF StopSteps, OrderlyInv
<1>3. ASSUME NEW h \in Starts, Launch(h) \/ Polled(h) PROVE OrderlyParts'
  <2>1. orderly
      BY <1>3 DEF Launch, Polled, Calm
  <2> QED
      BY <1>3, <2>1, LaunchOrderly, PolledOrderly DEF OrderlyInv
<1>4. ASSUME NEW h \in Handlers, PostedRuns(h) PROVE OrderlyParts'
  <2>1. orderly
      BY <1>4 DEF PostedRuns, Calm
  <2> QED
      BY <1>4, <2>1, PostedOrderly DEF OrderlyInv
<1>5. ASSUME NEW c \in Commands, CommandCalled(c) \/ CommandSlept(c) PROVE OrderlyParts'
  <2>1. orderly /\ (UnderWay = {} \/ pc[c] = "sleep")
      BY <1>5 DEF CommandCalled, CommandSlept, ComesIn, Calm
  <2> QED
      BY <1>5, <2>1, CommandsOrderly DEF OrderlyInv
<1>6. ASSUME NEW t \in Starts, Load(t) \/ Go(t) PROVE OrderlyParts'
  <2>1. orderly
      BY <1>6, ThreadEffects DEF ThreadEffect
  <2> QED
      BY <1>6, <2>1, ThreadStepOrderly DEF OrderlyInv
<1>7. CASE UNCHANGED vars
  <2>1. OrderlyParts
      BY <1>7 DEF OrderlyInv, vars
  <2> QED
      BY <1>7, <2>1 DEF vars, thread, OrderlyParts, OneHandler, ThreadsInv, HandlersInv, RequestedInv,
         RunIsHalted, LifecycleNeverCrashes, Alive
<1> QED
    BY <1>1, <1>2, <1>3, <1>4, <1>5, <1>6, <1>7 DEF Next, Handlers

LEMMA InitOrderly == Init => OrderlyInv
<1> SUFFICES ASSUME Init PROVE OrderlyParts
    BY DEF OrderlyInv
<1>1. \A t \in Starts : phase[t] = "none"
    BY DEF Init
<1>2. \A h \in Handlers : pc[h] = "new"
    BY DEF Init
<1>3. OneHandler /\ HandlersInv /\ LifecycleNeverCrashes
    BY <1>2, HandlerTypes DEF OneHandler, HandlersInv, LifecycleNeverCrashes, Active, Stopping
<1>4. ThreadsInv /\ RequestedInv /\ RunIsHalted
    BY <1>1 DEF Init, ThreadsInv, RequestedInv, RunIsHalted, Alive, Loading, Loaded, Running, Going
<1> QED
    BY <1>3, <1>4 DEF OrderlyParts

\* Clients that wait for each other, with scripts that load and threads that
\* end in time: one user thread, its _run() halted before it is joined, and no
\* handler that fails (sd_usermodule.py:317-378).
THEOREM OrderlyAlways == Spec => []OrderlyUse
<1>1. Spec => [](TypeOK /\ OrderlyInv)
  <2>1. Init => TypeOK /\ FuncsInv /\ OrderlyInv
      BY InitType, InitOrderly
  <2>2. TypeOK /\ FuncsInv /\ OrderlyInv /\ [Next]_vars => TypeOK' /\ FuncsInv' /\ OrderlyInv'
      BY StepType, StepOrderly
  <2> QED
      BY <2>1, <2>2, PTL DEF Spec
<1> QED
    BY <1>1, OrderlyIsOrderlyUse, PTL

-----------------------------------------------------------------------------
(* A stop is final.                                                        *)

\* The module is there only when a script has been executed, so that no stop()
\* does anything before the one start() has cleared the event for the last time.
NothingRuns == \A t \in Starts : phase[t] \in Early \cup {"none"}

NobodyStops ==
  /\ ~module /\ requested = {}
  /\ \A h \in Starts \cup Stops : pc[h] \notin Stopping \cup {"join"}

OnceInv ==
  OneStart => /\ NothingRuns => NobodyStops
              /\ requested # {} => stop_event

\* A step of a handler, but for Launch.
LEMMA HandlerStepOnce ==
  ASSUME TypeOK, OnceInv, NEW h \in Handlers,
         \/ h \in Starts \cup Stops /\ (StartCalled(h) \/ StopCalled(h) \/ StopSteps(h))
         \/ h \in Starts /\ Polled(h)
         \/ PostedRuns(h)
         \/ h \in Commands /\ (CommandCalled(h) \/ CommandSlept(h))
  PROVE  UNCHANGED phase /\ OnceInv'
<1> DEFINE Called == StartCalled(h) \/ StopCalled(h)
           Plain == Polled(h) \/ CommandCalled(h) \/ CommandSlept(h)
<1>1. UNCHANGED <<phase, module>>
  <2>1. CASE Called
      BY <2>1 DEF StartCalled, StopCalled, StopBegins, thread
  <2>2. CASE StopSteps(h)
      BY <2>2 DEF StopSteps, StopSlept, CallHalt, HaltAwaited, SetStop, Joined, thread
  <2>3. CASE Plain \/ PostedRuns(h)
      BY <2>3 DEF Polled, CommandCalled, CommandSlept, PostedRuns, thread
  <2> QED
      BY <2>1, <2>2, <2>3
<1>2. requested' # {} => stop_event' \/ (requested' = requested /\ stop_event' = stop_event)
  <2>1. CASE Called
      BY <2>1 DEF StartCalled, StopCalled, StopBegins
  <2>2. CASE StopSteps(h)
      BY <2>2 DEF StopSteps, StopSlept, CallHalt, HaltAwaited, SetStop, Joined
  <2>3. CASE Plain \/ PostedRuns(h)
      BY <2>3 DEF Polled, CommandCalled, CommandSlept, PostedRuns
  <2> QED
      BY <2>1, <2>2, <2>3
<1>3. ASSUME NobodyStops PROVE NobodyStops'
  <2>1. ~StopSteps(h) \/ h \notin Starts \cup Stops
      BY <1>3 DEF NobodyStops, StopSteps, StopSlept, CallHalt, HaltAwaited, SetStop, Joined, Stopping
  <2>2. h \in Commands \/ ~PostedRuns(h)
      BY <1>3 DEF NobodyStops, PostedRuns, Stopping, Handlers
  <2>3. requested' = requested
      BY <2>1, HandlerTypes DEF StartCalled, StopCalled, StopBegins, Polled, CommandCalled, CommandSlept, PostedRuns
  <2>4. ~IsRunning
      BY <1>3 DEF NobodyStops, IsRunning
  <2>5. h \in Starts \cup Stops =>
          \E x \in {"launch", "done", "crashed"} : pc' = [pc EXCEPT ![h] = x]
    <3> SUFFICES ASSUME h \in Starts \cup Stops
                 PROVE  \E x \in {"launch", "done", "crashed"} : pc' = [pc EXCEPT ![h] = x]
        OBVIOUS
    <3>1. Called \/ Polled(h)
        BY <2>1, <2>2, HandlerTypes
    <3> QED
        BY <2>4, <3>1 DEF StartCalled, StopCalled, Polled, Hold, Yield
  <2>6. h \in Commands => \E x \in Point : pc' = [pc EXCEPT ![h] = x]
    <3> SUFFICES ASSUME h \in Commands PROVE \E x \in Point : pc' = [pc EXCEPT ![h] = x]
        OBVIOUS
    <3>1. PostedRuns(h) \/ CommandCalled(h) \/ CommandSlept(h)
        BY HandlerTypes
    <3> QED
        BY <3>1 DEF PostedRuns, CommandCalled, CommandSlept, CallCommand, Post, Hold, Yield, Point,
           Active, Ended
  <2>7. \A g \in Starts \cup Stops : pc'[g] \notin Stopping \cup {"join"}
    <3>1. CASE h \in Commands
        BY <1>3, <2>6, <3>1, HandlerTypes DEF NobodyStops, TypeOK
    <3>2. CASE h \in Starts \cup Stops
        BY <1>3, <2>5, <3>2, HandlerTypes DEF NobodyStops, TypeOK, Stopping
    <3> QED
        BY <3>1, <3>2 DEF Handlers
  <2> QED
      BY <1>1, <1>3, <2>3, <2>7 DEF NobodyStops
<1> QED
    BY <1>1, <1>2, <1>3 DEF OnceInv, OneStart, NothingRuns

LEMMA LaunchOnce ==
  ASSUME TypeOK, OnceInv, NEW h \in Starts, Launch(h)
  PROVE  OnceInv'
<1> SUFFICES ASSUME OneStart'
             PROVE  NobodyStops' /\ requested' = {}
    BY DEF OnceInv
<1>1. pc[h] = "launch" /\ phase[h] = "none" /\ phase' = [phase EXCEPT ![h] = "clear"]
    BY HandlerTypes DEF Launch, TypeOK, Ended
<1>2. \A t \in Starts : phase[t] = "none"
    BY <1>1 DEF OneStart, TypeOK
<1>3. NobodyStops
    BY <1>2 DEF OnceInv, OneStart, NothingRuns
<1>4. UNCHANGED <<module, requested>> /\ pc' = [pc EXCEPT ![h] = "polling"]
    BY DEF Launch, Yield
<1>5. \A g \in Starts \cup Stops : pc'[g] \notin Stopping \cup {"join"}
    BY <1>3, <1>4, HandlerTypes DEF NobodyStops, TypeOK, Stopping
<1> QED
    BY <1>3, <1>4, <1>5 DEF NobodyStops

LEMMA ThreadStepOnce ==
  ASSUME TypeOK, OnceInv, NEW t \in Starts, Load(t) \/ Go(t)
  PROVE  OnceInv'
<1>1. ThreadEffect(t)
    BY ThreadEffects
<1>2. /\ phase[t] # "none" /\ phase'[t] # "none"
      /\ \A u \in Starts \ {t} : phase'[u] = phase[u]
    BY <1>1 DEF ThreadEffect, Alive, Loading, Loaded, Going, TypeOK
<1> SUFFICES ASSUME OneStart' PROVE (NothingRuns' => NobodyStops') /\ (requested' # {} => stop_event')
    BY DEF OnceInv
<1>3. OneStart /\ \A u \in Starts \ {t} : phase[u] = "none"
    BY <1>2 DEF OneStart
<1>4. phase[t] \in Early => NobodyStops
    BY <1>3 DEF OnceInv, NothingRuns
<1>5. NothingRuns' => NobodyStops'
  <2> SUFFICES ASSUME NothingRuns' PROVE NobodyStops'
      OBVIOUS
  <2>1. phase[t] \in Early /\ (module' => module)
      BY <1>1, <1>2 DEF NothingRuns, ThreadEffect
  <2> QED
      BY <1>1, <1>4, <2>1 DEF NobodyStops, ThreadEffect
<1>6. requested' # {} => stop_event'
    BY <1>1, <1>3, <1>4 DEF OnceInv, NobodyStops, ThreadEffect, Early
<1> QED
    BY <1>5, <1>6

\* A step that starts no thread and is of no thread leaves the phases alone.
LEMMA StepOnce ==
  ASSUME TypeOK, OnceInv, [Next]_vars
  PROVE  /\ OnceInv'
         /\ \/ UNCHANGED phase
            \/ \E h \in Starts : Launch(h)
            \/ \E t \in Starts : Load(t) \/ Go(t)
<1>1. ASSUME NEW h \in Starts, StartCalled(h) \/ StopSteps(h) \/ Polled(h)
      PROVE  UNCHANGED phase /\ OnceInv'
    BY <1>1, HandlerStepOnce, HandlerTypes
<1>2. ASSUME NEW h \in Stops, StopCalled(h) \/ StopSteps(h) PROVE UNCHANGED phase /\ OnceInv'
    BY <1>2, HandlerStepOnce, HandlerTypes
<1>3. ASSUME NEW h \in Handlers, PostedRuns(h) PROVE UNCHANGED phase /\ OnceInv'
    BY <1>3, HandlerStepOnce
<1>4. ASSUME NEW c \in Commands, CommandCalled(c) \/ CommandSlept(c)
      PROVE  UNCHANGED phase /\ OnceInv'
    BY <1>4, HandlerStepOnce, HandlerTypes
<1>5. CASE UNCHANGED vars
    BY <1>5 DEF vars, thread, OnceInv, OneStart, NothingRuns, NobodyStops
<1> QED
    BY <1>1, <1>2, <1>3, <1>4, <1>5, LaunchOnce, ThreadStepOnce DEF Next, Handlers

LEMMA StepFinal ==
  ASSUME TypeOK, OrderlyInv, OnceInv, [Next]_vars, orderly \/ OneStart
  PROVE  StaysStopped
<1> SUFFICES ASSUME NEW t \in requested, phase'[t] \in {"init", "run", "loop"}
             PROVE  phase'[t] = phase[t]
    BY DEF StaysStopped
<1>1. t \in Starts
    BY DEF TypeOK
<1>2. ASSUME NEW h \in Starts, Launch(h) PROVE phase'[t] = phase[t]
  <2>1. phase' = [phase EXCEPT ![h] = "clear"]
      BY <1>2 DEF Launch
  <2> QED
      BY <1>1, <2>1 DEF TypeOK
<1>3. ASSUME NEW u \in Starts, Load(u) \/ Go(u) PROVE phase'[t] = phase[t]
  <2>1. ThreadEffect(u)
      BY <1>3, ThreadEffects
  <2>2. CASE t # u
      BY <1>1, <2>1, <2>2 DEF ThreadEffect, TypeOK
  <2>3. CASE t = u
    <3>1. stop_event
      <4>1. CASE orderly
          BY <2>1, <2>3, <4>1 DEF OrderlyInv, OrderlyParts, RequestedInv, ThreadEffect
      <4>2. CASE OneStart
          BY <4>2 DEF OnceInv
      <4> QED
          BY <4>1, <4>2
    <3> QED
        BY <2>1, <2>3, <3>1 DEF ThreadEffect
  <2> QED
      BY <2>2, <2>3
<1> QED
    BY <1>1, <1>2, <1>3, StepOnce

\* A thread that has been told to stop begins no _setup(), _run() or _loop()
\* any more: in an orderly use however often the module is started, and in any
\* use until it is started a second time (sd_usermodule.py:73, 119-132, 368).
THEOREM StopFinalAlways == Spec => StopIsFinalIfOrderlyOrOnce
<1> DEFINE Inv == TypeOK /\ FuncsInv /\ OrderlyInv /\ OnceInv
<1>1. Init => Inv
  <2>1. Init => OnceInv
      BY DEF Init, OnceInv, NothingRuns, NobodyStops, Handlers, Stopping
  <2> QED
      BY <2>1, InitType, InitOrderly
<1>2. Inv /\ [Next]_vars => Inv'
    BY StepType, StepOrderly, StepOnce
<1>3. Inv /\ [Next]_vars => [orderly \/ OneStart => StaysStopped]_vars
    BY StepFinal
<1> QED
    BY <1>1, <1>2, <1>3, PTL DEF Spec, StopIsFinalIfOrderlyOrOnce

-----------------------------------------------------------------------------
(* What a handler waits for can come.                                      *)

\* The points at which a handler keeps the main event loop to itself.
Held == {"halt", "posted", "lost", "set", "launch"}

\* Who keeps the loop is alone with it, so that the thread that stop() has found
\* is still there when it comes to call _halt().
WaitInv ==
  /\ \A h \in Handlers : pc[h] \in Held => main = h
  /\ \A h \in Handlers : pc[h] = "halt" => user_thread # None
  /\ WaitsForWhatComes

\* A handler that has the loop, or finds it free, goes on to x.
LEMMA GoesOnWaits ==
  ASSUME TypeOK, WaitInv, NEW h \in Handlers, NEW x,
         main \in {None, h},
         \/ Hold(h, x)
         \/ Yield(h, x) /\ x \notin Held,
         UNCHANGED phase, requested \subseteq requested',
         \A g \in Handlers \ {h} : at'[g] = at[g],
         x = "halt" => user_thread' # None,
         x = "posted" => at'[h] # None /\ phase[at'[h]] \in Going,
         x = "join" => at'[h] \in requested'
  PROVE  WaitInv'
<1>1. pc'[h] = x /\ \A g \in Handlers \ {h} : pc'[g] = pc[g]
    BY DEF Hold, Yield, TypeOK
<1>2. \A g \in Handlers \ {h} : pc'[g] \notin Held
    BY <1>1, UserModuleAssumption DEF WaitInv, Handlers
<1>3. x \in Held => main' = h
    BY DEF Hold, Yield
<1>4. \A g \in Handlers \ {h} : pc'[g] = "join" => at'[g] \in requested'
    BY <1>1 DEF WaitInv, WaitsForWhatComes
<1> QED
    BY <1>1, <1>2, <1>3, <1>4 DEF WaitInv, WaitsForWhatComes, Held

\* A coroutine is posted to a loop that is there, or is lost.
LEMMA PostWaits ==
  ASSUME TypeOK, WaitInv, NEW h \in Handlers, Post(h), main \in {None, h},
         user_thread # None, HasLoop(user_thread), UNCHANGED <<phase, requested>>
  PROVE  WaitInv'
<1>1. at'[h] = user_thread /\ \A g \in Handlers \ {h} : at'[g] = at[g]
    BY DEF Post, TypeOK
<1>2. Hold(h, "posted") \/ Hold(h, "lost")
    BY DEF Post
<1> QED
    BY <1>1, <1>2, GoesOnWaits DEF HasLoop

\* The calls of start(), stop() and process_command(), and the end of a poll.
LEMMA CalledWaits ==
  ASSUME TypeOK, WaitInv, NEW h \in Handlers,
         \/ StartCalled(h) \/ StopCalled(h) \/ Polled(h)
         \/ CommandCalled(h) \/ CommandSlept(h)
  PROVE  WaitInv'
<1>1. UNCHANGED <<phase, requested, user_thread>> /\ main = None
    BY DEF StartCalled, StopCalled, StopBegins, Polled, CommandCalled, CommandSlept, ComesIn, thread
<1>2. CASE StartCalled(h) \/ StopCalled(h)
  <2>1. UNCHANGED at
      BY <1>2 DEF StartCalled, StopCalled, StopBegins
  <2>2. CASE Hold(h, "halt") /\ user_thread # None
      BY <1>1, <2>1, <2>2, GoesOnWaits
  <2>3. CASE Hold(h, "launch")
      BY <1>1, <2>1, <2>3, GoesOnWaits
  <2>4. CASE Yield(h, "sleep") \/ Yield(h, "done")
      BY <1>1, <2>1, <2>4, GoesOnWaits DEF Held
  <2> QED
      BY <1>2, <2>2, <2>3, <2>4 DEF StartCalled, StopCalled, StopBegins, IsRunning
<1>3. CASE Polled(h)
  <2>1. UNCHANGED at /\ (Yield(h, "crashed") \/ Yield(h, "done"))
      BY <1>3 DEF Polled
  <2> QED
      BY <1>1, <2>1, GoesOnWaits DEF Held
<1>4. CASE CommandCalled(h) \/ CommandSlept(h)
  <2>1. CASE UNCHANGED at /\ \E x \in {"done", "crashed", "sleep"} : Yield(h, x)
      BY <1>1, <2>1, GoesOnWaits DEF Held
  <2>2. CASE user_thread # None /\ HasLoop(user_thread) /\ Post(h)
      BY <1>1, <2>2, PostWaits
  <2>3. user_thread \in initialized => user_thread # None
      BY HandlerTypes DEF TypeOK
  <2> QED
      BY <1>4, <2>1, <2>2, <2>3 DEF CommandCalled, CommandSlept, CallCommand
<1> QED
    BY <1>2, <1>3, <1>4

\* A handler that waits for a posted coroutine has the loop, and keeps it or ends.
LEMMA PostedWaits ==
  ASSUME TypeOK, WaitInv, NEW h \in Handlers, PostedRuns(h)
  PROVE  WaitInv'
<1>1. main = h /\ UNCHANGED <<phase, requested, at>>
    BY DEF PostedRuns, WaitInv, Held, thread
<1>2. Yield(h, "done") \/ Hold(h, "set")
    BY DEF PostedRuns
<1> QED
    BY <1>1, <1>2, GoesOnWaits DEF Held

\* The steps of a stop().
LEMMA StopStepsWait ==
  ASSUME TypeOK, WaitInv, NEW h \in Handlers, StopSteps(h)
  PROVE  WaitInv'
<1>1. UNCHANGED phase /\ main \in {None, h}
    BY DEF StopSteps, StopSlept, CallHalt, HaltAwaited, SetStop, Joined, thread
<1>2. CASE StopSlept(h)
  <2>1. UNCHANGED <<requested, at, user_thread>>
      BY <1>2 DEF StopSlept
  <2>2. Yield(h, "crashed") \/ (Hold(h, "halt") /\ user_thread # None)
      BY <1>2 DEF StopSlept
  <2> QED
      BY <1>1, <2>1, <2>2, GoesOnWaits DEF Held
<1>3. CASE CallHalt(h)
  <2>1. UNCHANGED requested /\ pc[h] = "halt"
      BY <1>3 DEF CallHalt
  <2>2. CASE UNCHANGED at /\ (Hold(h, "set") \/ Yield(h, "halting"))
      BY <1>1, <2>1, <2>2, GoesOnWaits DEF Held
  <2>3. CASE HasLoop(user_thread) /\ Post(h)
      BY <1>1, <2>1, <2>3, PostWaits DEF WaitInv
  <2> QED
      BY <1>3, <2>2, <2>3 DEF CallHalt
<1>4. CASE HaltAwaited(h)
    BY <1>1, <1>4, GoesOnWaits DEF HaltAwaited
<1>5. CASE SetStop(h)
  <2>1. CASE /\ requested' = requested \cup {user_thread}
             /\ at' = [at EXCEPT ![h] = user_thread]
             /\ Yield(h, "join")
    <3>1. at'[h] \in requested' /\ \A g \in Handlers \ {h} : at'[g] = at[g]
        BY <2>1 DEF TypeOK
    <3> QED
        BY <1>1, <2>1, <3>1, GoesOnWaits DEF Held
  <2>2. CASE StopEnds(h) /\ UNCHANGED <<requested, at>>
      BY <1>1, <2>2, GoesOnWaits DEF StopEnds, Held
  <2> QED
      BY <1>5, <2>1, <2>2 DEF SetStop
<1>6. CASE Joined(h)
  <2>1. UNCHANGED <<requested, at>> /\ (Yield(h, "crashed") \/ StopEnds(h))
      BY <1>6 DEF Joined
  <2> QED
      BY <1>1, <2>1, GoesOnWaits DEF StopEnds, Held
<1> QED
    BY <1>2, <1>3, <1>4, <1>5, <1>6 DEF StopSteps

\* The thread that is launched is a new one: nothing has been posted to it.
LEMMA LaunchWaits ==
  ASSUME TypeOK, WaitInv, NEW h \in Starts, Launch(h)
  PROVE  WaitInv'
<1>1. /\ main = h /\ pc[h] = "launch" /\ Yield(h, "polling") /\ UNCHANGED <<at, requested>>
      /\ phase' = [phase EXCEPT ![h] = "clear"]
    BY DEF Launch
<1>2. phase[h] = "none" /\ h \in Handlers
    BY <1>1, HandlerTypes DEF TypeOK, Ended
<1>3. pc'[h] = "polling" /\ \A g \in Handlers \ {h} : pc'[g] = pc[g] /\ pc'[g] \notin Held
    BY <1>1, <1>2 DEF Yield, TypeOK, WaitInv
<1>4. \A g \in Handlers : pc'[g] \notin Held
    BY <1>3 DEF Held
<1>5. \A g \in Handlers : pc'[g] = "join" => at'[g] \in requested'
    BY <1>1, <1>3 DEF WaitInv, WaitsForWhatComes
<1> QED
    BY <1>4, <1>5 DEF WaitInv, WaitsForWhatComes, Held

\* A thread that has a loop keeps it until it ends.
LEMMA ThreadStepWaits ==
  ASSUME TypeOK, WaitInv, NEW t \in Starts, Load(t) \/ Go(t)
  PROVE  WaitInv'
<1>1. ThreadEffect(t)
    BY ThreadEffects
<1>2. UNCHANGED <<pc, at, main, user_thread, requested>>
    BY <1>1 DEF ThreadEffect
<1>3. phase[t] \in Going => phase'[t] \in Going \cup {"dead"}
    BY DEF Load, Go, Clears, FindsFile, Creates, Executes, Checks, Initializes, Enters, RunReturns,
       Loops, Ends, Goes, TypeOK, Going
<1>4. \A u \in Starts : phase[u] \in Going \cup {"dead"} => phase'[u] \in Going \cup {"dead"}
    BY <1>1, <1>3 DEF ThreadEffect, Alive, TypeOK, Going, Loading
<1>5. \A g \in Handlers : at[g] # None => at[g] \in Starts
    BY DEF TypeOK
<1> QED
    BY <1>2, <1>4, <1>5 DEF WaitInv, WaitsForWhatComes

\* Every step keeps what the handlers wait for.
LEMMA StepWaits == TypeOK /\ WaitInv /\ [Next]_vars => WaitInv'
<1> SUFFICES ASSUME TypeOK, WaitInv, [Next]_vars PROVE WaitInv'
    OBVIOUS
<1>1. CASE UNCHANGED vars
    BY <1>1 DEF vars, thread, WaitInv, WaitsForWhatComes
<1>2. ASSUME NEW h \in Starts, StartCalled(h) \/ StopSteps(h) \/ Launch(h) \/ Polled(h)
      PROVE  WaitInv'
    BY <1>2, CalledWaits, StopStepsWait, LaunchWaits, HandlerTypes
<1>3. ASSUME NEW h \in Stops, StopCalled(h) \/ StopSteps(h) PROVE WaitInv'
    BY <1>3, CalledWaits, StopStepsWait, HandlerTypes
<1>4. ASSUME NEW h \in Handlers, PostedRuns(h) PROVE WaitInv'
    BY <1>4, PostedWaits
<1>5. ASSUME NEW c \in Commands, CommandCalled(c) \/ CommandSlept(c) PROVE WaitInv'
    BY <1>5, CalledWaits, HandlerTypes
<1>6. ASSUME NEW t \in Starts, Load(t) \/ Go(t) PROVE WaitInv'
    BY <1>6, ThreadStepWaits
<1> QED
    BY <1>1, <1>2, <1>3, <1>4, <1>5, <1>6 DEF Next, Handlers

\* However calls overlap and scripts fail: a handler waits for a coroutine that
\* was posted to a loop that was there, or for a thread that was told to stop;
\* and the event that tells it stays set until there is a second start
\* (sd_usermodule.py:73, 317-378).
THEOREM HandlersWaitForWhatComes == Spec => [](WaitsForWhatComes /\ EventStaysSet)
<1> DEFINE Inv == TypeOK /\ FuncsInv /\ OnceInv /\ WaitInv
<1>1. Init => Inv
  <2>1. Init => OnceInv
      BY DEF Init, OnceInv, NothingRuns, NobodyStops, Handlers, Stopping
  <2>2. Init => WaitInv
      BY DEF Init, WaitInv, WaitsForWhatComes, Held
  <2> QED
      BY <2>1, <2>2, InitType
<1>2. Inv /\ [Next]_vars => Inv'
    BY StepType, StepOnce, StepWaits
<1>3. Inv => WaitsForWhatComes /\ EventStaysSet
    BY DEF WaitInv, OnceInv, EventStaysSet
<1> QED
    BY <1>1, <1>2, <1>3, PTL DEF Spec
=============================================================================
