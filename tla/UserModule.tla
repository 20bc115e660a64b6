----------------------------- MODULE UserModule -----------------------------
(***************************************************************************)
(* The life of one user module or task: UserModule.start(), stop() and     *)
(* process_command() with the UserModuleThread that loads the script and   *)
(* calls its functions (app/server/sd_usermodule.py).                      *)
(*                                                                         *)
(* The handlers are coroutines of the main event loop.  main names the one *)
(* that holds the loop: a handler gives it up at an await, and keeps it    *)
(* while it waits for the result of a coroutine that it has posted to the  *)
(* loop of the user's thread (future.result() blocks).  The user threads   *)
(* go their own pace, but for one configured to use the main event loop.   *)
(*                                                                         *)
(* A user thread is named by the start() that made it.  An exception in a  *)
(* user's function is caught where the function is called, and goes on as  *)
(* a return does; after one in _loop() the thread only waits.              *)
(***************************************************************************)
EXTENDS Naturals, FiniteSets

CONSTANTS Starts, Stops,  \* calls of start() and of stop()
          Commands,       \* calls of process_command()
          None,           \* Python's None
          Scripts,        \* the scripts the module may be configured with
          MaxAtOnce       \* bound: how many calls may be under way at once

Handlers == Starts \cup Stops \cup Commands

\* What is told of a script: has it a _run() and a _halt(), and are they async;
\* has it a _loop(); is its _process_command() async; and the option
\* use_main_event_loop, with which a sync _run() would be the server's end.
Script ==
    {s \in [run : {"none", "sync", "async"}, halt : {"none", "sync", "async"},
            loop : BOOLEAN, async : BOOLEAN, main : BOOLEAN] :
        s.main => s.run # "sync"}

ASSUME UserModuleAssumption ==
    /\ Starts \cap Stops = {} /\ Starts \cap Commands = {} /\ Stops \cap Commands = {}
    /\ None \notin Handlers
    /\ IsFiniteSet(Handlers)
    /\ Scripts \subseteq Script
    /\ MaxAtOnce \in Nat \ {0}

VARIABLES
    stop_event,   \* self.stop_event: one object, shared with every user thread
    user_thread,  \* self.user_thread
    module,       \* is self.module not None?
    funcs,        \* the thread that loaded the callbacks func_halt etc.
    phase,        \* where the thread of a start() is
    initialized,  \* the threads whose initialized_event is set
    halted,       \* the threads whose own _halt() has been called
    requested,    \* the threads that a stop() has told to stop
    pc, at,       \* a handler, and the thread it joins or whose loop it waits for
    main,         \* the handler that holds the main event loop, or None
    script,       \* the script: it does not change
    orderly       \* history: no call has come in while another was under way,
                  \* no thread has outlived its join, no load its start()

thread == <<phase, initialized>>
vars   == <<stop_event, user_thread, module, funcs, thread, halted, requested, pc, at, main, script, orderly>>

Loading == {"clear", "find", "create", "exec"}
Going   == {"init", "ready", "run", "idle", "loop", "ending"}    \* in go()
Ended   == {"done", "crashed"}
Active  == {"sleep", "halt", "halting", "posted", "lost", "set", "join", "launch", "polling"}

Alive(t)   == phase[t] \in Loading \cup {"check"} \cup Going
HasLoop(t) == phase[t] \in Going                      \* eventloop is not None
IsLoaded(t) == phase[t] \notin {"none"} \cup Loading    \* loaded_event is set

TypeOK ==
    /\ stop_event \in BOOLEAN /\ module \in BOOLEAN
    /\ user_thread \in Starts \cup {None}
    /\ funcs \in Starts \cup {None}
    /\ phase \in [Starts -> {"none", "check", "dead"} \cup Loading \cup Going]
    /\ initialized \subseteq Starts /\ halted \subseteq Starts /\ requested \subseteq Starts
    /\ pc \in [Handlers -> {"new"} \cup Active \cup Ended]
    /\ at \in [Handlers -> Starts \cup {None}]
    /\ main \in Handlers \cup {None}
    /\ main # None => pc[main] \in {"halt", "posted", "lost", "set", "launch"}
    /\ script \in Scripts /\ orderly \in BOOLEAN
    /\ \A t \in Starts : phase[t] # "none" => pc[t] \in {"polling"} \cup Ended

Init ==
    /\ stop_event = FALSE /\ module = FALSE
    /\ user_thread = None /\ funcs = None
    /\ phase = [t \in Starts |-> "none"]
    /\ initialized = {} /\ halted = {} /\ requested = {}
    /\ pc = [h \in Handlers |-> "new"]
    /\ at = [h \in Handlers |-> None]
    /\ main = None
    /\ script \in Scripts /\ orderly = TRUE

UnderWay == {h \in Handlers : pc[h] \in Active}

\* A call comes in: the event loop takes it when nobody holds it.
ComesIn ==
    /\ main = None
    /\ Cardinality(UnderWay) < MaxAtOnce
    /\ orderly' = (orderly /\ UnderWay = {})
    /\ UNCHANGED script

-----------------------------------------------------------------------------
(* The handlers.                                                           *)

\* h goes on to where, and keeps the loop, gives it up, or ends.
Hold(h, where)  == pc' = [pc EXCEPT ![h] = where] /\ main' = h
Yield(h, where) == pc' = [pc EXCEPT ![h] = where] /\ main' = None

Calm == UNCHANGED <<script, orderly>>      \* nothing out of order

\* h posts a coroutine to the loop of the user's thread and waits for the
\* result; a loop that is being closed may drop it.
Post(h) ==
    /\ at' = [at EXCEPT ![h] = user_thread]
    /\ \/ Hold(h, "posted")
       \/ phase[user_thread] = "ending" /\ ~script.main /\ Hold(h, "lost")

IsRunning == module /\ user_thread # None /\ Alive(user_thread)

\* The first stretch of a stop(), called by a client or by start().
StopBegins(h) ==
    /\ IF user_thread \in initialized THEN Hold(h, "halt") ELSE Yield(h, "sleep")
    /\ UNCHANGED <<stop_event, user_thread, module, funcs, thread, halted, requested, at>>

\* Mutant: a start() that does not stop the running thread.
StartCalled_NoStop(h) ==
    /\ pc[h] = "new" /\ ComesIn
    /\ Hold(h, "launch")
    /\ UNCHANGED <<stop_event, user_thread, module, funcs, thread, halted, requested, at>>

StartCalled(h) ==
    /\ pc[h] = "new" /\ ComesIn
    /\ \/ IsRunning /\ StopBegins(h)
       \/ /\ ~IsRunning
          /\ Hold(h, "launch")
          /\ UNCHANGED <<stop_event, user_thread, module, funcs, thread, halted, requested, at>>

StopCalled(h) ==
    /\ pc[h] = "new" /\ ComesIn
    /\ \/ IsRunning /\ StopBegins(h)
       \/ /\ ~IsRunning
          /\ Yield(h, "done")
          /\ UNCHANGED <<stop_event, user_thread, module, funcs, thread, halted, requested, at>>

\* One second later user_thread is read again: None has no initialized_event.
StopSlept(h) ==
    /\ pc[h] = "sleep" /\ main = None /\ h \notin Commands
    /\ Calm
    /\ IF user_thread = None THEN Yield(h, "crashed") ELSE Hold(h, "halt")
    /\ UNCHANGED <<stop_event, user_thread, module, funcs, thread, halted, requested, at>>

\* The call of func_halt: the one of the last script that was loaded.
CallHalt(h) ==
    /\ pc[h] = "halt" /\ main = h
    /\ Calm
    /\ \/ /\ script.halt = "none" \/ funcs = None
          /\ Hold(h, "set") /\ UNCHANGED <<halted, at>>
       \/ /\ script.halt = "sync" /\ funcs # None
          /\ Hold(h, "set") /\ halted' = halted \cup {funcs} /\ UNCHANGED at
       \/ /\ script.halt = "async" /\ funcs # None /\ HasLoop(user_thread)
          /\ Post(h) /\ UNCHANGED halted
       \/ /\ script.halt = "async" /\ funcs # None /\ ~HasLoop(user_thread)
          /\ Yield(h, "halting") /\ UNCHANGED <<halted, at>>
    /\ UNCHANGED <<stop_event, user_thread, module, funcs, thread, requested>>

\* ... awaited on the main event loop.
HaltAwaited(h) ==
    /\ pc[h] = "halting" /\ main = None
    /\ Calm
    /\ halted' = halted \cup {funcs}
    /\ Hold(h, "set")
    /\ UNCHANGED <<stop_event, user_thread, module, funcs, thread, requested, at>>

\* The loop of the user's thread runs coroutines when the thread waits, or is
\* in an async _run(); at the end it runs or cancels what is left.
Serves(t) ==
    /\ ~script.main
    /\ phase[t] \in {"idle", "ending", "dead"} \/ (script.run = "async" /\ phase[t] = "run")

\* The result of the posted coroutine is there, or its cancellation.
PostedRuns(h) ==
    /\ pc[h] = "posted" /\ Serves(at[h])
    /\ Calm
    /\ \/ /\ h \in Commands
          /\ Yield(h, "done") /\ UNCHANGED halted
       \/ /\ h \notin Commands
          /\ Hold(h, "set")
          /\ \/ halted' = halted \cup {funcs}
             \/ phase[at[h]] \in {"ending", "dead"} /\ UNCHANGED halted
    /\ UNCHANGED <<stop_event, user_thread, module, funcs, thread, requested, at>>

\* After a stop(): a client's is over, a start() goes on to its launch.
StopEnds(h) == IF h \in Starts THEN Hold(h, "launch") ELSE Yield(h, "done")

\* Mutant: the thread is joined on the event loop.
SetStop_Blocks(h) ==
    /\ pc[h] = "set" /\ main = h
    /\ Calm
    /\ stop_event' = TRUE
    /\ \/ /\ user_thread # None
          /\ requested' = requested \cup {user_thread}
          /\ at' = [at EXCEPT ![h] = user_thread]
          /\ Hold(h, "join")
       \/ /\ user_thread = None
          /\ StopEnds(h)
          /\ UNCHANGED <<requested, at>>
    /\ UNCHANGED <<user_thread, module, funcs, thread, halted>>

\* The thread that is told to stop is the one user_thread names now.
SetStop(h) ==
    /\ pc[h] = "set" /\ main = h
    /\ Calm
    /\ stop_event' = TRUE
    /\ \/ /\ user_thread # None
          /\ requested' = requested \cup {user_thread}
          /\ at' = [at EXCEPT ![h] = user_thread]
          /\ Yield(h, "join")
       \/ /\ user_thread = None
          /\ StopEnds(h)
          /\ UNCHANGED <<requested, at>>
    /\ UNCHANGED <<user_thread, module, funcs, thread, halted>>

\* Mutant: a join without a timeout.
JoinReturns_NoTimeout(t) == ~Alive(t) /\ Calm

\* The join returns when the thread has ended, or after 5 seconds.
JoinReturns(t) == orderly' = (orderly /\ ~Alive(t)) /\ UNCHANGED script

\* After the join user_thread is read again: None has no is_alive().
Joined(h) ==
    /\ pc[h] = "join" /\ main = None /\ JoinReturns(at[h])
    /\ \/ /\ user_thread = None
          /\ Yield(h, "crashed") /\ UNCHANGED user_thread
       \/ /\ user_thread # None
          /\ user_thread' = None
          /\ StopEnds(h)
    /\ UNCHANGED <<stop_event, module, funcs, thread, halted, requested, at>>

\* The event is cleared here, and the thread will clear it once more.
Launch(h) ==
    /\ pc[h] = "launch" /\ main = h
    /\ Calm
    /\ stop_event' = FALSE
    /\ user_thread' = h
    /\ phase' = [phase EXCEPT ![h] = "clear"]
    /\ Yield(h, "polling")
    /\ UNCHANGED <<module, funcs, initialized, halted, requested, at>>

\* start() looks for the end of the loading every 0.1 seconds, 100 times.  The
\* steps before the script itself runs do not take that long.
Polled(h) ==
    /\ pc[h] = "polling" /\ main = None
    /\ \/ user_thread = None /\ Yield(h, "crashed") /\ Calm
       \/ /\ user_thread # None
          /\ IsLoaded(user_thread) \/ phase[user_thread] = "exec"
          /\ orderly' = (orderly /\ IsLoaded(user_thread))
          /\ Yield(h, "done") /\ UNCHANGED script
    /\ UNCHANGED <<stop_event, user_thread, module, funcs, thread, halted, requested, at>>

\* _process_command() is called: in place, awaited in place, or posted.
CallCommand(c) ==
    \/ ~(script.async /\ HasLoop(user_thread)) /\ Yield(c, "done") /\ UNCHANGED at
    \/ script.async /\ HasLoop(user_thread) /\ Post(c)

CommandCalled(c) ==
    /\ pc[c] = "new" /\ ComesIn
    /\ \/ (~module \/ funcs = None) /\ Yield(c, "done") /\ UNCHANGED at
       \/ /\ module /\ funcs # None
          /\ \/ user_thread = None /\ Yield(c, "crashed") /\ UNCHANGED at
             \/ /\ user_thread # None /\ user_thread \notin initialized
                /\ Yield(c, "sleep") /\ UNCHANGED at
             \/ user_thread \in initialized /\ CallCommand(c)
    /\ UNCHANGED <<stop_event, user_thread, module, funcs, thread, halted, requested>>

CommandSlept(c) ==
    /\ pc[c] = "sleep" /\ main = None /\ c \in Commands
    /\ Calm
    /\ \/ user_thread = None /\ Yield(c, "crashed") /\ UNCHANGED at
       \/ user_thread # None /\ CallCommand(c)
    /\ UNCHANGED <<stop_event, user_thread, module, funcs, thread, halted, requested>>

-----------------------------------------------------------------------------
(* The user thread.                                                        *)

\* t goes from one phase to another; what go() does is done on its own loop,
\* or on the main one when that is free.
Goes(t, from, to) ==
    /\ phase[t] = from
    /\ phase' = [phase EXCEPT ![t] = to]
    /\ (script.main /\ from \in Going) => main = None
    /\ Calm
    /\ UNCHANGED <<user_thread, halted, requested, pc, at, main>>

\* load_module()
Clears(t) ==
    /\ Goes(t, "clear", "find")
    /\ stop_event' = FALSE
    /\ UNCHANGED <<module, funcs, initialized>>

\* load(): a file that is not there ends the thread and leaves the module.
FindsFile(t) ==
    /\ \/ Goes(t, "find", "create") /\ module' = FALSE
       \/ Goes(t, "find", "dead") /\ UNCHANGED module
    /\ UNCHANGED <<stop_event, funcs, initialized>>

Creates(t) ==
    /\ \/ Goes(t, "create", "exec") /\ module' = TRUE
       \/ Goes(t, "create", "dead") /\ UNCHANGED module
    /\ UNCHANGED <<stop_event, funcs, initialized>>

\* The script is executed; the callbacks are those of the script before until
\* it has come to its end, and stay so when it fails.
Executes(t) ==
    /\ \/ Goes(t, "exec", "check") /\ funcs' = t
       \/ Goes(t, "exec", "dead") /\ UNCHANGED funcs
    /\ UNCHANGED <<stop_event, module, initialized>>

Checks(t) ==
    /\ IF stop_event THEN Goes(t, "check", "dead") ELSE Goes(t, "check", "init")
    /\ UNCHANGED <<stop_event, module, funcs, initialized>>

\* _setup() and _initialize() return.
Initializes(t) ==
    /\ Goes(t, "init", "ready")
    /\ initialized' = initialized \cup {t}
    /\ UNCHANGED <<stop_event, module, funcs>>

Enters(t) ==
    /\ IF script.run # "none" /\ ~stop_event
       THEN Goes(t, "ready", "run")
       ELSE Goes(t, "ready", "idle")
    /\ UNCHANGED <<stop_event, module, funcs, initialized>>

RunReturns(t) ==
    /\ Goes(t, "run", "idle")
    /\ UNCHANGED <<stop_event, module, funcs, initialized>>

\* Mutant: a _loop() follows the last one whatever the event says.
Loops_NoCheck(t) ==
    /\ \/ script.loop /\ Goes(t, "idle", "loop")
       \/ Goes(t, "loop", "idle")
    /\ UNCHANGED <<stop_event, module, funcs, initialized>>

Loops(t) ==
    /\ \/ script.loop /\ ~stop_event /\ Goes(t, "idle", "loop")
       \/ Goes(t, "loop", "idle")
    /\ UNCHANGED <<stop_event, module, funcs, initialized>>

\* _finalize(), and the end of the thread's event loop and of the thread.
Ends(t) ==
    /\ \/ stop_event /\ Goes(t, "idle", "ending")
       \/ Goes(t, "ending", "dead")
    /\ UNCHANGED <<stop_event, module, funcs, initialized>>

-----------------------------------------------------------------------------
StopSteps(h) ==
    StopSlept(h) \/ CallHalt(h) \/ HaltAwaited(h) \/ SetStop(h) \/ Joined(h)

Load(t) == Clears(t) \/ FindsFile(t) \/ Creates(t) \/ Executes(t) \/ Checks(t)
Go(t)   == Initializes(t) \/ Enters(t) \/ RunReturns(t) \/ Loops(t) \/ Ends(t)

Next ==
    \/ \E h \in Starts : StartCalled(h) \/ StopSteps(h) \/ Launch(h) \/ Polled(h)
    \/ \E h \in Stops : StopCalled(h) \/ StopSteps(h)
    \/ \E h \in Starts \cup Stops \cup Commands : PostedRuns(h)
    \/ \E c \in Commands : CommandCalled(c) \/ CommandSlept(c)
    \/ \E t \in Starts : Load(t) \/ Go(t)

\* The event loops go on, and the user's functions return, as they should: a
\* _run() does when it has been told to by its _halt(), if there is one.  What is
\* posted to a loop is run at one of the awaits to come, hence SF.
Fairness ==
    /\ \A h \in Handlers : WF_vars(StopSteps(h) \/ Launch(h) \/ Polled(h) \/ CommandSlept(h))
    /\ \A h \in Handlers : SF_vars(PostedRuns(h))
    /\ \A t \in Starts :
        WF_vars(\/ Load(t) \/ Initializes(t) \/ Enters(t) \/ Loops(t) \/ Ends(t)
                \/ (script.halt = "none" \/ t \in halted) /\ RunReturns(t))

Spec     == Init /\ [][Next]_vars
FairSpec == Spec /\ Fairness

-----------------------------------------------------------------------------
(* Properties.                                                             *)

\* "One dedicated thread will be created": at no time two of them run the
\* functions of the script.
OneUserThread == \A t, u \in Starts : Alive(t) /\ Alive(u) => t = u

\* "_halt() will be called when the user stops the system": no thread that has
\* been told to stop is in a _run() whose _halt() has not been called.
RunIsHalted ==
    script.halt # "none" => \A t \in requested : phase[t] = "run" => t \in halted

\* No start() and no stop() fails on a thread that another has taken away.
LifecycleNeverCrashes == \A h \in Starts \cup Stops : pc[h] # "crashed"

\* The three hold as long as every client waits for the answer to the call
\* before, scripts load in time and threads end within the timeout of stop().
OrderlyUse == orderly => OneUserThread /\ RunIsHalted /\ LifecycleNeverCrashes

\* What a thread that has been told to stop does not do any more is to begin
\* _setup(), _run() or another _loop().
StaysStopped ==
    \A t \in requested : phase'[t] \in {"init", "run", "loop"} => phase'[t] = phase[t]

OneStart == \A t, u \in Starts : phase[t] # "none" /\ phase[u] # "none" => t = u

\* A stop is final, whatever starts and stops follow in an orderly use; and, until
\* there is a second start, whatever stops and commands overlap and however slow
\* the script is.
StopIsFinalIfOrderlyOrOnce == [][orderly \/ OneStart => StaysStopped]_vars

\* The wish behind it: a stop is final.
StopIsFinal == [][StaysStopped]_vars

\* Scripts whose posted coroutines the user's loop comes to: it is not the loop
\* that waits for them, and not in a sync _run() meanwhile.
Responsive ==
    script.halt = "async" \/ script.async => ~script.main /\ script.run # "sync"

\* The halt came before the script had been loaded, and the thread has gone on
\* to its _run(): nobody will end that.
Unhalted(t) == phase[t] = "run" /\ t \notin halted

\* A thread that has been told to stop comes to its end, and does so when its
\* join has timed out as well, unless it is unhalted or there is a second start.
RequestedEnds ==
    requested # {} /\ Responsive
        ~> (\A t \in requested : phase[t] = "dead" \/ Unhalted(t)) \/ ~OneStart

\* Every handler comes to its end, so that the server is idle again: none waits
\* for ever on the main event loop, unless a coroutine was posted to a loop at
\* the moment that loop was closed.
HandlersEnd ==
    UnderWay # {} /\ Responsive ~> UnderWay = {} \/ (\E g \in Handlers : pc[g] = "lost")

\* What a handler waits for can come: a coroutine was posted to a loop that was
\* there, and a join is of a thread that has been told to stop.
WaitsForWhatComes ==
    \A h \in Handlers :
        /\ pc[h] = "posted" => at[h] # None /\ phase[at[h]] \in Going \cup {"dead"}
        /\ pc[h] = "join" => at[h] \in requested

\* Until there is a second start, a thread that has been told to stop finds the
\* event set whenever it looks: both places that clear it come before.
EventStaysSet == OneStart /\ requested # {} => stop_event

\* All of it together: neither a thread nor a handler outlives its use.
UseEnds == [](WaitsForWhatComes /\ EventStaysSet) /\ RequestedEnds /\ HandlersEnd

\* The documentation lets every callback be async: the same of every script.
AnyScriptEnds == UnderWay # {} ~> UnderWay = {}
=============================================================================
