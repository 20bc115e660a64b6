---------------------------- MODULE TaskCommand ----------------------------
(***************************************************************************)
(* The commands of one slow-task: TaskModule.process_task_command() and    *)
(* TaskModule.stop() in app/server/sd_taskmodule.py.                       *)
(*                                                                         *)
(* A command is a POST to /api/control and runs a function of the user's   *)
(* script.  A plain command and a reentrant one run in a thread of their   *)
(* own (TaskFunctionThread); an awaited one runs inside its HTTP handler.  *)
(* The handlers and stop() are coroutines of one event loop: each action   *)
(* below that moves one of them is a stretch from one await to the next.   *)
(* The threads end on their own.                                           *)
(*                                                                         *)
(* A thread is named by the request that started it.  The requests are     *)
(* those that name a function of this module and parse; the others are     *)
(* answered without a change of state.  The set of reentrant threads is an *)
(* object: stop() iterates over the one it found while commands change it, *)
(* and replaces it; sets holds them all, cur is the one in use.            *)
(***************************************************************************)
EXTENDS Naturals, FiniteSets

CONSTANTS Plain,       \* requests for f()
          Reentrant,   \* requests for "reentrant f()"
          Awaited,     \* requests for "await f()", f async
          Stops,       \* calls of stop(): the stop button, a shutdown
          None,        \* Python's None
          MaxAtOnce    \* bound: how many calls may be under way at once

Reqs == Plain \cup Reentrant \cup Awaited

ASSUME TaskCommandAssumption ==
    /\ Plain \cap Reentrant = {} /\ Plain \cap Awaited = {} /\ Reentrant \cap Awaited = {}
    /\ None \notin Reqs
    /\ IsFiniteSet(Reqs) /\ IsFiniteSet(Stops)
    /\ MaxAtOnce \in Nat \ {0}

VARIABLES
    command_thread,   \* self.command_thread
    sets, cur,        \* self.reentrant_command_thread_set is sets[cur]
    thread,           \* "none", "alive" or "dead": the thread of a request
    pc, todo, joining,\* the handler of a request, its purge list and the
                      \* thread it is joining
    spc, of, was, visited, sjoin,  \* a stop(): the set it iterates over, what
                      \* that held at first, what it has joined and what it joins
    orderly           \* history: no call has come in while another was under
                      \* way, and no thread has outlived its join in a stop()

handler == <<pc, todo, joining>>
stopper == <<spc, of, was, visited, sjoin>>
vars    == <<command_thread, sets, cur, thread, handler, stopper, orderly>>

Gens   == 0..Cardinality(Stops)    \* each stop() makes at most one new set
Active == {"joining", "purging", "running"}
Alive(t) == t # None /\ thread[t] = "alive"

TypeOK ==
    /\ command_thread \in Plain \cup {None}
    /\ sets \in [Gens -> SUBSET Reentrant]
    /\ cur \in Gens
    /\ thread \in [Reqs -> {"none", "alive", "dead"}]
    /\ pc \in [Reqs -> {"new", "refused", "accepted", "crashed"} \cup Active]
    /\ todo \in [Reqs -> SUBSET Reentrant]
    /\ joining \in [Reqs -> Reqs \cup {None}]
    /\ spc \in [Stops -> {"new", "waiting", "command", "set", "done", "crashed"}]
    /\ of \in [Stops -> Gens]
    /\ was \in [Stops -> SUBSET Reentrant]
    /\ visited \in [Stops -> SUBSET Reentrant]
    /\ sjoin \in [Stops -> Reqs \cup {None}]
    /\ orderly \in BOOLEAN
    /\ \A r \in Reqs : thread[r] # "none" => r \notin Awaited /\ pc[r] = "accepted"

Init ==
    /\ command_thread = None
    /\ sets = [g \in Gens |-> {}]
    /\ cur = 0
    /\ thread = [r \in Reqs |-> "none"]
    /\ pc = [r \in Reqs |-> "new"]
    /\ todo = [r \in Reqs |-> {}]
    /\ joining = [r \in Reqs |-> None]
    /\ spc = [s \in Stops |-> "new"]
    /\ of = [s \in Stops |-> 0]
    /\ was = [s \in Stops |-> {}]
    /\ visited = [s \in Stops |-> {}]
    /\ sjoin = [s \in Stops |-> None]
    /\ orderly = TRUE

\* The calls under way.
UnderWay ==
    {r \in Reqs : pc[r] \in Active} \cup {s \in Stops : spc[s] \in {"waiting", "command", "set"}}

\* A call comes in.
ComesIn ==
    /\ Cardinality(UnderWay) < MaxAtOnce
    /\ orderly' = (orderly /\ UnderWay = {})

-----------------------------------------------------------------------------
(* A command.                                                              *)

Answered(r, answer) == pc' = [pc EXCEPT ![r] = answer]

\* Mutant: the thread is started and not recorded.
Launch_Unrecorded(r, known) ==
    /\ IF r \in Awaited
       THEN Answered(r, "running") /\ UNCHANGED thread
       ELSE thread' = [thread EXCEPT ![r] = "alive"] /\ Answered(r, "accepted")
    /\ sets' = [sets EXCEPT ![cur] = known]
    /\ todo' = [todo EXCEPT ![r] = {}]
    /\ joining' = [joining EXCEPT ![r] = None]
    /\ UNCHANGED command_thread

\* Mutant: every command gets a thread.
Launch_AwaitedToo(r, known) ==
    /\ thread' = [thread EXCEPT ![r] = "alive"]
    /\ sets' = [sets EXCEPT ![cur] = known]
    /\ todo' = [todo EXCEPT ![r] = {}]
    /\ joining' = [joining EXCEPT ![r] = None]
    /\ Answered(r, "accepted")
    /\ UNCHANGED command_thread

\* The end of process_task_command(): run the function here, or start its
\* thread and record it.  known is what the set of reentrant threads holds.
Launch(r, known) ==
    /\ \/ /\ r \in Awaited
          /\ Answered(r, "running")
          /\ sets' = [sets EXCEPT ![cur] = known]
          /\ UNCHANGED <<command_thread, thread>>
       \/ /\ r \in Plain
          /\ thread' = [thread EXCEPT ![r] = "alive"]
          /\ command_thread' = r
          /\ sets' = [sets EXCEPT ![cur] = known]
          /\ Answered(r, "accepted")
       \/ /\ r \in Reentrant
          /\ thread' = [thread EXCEPT ![r] = "alive"]
          /\ sets' = [sets EXCEPT ![cur] = known \cup {r}]
          /\ Answered(r, "accepted")
          /\ UNCHANGED command_thread
    /\ todo' = [todo EXCEPT ![r] = {}]
    /\ joining' = [joining EXCEPT ![r] = None]

\* Mutant: what was joined stays in the list.
Purge_Twice(r, list, known) ==
    LET living == {t \in list : Alive(t)}
    IN  \/ list = living /\ Launch(r, known)
        \/ \E t \in list \ living :
            /\ todo' = [todo EXCEPT ![r] = list]
            /\ joining' = [joining EXCEPT ![r] = t]
            /\ pc' = [pc EXCEPT ![r] = "purging"]
            /\ sets' = [sets EXCEPT ![cur] = known]
            /\ UNCHANGED <<command_thread, thread>>

\* Mutant: the whole list is dropped from the set after a join.
Purge_DropsAll(r, list, known) ==
    \/ (\A t \in list : Alive(t)) /\ Launch(r, known)
    \/ (\E t \in list : ~Alive(t)) /\ Launch(r, known \ list)

\* The loop that purges the ended reentrant threads, from its next element on:
\* it passes over living threads and suspends at the first dead one, to join
\* it; at the end of the list the command is launched in the same stretch.
Purge(r, list, known) ==
    LET living == {t \in list : Alive(t)}
    IN  \/ list = living /\ Launch(r, known)
        \/ \E t \in list \ living, passed \in SUBSET living :
            /\ todo' = [todo EXCEPT ![r] = list \ ({t} \cup passed)]
            /\ joining' = [joining EXCEPT ![r] = t]
            /\ pc' = [pc EXCEPT ![r] = "purging"]
            /\ sets' = [sets EXCEPT ![cur] = known]
            /\ UNCHANGED <<command_thread, thread>>

\* Mutant: no check.
Receive_NoCheck(r) ==
    /\ pc[r] = "new" /\ ComesIn
    /\ Purge(r, sets[cur], sets[cur])
    /\ UNCHANGED <<cur, stopper>>

\* The first stretch: the check that makes the task single-threaded.
Receive(r) ==
    /\ pc[r] = "new" /\ ComesIn
    /\ \/ /\ r \in Plain /\ Alive(command_thread)
          /\ Answered(r, "refused")
          /\ UNCHANGED <<command_thread, sets, thread, todo, joining>>
       \/ /\ r \in Plain /\ command_thread # None /\ ~Alive(command_thread)
          /\ pc' = [pc EXCEPT ![r] = "joining"]
          /\ joining' = [joining EXCEPT ![r] = command_thread]
          /\ UNCHANGED <<command_thread, sets, thread, todo>>
       \/ /\ r \in Plain => command_thread = None
          /\ Purge(r, sets[cur], sets[cur])
    /\ UNCHANGED <<cur, stopper>>

\* The join of the ended command thread has returned.  The check is not made
\* again.
Joined(r) ==
    /\ pc[r] = "joining" /\ ~Alive(joining[r])
    /\ Purge(r, sets[cur], sets[cur])
    /\ UNCHANGED <<cur, stopper, orderly>>

\* The join of an ended reentrant thread has returned; set.remove() raises
\* KeyError when the thread is no longer in the set.
Purged(r) ==
    /\ pc[r] = "purging" /\ ~Alive(joining[r])
    /\ IF joining[r] \in sets[cur]
       THEN Purge(r, todo[r], sets[cur] \ {joining[r]})
       ELSE /\ Answered(r, "crashed")
            /\ UNCHANGED <<command_thread, sets, thread, todo, joining>>
    /\ UNCHANGED <<cur, stopper, orderly>>

\* An awaited function returns (or raises: answered as well).
AwaitedEnds(r) ==
    /\ pc[r] = "running"
    /\ Answered(r, "accepted")
    /\ UNCHANGED <<command_thread, sets, cur, thread, todo, joining, stopper, orderly>>

\* The function of a thread returns.
ThreadEnds(t) ==
    /\ thread[t] = "alive"
    /\ thread' = [thread EXCEPT ![t] = "dead"]
    /\ UNCHANGED <<command_thread, sets, cur, handler, stopper, orderly>>

-----------------------------------------------------------------------------
(* stop(), up to the call of UserModule.stop().                            *)

\* Mutant: a join without a timeout.
JoinReturns_NoTimeout(s) == ~Alive(sjoin[s]) /\ UNCHANGED orderly

\* The join of a thread returns when it has ended, or after 5 seconds.
JoinReturns(s) == orderly' = (orderly /\ ~Alive(sjoin[s]))

\* The next step of the iteration over the set g, which held the elements old
\* when the iteration began; those in seen are behind it.  A change of size
\* raises RuntimeError; when the size is the old one again, Python may or may
\* not come to the new elements.
Iterate(s, g, old, seen) ==
    \/ /\ Cardinality(sets[g]) # Cardinality(old)
       /\ spc' = [spc EXCEPT ![s] = "crashed"]
       /\ UNCHANGED <<sets, cur, of, was, visited, sjoin>>
    \/ /\ Cardinality(sets[g]) = Cardinality(old)
       /\ \E t \in sets[g] \ seen :
            /\ spc' = [spc EXCEPT ![s] = "set"]
            /\ sjoin' = [sjoin EXCEPT ![s] = t]
            /\ visited' = [visited EXCEPT ![s] = seen \cup {t}]
       /\ of' = [of EXCEPT ![s] = g]
       /\ was' = [was EXCEPT ![s] = old]
       /\ UNCHANGED <<sets, cur>>
    \/ /\ Cardinality(sets[g]) = Cardinality(old) /\ sets[g] \cap old \subseteq seen
       /\ spc' = [spc EXCEPT ![s] = "done"]
       /\ cur' = cur + 1                             \* = set()
       /\ UNCHANGED <<sets, of, was, visited, sjoin>>

\* ControlSystem.stop() is called here; what it does to the functions is that
\* they end.
StopGoesOn(s) ==
    /\ \/ /\ command_thread # None
          /\ spc' = [spc EXCEPT ![s] = "command"]
          /\ sjoin' = [sjoin EXCEPT ![s] = command_thread]
          /\ UNCHANGED <<sets, cur, of, was, visited>>
       \/ /\ command_thread = None
          /\ Iterate(s, cur, sets[cur], {})
    /\ UNCHANGED <<command_thread, thread, handler>>

\* Commands are served before the user's thread has its module initialized: a
\* stop() that finds it so gives it a second.
StopBegins(s) ==
    /\ spc[s] = "new" /\ ComesIn
    /\ \/ StopGoesOn(s)
       \/ /\ spc' = [spc EXCEPT ![s] = "waiting"]
          /\ of' = [of EXCEPT ![s] = cur]
          /\ UNCHANGED <<command_thread, sets, cur, thread, handler, was, visited, sjoin>>

\* self.user_thread is read again after the second: another stop(), when it has
\* ended meanwhile, may have made it None (AttributeError).
StopWaited(s) ==
    /\ spc[s] = "waiting"
    /\ \/ StopGoesOn(s)
       \/ /\ cur # of[s]
          /\ spc' = [spc EXCEPT ![s] = "crashed"]
          /\ UNCHANGED <<command_thread, sets, cur, thread, handler, of, was, visited, sjoin>>
    /\ UNCHANGED orderly

\* self.command_thread is read again after the join: another stop() may have
\* made it None (AttributeError), a command may have replaced it.
StopJoinedCommand(s) ==
    /\ spc[s] = "command" /\ JoinReturns(s)
    /\ \/ /\ command_thread = None
          /\ spc' = [spc EXCEPT ![s] = "crashed"]
          /\ UNCHANGED <<command_thread, sets, cur, of, was, visited, sjoin>>
       \/ /\ command_thread # None
          /\ command_thread' = None
          /\ Iterate(s, cur, sets[cur], {})
    /\ UNCHANGED <<thread, handler>>

StopJoinedReentrant(s) ==
    /\ spc[s] = "set" /\ JoinReturns(s)
    /\ Iterate(s, of[s], was[s], visited[s])
    /\ UNCHANGED <<command_thread, thread, handler>>

-----------------------------------------------------------------------------
Next ==
    \/ \E r \in Reqs :
        Receive(r) \/ Joined(r) \/ Purged(r) \/ AwaitedEnds(r) \/ ThreadEnds(r)
    \/ \E s \in Stops :
        StopBegins(s) \/ StopWaited(s) \/ StopJoinedCommand(s) \/ StopJoinedReentrant(s)

\* The event loop resumes what can go on.  Nothing is assumed of the user's
\* functions: a thread, or an awaited function, may run for ever.
Fairness ==
    /\ \A r \in Reqs : WF_vars(Joined(r)) /\ WF_vars(Purged(r))
    /\ \A s \in Stops :
        WF_vars(StopWaited(s)) /\ WF_vars(StopJoinedCommand(s)) /\ WF_vars(StopJoinedReentrant(s))

Spec     == Init /\ [][Next]_vars
FairSpec == Spec /\ Fairness

-----------------------------------------------------------------------------
(* Properties.                                                             *)

RunningPlain == {r \in Plain : Alive(r)}

\* The comments say that a task is single-threaded unless "reentrant" is
\* specified: no two plain commands of a task run at the same time.
OnePlainCommand == \A q, r \in RunningPlain : q = r

\* A running thread is one that the module knows of, so that stop() finds it
\* and the next command is compared with it: no purge, no stop and no other
\* command makes the module forget it.
RunningIsKnown ==
    \A r \in Reqs : Alive(r) =>
        IF r \in Plain THEN command_thread = r ELSE r \in sets[cur]

\* No command and no stop ends in an exception of the module's bookkeeping.
NothingCrashes ==
    /\ \A r \in Reqs : pc[r] # "crashed"
    /\ \A s \in Stops : spc[s] # "crashed"

\* The three hold as long as every client, and the stop button, waits for the
\* answer to the call before, and threads end within the timeout of stop().
OnePlainCommandIfOrderly == orderly => OnePlainCommand
RunningIsKnownIfOrderly  == orderly => RunningIsKnown
NothingCrashesIfOrderly  == orderly => NothingCrashes

NoStopYet == \A s \in Stops : spc[s] = "new"
ReentrantRecorded == \A r \in Reentrant : Alive(r) => r \in sets[cur]

\* However the commands overlap, a reentrant thread that runs is one the module
\* knows of, as long as there is no stop(): their purges do not interfere.
ReentrantIsKnown == NoStopYet => ReentrantRecorded

\* However commands and stops overlap, a command joins no thread that still runs,
\* so that it never waits for a function of the user.
JoinsTheEnded ==
    \A r \in Reqs : pc[r] \in {"joining", "purging"} => joining[r] # None /\ ~Alive(joining[r])

\* A command that does not wait for its function is answered, even when every
\* function of the user runs for ever: it only joins threads that have ended.
EveryCommandAnswered ==
    /\ []JoinsTheEnded
    /\ \A r \in Reqs : pc[r] \in {"joining", "purging"} ~> pc[r] \notin {"joining", "purging"}

\* A stop() comes to its end even when no function of the user does: each of
\* its joins gives up after its timeout.
EveryStopEnds ==
    \A s \in Stops : spc[s] \in {"waiting", "command", "set"} ~> spc[s] \in {"done", "crashed"}

\* The two together: no handler of the task waits for ever.
CommandsAndStopsEnd == EveryCommandAnswered /\ EveryStopEnds
=============================================================================
