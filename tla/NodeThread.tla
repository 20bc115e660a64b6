----------------------------- MODULE NodeThread -----------------------------
(***************************************************************************)
(* The loops that scripts run in threads of their nodes                    *)
(* (lib/slowpy/slowpy/control/node.py 339-345, 432-472) and the two events *)
(* that end them: one of the node, and one that all nodes of the server    *)
(* share, which TaskModule.stop() sets and loading any task clears.        *)
(*                                                                         *)
(* A script has at most one node.  A script that is loaded again is        *)
(* another script here: its nodes are made anew.  The node's start() and   *)
(* stop() are called by the script's own thread and by a thread of a       *)
(* command. The bound is MaxStarts.                                        *)
(***************************************************************************)
EXTENDS Naturals, FiniteSets

CONSTANTS Script,
          WithNode,     \* the scripts that have a node with a loop
          NodeCaller, MaxStarts

ASSUME NodeThreadAssumption == WithNode \subseteq Script /\ MaxStarts \in Nat

VARIABLES ntSystemStop,   \* _system_stop_event
          ntScript,       \* of each script: not loaded, loaded, being stopped, gone
          ntNodeStop,     \* _node_thread_stop_event
          ntThread,       \* _node_thread: the number of a thread, 0 for None
          ntStarted,      \* the threads started so far
          ntLive,         \* those that run
          ntCall,         \* of each script and caller: where its call is
          ntOverlap,      \* nodes that had two calls at once
          ntCleared       \* scripts during whose stop another was loaded

ntVars == <<ntSystemStop, ntScript, ntNodeStop, ntThread, ntStarted, ntLive, ntCall, ntOverlap,
            ntCleared>>

NoCall == [at |-> "no", thread |-> 0]

NodeThreadTypeOK ==
  /\ ntSystemStop \in BOOLEAN
  /\ ntScript \in [Script -> {"no", "loaded", "stopping", "gone"}]
  /\ ntNodeStop \subseteq Script /\ ntOverlap \subseteq Script /\ ntCleared \subseteq Script
  /\ ntStarted \in [Script -> 0 .. MaxStarts]
  /\ ntThread \in [Script -> 0 .. MaxStarts] /\ ntLive \in [Script -> SUBSET (1 .. MaxStarts)]
  /\ \A s \in Script : /\ ntThread[s] \in 0 .. ntStarted[s]
                       /\ ntLive[s] \subseteq 1 .. ntStarted[s]
  /\ ntCall \in [Script -> [NodeCaller ->
       [at : {"no", "start", "clear", "run", "set", "join", "failed"}, thread : 0 .. MaxStarts]]]

NodeThreadInit ==
  /\ ntSystemStop = FALSE /\ ntScript = [s \in Script |-> "no"]
  /\ ntNodeStop = {} /\ ntThread = [s \in Script |-> 0] /\ ntStarted = [s \in Script |-> 0]
  /\ ntLive = [s \in Script |-> {}] /\ ntOverlap = {} /\ ntCleared = {}
  /\ ntCall = [s \in Script |-> [c \in NodeCaller |-> NoCall]]

\* _preset_module(): the event is cleared for all.
LoadScript(s) ==
  /\ ntScript[s] = "no" /\ ntScript' = [ntScript EXCEPT ![s] = "loaded"]
  /\ ntSystemStop' = FALSE
  /\ ntCleared' = ntCleared \cup {o \in Script : ntScript[o] \in {"stopping", "gone"}}
  /\ UNCHANGED <<ntNodeStop, ntThread, ntStarted, ntLive, ntCall, ntOverlap>>

\* TaskModule.stop() before it joins threads: the event is set for all.
StopScript(s) ==
  /\ ntScript[s] = "loaded" /\ ntScript' = [ntScript EXCEPT ![s] = "stopping"]
  /\ ntSystemStop' = TRUE
  /\ UNCHANGED <<ntNodeStop, ntThread, ntStarted, ntLive, ntCall, ntOverlap, ntCleared>>

\* It is over, by the end of the user thread or by a timeout.
ScriptGone(s) ==
  /\ ntScript[s] = "stopping" /\ ntScript' = [ntScript EXCEPT ![s] = "gone"]
  /\ UNCHANGED <<ntSystemStop, ntNodeStop, ntThread, ntStarted, ntLive, ntCall, ntOverlap,
                 ntCleared>>

-----------------------------------------------------------------------------
CallAt(s, c, at) == ntCall[s][c].at = at
Goes(s, c, at, thread) == ntCall' = [ntCall EXCEPT ![s][c] = [at |-> at, thread |-> thread]]

\* A call of start() or stop() comes when the script is there.
Enters(s, c) ==
  /\ CallAt(s, c, "no") /\ ntScript[s] \in {"loaded", "stopping"}
  /\ ntOverlap' = IF \E o \in NodeCaller : ~CallAt(s, o, "no") THEN ntOverlap \cup {s} ELSE ntOverlap
  /\ UNCHANGED <<ntSystemStop, ntScript, ntCleared>>

\* start() returns when there is a thread, also one that has ended by itself.
StartEnters(s, c) ==
  /\ Enters(s, c) /\ ntThread[s] = 0 /\ ntStarted[s] < MaxStarts
  /\ Goes(s, c, "start", 0)
  /\ UNCHANGED <<ntNodeStop, ntThread, ntStarted, ntLive>>

StartAssigns(s, c) ==
  /\ CallAt(s, c, "start") /\ ntStarted[s] < MaxStarts
  /\ ntStarted' = [ntStarted EXCEPT ![s] = @ + 1]
  /\ ntThread' = [ntThread EXCEPT ![s] = ntStarted'[s]]
  /\ Goes(s, c, "clear", ntStarted'[s])
  /\ UNCHANGED <<ntSystemStop, ntScript, ntNodeStop, ntLive, ntOverlap, ntCleared>>

StartClears(s, c) ==
  /\ CallAt(s, c, "clear") /\ ntNodeStop' = ntNodeStop \ {s}
  /\ Goes(s, c, "run", ntCall[s][c].thread)
  /\ UNCHANGED <<ntSystemStop, ntScript, ntThread, ntStarted, ntLive, ntOverlap, ntCleared>>

StartRuns(s, c) ==
  /\ CallAt(s, c, "run") /\ Goes(s, c, "no", 0)
  /\ ntLive' = [ntLive EXCEPT ![s] = @ \cup {ntCall[s][c].thread}]
  /\ UNCHANGED <<ntSystemStop, ntScript, ntNodeStop, ntThread, ntStarted, ntOverlap, ntCleared>>

\* Threads that have been made and not yet started.
Unstarted(s) ==
  {ntCall[s][c].thread : c \in {o \in NodeCaller : CallAt(s, o, "clear") \/ CallAt(s, o, "run")}}

\* stop() with a thread: set the event, look at the thread again and join it,
\* and forget it, or the one that another call has started.
StopEnters(s, c) ==
  /\ Enters(s, c) /\ ntThread[s] # 0
  /\ ntNodeStop' = ntNodeStop \cup {s} /\ Goes(s, c, "set", 0)
  /\ UNCHANGED <<ntThread, ntStarted, ntLive>>

\* join() of None fails, and so does that of a thread that has not been started.
StopJoins(s, c) ==
  /\ CallAt(s, c, "set")
  /\ Goes(s, c, IF ntThread[s] \in {0} \cup Unstarted(s) THEN "failed" ELSE "join", ntThread[s])
  /\ UNCHANGED <<ntSystemStop, ntScript, ntNodeStop, ntThread, ntStarted, ntLive, ntOverlap,
                 ntCleared>>

StopForgets(s, c) ==
  /\ CallAt(s, c, "join") /\ ntCall[s][c].thread \notin ntLive[s]
  /\ ntThread' = [ntThread EXCEPT ![s] = 0] /\ Goes(s, c, "no", 0)
  /\ UNCHANGED <<ntSystemStop, ntScript, ntNodeStop, ntStarted, ntLive, ntOverlap, ntCleared>>

MutIsStopRequested(s) == ntSystemStop

\* is_stop_requested() of the node
IsStopRequested(s) == ntSystemStop \/ s \in ntNodeStop

\* NodeThread.run(): between two calls of loop()
LoopSees(s, k) ==
  /\ k \in ntLive[s] /\ IsStopRequested(s)
  /\ ntLive' = [ntLive EXCEPT ![s] = @ \ {k}]
  /\ UNCHANGED <<ntSystemStop, ntScript, ntNodeStop, ntThread, ntStarted, ntCall, ntOverlap,
                 ntCleared>>

NodeCallStep(s, c) ==
  \/ StartAssigns(s, c) \/ StartClears(s, c) \/ StartRuns(s, c)
  \/ StopJoins(s, c) \/ StopForgets(s, c)

NodeThreadNext ==
  \/ \E s \in Script : LoadScript(s) \/ StopScript(s) \/ ScriptGone(s)
  \/ \E s \in WithNode :
    \/ \E c \in NodeCaller : StartEnters(s, c) \/ StopEnters(s, c) \/ NodeCallStep(s, c)
    \/ \E k \in 1 .. MaxStarts : LoopSees(s, k)

NodeThreadSpec == NodeThreadInit /\ [][NodeThreadNext]_ntVars

-----------------------------------------------------------------------------
\* While the calls on a node come one at a time, its threads are not lost: the
\* one that runs is the one the node knows (node.py:457-472).
KnownThread ==
  \A s \in WithNode \ ntOverlap : ntLive[s] \subseteq {ntThread[s]}

\* What a loop is told stays said until it can have seen it: the shared event
\* from the stop of its task on, unless another task is loaded; that of the node
\* as long as a stop() of it waits, if the calls on it come one at a time.
RequestsStand ==
  /\ \A s \in Script : ntScript[s] \in {"stopping", "gone"} => ntSystemStop \/ s \in ntCleared
  /\ \A s \in WithNode \ ntOverlap, c \in NodeCaller :
       CallAt(s, c, "set") \/ CallAt(s, c, "join") => s \in ntNodeStop

\* A loop ends when its task is stopped, unless another task is loaded before
\* it looks at the event that they share (sd_taskmodule.py:53); and the join of
\* a stop() of the node comes to an end whatever is loaded, since the node has
\* an event of its own.
LoopsEnd ==
  /\ []KnownThread /\ []RequestsStand
  /\ \A s \in WithNode :
       /\ (ntScript[s] = "stopping") ~> (ntLive[s] = {} \/ s \in ntCleared)
       /\ \A c \in NodeCaller : CallAt(s, c, "join") ~> (~CallAt(s, c, "join") \/ s \in ntOverlap)
=============================================================================
