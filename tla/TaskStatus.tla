----------------------------- MODULE TaskStatus -----------------------------
(***************************************************************************)
(* The list of tasks that browsers show (app/server/sd_taskmodule.py       *)
(* 565-601): a long poll that is answered when the revision is newer than  *)
(* the one the browser has.  A revision is the second in which a module    *)
(* was touched last.  A script that waits for input touches its module     *)
(* from its thread, after the change; a thread that ends touches nothing   *)
(* and is noticed by the polls, which compare is_running() with what it    *)
(* returned last, in whatever request.                                     *)
(*                                                                         *)
(* One look of a poll at the modules has no await in it and is one step.   *)
(* The clock stops at MaxSecond, and nothing changes in that second.       *)
(***************************************************************************)
EXTENDS Naturals, FiniteSets, FiniteSetsExt

CONSTANTS TaskName, Browser, MaxSecond

ASSUME TaskStatusAssumption == MaxSecond \in Nat /\ MaxSecond >= 2

VARIABLES tsNow,          \* int(time.time()); a component that answers none has 1
          tsRunning,      \* the modules with a user thread that is alive
          tsWas,          \* was_running
          tsWaiting,      \* is_waiting: input() has reached the end of the input
          tsTouches,      \* threads between the change of is_waiting and touch_status()
          tsRevision,     \* status_revision of each module
          tsAnswered,     \* status_revision of the component
          tsPanel,        \* of each browser: its poll and what it shows
          tsChanged,      \* the second in which is_waiting changed last
          tsBrowsers, tsTasks   \* the browsers and the modules of this behaviour

tsWho == <<tsBrowsers, tsTasks>>
tsVars == <<tsNow, tsRunning, tsWas, tsWaiting, tsTouches, tsRevision, tsAnswered, tsPanel, tsChanged,
                 tsWho>>

TaskStatusTypeOK ==
  /\ tsNow \in 2 .. MaxSecond
  /\ {tsRunning, tsWas, tsWaiting, tsTouches} \subseteq SUBSET TaskName
  /\ tsWaiting \subseteq tsRunning
  /\ tsRevision \in [TaskName -> 1 .. MaxSecond] /\ tsAnswered \in 1 .. MaxSecond
  /\ tsPanel \in [Browser -> [poll : {"rest", "wait"}, since : 0 .. MaxSecond,
                              at : 0 .. MaxSecond, running : SUBSET TaskName,
                              waiting : SUBSET TaskName]]
  /\ tsChanged \in [TaskName -> 0 .. MaxSecond]
  /\ tsBrowsers \in SUBSET Browser /\ tsTasks \in SUBSET TaskName

TaskStatusInit ==
  /\ tsNow = 2 /\ tsAnswered = 1 /\ tsRevision = [m \in TaskName |-> 2]
  /\ tsRunning = {} /\ tsWas = {} /\ tsWaiting = {} /\ tsTouches = {}
  /\ tsPanel = [b \in Browser |-> [poll |-> "rest", since |-> 0, at |-> 0,
                                   running |-> {}, waiting |-> {}]]
  /\ tsChanged = [m \in TaskName |-> 0]
  /\ tsBrowsers \in SUBSET Browser /\ tsTasks \in SUBSET TaskName

Second ==
  /\ tsNow < MaxSecond /\ tsNow' = tsNow + 1
  /\ UNCHANGED <<tsRunning, tsWas, tsWaiting, tsTouches, tsRevision, tsAnswered, tsPanel, tsChanged,
                 tsWho>>

MutTouched(m) == tsRevision' = tsRevision

\* touch_status()
Touched(m) == tsRevision' = [tsRevision EXCEPT ![m] = tsNow]

\* start() touches the module and starts the thread.
RoutineStarts(m) ==
  /\ tsNow < MaxSecond /\ m \notin tsRunning
  /\ tsRunning' = tsRunning \cup {m} /\ Touched(m)
  /\ UNCHANGED <<tsNow, tsWas, tsWaiting, tsTouches, tsAnswered, tsPanel, tsChanged, tsWho>>

\* The thread comes to its end, and nobody is told.
RoutineEnds(m) ==
  /\ tsNow < MaxSecond /\ m \in tsRunning /\ m \notin tsWaiting \cup tsTouches
  /\ tsRunning' = tsRunning \ {m}
  /\ UNCHANGED <<tsNow, tsWas, tsWaiting, tsTouches, tsRevision, tsAnswered, tsPanel, tsChanged, tsWho>>

\* The script calls input() and waits, or has got its line.
InputChanges(m) ==
  /\ tsNow < MaxSecond /\ m \in tsRunning \ tsTouches
  /\ tsWaiting' = IF m \in tsWaiting THEN tsWaiting \ {m} ELSE tsWaiting \cup {m}
  /\ tsTouches' = tsTouches \cup {m} /\ tsChanged' = [tsChanged EXCEPT ![m] = tsNow]
  /\ UNCHANGED <<tsNow, tsRunning, tsWas, tsRevision, tsAnswered, tsPanel, tsWho>>

InputTouches(m) ==
  /\ m \in tsTouches /\ tsTouches' = tsTouches \ {m} /\ Touched(m)
  /\ UNCHANGED <<tsNow, tsRunning, tsWas, tsWaiting, tsAnswered, tsPanel, tsChanged, tsWho>>

-----------------------------------------------------------------------------
\* A command touches the module before and after, whatever it changes.
CommandTouches(m) ==
  /\ tsNow < MaxSecond /\ Touched(m)
  /\ UNCHANGED <<tsNow, tsRunning, tsWas, tsWaiting, tsTouches, tsAnswered, tsPanel, tsChanged, tsWho>>

\* The modules' revisions after a look at which of them have started or ended.
Noticed ==
  [m \in TaskName |-> IF (m \in tsWas) # (m \in tsRunning) THEN tsNow ELSE tsRevision[m]]

\* The revision a look of a browser with revision since finds.
Found(since) ==
  IF tsAnswered > since THEN tsAnswered
  ELSE Max({tsAnswered} \cup {Noticed[m] : m \in TaskName})

\* task_status(): a new request, one second after the last answer, or the next
\* look of one that waits.  is_running() is called in every case.
Poll(b) ==
  LET since == tsPanel[b].since
  IN /\ tsPanel[b].poll = "wait" \/ tsNow > tsPanel[b].at
     /\ IF tsAnswered > since THEN UNCHANGED tsRevision ELSE tsRevision' = Noticed
     /\ tsAnswered' = Found(since)
     /\ tsWas' = tsRunning
     /\ tsPanel' = [tsPanel EXCEPT ![b] =
          IF Found(since) <= since
          THEN [@ EXCEPT !.poll = "wait"]
          ELSE [poll |-> "rest", since |-> Found(since), at |-> tsNow,
                running |-> tsRunning, waiting |-> tsWaiting]]
     /\ UNCHANGED <<tsNow, tsRunning, tsWaiting, tsTouches, tsChanged, tsWho>>

TaskStatusNext ==
  \/ Second
  \/ \E m \in tsTasks : \/ RoutineStarts(m) \/ RoutineEnds(m)
                        \/ InputChanges(m) \/ InputTouches(m) \/ CommandTouches(m)
  \/ \E b \in tsBrowsers : Poll(b)

TaskStatusSpec == TaskStatusInit /\ [][TaskStatusNext]_tsVars

-----------------------------------------------------------------------------
\* No change is passed over: as long as a browser shows something else, its next
\* look finds a newer revision and is answered.  For a script that begins or
\* ceases to wait for input this holds unless the change is in the second of the
\* revision the browser has: touch_status() then gives the same number
\* (sd_usermodule.py:197-198, 209-210, 399).  For a routine that starts or ends it
\* holds for a browser that is the only one: where there are several, the answer
\* to one of them calls is_running(), after which the others see no difference
\* (sd_taskmodule.py:570, 588).
ChangesAreShown ==
  \A b \in tsBrowsers, m \in TaskName :
    LET panel == tsPanel[b]
    IN /\ (/\ (m \in panel.waiting) # (m \in tsWaiting)
           /\ m \notin tsTouches /\ tsChanged[m] > panel.since) => Found(panel.since) > panel.since
       /\ (/\ (m \in panel.running) # (m \in tsRunning)
           /\ tsBrowsers = {b} /\ tsNow > panel.at) => Found(panel.since) > panel.since
=============================================================================
