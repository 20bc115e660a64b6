------------------------------ MODULE Console ------------------------------
(***************************************************************************)
(* The console of the server (app/server/sd_console.py).  sys.stdout is a  *)
(* StringIO that the threads of the scripts write into and that the        *)
(* long-polling reads of the browsers drain on the event loop: getvalue,   *)
(* seek, truncate, seek, without a lock.  sys.stdin is a StringIO as well, *)
(* which a POST appends to while a script reads it.                        *)
(*                                                                         *)
(* A text is one value, written whole.  A drain is on the event loop, so   *)
(* that only threads come between its steps.  The bounds are the finite    *)
(* sets of texts and commands, each used once.                             *)
(***************************************************************************)
EXTENDS Naturals, Sequences, SequencesExt

CONSTANTS Client,       \* browsers, each polling with the revision it got last
          Text,         \* what the threads print
          Command,      \* what is posted to the console
          MaxLines,     \* max_lines: the length of the deque of outputs
          NoClient

ASSUME ConsoleAssumption == MaxLines \in Nat /\ NoClient \notin Client

VARIABLES conBuffer, conPos,     \* the StringIO of stdout and its position
          conBuilt,              \* build() has made it awaitable
          conOutputs, conRevision,
          conDrain,              \* who drains, how far, and what getvalue() returned
          conNotice,             \* notifications scheduled on the event loop
          conPoll, conSince,     \* of each client
          conClosed,             \* finalize()
          conQuiet, conPrinted,  \* texts printed outside of any drain; all of them
          stdinText, stdinPos,   \* the StringIO of stdin
          stdinPost,             \* the POST in progress: its command and its pos
          stdinRead              \* the commands scripts have read

conVars == <<conBuffer, conPos, conBuilt, conOutputs, conRevision, conDrain, conNotice,
             conPoll, conSince, conClosed, conQuiet, conPrinted>>
stdinVars == <<stdinText, stdinPos, stdinPost, stdinRead>>
consoleVars == <<conVars, stdinVars>>

NoDrain == [by |-> NoClient, at |-> "no", got |-> << >>]
NoPost  == [at |-> "no", pos |-> 0]

ConsoleTypeOK ==
  /\ {conBuffer, conOutputs, conQuiet} \subseteq Seq(Text)
  /\ conDrain \in [by : Client \cup {NoClient}, at : {"no", "got", "sought", "cut"}, got : Seq(Text)]
  /\ {conPos, conRevision, conNotice, stdinPos} \subseteq Nat
  /\ conPoll \in [Client -> {"away", "wait", "nap", "failed"}]
  /\ conSince \in [Client -> Nat]
  /\ {conBuilt, conClosed} \subseteq BOOLEAN
  /\ conPrinted \subseteq Text
  /\ stdinText \in Seq(Command) /\ stdinRead \in Seq(Command)
  /\ stdinPost \in [at : {"no", "tell", "end", "written"}, pos : Nat]

ConsoleInit ==
  /\ conBuffer = << >> /\ conPos = 0 /\ conBuilt = FALSE
  /\ conOutputs = << >> /\ conRevision = 1 /\ conDrain = NoDrain /\ conNotice = 0
  /\ conPoll = [c \in Client |-> "away"] /\ conSince = [c \in Client |-> 0]
  /\ conClosed = FALSE /\ conQuiet = << >> /\ conPrinted = {}
  /\ stdinText = << >> /\ stdinPos = 0 /\ stdinPost = NoPost /\ stdinRead = << >>

\* StringIO.write() overwrites from the position on (the padding, when that is
\* beyond the end, is left out).
Overwrite(buffer, pos, t) ==
  SubSeq(buffer, 1, IF pos < Len(buffer) THEN pos ELSE Len(buffer)) \o <<t>>
    \o SubSeq(buffer, pos + 2, Len(buffer))

\* A thread prints: the write, and, once build() was called, a notification
\* through the event loop.
PrintText(t) ==
  /\ t \notin conPrinted /\ ~conClosed
  /\ conPrinted' = conPrinted \cup {t}
  /\ conBuffer' = Overwrite(conBuffer, conPos, t)
  /\ conPos' = conPos + 1
  /\ conNotice' = conNotice + (IF conBuilt THEN 1 ELSE 0)
  /\ conQuiet' = IF conDrain = NoDrain THEN Append(conQuiet, t) ELSE conQuiet
  /\ UNCHANGED <<conBuilt, conOutputs, conRevision, conDrain, conPoll, conSince, conClosed, stdinVars>>

Deque(s) == SubSeq(s, Len(s) - (IF Len(s) > MaxLines THEN MaxLines ELSE Len(s)) + 1, Len(s))

\* build(), on the first read: what was printed so far goes to the outputs.
ConBuild ==
  /\ ~conBuilt /\ ~conClosed
  /\ conBuilt' = TRUE
  /\ conOutputs' = Deque(conOutputs \o conBuffer)
  /\ conBuffer' = << >> /\ conPos' = 0
  /\ UNCHANGED <<conRevision, conDrain, conNotice, conPoll, conSince, conClosed, conQuiet,
                 conPrinted, stdinVars>>

\* The end of read(): it drains when the position is not at 0, and answers.
Drain(c) ==
  \/ /\ conPos > 0
     /\ conDrain' = [by |-> c, at |-> "got", got |-> conBuffer]
     /\ UNCHANGED <<conPoll, conSince>>
  \/ /\ conPos = 0
     /\ conPoll' = [conPoll EXCEPT ![c] = "away"]
     /\ conSince' = [conSince EXCEPT ![c] = conRevision]
     /\ UNCHANGED conDrain

\* read() waits when the client has all there is.
MustWait(c) == conRevision <= conSince[c] /\ conPos = 0

ConRead(c) ==
  /\ conPoll[c] = "away" /\ conBuilt /\ ~conClosed /\ conDrain = NoDrain
  /\ \/ /\ MustWait(c)
        /\ conPoll' = [conPoll EXCEPT ![c] = "wait"]
        /\ UNCHANGED <<conDrain, conSince>>
     \/ ~MustWait(c) /\ Drain(c)
  /\ UNCHANGED <<conBuffer, conPos, conBuilt, conOutputs, conRevision, conNotice, conClosed,
                 conQuiet, conPrinted, stdinVars>>

\* Mutant: one of those that wait is woken.
MutConNotify ==
  /\ conNotice > 0 /\ conDrain = NoDrain
  /\ conNotice' = conNotice - 1
  /\ \E c \in Client :
       /\ conPoll[c] = "wait" \/ \A d \in Client : conPoll[d] # "wait"
       /\ conPoll' = [conPoll EXCEPT ![c] = IF @ = "wait" THEN "nap" ELSE @]
  /\ UNCHANGED <<conBuffer, conPos, conBuilt, conOutputs, conRevision, conDrain, conSince,
                 conClosed, conQuiet, conPrinted, stdinVars>>

\* _notify_write(): wakes all that wait, who then sleep for 0.2 s.
ConNotify ==
  /\ conNotice > 0 /\ conDrain = NoDrain
  /\ conNotice' = conNotice - 1
  /\ conPoll' = [c \in Client |-> IF conPoll[c] = "wait" THEN "nap" ELSE conPoll[c]]
  /\ UNCHANGED <<conBuffer, conPos, conBuilt, conOutputs, conRevision, conDrain, conSince,
                 conClosed, conQuiet, conPrinted, stdinVars>>

\* After the nap; tell() of a closed buffer raises.
ConAwake(c) ==
  /\ conPoll[c] = "nap" /\ conDrain = NoDrain
  /\ IF conClosed
     THEN conPoll' = [conPoll EXCEPT ![c] = "failed"] /\ UNCHANGED <<conDrain, conSince>>
     ELSE Drain(c)
  /\ UNCHANGED <<conBuffer, conPos, conBuilt, conOutputs, conRevision, conNotice, conClosed,
                 conQuiet, conPrinted, stdinVars>>

DrainSeek ==
  /\ conDrain.at = "got"
  /\ conPos' = 0
  /\ conDrain' = [conDrain EXCEPT !.at = "sought"]
  /\ UNCHANGED <<conBuffer, conBuilt, conOutputs, conRevision, conNotice, conPoll, conSince,
                 conClosed, conQuiet, conPrinted, stdinVars>>

\* truncate(0) leaves the position where it is.
DrainTruncate ==
  /\ conDrain.at = "sought"
  /\ conBuffer' = << >>
  /\ conDrain' = [conDrain EXCEPT !.at = "cut"]
  /\ UNCHANGED <<conPos, conBuilt, conOutputs, conRevision, conNotice, conPoll, conSince, conClosed,
                 conQuiet, conPrinted, stdinVars>>

\* The second seek(0), and the answer.
DrainEnd ==
  /\ conDrain.at = "cut"
  /\ conPos' = 0
  /\ conOutputs' = Deque(conOutputs \o conDrain.got)
  /\ conRevision' = conRevision + 1
  /\ conPoll' = [conPoll EXCEPT ![conDrain.by] = "away"]
  /\ conSince' = [conSince EXCEPT ![conDrain.by] = conRevision + 1]
  /\ conDrain' = NoDrain
  /\ UNCHANGED <<conBuffer, conBuilt, conNotice, conClosed, conQuiet, conPrinted, stdinVars>>

\* finalize() closes the buffers; those that wait for a write are not woken.
ConFinalize ==
  /\ ~conClosed /\ conDrain = NoDrain /\ stdinPost = NoPost
  /\ conClosed' = TRUE
  /\ UNCHANGED <<conBuffer, conPos, conBuilt, conOutputs, conRevision, conDrain, conNotice,
                 conPoll, conSince, conQuiet, conPrinted, stdinVars>>

\* POST /api/console, on the event loop: tell, seek to the end, write, and
\* back to where tell was.  Between the steps a script may read.
PostTell ==
  /\ stdinPost = NoPost /\ conDrain = NoDrain /\ ~conClosed
  /\ stdinPost' = [at |-> "tell", pos |-> stdinPos]
  /\ UNCHANGED <<conVars, stdinText, stdinPos, stdinRead>>

PostSeekEnd ==
  /\ stdinPost.at = "tell"
  /\ stdinPos' = Len(stdinText)
  /\ stdinPost' = [stdinPost EXCEPT !.at = "end"]
  /\ UNCHANGED <<conVars, stdinText, stdinRead>>

PostWrite(m) ==
  /\ stdinPost.at = "end"
  /\ ~Contains(stdinText, m)
  /\ stdinText' = Overwrite(stdinText, stdinPos, m)
  /\ stdinPos' = stdinPos + 1
  /\ stdinPost' = [stdinPost EXCEPT !.at = "written"]
  /\ UNCHANGED <<conVars, stdinRead>>

\* Mutant: the position stays at the end.
MutPostSeekBack ==
  /\ stdinPost.at = "written"
  /\ stdinPost' = NoPost
  /\ UNCHANGED <<conVars, stdinText, stdinPos, stdinRead>>

PostSeekBack ==
  /\ stdinPost.at = "written"
  /\ stdinPos' = stdinPost.pos
  /\ stdinPost' = NoPost
  /\ UNCHANGED <<conVars, stdinText, stdinRead>>

\* A script reads a line; at the end of the text there is nothing to read.
ReadLine ==
  /\ stdinPos < Len(stdinText) /\ ~conClosed
  /\ Len(stdinRead) < 2 * Len(stdinText)
  /\ stdinRead' = Append(stdinRead, stdinText[stdinPos + 1])
  /\ stdinPos' = stdinPos + 1
  /\ UNCHANGED <<conVars, stdinText, stdinPost>>

DrainStep == DrainSeek \/ DrainTruncate \/ DrainEnd

StdoutNext ==
  \/ \E t \in Text : PrintText(t)
  \/ ConBuild \/ ConNotify \/ DrainStep
  \/ \E c \in Client : ConRead(c) \/ ConAwake(c)

StdinNext ==
  \/ PostTell \/ PostSeekEnd \/ PostSeekBack
  \/ \E m \in Command : PostWrite(m)
  \/ ReadLine

ConsoleNext == StdoutNext \/ StdinNext \/ ConFinalize

\* The event loop goes on with what it has begun.
ConsoleFair ==
  /\ WF_consoleVars(ConNotify)
  /\ WF_consoleVars(DrainStep)
  /\ \A c \in Client : WF_consoleVars(ConAwake(c))

ConsoleSpec == ConsoleInit /\ [][ConsoleNext]_consoleVars /\ ConsoleFair

(***************************************************************************)
(* Properties                                                              *)
(***************************************************************************)
\* What is still to be drained, or is being drained.
Pending == IF conDrain = NoDrain THEN conBuffer ELSE conDrain.got

\* A text printed while no drain is under way is kept, and the kept ones in
\* the order they were printed, each once; only the oldest are dropped, and
\* only when the outputs are full.  (A text printed by a thread during a drain
\* may be lost, overwritten or shown late.)
QuietTextKept ==
  LET shown   == conOutputs \o Pending
      Kept(k) == \E i \in 1 .. Len(shown) : shown[i] = conQuiet[k]
  IN  /\ \A i, j \in 1 .. Len(shown), k, l \in 1 .. Len(conQuiet) :
           (i < j /\ shown[i] = conQuiet[k] /\ shown[j] = conQuiet[l]) => k < l
      /\ \A k, l \in 1 .. Len(conQuiet) : (Kept(k) /\ k < l) => Kept(l)
      /\ (\E k \in 1 .. Len(conQuiet) : ~Kept(k)) => Len(conOutputs) = MaxLines

\* No command is passed over: the position never gets beyond a command that
\* no script has read, but for the steps of a POST.  (One read between tell()
\* and seek() of a POST is read twice.)
NoCommandSkipped ==
  stdinPost.at \in {"no", "tell"} =>
    \A i \in 1 .. stdinPos : Contains(stdinRead, stdinText[i])

\* There is something for a client, in the buffer or in a revision it has not seen.
NewsFor(c) == conPos > 0 \/ conRevision > conSince[c]

\* Whenever a client waits with something there for it, a notification is on its
\* way: none is used up by others before it (sd_console.py, read() and
\* _notify_write()).
NotificationPending ==
  \A c \in Client : (conPoll[c] = "wait" /\ NewsFor(c)) => conNotice > 0

\* The three together: nothing printed or posted at a quiet time is lost, nor is
\* the notification that wakes those who wait for it.
ConsoleLosesNothing == QuietTextKept /\ NoCommandSkipped /\ NotificationPending

\* A client that waits with something there for it is woken.
PollersWoken ==
  \A c \in Client : (conPoll[c] = "wait" /\ NewsFor(c)) ~> conPoll[c] # "wait"
=============================================================================
