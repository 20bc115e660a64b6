------------------------------ MODULE MCParts ------------------------------
(***************************************************************************)
(* Model checking the parts that do not act on each other, in one run.  A  *)
(* behaviour is one of the part it has chosen at the start; the other      *)
(* parts stay at one of their initial states, so that the graph is the sum *)
(* of the graphs of the parts and not their product.                       *)
(***************************************************************************)
EXTENDS Ramping, Console, Tasklet, BrokerClient, RabbitRPC, DataAnswer, Resample,
        CurrentData, MCTopicMatch, TaskStatus, NodeThread, HdlClock, Trend

VARIABLE part

FirstBrowser == CHOOSE b \in Browser : TRUE

Part == {"ramp", "stdout", "stdin", "tasklet", "broker", "rabbit", "answer", "resample",
         "current", "topic", "status", "thread", "hdl", "trend"}

vars == <<part, rampVars, consoleVars, tlVars, bkVars, rabbitVars, daVars, rsSeries, cdVars,
          topicVars, tsVars, ntVars, hdVars, trVars>>

\* Where a part has many initial states, one stands for them elsewhere.
At(p, here, there) == IF part = p THEN here ELSE here /\ there

Init ==
  /\ part \in Part
  /\ ConsoleInit /\ RabbitInit /\ ResampleInit /\ CurrentDataInit /\ TopicInit
  /\ NodeThreadInit /\ HdlInit /\ TrendInit
  /\ At("ramp", RampingInit, rampSuspends)
  /\ At("tasklet", TaskletInit, tlTimes = CHOOSE l \in TimeLists : TRUE)
  /\ At("broker", BrokerInit, bkKind = "slowmq" /\ bkPublishes /\ bkUp)
  /\ \/ tsBrowsers = {FirstBrowser} /\ tsTasks = TaskName
     \/ part = "status" /\ tsBrowsers = Browser /\ \E m \in TaskName : tsTasks = {m}
  /\ TaskStatusInit
  /\ IF part = "answer"
     THEN DataAnswerInit
     ELSE /\ daTo = 0 /\ daStores = << >> /\ daTask = FALSE
          /\ daUser = "none" /\ daCache = {} /\ daList = << >>

\* A step of part p, in which the others stay as they are.
Only(p) ==
  /\ part = p /\ part' = part
  /\ p # "ramp" => UNCHANGED rampVars
  /\ p \notin {"stdout", "stdin"} => UNCHANGED consoleVars
  /\ p # "tasklet" => UNCHANGED tlVars
  /\ p # "broker" => UNCHANGED bkVars
  /\ p # "rabbit" => UNCHANGED rabbitVars
  /\ p # "answer" => UNCHANGED daVars
  /\ p # "resample" => UNCHANGED rsSeries
  /\ p # "current" => UNCHANGED cdVars
  /\ p # "topic" => UNCHANGED topicVars
  /\ p # "status" => UNCHANGED tsVars
  /\ p # "thread" => UNCHANGED ntVars
  /\ p # "hdl" => UNCHANGED hdVars
  /\ p # "trend" => UNCHANGED trVars

Next ==
  \/ Only("ramp") /\ RampingNext
  \/ Only("stdout") /\ (StdoutNext \/ ConFinalize)
  \/ Only("stdin") /\ (StdinNext \/ ConFinalize)
  \/ Only("tasklet") /\ TaskletNext
  \/ Only("broker") /\ BrokerNext
  \/ Only("rabbit") /\ RabbitNext
  \/ Only("answer") /\ MergeLast
  \/ Only("resample") /\ ResampleNext
  \/ Only("current") /\ CurrentDataNext
  \/ Only("topic") /\ TopicNext
  \/ Only("status") /\ TaskStatusNext
  \/ Only("thread") /\ NodeThreadNext
  \/ Only("hdl") /\ HdlNext
  \/ Only("trend") /\ TrendNext

\* The fairness of the parts of which a liveness property is checked.
Fairness ==
  /\ WF_vars(Only("stdout") /\ ConNotify)
  /\ WF_vars(Only("stdout") /\ DrainStep)
  /\ \A c \in Client : WF_vars(Only("stdout") /\ ConAwake(c))
  /\ WF_vars(Only("broker") /\ LinkBack)
  /\ WF_vars(Only("broker") /\ ClientStep)
  /\ \A s \in WithNode :
       /\ \A c \in NodeCaller : WF_vars(Only("thread") /\ NodeCallStep(s, c))
       /\ \A k \in 1 .. MaxStarts : WF_vars(Only("thread") /\ LoopSees(s, k))

Spec == Init /\ [][Next]_vars /\ Fairness

-----------------------------------------------------------------------------
\* The type invariants of the parts.
PartsTypeOK ==
  /\ RampingTypeOK /\ ConsoleTypeOK /\ TaskletTypeOK /\ BrokerTypeOK /\ RabbitTypeOK
  /\ CurrentDataTypeOK /\ TaskStatusTypeOK /\ NodeThreadTypeOK /\ HdlTypeOK /\ TrendTypeOK

\* A subscriber's connection heals, in the behaviours of that part; and what is
\* stranded was so by the loss of its connection.
SubscribersHeal == StrandedByLoss /\ ((part = "broker") => SubscriberHeals)
=============================================================================
