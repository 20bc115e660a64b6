--------------------------- MODULE MCParts_proofs ---------------------------
(***************************************************************************)
(* The specification that is model-checked, of all the parts beside each   *)
(* other, keeps what each part keeps: a step of it is a step of each part, *)
(* most of them a stutter.  The state of a part that is not the chosen one *)
(* is an initial state of it all along, but for the answer to a request,   *)
(* which is not there in the behaviours of other parts.                    *)
(***************************************************************************)
EXTENDS MCParts, SlowpyParts_proofs, ServerParts_proofs

PartsInv ==
  /\ RampingInv /\ ConsoleInv /\ TaskletInv /\ SubscriberInv /\ RabbitInv /\ CurrentDataInv
  /\ TaskStatusInv /\ NodeThreadInv /\ RequestsStand /\ HdlInv /\ TrendInv /\ ResampleInv
  /\ IF part = "answer" THEN DataAnswerInv ELSE daList = << >>

\* Each part begins in one of its initial states.
LEMMA InitParts == Init => PartsInv
<1> SUFFICES ASSUME Init PROVE PartsInv
    OBVIOUS
<1>1. /\ RampingInit /\ ConsoleInit /\ TaskletInit /\ BrokerInit /\ RabbitInit /\ CurrentDataInit
      /\ TaskStatusInit /\ NodeThreadInit /\ HdlInit /\ TrendInit /\ ResampleInit
      /\ IF part = "answer" THEN DataAnswerInit ELSE daList = << >>
    BY Zenon DEF Init, At
<1> QED
    BY <1>1, InitRamping, InitConsole, InitTasklet, InitSubscriber, InitRabbit, InitCurrentData,
       InitTaskStatus, InitNodeThread, InitStands, HdlInitInv, InitTrend,
       InitResample, InitAnswerInv DEF PartsInv

\* A step of the whole is a step or a stutter of each part.
LEMMA StepOfEach ==
  ASSUME [Next]_vars
  PROVE  /\ [RampingNext]_rampVars /\ [ConsoleNext]_consoleVars /\ [TaskletNext]_tlVars
         /\ [BrokerNext]_bkVars /\ [RabbitNext]_rabbitVars /\ [CurrentDataNext]_cdVars
         /\ [TaskStatusNext]_tsVars /\ [NodeThreadNext]_ntVars /\ [HdlNext]_hdVars
         /\ [TrendNext]_trVars /\ [ResampleNext]_rsSeries /\ [MergeLast]_daVars
         /\ part' = part /\ (part # "answer" => UNCHANGED daVars)
<1>1. CASE UNCHANGED vars
    BY <1>1 DEF vars
<1>2. CASE Next
    BY <1>2 DEF Next, Only, ConsoleNext
<1> QED
    BY <1>1, <1>2

\* The invariants of the parts are kept together.
LEMMA StepParts == PartsInv /\ [Next]_vars => PartsInv'
<1> SUFFICES ASSUME PartsInv, [Next]_vars PROVE PartsInv'
    OBVIOUS
<1>1. /\ RampingInv' /\ ConsoleInv' /\ TaskletInv' /\ SubscriberInv' /\ RabbitInv'
      /\ CurrentDataInv'
    BY StepOfEach, RampingStep, ConsoleStep, TaskletStep, SubscriberStep, RabbitStep, CurrentDataStep
       DEF PartsInv
<1>2. TaskStatusInv' /\ NodeThreadInv' /\ RequestsStand' /\ HdlInv' /\ TrendInv' /\ ResampleInv'
    BY StepOfEach, TaskStatusStep, NodeThreadStep, StandsStep, HdlStep, TrendStep,
       ResampleStep DEF PartsInv
<1>3. IF part' = "answer" THEN DataAnswerInv' ELSE daList' = << >>
  <2>1. part' = part /\ [MergeLast]_daVars /\ (part # "answer" => UNCHANGED daVars)
      BY StepOfEach
  <2> QED
      BY <2>1, AnswerStep DEF PartsInv, daVars
<1> QED
    BY <1>1, <1>2, <1>3 DEF PartsInv

\* Whatever the constants, all variables of all parts keep their types.
THEOREM PartsTypeCorrect == Spec => []PartsTypeOK
<1>1. PartsInv => PartsTypeOK
    BY DEF PartsInv, PartsTypeOK, RampingInv, ConsoleInv, TaskletInv, SubscriberInv, RabbitInv,
           CurrentDataInv, TaskStatusInv, NodeThreadInv, HdlInv, TrendInv
<1> QED
    BY InitParts, StepParts, <1>1, PTL DEF Spec

\* What the parts promise, whatever their constants and with the other parts
\* beside them: ramps end at the last target; the console loses no text and no
\* notification; a subscribed client hears; a call does not take the reply of another; a set value stays;
\* no change of a status is passed over; the answer to a request is current; an
\* HDL cycle is at once; a trend shows its fills; a node knows its thread, and
\* what it is told stays said; resampling covers its window, counts each of its
\* points once, and keeps the points before it.
THEOREM PartsKeepPromises ==
  Spec => [](/\ RampEndsAtLastTarget /\ ConsoleLosesNothing /\ RepliesKept /\ SetValueStays
             /\ ChangesAreShown /\ AnswerIsCurrent /\ CycleIsAtOnce /\ TrendShowsFills
             /\ KnownThread /\ RequestsStand /\ ResampleKeepsPoints /\ SubscribedHears)
<1>1. ASSUME PartsInv
      PROVE  /\ RampEndsAtLastTarget /\ ConsoleLosesNothing /\ RepliesKept /\ SetValueStays
             /\ ChangesAreShown /\ AnswerIsCurrent /\ CycleIsAtOnce /\ TrendShowsFills
             /\ KnownThread /\ RequestsStand /\ ResampleKeepsPoints /\ SubscribedHears
  <2>1. RampEndsAtLastTarget /\ ConsoleLosesNothing /\ ChangesAreShown
      BY <1>1, RampingInvEnds, ConsoleInvLosesNothing, TaskStatusInvShows DEF PartsInv
  <2>2. RepliesKept /\ SetValueStays /\ SubscribedHears
      BY <1>1 DEF PartsInv, RabbitInv, SubscriberInv, CurrentDataInv, ValueInv, SetValueStays, Sets
  <2>3. CycleIsAtOnce /\ TrendShowsFills /\ KnownThread /\ RequestsStand
      BY <1>1, HdlInvCycle, TrendInvShows, NodeThreadInvKnows DEF PartsInv
  <2>4. AnswerIsCurrent
    <3>1. daList = << >> => ~Answered
        BY DEF Answered
    <3> QED
        BY <1>1, <3>1, AnswerInvIsCurrent DEF PartsInv, AnswerIsCurrent
  <2>5. ResampleKeepsPoints
      BY <1>1, ResampleInvKeeps DEF PartsInv, ResampleKeepsPoints
  <2> QED
      BY <2>1, <2>2, <2>3, <2>4, <2>5
<1> QED
    BY InitParts, StepParts, <1>1, PTL DEF Spec

\* A minute of the list of times passes without a call only while the task is
\* behind, and none is served twice, with the other parts beside the tasklet.
THEOREM PartsKeepSchedule == Spec => ScheduleKept
<1>1. PartsInv /\ [Next]_vars =>
        [/\ (Scheduling /\ tlNow' # tlNow /\ tlNow \in tlTimes /\ ~tlServed) => tlBehind'
         /\ (tlTask["schedule"] = "idle" /\ tlTask'["schedule"] = "call") => ~tlServed]_tlVars
    BY StepOfEach, TaskletInvKeepsSchedule DEF PartsInv
<1> QED
    BY InitParts, StepParts, <1>1, PTL DEF Spec, ScheduleKept
=============================================================================
