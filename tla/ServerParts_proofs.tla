-------------------------- MODULE ServerParts_proofs --------------------------
(*************************************************************************)
(* What the parts of the server guarantee for every value of their       *)
(* constants: the values of the tasks in the cache and in the browsers, the *)
(* status of the tasks, the answer to a request of data, resampling, and *)
(* the console.                                                          *)
(*************************************************************************)
EXTENDS CurrentData, TaskStatus, DataAnswer, Resample, Console,
        DataLemmas, SequenceTheorems, TLAPS

(***************************************************************************)
(* What CurrentData guarantees for any variables, emissions and browsers:  *)
(* a publication never undoes a value that was set.  The argument: what a  *)
(* task has published is never left to the task component to set (OwnInv), *)
(* and what is left of an emission of others is the last value for it, as  *)
(* long as these do not overlap (MessageInv).                              *)
(***************************************************************************)
\* e is an emission of others that has n still to set.
Sets(e, n) == cdEmission[e].own = {} /\ n \in cdEmission[e].todo

OwnInv ==
  \A e \in Emission :
    /\ cdEmission[e].at = "new" => cdEmission[e].own = {} /\ cdEmission[e].todo = {}
    /\ cdEmission[e].own # {} => cdEmission[e].todo \subseteq cdEmission[e].own

MessageInv ==
  cdOrderly => \A e \in Emission, n \in Variable :
    Sets(e, n) => \A p \in cdEmission[e].message : p[1] = n => p[2] = cdSet[n]

ValueInv ==
  cdOrderly => \A n \in Variable : (\A e \in Emission : ~Sets(e, n)) => cdValue[n] = cdSet[n]

CurrentDataInv == CurrentDataTypeOK /\ OwnInv /\ MessageInv /\ ValueInv

-----------------------------------------------------------------------------
(* Type correctness.                                                       *)

State == [at : {"new", "read", "set", "send", "done"}, own : SUBSET Variable,
          message : SUBSET (Variable \X Content), todo : SUBSET Variable]

\* What the cache makes of a message is a part of it.
LEMMA CachedType ==
  ASSUME CurrentDataTypeOK, NEW m \in SUBSET (Variable \X Content)
  PROVE  Cached(m) \subseteq Variable \X Content
BY DEF CurrentDataTypeOK, Cached

\* Every step of an emission or of a browser keeps the types.
LEMMA CurrentDataStepType ==
  CurrentDataTypeOK /\ [CurrentDataNext]_cdVars => CurrentDataTypeOK'
<1> SUFFICES ASSUME CurrentDataTypeOK, [CurrentDataNext]_cdVars PROVE CurrentDataTypeOK'
    OBVIOUS
<1> USE DEF CurrentDataTypeOK
<1>0. cdEmission \in [Emission -> State]
    BY DEF State
<1>1. ASSUME NEW e \in Emission, NEW n \in Variable, PublishRead(e, n) PROVE CurrentDataTypeOK'
  <2>1. [at |-> "read", own |-> {n}, message |-> {<<n, cdValue[n]>>}, todo |-> {n}] \in State
      BY DEF State
  <2>2. cdEmission' \in [Emission -> State]
      BY <1>0, <1>1, <2>1 DEF PublishRead
  <2> QED
      BY <1>1, <2>2 DEF PublishRead, State
<1>2. ASSUME NEW e \in Emission, NEW n \in Variable, SetVariable(e, n) PROVE CurrentDataTypeOK'
  <2>1. PICK p \in cdEmission[e].message : cdValue' = [cdValue EXCEPT ![n] = p[2]]
      BY <1>2 DEF SetVariable
  <2>2. p[2] \in Content
      OBVIOUS
  <2>3. cdEmission' \in [Emission -> State]
      BY <1>2 DEF SetVariable, State
  <2> QED
      BY <1>2, <2>1, <2>2, <2>3 DEF SetVariable, State
<1>3. ASSUME NEW e \in Emission, NEW n \in Variable, SetVariableFails(e, n)
      PROVE  CurrentDataTypeOK'
    BY <1>3 DEF SetVariableFails
<1>4. ASSUME NEW e \in Emission, PublishEmit(e) PROVE CurrentDataTypeOK'
  <2>1. cdCache' \subseteq Variable \X Content
      BY <1>4, CachedType DEF PublishEmit
  <2> QED
      BY <1>4, <2>1 DEF PublishEmit
<1>5. ASSUME NEW e \in Emission, Consumed(e) PROVE CurrentDataTypeOK'
    BY <1>5 DEF Consumed
<1>6. ASSUME NEW e \in Emission, Broadcast(e) PROVE CurrentDataTypeOK'
  <2>1. cdShown' \in [Viewer -> [Variable -> Content]]
    <3> DEFINE m == cdEmission[e].message
    <3>1. ASSUME NEW n \in NamesOf(m) PROVE (CHOOSE p \in m : p[1] = n)[2] \in Content
      <4>1. \E p \in m : p[1] = n
          BY DEF NamesOf
      <4>2. (CHOOSE p \in m : p[1] = n) \in m
          BY <4>1
      <4>3. m \subseteq Variable \X Content
          OBVIOUS
      <4> QED
          BY <4>2, <4>3
    <3> QED
        BY <1>6, <3>1 DEF Broadcast
  <2> QED
      BY <1>6, <2>1 DEF Broadcast
<1>7. ASSUME NEW e \in Emission, NEW names \in SUBSET Variable, NEW timed \in BOOLEAN,
             EmitOthers(e, names, timed)
      PROVE  CurrentDataTypeOK'
  <2>1. Pairs(names, e) \subseteq Variable \X Content
      BY DEF Pairs, Content
  <2>2. cdCache' \subseteq Variable \X Content
      BY <1>7, <2>1, CachedType DEF EmitOthers
  <2>3. [at |-> "set", own |-> {}, message |-> Pairs(names, e), todo |-> names] \in State
      BY <2>1 DEF State
  <2>4. cdEmission' \in [Emission -> State]
      BY <1>0, <1>7, <2>3 DEF EmitOthers
  <2>5. cdSet' \in [Variable -> Content]
      BY <1>7 DEF EmitOthers, Content
  <2>6. cdOrderly' \in BOOLEAN
      BY <1>7 DEF EmitOthers
  <2> QED
      BY <1>7, <2>2, <2>4, <2>5, <2>6 DEF EmitOthers, State
<1>8. ASSUME NEW w \in Viewer, Attach(w) \/ Detach(w) PROVE CurrentDataTypeOK'
    BY <1>8 DEF Attach, Detach
<1>9. CASE UNCHANGED cdVars
    BY <1>9 DEF cdVars
<1> QED
    BY <1>1, <1>2, <1>3, <1>4, <1>5, <1>6, <1>7, <1>8, <1>9 DEF CurrentDataNext

-----------------------------------------------------------------------------
(* Values.                                                                 *)

\* A step that leaves the values alone, takes nothing from what others have
\* still to set, and adds nothing to it.
LEMMA NothingSet ==
  ASSUME CurrentDataInv, UNCHANGED <<cdValue, cdSet>>, cdOrderly' => cdOrderly,
         \A e \in Emission, n \in Variable : Sets(e, n)' <=> Sets(e, n),
         \A e \in Emission : cdEmission[e].own = {} /\ cdEmission[e].todo # {}
           => cdEmission'[e].message = cdEmission[e].message
  PROVE  MessageInv' /\ ValueInv'
<1>1. MessageInv'
    BY DEF CurrentDataInv, CurrentDataTypeOK, MessageInv, Sets
<1>2. ValueInv'
    BY DEF CurrentDataInv, ValueInv
<1> QED
    BY <1>1, <1>2

\* Every step keeps what is left of the emissions in line with the values.
LEMMA CurrentDataStepInv ==
  CurrentDataInv /\ [CurrentDataNext]_cdVars => OwnInv' /\ MessageInv' /\ ValueInv'
<1> SUFFICES ASSUME CurrentDataInv, [CurrentDataNext]_cdVars
             PROVE  OwnInv' /\ MessageInv' /\ ValueInv'
    OBVIOUS
<1> USE DEF CurrentDataTypeOK, OwnInv
<1>0. CurrentDataTypeOK /\ OwnInv /\ MessageInv /\ ValueInv
    BY DEF CurrentDataInv
<1>1. ASSUME NEW e \in Emission, NEW n \in Variable, PublishRead(e, n)
      PROVE  OwnInv' /\ MessageInv' /\ ValueInv'
  <2>1. OwnInv'
      BY <1>0, <1>1 DEF PublishRead
  <2>2. ~Sets(e, n)' /\ \A d \in Emission \ {e} : cdEmission'[d] = cdEmission[d]
      BY <1>0, <1>1 DEF PublishRead, Sets
  <2>3. \A k \in Variable : ~Sets(e, k) /\ ~Sets(e, k)'
      BY <1>0, <1>1 DEF PublishRead, Sets
  <2>4. MessageInv' /\ ValueInv'
    <3>1. \A d \in Emission, k \in Variable : Sets(d, k)' <=> Sets(d, k)
        BY <2>2, <2>3 DEF Sets
    <3>2. \A d \in Emission : cdEmission[d].own = {} /\ cdEmission[d].todo # {}
            => cdEmission'[d].message = cdEmission[d].message
        BY <1>0, <1>1, <2>2 DEF PublishRead
    <3> QED
        BY <1>1, <3>1, <3>2, NothingSet DEF PublishRead
  <2> QED
      BY <2>1, <2>4
<1>2. ASSUME NEW e \in Emission, NEW n \in Variable, SetVariable(e, n)
      PROVE  OwnInv' /\ MessageInv' /\ ValueInv'
  <2>1. n \in cdEmission[e].todo /\ cdEmission[e].own = {}
      BY <1>0, <1>2 DEF SetVariable, LeftToSet
  <2>2. PICK p \in cdEmission[e].message : p[1] = n /\ cdValue' = [cdValue EXCEPT ![n] = p[2]]
      BY <1>2 DEF SetVariable
  <2>3. cdEmission' = [cdEmission EXCEPT ![e].todo = @ \ {n}] /\ UNCHANGED <<cdSet, cdOrderly>>
      BY <1>2 DEF SetVariable
  <2>4. OwnInv'
      BY <1>0, <2>1, <2>3
  <2>5. \A d \in Emission, k \in Variable : Sets(d, k)' => Sets(d, k)
      BY <1>0, <2>3 DEF Sets
  <2>6. \A d \in Emission : cdEmission'[d].message = cdEmission[d].message
      BY <1>0, <2>3
  <2>7. MessageInv'
      BY <1>0, <2>3, <2>5, <2>6 DEF MessageInv
  <2>8. ASSUME cdOrderly', NEW k \in Variable, \A d \in Emission : ~Sets(d, k)'
        PROVE  cdValue'[k] = cdSet'[k]
    <3>1. CASE k = n
      <4>1. p[2] = cdSet[n]
          BY <1>0, <2>1, <2>2, <2>3, <2>8 DEF MessageInv, Sets
      <4> QED
          BY <1>0, <2>2, <2>3, <3>1, <4>1
    <3>2. CASE k # n
      <4>1. \A d \in Emission : Sets(d, k)' <=> Sets(d, k)
          BY <1>0, <2>3, <3>2 DEF Sets
      <4> QED
          BY <1>0, <2>2, <2>3, <2>8, <3>2, <4>1 DEF ValueInv
    <3> QED
        BY <3>1, <3>2
  <2> QED
      BY <2>4, <2>7, <2>8 DEF ValueInv
<1>3. ASSUME NEW e \in Emission, NEW n \in Variable, SetVariableFails(e, n)
      PROVE  OwnInv' /\ MessageInv' /\ ValueInv'
  <2>1. OwnInv'
      BY <1>0, <1>3 DEF SetVariableFails
  <2> QED
      BY <1>3, <2>1 DEF SetVariableFails, MessageInv, ValueInv
<1>4. ASSUME NEW e \in Emission, PublishEmit(e) \/ Consumed(e) \/ Broadcast(e)
      PROVE  OwnInv' /\ MessageInv' /\ ValueInv'
  <2>1. \A d \in Emission : /\ cdEmission'[d].own = cdEmission[d].own
                            /\ cdEmission'[d].message = cdEmission[d].message
                            /\ cdEmission'[d].at = "new" => cdEmission[d].at = "new"
                            /\ \/ cdEmission'[d].todo = cdEmission[d].todo
                               \/ cdEmission'[d].todo = {} /\ LeftToSet(d) = {}
    <3>1. CASE PublishEmit(e)
        BY <1>0, <3>1 DEF PublishEmit
    <3>2. CASE Consumed(e)
        BY <1>0, <3>2 DEF Consumed
    <3>3. CASE Broadcast(e)
        BY <1>0, <3>3 DEF Broadcast
    <3> QED
        BY <1>4, <3>1, <3>2, <3>3
  <2>2. OwnInv'
      BY <1>0, <2>1
  <2>3. \A d \in Emission : cdEmission[d].own = {} => cdEmission'[d].todo = cdEmission[d].todo
      BY <2>1 DEF LeftToSet
  <2>4. \A d \in Emission, k \in Variable : Sets(d, k)' <=> Sets(d, k)
      BY <2>1, <2>3 DEF Sets
  <2>5. UNCHANGED <<cdValue, cdSet, cdOrderly>>
      BY <1>4 DEF PublishEmit, Consumed, Broadcast
  <2> QED
      BY <2>1, <2>2, <2>4, <2>5, NothingSet
<1>5. ASSUME NEW e \in Emission, NEW names \in SUBSET Variable, NEW timed \in BOOLEAN,
             EmitOthers(e, names, timed)
      PROVE  OwnInv' /\ MessageInv' /\ ValueInv'
  <2>1. cdEmission'[e] = [at |-> "set", own |-> {}, message |-> Pairs(names, e), todo |-> names]
      BY <1>0, <1>5 DEF EmitOthers
  <2>2. \A d \in Emission \ {e} : cdEmission'[d] = cdEmission[d]
      BY <1>0, <1>5 DEF EmitOthers
  <2>3. cdEmission[e].own = {} /\ cdEmission[e].todo = {}
      BY <1>0, <1>5 DEF EmitOthers
  <2>4. cdSet' = [k \in Variable |-> IF k \in names THEN e ELSE cdSet[k]] /\ cdValue' = cdValue
      BY <1>5 DEF EmitOthers
  <2>5. cdOrderly' => cdOrderly /\ \A d \in Emission :
          cdEmission[d].own = {} => cdEmission[d].todo \cap names = {}
      BY <1>5 DEF EmitOthers
  <2>6. OwnInv'
    <3> SUFFICES ASSUME NEW d \in Emission
                 PROVE  /\ cdEmission'[d].at = "new"
                             => cdEmission'[d].own = {} /\ cdEmission'[d].todo = {}
                        /\ cdEmission'[d].own # {}
                             => cdEmission'[d].todo \subseteq cdEmission'[d].own
        OBVIOUS
    <3>1. CASE d = e
        BY <2>1, <3>1
    <3>2. CASE d # e
        BY <1>0, <2>2, <3>2
    <3> QED
        BY <3>1, <3>2
  <2>7. ASSUME cdOrderly', NEW d \in Emission, NEW k \in Variable, Sets(d, k)',
               NEW p \in cdEmission'[d].message, p[1] = k
        PROVE  p[2] = cdSet'[k]
    <3>1. CASE d = e
        BY <2>1, <2>4, <2>7, <3>1 DEF Pairs, Sets
    <3>2. CASE d # e
      <4>1. Sets(d, k) /\ k \notin names
          BY <2>2, <2>5, <2>7, <3>2 DEF Sets
      <4> QED
          BY <1>0, <2>2, <2>4, <2>5, <2>7, <3>2, <4>1 DEF MessageInv
    <3> QED
        BY <3>1, <3>2
  <2>8. ASSUME cdOrderly', NEW k \in Variable, \A d \in Emission : ~Sets(d, k)'
        PROVE  cdValue'[k] = cdSet'[k]
    <3>1. k \notin names
        BY <2>1, <2>8 DEF Sets
    <3>2. \A d \in Emission : ~Sets(d, k)
        BY <2>2, <2>3, <2>8 DEF Sets
    <3> QED
        BY <1>0, <2>4, <2>5, <2>8, <3>1, <3>2 DEF ValueInv
  <2> QED
      BY <2>6, <2>7, <2>8 DEF MessageInv, ValueInv
<1>6. CASE UNCHANGED cdVars \/ \E w \in Viewer : Attach(w) \/ Detach(w)
  <2>1. UNCHANGED <<cdEmission, cdValue, cdSet, cdOrderly>>
      BY <1>6 DEF Attach, Detach, cdVars
  <2>2. OwnInv'
      BY <1>0, <2>1
  <2>3. \A d \in Emission, k \in Variable : Sets(d, k)' <=> Sets(d, k)
      BY <2>1 DEF Sets
  <2> QED
      BY <2>1, <2>2, <2>3, NothingSet
<1> QED
    BY <1>1, <1>2, <1>3, <1>4, <1>5, <1>6 DEF CurrentDataNext

\* Nothing is cached at first, and no emission has begun.
LEMMA InitCurrentData == CurrentDataInit => CurrentDataInv
<1> SUFFICES ASSUME CurrentDataInit PROVE CurrentDataInv
    OBVIOUS
<1>1. CurrentDataTypeOK
    BY DEF CurrentDataInit, CurrentDataTypeOK, Content, NoMessage
<1>2. OwnInv /\ MessageInv /\ ValueInv
    BY DEF CurrentDataInit, OwnInv, MessageInv, ValueInv, Sets
<1> QED
    BY <1>1, <1>2 DEF CurrentDataInv

\* What emissions and browsers do keeps it.
LEMMA CurrentDataStep == CurrentDataInv /\ [CurrentDataNext]_cdVars => CurrentDataInv'
    BY CurrentDataStepType, CurrentDataStepInv DEF CurrentDataInv

-----------------------------------------------------------------------------
\* Whatever is published meanwhile, and whatever browsers come and go: a
\* variable keeps the value it was set to last, as long as those that set it
\* do not overlap (sd_taskmodule.py, set_variable; system.py, aio_publish).
THEOREM CurrentDataSet == CurrentDataSpec => []SetValueStays
<1>1. CurrentDataInv => SetValueStays
    BY DEF CurrentDataInv, ValueInv, SetValueStays, Sets
<1> QED
    BY InitCurrentData, CurrentDataStep, <1>1, PTL DEF CurrentDataSpec

(*************************************************************************)
(* TaskStatus: whatever the tasks, browsers and instants.  The clock is ahead *)
(* of all that has been noted of it (TimeInv), a module that no thread is *)
(* about to touch has been touched since its change (TouchedInv), and what *)
(* the only browser shows is what the polls returned last (AloneInv).    *)
(*************************************************************************)
\* The clock is ahead of all that has been noted of it.
TimeInv ==
  /\ tsAnswered <= tsNow
  /\ \A m \in TaskName : tsRevision[m] <= tsNow /\ tsChanged[m] <= tsNow
  /\ \A b \in Browser : /\ tsPanel[b].since <= tsPanel[b].at
                        /\ tsPanel[b].at <= tsNow
                        /\ tsPanel[b].poll = "wait" => tsPanel[b].at < tsNow

\* A module that no thread is about to touch has been touched since its change.
TouchedInv == \A m \in TaskName \ tsTouches : tsChanged[m] <= tsRevision[m]

\* What the only browser shows is what the polls returned last.
AloneInv == \A b \in Browser : tsBrowsers = {b} => tsPanel[b].running = tsWas

TaskStatusInv == TaskStatusTypeOK /\ TimeInv /\ TouchedInv /\ AloneInv

-----------------------------------------------------------------------------
\* What a poll finds lies between what was answered before and now.
LEMMA FoundOf ==
  ASSUME TaskStatusTypeOK, TimeInv, NEW since \in Nat
  PROVE  /\ Found(since) \in 1 .. MaxSecond /\ Found(since) <= tsNow
         /\ tsAnswered <= Found(since)
         /\ tsAnswered <= since => \A m \in TaskName : Noticed[m] <= Found(since)
         /\ Noticed \in [TaskName -> 1 .. MaxSecond]
         /\ \A m \in TaskName : Noticed[m] <= tsNow /\ tsRevision[m] <= Noticed[m]
<1> USE TaskStatusAssumption DEF TaskStatusTypeOK, TimeInv
<1>1. Noticed \in [TaskName -> 1 .. MaxSecond]
    BY DEF Noticed
<1>2. \A m \in TaskName : Noticed[m] <= tsNow /\ tsRevision[m] <= Noticed[m]
    BY DEF Noticed
<1> DEFINE S == {tsAnswered} \cup {Noticed[m] : m \in TaskName}
<1>3. S \subseteq 1 .. MaxSecond /\ S # {} /\ \A x \in S : x <= tsNow
    BY <1>1, <1>2
<1>4. Max(S) \in S /\ \A x \in S : x <= Max(S)
  <2> HIDE DEF S
  <2>1. S \subseteq 0 .. MaxSecond
      BY <1>3
  <2> QED
      BY <2>1, <1>3, TaskStatusAssumption, MaxOf
<1>5. CASE tsAnswered > since
    BY <1>1, <1>2, <1>5 DEF Found
<1>6. CASE ~(tsAnswered > since)
  <2>1. Found(since) = Max(S)
      BY <1>6, Zenon DEF Found
  <2>2. \A m \in TaskName : Noticed[m] \in S
      OBVIOUS
  <2>3. tsAnswered \in S
      OBVIOUS
  <2> HIDE DEF S
  <2> QED
      BY <1>1, <1>2, <1>3, <1>4, <2>1, <2>2, <2>3
<1> QED
    BY <1>5, <1>6

\* A look of the only browser that finds nothing new finds nothing changed.
LEMMA NothingNew ==
  ASSUME TaskStatusTypeOK, TimeInv, NEW b \in Browser, Found(tsPanel[b].since) <= tsPanel[b].since,
         tsPanel[b].poll = "wait" \/ tsNow > tsPanel[b].at
  PROVE  tsWas = tsRunning
<1> DEFINE since == tsPanel[b].since
<1>1. since \in Nat /\ since < tsNow
    BY TaskStatusAssumption DEF TaskStatusTypeOK, TimeInv
<1>2. tsAnswered <= since
    BY <1>1, FoundOf DEF TaskStatusTypeOK
<1>3. \A m \in TaskName : Noticed[m] < tsNow
    BY <1>1, <1>2, FoundOf DEF TaskStatusTypeOK
<1>4. \A m \in TaskName : m \in tsWas <=> m \in tsRunning
    BY <1>3 DEF Noticed, TaskStatusTypeOK
<1> QED
    BY <1>4 DEF TaskStatusTypeOK

\* The invariant of the status of tasks is inductive.
LEMMA TaskStatusStep == TaskStatusInv /\ [TaskStatusNext]_tsVars => TaskStatusInv'
<1> SUFFICES ASSUME TaskStatusInv, [TaskStatusNext]_tsVars PROVE TaskStatusInv'
    OBVIOUS
<1> USE TaskStatusAssumption
    DEF TaskStatusInv, TaskStatusTypeOK, TimeInv, TouchedInv, AloneInv, tsWho, Touched
<1>1. CASE Second
    BY <1>1 DEF Second
<1>2. ASSUME NEW m \in tsTasks, RoutineStarts(m) PROVE TaskStatusInv'
    BY <1>2 DEF RoutineStarts
<1>3. ASSUME NEW m \in tsTasks, RoutineEnds(m) PROVE TaskStatusInv'
    BY <1>3 DEF RoutineEnds
<1>4. ASSUME NEW m \in tsTasks, InputChanges(m) PROVE TaskStatusInv'
    BY <1>4 DEF InputChanges
<1>5. ASSUME NEW m \in tsTasks, InputTouches(m) PROVE TaskStatusInv'
    BY <1>5 DEF InputTouches
<1>6. ASSUME NEW m \in tsTasks, CommandTouches(m) PROVE TaskStatusInv'
    BY <1>6 DEF CommandTouches
<1>7. ASSUME NEW b \in tsBrowsers, Poll(b) PROVE TaskStatusInv'
  <2> DEFINE since == tsPanel[b].since
             found == Found(since)
             noticed == Noticed
  <2>1. since \in Nat /\ b \in Browser
      OBVIOUS
  <2>2. /\ found \in 1 .. MaxSecond /\ found <= tsNow
        /\ noticed \in [TaskName -> 1 .. MaxSecond]
        /\ \A m \in TaskName : noticed[m] <= tsNow /\ tsRevision[m] <= noticed[m]
      BY <2>1, FoundOf
  <2>3. tsPanel[b].poll = "wait" \/ tsNow > tsPanel[b].at
      BY <1>7 DEF Poll
  <2>4. found <= since => tsWas = tsRunning
      BY <2>1, <2>3, NothingNew
  <2>5. /\ tsRevision' \in {tsRevision, noticed}
        /\ tsAnswered' = found /\ tsWas' = tsRunning
        /\ tsPanel' = [tsPanel EXCEPT ![b] =
             IF found <= since
             THEN [@ EXCEPT !.poll = "wait"]
             ELSE [poll |-> "rest", since |-> found, at |-> tsNow,
                   running |-> tsRunning, waiting |-> tsWaiting]]
        /\ UNCHANGED <<tsNow, tsRunning, tsWaiting, tsTouches, tsChanged, tsBrowsers, tsTasks>>
      BY <1>7 DEF Poll
  <2> HIDE DEF since, found, noticed
  <2>6. /\ tsRevision' \in [TaskName -> 1 .. MaxSecond]
        /\ \A m \in TaskName : tsRevision'[m] <= tsNow /\ tsRevision[m] <= tsRevision'[m]
      BY <2>2, <2>5
  <2>7. TouchedInv'
      BY <2>5, <2>6
  <2>8. CASE found <= since
      BY <2>1, <2>2, <2>3, <2>4, <2>5, <2>6, <2>7, <2>8
  <2>9. CASE ~(found <= since)
      BY <2>1, <2>2, <2>3, <2>5, <2>6, <2>7, <2>9
  <2> QED
      BY <2>8, <2>9
<1>8. CASE UNCHANGED tsVars
    BY <1>8 DEF tsVars
<1> QED
    BY <1>1, <1>2, <1>3, <1>4, <1>5, <1>6, <1>7, <1>8 DEF TaskStatusNext

\* At first nothing has changed.
LEMMA InitTaskStatus == TaskStatusInit => TaskStatusInv
    BY TaskStatusAssumption DEF TaskStatusInit, TaskStatusInv, TaskStatusTypeOK, TimeInv,
       TouchedInv, AloneInv

\* A look at something that has changed finds a newer revision.
LEMMA TaskStatusInvShows == TaskStatusInv => ChangesAreShown
<1> SUFFICES ASSUME TaskStatusInv, NEW b \in tsBrowsers, NEW m \in TaskName
             PROVE  LET panel == tsPanel[b]
                    IN /\ (/\ (m \in panel.waiting) # (m \in tsWaiting)
                           /\ m \notin tsTouches /\ tsChanged[m] > panel.since)
                             => Found(panel.since) > panel.since
                       /\ (/\ (m \in panel.running) # (m \in tsRunning)
                           /\ tsBrowsers = {b} /\ tsNow > panel.at) => Found(panel.since) > panel.since
    BY DEF ChangesAreShown
<1> DEFINE since == tsPanel[b].since
           found == Found(since)
<1>1. /\ since \in Nat /\ b \in Browser /\ since <= tsPanel[b].at /\ tsPanel[b].at \in Nat
      /\ tsNow \in Nat /\ tsAnswered \in Nat
    BY TaskStatusAssumption DEF TaskStatusInv, TaskStatusTypeOK, TimeInv
<1>2. /\ found \in Nat /\ tsAnswered <= found
      /\ tsAnswered <= since => Noticed[m] <= found
      /\ Noticed[m] \in Nat /\ tsRevision[m] \in Nat /\ tsRevision[m] <= Noticed[m]
    BY <1>1, FoundOf, TaskStatusAssumption DEF TaskStatusInv, TaskStatusTypeOK
<1>3. ASSUME m \notin tsTouches, tsChanged[m] > since PROVE found > since
  <2>1. tsChanged[m] \in Nat /\ tsChanged[m] <= tsRevision[m]
      BY <1>3 DEF TaskStatusInv, TaskStatusTypeOK, TouchedInv
  <2> QED
      BY <1>1, <1>2, <1>3, <2>1
<1>4. ASSUME (m \in tsPanel[b].running) # (m \in tsRunning), tsBrowsers = {b}, tsNow > tsPanel[b].at
      PROVE found > since
  <2>1. (m \in tsWas) # (m \in tsRunning)
      BY <1>1, <1>4 DEF TaskStatusInv, AloneInv
  <2>2. Noticed[m] = tsNow
      BY <2>1 DEF Noticed
  <2> QED
      BY <1>1, <1>2, <1>4, <2>2
<1> QED
    BY <1>3, <1>4

\* Whatever the tasks, browsers and instants: as long as a browser shows
\* something else than what is, its next look finds a newer revision
\* (sd_taskmodule.py:548-606).
THEOREM TaskChangesShown == TaskStatusSpec => []ChangesAreShown
    BY InitTaskStatus, TaskStatusStep, TaskStatusInvShows, PTL DEF TaskStatusSpec

(*************************************************************************)
(* DataAnswer: whatever the data sources, the tasks, the user modules and *)
(* the cache have for a channel.  What holds of the last response of the *)
(* list depends on how much has been merged into it (Stage): what is stored *)
(* is kept from the last data source on, the variable of a task is shown *)
(* from the task component on, and the cache from the mesh component on. *)
(*************************************************************************)
EntrySet == [kind : {"list", "scalar"}, start : Int, t : Seq(Int), x : Seq(Int)]
ResponseSet == [status : {0, 200, 400}, is : {"none", "dict"}, entry : SUBSET EntrySet]

\* A series ends with a value, or is what the last data source has.
TailKnown(e) == e.t # << >> => e.x[Len(e.x)] # Null
Plain(e) == TailKnown(e) \/ (daStores # << >> /\ e \in LastStored)
GoodEntry(e) == e \in EntrySet /\ TrueSeries(e)

\* Only a response with status 200 has an entry, and its series are true.
GoodResponse(r) ==
  /\ r \in ResponseSet
  /\ (r.status # 200 \/ r.is = "none") => r.entry = {}
  /\ \A e \in r.entry : TrueSeries(e)

Extends(e, s) == e.start = s.start /\ IsPrefix(s.t, e.t) /\ IsPrefix(s.x, e.x)

\* What the last data source has is kept.
KeepsStored(r) ==
  StoresWork => r.status = 200 /\ \A s \in LastStored : \E e \in r.entry : Extends(e, s)

NewerThan(e, time) == Known(e) # {} /\ LastKnown(e) >= time
Reaches(e, time) == e.t # << >> /\ EntryTime(e) >= time
Hidden(time) ==
  daStores # << >> /\ \E s \in LastStored : s.t # << >> /\ Last(s.x) = Null /\ EntryTime(s) >= time
Usable == {e \in daCache : InWindow(e)}

TaskCounts == daTask /\ HoldsNow /\ daStores # << >>
ReachesTask(r) == TaskCounts => \E e \in r.entry : Reaches(e, AnswerNow)
ShowsTask(r) ==
  TaskCounts => (\E e \in r.entry : NewerThan(e, AnswerNow)) \/ Hidden(AnswerNow)
ShowsCache(r) ==
  \A c \in Usable : Known(c) # {} =>
    (\E e \in r.entry : NewerThan(e, LastKnown(c) - 1)) \/ Hidden(LastKnown(c) - 1)

\* The response of place n of the list, when what comes after is merged in.
Stage(n, r) ==
  /\ GoodResponse(r) /\ KeepsStored(r)
  /\ n \in {3, 4} => ReachesTask(r)
  /\ n <= 2 => ShowsTask(r) /\ ShowsCache(r)
  /\ n >= 3 => \A e \in r.entry : Plain(e)

InputsOK ==
  /\ daStores \in Seq(ResponseSet) /\ Len(daStores) <= 2
  /\ \A i \in 1 .. Len(daStores) :
       /\ GoodResponse(daStores[i]) /\ daStores[i].status # 0
       /\ \A e \in daStores[i].entry : Plain(e)
  /\ \A c \in daCache : GoodEntry(c) /\ \A i \in 1 .. Len(c.x) : c.x[i] \in Nat \cup {Null}
  /\ \A c, d \in daCache : c = d
  /\ daTo \in Int

ListOK ==
  /\ daList \in Seq([by : {"router", "mesh", "user", "task", "past", "store"}, response : ResponseSet])
  /\ Len(daList) \in 1 .. Len(Responses)
  /\ \A i \in 1 .. Len(daList) - 1 : daList[i] = Responses[i]
  /\ LET n == Len(daList) IN daList[n].by = Responses[n].by /\ Stage(n, daList[n].response)

DataAnswerInv == InputsOK /\ ListOK

-----------------------------------------------------------------------------
\* A prefix, place by place.
LEMMA PrefixIs ==
  ASSUME NEW s \in Seq(Int), NEW t \in Seq(Int)
  PROVE  IsPrefix(s, t) <=> Len(s) <= Len(t) /\ \A i \in 1 .. Len(s) : s[i] = t[i]
<1>1. CASE Len(s) <= Len(t)
  <2>1. /\ SubSeq(s, 1, Len(s)) \in Seq(Int) /\ Len(SubSeq(s, 1, Len(s))) = Len(s)
        /\ \A i \in 1 .. Len(s) : SubSeq(s, 1, Len(s))[i] = s[i]
      BY Z3
  <2>2. /\ SubSeq(t, 1, Len(s)) \in Seq(Int) /\ Len(SubSeq(t, 1, Len(s))) = Len(s)
        /\ \A i \in 1 .. Len(s) : SubSeq(t, 1, Len(s))[i] = t[i]
      BY <1>1
  <2> DEFINE a == SubSeq(s, 1, Len(s))
             b == SubSeq(t, 1, Len(s))
  <2>3. IsPrefix(s, t) <=> a = b
      BY <1>1 DEF IsPrefix
  <2> HIDE DEF a, b
  <2>4. /\ a \in Seq(Int) /\ Len(a) = Len(s) /\ \A i \in 1 .. Len(s) : a[i] = s[i]
        /\ b \in Seq(Int) /\ Len(b) = Len(s) /\ \A i \in 1 .. Len(s) : b[i] = t[i]
      BY <2>1, <2>2 DEF a, b
  <2>5. (\A i \in 1 .. Len(s) : s[i] = t[i]) => a = b
      BY <2>4, SeqEqual
  <2> QED
      BY <1>1, <2>3, <2>4, <2>5
<1>2. CASE ~(Len(s) <= Len(t))
    BY <1>2 DEF IsPrefix
<1> QED
    BY <1>1, <1>2

\* The time of the last known value, when the last is known.
LEMMA LastKnownIs ==
  ASSUME NEW e, GoodEntry(e), TailKnown(e), e.t # << >>
  PROVE  Known(e) # {} /\ LastKnown(e) = e.start + Last(e.t) /\ e.start + Last(e.t) \in Int
<1>1. e.t \in Seq(Int) /\ e.x \in Seq(Int) /\ e.start \in Int /\ Len(e.t) = Len(e.x)
      /\ Len(e.t) \in Nat /\ Len(e.t) >= 1
    BY DEF GoodEntry, EntrySet, TrueSeries
<1> DEFINE n == Len(e.t)
<1>2. n \in Known(e) /\ \A j \in Known(e) : j \in 1 .. n
    BY <1>1 DEF Known, TailKnown
<1>3. (CHOOSE i \in Known(e) : \A j \in Known(e) : j <= i) = n
  <2>0. n \in Nat /\ n >= 1
      BY <1>1
  <2> HIDE DEF n
  <2>1. n \in Known(e) /\ \A j \in Known(e) : j <= n
      BY <1>2, <2>0
  <2>2. ASSUME NEW i \in Known(e), \A j \in Known(e) : j <= i PROVE i = n
    <3>1. i \in 1 .. n
        BY <1>2
    <3>2. n <= i /\ i <= n
        BY <2>1, <2>2
    <3> QED
        BY <2>0, <3>1, <3>2
  <2> QED
      BY <2>1, <2>2
<1>4. Last(e.t) = e.t[n] /\ e.t[n] \in Int
    BY <1>1 DEF Last
<1>5. LastKnown(e) = e.start + e.t[n]
    BY <1>3 DEF LastKnown
<1>6. Known(e) # {}
    BY <1>1, <1>2
<1> QED
    BY <1>1, <1>4, <1>5, <1>6

\* A series that reaches a time shows a value as new, or is hidden by the end of
\* what the last data source has.
LEMMA ReachesShows ==
  ASSUME NEW e, GoodEntry(e), Plain(e), NEW time \in Int, Reaches(e, time)
  PROVE  NewerThan(e, time) \/ Hidden(time)
<1>1. CASE TailKnown(e)
    BY <1>1, LastKnownIs DEF Reaches, NewerThan, EntryTime
<1>2. CASE ~TailKnown(e)
  <2>1. e.t # << >> /\ e.x[Len(e.x)] = Null /\ daStores # << >> /\ e \in LastStored
      BY <1>2 DEF Plain, TailKnown
  <2>2. Last(e.x) = Null
      BY <2>1 DEF Last
  <2> QED
      BY <2>1, <2>2 DEF Hidden, Reaches
<1> QED
    BY <1>1, <1>2

\* An entry extends itself.
LEMMA ExtendsSelf ==
  ASSUME NEW e \in EntrySet
  PROVE  Extends(e, e)
<1>1. e.t \in Seq(Int) /\ e.x \in Seq(Int)
    BY DEF EntrySet
<1> QED
    BY <1>1 DEF Extends, IsPrefix

\* What adding a newer point does.
LEMMA AddNewerOf ==
  ASSUME NEW e, GoodEntry(e), Plain(e), NEW time \in Nat, NEW margin \in Nat
  PROVE  LET f == AddNewer(e, time, margin)
         IN  /\ GoodEntry(f) /\ Plain(f) /\ Extends(f, e)
             /\ Reaches(f, time - margin)
             /\ \A past \in Int : Reaches(e, past) => Reaches(f, past)
<1> DEFINE f == AddNewer(e, time, margin)
           n == Len(e.t)
<1>1. /\ e \in EntrySet /\ e.t \in Seq(Int) /\ e.x \in Seq(Int) /\ e.start \in Int
      /\ Len(e.x) = n /\ n \in Nat /\ Increasing(e.t)
      /\ \A i \in 1 .. n : e.t[i] \in Int /\ (e.x[i] # Null => e.x[i] = e.start + e.t[i])
    BY DEF GoodEntry, EntrySet, TrueSeries
<1>2. e.t # << >> => n >= 1 /\ Last(e.t) = e.t[n]
    BY <1>1 DEF Last
<1>3. CASE e.t = << >> \/ e.start + Last(e.t) < time - margin
  <2>1. f = [e EXCEPT !.kind = "list", !.t = Append(e.t, time - e.start), !.x = Append(e.x, time)]
      BY <1>3 DEF AddNewer
  <2> DEFINE d == time - e.start
  <2>2. /\ f \in EntrySet /\ f.start = e.start
        /\ f.t = Append(e.t, d) /\ f.x = Append(e.x, time) /\ d \in Int
    <3>1. d \in Int /\ Append(e.t, d) \in Seq(Int) /\ Append(e.x, time) \in Seq(Int)
        BY <1>1
    <3>2. e = [kind |-> e.kind, start |-> e.start, t |-> e.t, x |-> e.x]
        BY <1>1 DEF EntrySet
    <3>3. f = [kind |-> "list", start |-> e.start, t |-> Append(e.t, d), x |-> Append(e.x, time)]
        BY <2>1, <3>2
    <3> HIDE DEF f, d
    <3> QED
        BY <1>1, <3>1, <3>3 DEF EntrySet
  <2>3. /\ f.t \in Seq(Int) /\ Len(f.t) = n + 1 /\ f.t[n + 1] = d
        /\ \A i \in 1 .. n : f.t[i] = e.t[i]
      BY <1>1, <2>2
  <2>4. /\ f.x \in Seq(Int) /\ Len(f.x) = n + 1 /\ f.x[n + 1] = time
        /\ \A i \in 1 .. n : f.x[i] = e.x[i]
      BY <1>1, <2>2
  <2> HIDE DEF f
  <2>5. n >= 1 => e.t[n] < d
      BY <1>1, <1>2, <1>3
  <2>6. Increasing(f.t)
    <3> SUFFICES ASSUME NEW i \in 1 .. Len(f.t) - 1 PROVE f.t[i] < f.t[i + 1]
        BY DEF Increasing
    <3>1. CASE i = n
      <4>1. n >= 1 /\ n \in 1 .. n
          BY <1>1, <2>3, <3>1
      <4> QED
          BY <2>3, <2>5, <3>1, <4>1
    <3>2. CASE i # n
      <4>1. i \in 1 .. n /\ i + 1 \in 1 .. n /\ i \in 1 .. n - 1
          BY <1>1, <2>3, <3>2
      <4>2. e.t[i] < e.t[i + 1]
          BY <1>1, <4>1 DEF Increasing
      <4> QED
          BY <2>3, <4>1, <4>2
    <3> QED
        BY <3>1, <3>2
  <2>7. \A i \in 1 .. Len(f.t) : f.x[i] # Null => f.x[i] = f.start + f.t[i]
    <3> SUFFICES ASSUME NEW i \in 1 .. Len(f.t), f.x[i] # Null PROVE f.x[i] = f.start + f.t[i]
        OBVIOUS
    <3>1. CASE i = n + 1
        BY <1>1, <2>2, <2>3, <2>4, <3>1
    <3>2. CASE i # n + 1
      <4>1. i \in 1 .. n
          BY <1>1, <2>3, <3>2
      <4> QED
          BY <1>1, <2>2, <2>3, <2>4, <4>1
    <3> QED
        BY <3>1, <3>2
  <2>8. GoodEntry(f) /\ TailKnown(f)
    <3>1. DOMAIN f.t = 1 .. Len(f.t) /\ Len(f.x) = Len(f.t)
        BY <2>3, <2>4
    <3>2. TailKnown(f)
        BY <1>1, <2>4 DEF TailKnown, Null
    <3> QED
        BY <2>2, <2>6, <2>7, <3>1, <3>2 DEF GoodEntry, TrueSeries
  <2>9. Extends(f, e)
    <3>1. Len(e.t) <= Len(f.t) /\ Len(e.x) <= Len(f.x)
        BY <1>1, <2>3, <2>4
    <3>2. IsPrefix(e.t, f.t)
        BY <1>1, <2>3, <3>1, PrefixIs
    <3>3. IsPrefix(e.x, f.x)
        BY <1>1, <2>4, <3>1, PrefixIs
    <3> QED
        BY <2>2, <3>2, <3>3 DEF Extends
  <2>10. f.t # << >> /\ EntryTime(f) = time
    <3>1. f.t # << >> /\ Last(f.t) = d
        BY <1>1, <2>3 DEF Last
    <3>2. e.start + d = time
        BY <1>1
    <3> QED
        BY <2>2, <3>1, <3>2 DEF EntryTime
  <2>11. ASSUME NEW past \in Int, Reaches(e, past) PROVE Reaches(f, past)
    <3>1. e.t # << >> /\ e.start + Last(e.t) >= past /\ Last(e.t) \in Int
        BY <1>1, <1>2, <2>11 DEF Reaches, EntryTime
    <3>2. past <= time
        BY <1>1, <1>3, <3>1
    <3> QED
        BY <2>10, <3>2 DEF Reaches
  <2>12. Reaches(f, time - margin)
      BY <2>10 DEF Reaches
  <2> QED
      BY <2>8, <2>9, <2>11, <2>12 DEF f, Plain
<1>4. CASE ~(e.t = << >> \/ e.start + Last(e.t) < time - margin)
  <2>1. f = e
      BY <1>4 DEF AddNewer
  <2>2. Extends(e, e)
      BY <1>1, ExtendsSelf
  <2>3. Reaches(e, time - margin)
      BY <1>1, <1>2, <1>4 DEF Reaches, EntryTime
  <2> QED
      BY <2>1, <2>2, <2>3
<1> QED
    BY <1>3, <1>4

\* A point is a series of one.
LEMMA ScalarIs ==
  ASSUME NEW start \in Int, NEW time \in Nat
  PROVE  /\ GoodEntry(Scalar(start, time)) /\ TailKnown(Scalar(start, time))
         /\ Reaches(Scalar(start, time), time)
         /\ NewerThan(Scalar(start, time), time)
         /\ \A i \in 1 .. Len(Scalar(start, time).x) : Scalar(start, time).x[i] \in Nat
<1> DEFINE e == Scalar(start, time)
<1>1. e = [kind |-> "scalar", start |-> start, t |-> [i \in 1 .. 1 |-> time - start], x |-> <<time>>]
  <2>1. DOMAIN <<time>> = 1 .. 1
      OBVIOUS
  <2>2. [i \in 1 .. 1 |-> <<time>>[i] - start] = [i \in 1 .. 1 |-> time - start]
      OBVIOUS
  <2> QED
      BY <2>1, <2>2 DEF Scalar, Entry
<1> DEFINE t == [i \in 1 .. 1 |-> time - start]
<1>2. t \in Seq(Int) /\ Len(t) = 1 /\ t[1] = time - start
    OBVIOUS
<1>3. <<time>> \in Seq(Int) /\ Len(<<time>>) = 1 /\ <<time>>[1] = time /\ DOMAIN t = 1 .. 1
    OBVIOUS
<1> HIDE DEF t
<1>4. e \in EntrySet /\ e.t = t /\ e.x = <<time>> /\ e.start = start
    BY <1>1, <1>2, <1>3 DEF EntrySet, t
<1> HIDE DEF e
<1>5. \A i \in 1 .. 1 : i = 1
    OBVIOUS
<1>6. start + (time - start) = time /\ time # Null
    BY DEF Null
<1>7. GoodEntry(e) /\ TailKnown(e)
  <2>1. Increasing(t)
      BY <1>2 DEF Increasing
  <2>2. \A i \in 1 .. 1 : <<time>>[i] = start + t[i] /\ <<time>>[i] # Null
      BY <1>2, <1>3, <1>5, <1>6
  <2> QED
      BY <1>2, <1>3, <1>4, <2>1, <2>2 DEF GoodEntry, TailKnown, TrueSeries
<1>8. NewerThan(e, time) /\ Reaches(e, time)
  <2>1. e.t # << >> /\ Last(e.t) = time - start
    <3>1. Len(<< >>) = 0
        OBVIOUS
    <3>2. Last(t) = t[1]
        BY <1>2 DEF Last
    <3>3. t # << >> /\ Last(t) = time - start
      <4>1. t # << >>
          BY <1>2, <3>1
      <4>2. Last(t) = time - start
          BY <1>2, <3>2
      <4> QED
          BY <4>1, <4>2
    <3> QED
        BY <1>4, <3>3, Zenon
  <2>2. Known(e) # {} /\ LastKnown(e) = e.start + Last(e.t)
      BY <1>7, <2>1, LastKnownIs
  <2> QED
      BY <1>4, <1>6, <2>1, <2>2 DEF NewerThan, Reaches, EntryTime
<1>9. \A i \in 1 .. Len(e.x) : e.x[i] \in Nat
    BY <1>3, <1>4, <1>5
<1> QED
    BY <1>7, <1>8, <1>9 DEF e

\* A series of times is a sequence of them.
LEMMA SeriesIs ==
  ASSUME NEW times \in SUBSET Nat, NEW s \in Series(times)
  PROVE  /\ s \in Seq(Nat) /\ Increasing(s) /\ Len(s) \in Nat /\ DOMAIN s = 1 .. Len(s)
         /\ \A i \in 1 .. Len(s) : s[i] \in times
<1>1. PICK n \in 0 .. 2 : s \in [1 .. n -> times]
    BY DEF Series
<1>2. n \in Nat
    OBVIOUS
<1>3. s \in Seq(times) /\ Len(s) = n /\ DOMAIN s = 1 .. n
    BY <1>1, <1>2
<1>4. Increasing(s)
    BY DEF Series
<1>5. \A i \in 1 .. n : s[i] \in times
    BY <1>1
<1>6. s \in Seq(Nat)
  <2>1. s \in [1 .. n -> Nat]
      BY <1>1
  <2> QED
      BY <1>2, <2>1
<1> QED
    BY <1>2, <1>3, <1>4, <1>5, <1>6

\* A list of times, with its values known or not, is a true series.
LEMMA ListIs ==
  ASSUME NEW start \in Int, NEW times \in SUBSET Nat, NEW s \in Series(times), NEW nulls,
         NEW v, v = [i \in DOMAIN s |-> IF i \in nulls THEN Null ELSE s[i]]
  PROVE  /\ GoodEntry(Entry("list", start, s, v))
         /\ \A i \in 1 .. Len(Entry("list", start, s, v).x) :
              Entry("list", start, s, v).x[i] \in Nat \cup {Null}
<1> DEFINE n == Len(s)
<1>2. /\ Increasing(s) /\ n \in Nat /\ DOMAIN s = 1 .. n /\ s \in Seq(Nat)
      /\ \A i \in 1 .. n : s[i] \in Nat
    BY SeriesIs
<1> HIDE DEF n
<1> DEFINE t == [i \in DOMAIN s |-> s[i] - start]
           e == Entry("list", start, s, v)
<1>3. /\ t \in Seq(Int) /\ Len(t) = n /\ DOMAIN t = 1 .. n
      /\ \A i \in 1 .. n : t[i] = s[i] - start
    BY <1>2
<1>4. /\ v \in Seq(Int) /\ Len(v) = n
      /\ \A i \in 1 .. n : v[i] = IF i \in nulls THEN Null ELSE s[i]
    BY <1>2 DEF Null
<1>5. e = [kind |-> "list", start |-> start, t |-> t, x |-> v]
    BY DEF Entry
<1> HIDE DEF t
<1> HIDE DEF e
<1>6. e \in EntrySet /\ e.t = t /\ e.x = v /\ e.start = start
    BY <1>3, <1>4, <1>5 DEF EntrySet
<1>7. Increasing(t)
  <2>1. \A i \in 1 .. n - 1 : i \in 1 .. n /\ i + 1 \in 1 .. n /\ s[i] < s[i + 1]
      BY <1>2 DEF Increasing, n
  <2> QED
      BY <1>2, <1>3, <2>1 DEF Increasing
<1>8. \A i \in 1 .. n : v[i] # Null => v[i] = start + t[i]
    BY <1>2, <1>3, <1>4
<1>9. GoodEntry(e)
    BY <1>3, <1>4, <1>6, <1>7, <1>8 DEF GoodEntry, TrueSeries
<1>10. \A i \in 1 .. Len(e.x) : e.x[i] \in Nat \cup {Null}
    BY <1>2, <1>4, <1>6
<1> QED
    BY <1>9, <1>10 DEF e

\* The same of the lists of the data sources and of the cache.
LEMMA ListWithIs ==
  ASSUME NEW start \in Int, NEW times \in SUBSET Nat, NEW s \in Series(times), NEW nulls
  PROVE  /\ GoodEntry(ListWith(start, s, nulls))
         /\ \A i \in 1 .. Len(ListWith(start, s, nulls).x) :
              ListWith(start, s, nulls).x[i] \in Nat \cup {Null}
<1> DEFINE v == [i \in DOMAIN s |-> IF i \in nulls THEN Null ELSE s[i]]
<1>1. v = [i \in DOMAIN s |-> IF i \in nulls THEN Null ELSE s[i]]
      /\ ListWith(start, s, nulls) = Entry("list", start, s, v)
    BY DEF ListWith
<1> HIDE DEF v
<1>2. /\ GoodEntry(Entry("list", start, s, v))
      /\ \A i \in 1 .. Len(Entry("list", start, s, v).x) :
           Entry("list", start, s, v).x[i] \in Nat \cup {Null}
    BY <1>1, ListIs
<1> QED
    BY <1>1, <1>2

\* The last known time is one of the values.
LEMMA LastKnownOf ==
  ASSUME NEW c, GoodEntry(c), Known(c) # {}
  PROVE  /\ LastKnown(c) \in Int
         /\ \E i \in 1 .. Len(c.x) : c.x[i] # Null /\ LastKnown(c) = c.x[i]
<1>1. /\ c.t \in Seq(Int) /\ c.x \in Seq(Int) /\ c.start \in Int /\ Len(c.t) = Len(c.x)
      /\ \A i \in DOMAIN c.t : c.x[i] # Null => c.x[i] = c.start + c.t[i]
    BY DEF GoodEntry, EntrySet, TrueSeries
<1> DEFINE n == Len(c.x)
           K == Known(c)
<1>2. n \in Nat /\ K \in SUBSET (0 .. n) /\ K \subseteq 1 .. n /\ \A i \in K : c.x[i] # Null
    BY <1>1 DEF Known
<1>3. \E i \in K : \A j \in K : j <= i
  <2>1. K # {}
      OBVIOUS
  <2> HIDE DEF K, n
  <2> QED
      BY <1>2, <2>1, MaxOf
<1> DEFINE i == CHOOSE k \in K : \A j \in K : j <= k
<1>4. i \in K
    BY <1>3
<1>5. LastKnown(c) = c.start + c.t[i]
    BY DEF LastKnown
<1> HIDE DEF i
<1>6. i \in 1 .. n /\ c.x[i] # Null
    BY <1>2, <1>4
<1>7. i \in DOMAIN c.t
    BY <1>1, <1>6
<1> QED
    BY <1>1, <1>5, <1>6, <1>7

\* What the data sources answer.
LEMMA StoreResponseIs ==
  ASSUME NEW r \in StoreResponses \cup FewResponses
  PROVE  /\ GoodResponse(r) /\ r.status # 0
         /\ r \in FewResponses => \A e \in r.entry : TailKnown(e)
<1>0. /\ StoreTimes \in SUBSET Nat /\ 0 \in Int /\ 0 \in Nat
      /\ \A start \in {0, AnswerNow - AnswerLength} : start \in Int
    BY DataAnswerAssumption
<1>1. ASSUME NEW e \in StoreEntries PROVE GoodEntry(e)
  <2>1. \/ \E start \in {0, AnswerNow - AnswerLength}, s \in Series(StoreTimes), nulls \in SUBSET {1, 2} :
             e = ListWith(start, s, nulls)
        \/ \E start \in {0, AnswerNow - AnswerLength}, t \in StoreTimes : e = Scalar(start, t)
      BY <1>1 DEF StoreEntries
  <2>2. CASE \E start \in {0, AnswerNow - AnswerLength}, s \in Series(StoreTimes), nulls \in SUBSET {1, 2} :
             e = ListWith(start, s, nulls)
      BY <1>0, <2>2, ListWithIs
  <2>3. CASE \E start \in {0, AnswerNow - AnswerLength}, t \in StoreTimes : e = Scalar(start, t)
      BY <1>0, <2>3, ScalarIs
  <2> QED
      BY <2>1, <2>2, <2>3
<1>2. GoodEntry(Scalar(0, 0)) /\ TailKnown(Scalar(0, 0))
    BY <1>0, ScalarIs
<1>3. ASSUME NEW e, GoodEntry(e), r = Response(200, "dict", {e})
      PROVE  GoodResponse(r) /\ r.status # 0 /\ r.entry = {e}
    BY <1>3 DEF Response, GoodResponse, ResponseSet, GoodEntry
<1>4. ASSUME r = Response(200, "dict", {}) \/ r = Response(400, "none", {})
      PROVE  GoodResponse(r) /\ r.status # 0 /\ r.entry = {}
    BY <1>4 DEF Response, GoodResponse, ResponseSet
<1>5. CASE r \in FewResponses
    BY <1>2, <1>3, <1>4, <1>5 DEF FewResponses
<1>6. CASE r \notin FewResponses
    BY <1>1, <1>3, <1>4, <1>6 DEF StoreResponses
<1> QED
    BY <1>5, <1>6

\* What the mesh has cached.
LEMMA CacheEntryIs ==
  ASSUME NEW c \in CacheEntries
  PROVE  GoodEntry(c) /\ \A i \in 1 .. Len(c.x) : c.x[i] \in Nat \cup {Null}
<1>1. CacheTimes \in SUBSET Nat /\ 0 \in Int
    BY DataAnswerAssumption
<1>2. CASE \E t \in CacheTimes : c = Scalar(0, t)
    BY <1>1, <1>2, ScalarIs
<1>3. CASE \E s \in Series(CacheTimes), nulls \in {{}, {2}, {1, 2}} : c = ListWith(0, s, nulls)
    BY <1>1, <1>3, ListWithIs
<1>4. \/ \E t \in CacheTimes : c = Scalar(0, t)
      \/ \E s \in Series(CacheTimes), nulls \in {{}, {2}, {1, 2}} : c = ListWith(0, s, nulls)
    BY DEF CacheEntries
<1> QED
    BY <1>2, <1>3, <1>4

\* What the components have is well formed.
LEMMA InitInputs == DataAnswerInit => InputsOK
<1> SUFFICES ASSUME DataAnswerInit PROVE InputsOK
    OBVIOUS
<1>1. ASSUME NEW r \in StoreResponses \cup FewResponses PROVE r \in ResponseSet
    BY StoreResponseIs DEF GoodResponse
<1>2. /\ daStores \in Seq(StoreResponses \cup FewResponses) /\ Len(daStores) <= 2
  <2>1. CASE daStores = << >>
      BY <2>1
  <2>2. CASE \E r \in StoreResponses : daStores = <<r>>
      BY <2>2
  <2>3. CASE \E r, q \in FewResponses : daStores = <<r, q>>
      BY <2>3
  <2> QED
      BY <2>1, <2>2, <2>3 DEF DataAnswerInit
<1>3. \A i \in 1 .. Len(daStores) : daStores[i] \in StoreResponses \cup FewResponses
    BY <1>2
<1>4. daStores \in Seq(ResponseSet)
  <2>1. daStores \in [1 .. Len(daStores) -> ResponseSet] /\ Len(daStores) \in Nat
      BY <1>1, <1>2
  <2> QED
      BY <2>1
<1>5. \A i \in 1 .. Len(daStores) :
        /\ GoodResponse(daStores[i]) /\ daStores[i].status # 0
        /\ \A e \in daStores[i].entry : Plain(e)
  <2> SUFFICES ASSUME NEW i \in 1 .. Len(daStores)
               PROVE  /\ GoodResponse(daStores[i]) /\ daStores[i].status # 0
                      /\ \A e \in daStores[i].entry : Plain(e)
      OBVIOUS
  <2>1. GoodResponse(daStores[i]) /\ daStores[i].status # 0
      BY <1>3, StoreResponseIs
  <2>2. CASE \E r \in StoreResponses : daStores = <<r>>
    <3>1. Len(daStores) = 1 /\ i = 1 /\ daStores # << >>
        BY <2>2
    <3> QED
        BY <2>1, <3>1 DEF Plain, LastStored
  <2>3. CASE \E r, q \in FewResponses : daStores = <<r, q>>
    <3>1. daStores[i] \in FewResponses
        BY <2>3
    <3> QED
        BY <2>1, <3>1, StoreResponseIs DEF Plain
  <2>4. daStores # << >>
      BY <1>2
  <2> QED
      BY <2>2, <2>3, <2>4 DEF DataAnswerInit
<1>6. (daCache = {} \/ \E c \in CacheEntries : daCache = {c}) /\ daTo \in Int
  <2>0. daTo \in AnswerTo \cup {0 - ago : ago \in AnswerAgo}
      BY Zenon DEF DataAnswerInit
  <2>1. daTo \in Int
      BY <2>0, DataAnswerAssumption
  <2>2. daCache \in {{}} \cup {{e} : e \in CacheEntries}
      BY Zenon DEF DataAnswerInit
  <2>3. daCache = {} \/ \E c \in CacheEntries : daCache = {c}
      BY <2>2, Zenon
  <2> QED
      BY <2>1, <2>3
<1>7. \A c \in daCache : GoodEntry(c) /\ \A i \in 1 .. Len(c.x) : c.x[i] \in Nat \cup {Null}
    BY <1>6, CacheEntryIs
<1> QED
    BY <1>2, <1>4, <1>5, <1>6, <1>7 DEF InputsOK

\* The window asked for starts at some time.
LEMMA StartIs ==
  ASSUME InputsOK
  PROVE  AnswerStart \in Int /\ AnswerNow \in Nat
    BY DataAnswerAssumption DEF InputsOK, AnswerStart

\* The responses, in their order.
LEMMA ResponsesIs ==
  ASSUME InputsOK
  PROVE  /\ Responses \in Seq([by : {"router", "mesh", "user", "task", "past", "store"},
                               response : ResponseSet])
         /\ Len(Responses) = 4 + Len(daStores)
         /\ Responses[1] = By("router", Response(0, "none", {}))
         /\ Responses[2] = By("mesh", Response(0, "none", {}))
         /\ Responses[3] = By("user", UserResponse)
         /\ Responses[4] = By(IF HoldsNow THEN "task" ELSE "past", TaskResponse)
         /\ \A i \in 1 .. Len(daStores) : Responses[4 + i] = By("store", daStores[i])
         /\ GoodResponse(UserResponse) /\ UserResponse.status = 200
         /\ GoodResponse(TaskResponse) /\ TaskResponse.entry = {}
         /\ TaskResponse.status = IF HoldsNow THEN 0 ELSE 200
         /\ \A e \in UserResponse.entry : Plain(e)
<1> DEFINE S == [by : {"router", "mesh", "user", "task", "past", "store"}, response : ResponseSet]
           a == <<By("router", Response(0, "none", {})), By("mesh", Response(0, "none", {})),
                  By("user", UserResponse), By(IF HoldsNow THEN "task" ELSE "past", TaskResponse)>>
           b == [i \in DOMAIN daStores |-> By("store", daStores[i])]
<1>1. GoodResponse(UserResponse) /\ UserResponse.status = 200 /\ \A e \in UserResponse.entry : Plain(e)
  <2>1. GoodEntry(Scalar(AnswerStart, AnswerNow)) /\ Plain(Scalar(AnswerStart, AnswerNow))
    <3>1. AnswerStart \in Int /\ AnswerNow \in Nat
        BY StartIs
    <3> QED
        BY <3>1, ScalarIs DEF Plain
  <2> QED
      BY <2>1 DEF UserResponse, Response, GoodResponse, ResponseSet, GoodEntry
<1>2. /\ GoodResponse(TaskResponse) /\ TaskResponse.entry = {}
      /\ TaskResponse.status = IF HoldsNow THEN 0 ELSE 200
    BY DEF TaskResponse, Response, GoodResponse, ResponseSet
<1>3. Response(0, "none", {}) \in ResponseSet
    BY DEF Response, ResponseSet
<1>4. a \in Seq(S) /\ Len(a) = 4
  <2>1. By("router", Response(0, "none", {})) \in S /\ By("mesh", Response(0, "none", {})) \in S
      BY <1>3 DEF By
  <2>2. By("user", UserResponse) \in S /\ By(IF HoldsNow THEN "task" ELSE "past", TaskResponse) \in S
      BY <1>1, <1>2 DEF By, GoodResponse
  <2> HIDE DEF S
  <2> QED
      BY <2>1, <2>2
<1>5. b \in Seq(S) /\ Len(b) = Len(daStores)
      /\ \A i \in 1 .. Len(daStores) : b[i] = By("store", daStores[i])
  <2>1. daStores \in Seq(ResponseSet) /\ Len(daStores) \in Nat /\ DOMAIN daStores = 1 .. Len(daStores)
      BY DEF InputsOK
  <2>2. \A i \in 1 .. Len(daStores) : By("store", daStores[i]) \in S
      BY <2>1 DEF By
  <2>3. b \in [1 .. Len(daStores) -> S]
      BY <2>1, <2>2
  <2> HIDE DEF S
  <2>4. b \in Seq(S) /\ Len(b) = Len(daStores)
      BY <2>1, <2>3
  <2> QED
      BY <2>1, <2>4
<1>6. Responses = a \o b
    BY DEF Responses
<1>7. /\ a[1] = By("router", Response(0, "none", {})) /\ a[2] = By("mesh", Response(0, "none", {}))
      /\ a[3] = By("user", UserResponse)
      /\ a[4] = By(IF HoldsNow THEN "task" ELSE "past", TaskResponse)
    OBVIOUS
<1> HIDE DEF a, b, S
<1>8. /\ Responses \in Seq(S) /\ Len(Responses) = Len(a) + Len(b)
      /\ \A i \in 1 .. Len(a) + Len(b) :
           Responses[i] = IF i <= Len(a) THEN a[i] ELSE b[i - Len(a)]
  <2>0. a \in Seq(S) /\ b \in Seq(S)
      BY <1>4, <1>5
  <2>1. /\ a \o b \in Seq(S) /\ Len(a \o b) = Len(a) + Len(b)
        /\ \A i \in 1 .. Len(a) + Len(b) :
             (a \o b)[i] = IF i <= Len(a) THEN a[i] ELSE b[i - Len(a)]
      BY <2>0, ConcatProperties, Zenon
  <2> QED
      BY <1>6, <2>1
<1>9. Len(daStores) \in Nat
    BY DEF InputsOK
<1>10. Len(Responses) = 4 + Len(daStores)
    BY <1>4, <1>5, <1>8
<1>11. \A i \in 1 .. 4 : Responses[i] = a[i]
    BY <1>4, <1>5, <1>8, <1>9
<1>12. \A i \in 1 .. Len(daStores) : Responses[4 + i] = b[i]
  <2> SUFFICES ASSUME NEW i \in 1 .. Len(daStores) PROVE Responses[4 + i] = b[i]
      OBVIOUS
  <2>1. 4 + i \in 1 .. Len(a) + Len(b) /\ ~(4 + i <= Len(a)) /\ (4 + i) - Len(a) = i
      BY <1>4, <1>5, <1>9
  <2> QED
      BY <1>8, <2>1
<1> QED
    BY <1>1, <1>2, <1>5, <1>7, <1>8, <1>10, <1>11, <1>12 DEF S

-----------------------------------------------------------------------------
\* merge_response() of two responses.
LEMMA MergeIs ==
  ASSUME NEW a, NEW b, GoodResponse(a), GoodResponse(b)
  PROVE  /\ GoodResponse(MergeResponse(a, b))
         /\ MergeResponse(a, b).entry \in {a.entry, b.entry}
         /\ a.status <= 200 /\ b.entry # {} => MergeResponse(a, b).entry = b.entry
         /\ a.status <= 200 /\ b.status = 200 => MergeResponse(a, b).status = 200
<1> USE DEF GoodResponse, ResponseSet
<1>1. a \in ResponseSet /\ b \in ResponseSet
    OBVIOUS
<1>2. CASE a.status < b.status
  <2>1. MergeResponse(a, b) = b
      BY <1>2 DEF MergeResponse
  <2> QED
      BY <2>1
<1>3. CASE a.status = b.status
  <2>0. MergeResponse(a, b) = MergeContent(a, b)
      BY <1>3 DEF MergeResponse
  <2>1. CASE b.is = "none"
    <3>1. MergeContent(a, b) = a
        BY <2>1, Zenon DEF MergeContent
    <3>2. b.entry = {}
        BY <2>1
    <3> QED
        BY <1>3, <2>0, <3>1, <3>2
  <2>2. CASE b.is # "none" /\ b.entry = {}
    <3>1. MergeContent(a, b) = [status |-> a.status, is |-> "dict", entry |-> a.entry]
        BY <2>2 DEF MergeContent, Response
    <3> QED
        BY <1>3, <2>0, <2>2, <3>1
  <2>3. CASE b.is # "none" /\ b.entry # {}
    <3>1. MergeContent(a, b) = [status |-> a.status, is |-> "dict", entry |-> b.entry]
        BY <2>3 DEF MergeContent, Response
    <3> QED
        BY <1>3, <2>0, <2>3, <3>1
  <2> QED
      BY <2>1, <2>2, <2>3
<1>4. CASE a.status > b.status
  <2>1. MergeResponse(a, b) = a
      BY <1>4 DEF MergeResponse
  <2> QED
      BY <1>4, <2>1
<1> QED
    BY <1>2, <1>3, <1>4

\* What the two mergers answer.
LEMMA AddedIs ==
  ASSUME NEW b, GoodResponse(b), NEW E \in SUBSET EntrySet, \A e \in E : TrueSeries(e)
  PROVE  /\ GoodResponse(Added(b, E)) /\ Added(b, E).entry = E
         /\ Added(b, E).status = IF E # {} THEN 200 ELSE b.status
<1> DEFINE a == Response(0, "none", {})
           d == Response(IF E # {} THEN 200 ELSE b.status, "dict", E)
<1>1. /\ a = [status |-> 0, is |-> "none", entry |-> {}]
      /\ d = [status |-> IF E # {} THEN 200 ELSE b.status, is |-> "dict", entry |-> E]
      /\ b.status \in {0, 200, 400}
    BY DEF Response, GoodResponse, ResponseSet
<1>2. Added(b, E) = MergeResponse(a, d)
    BY DEF Added
<1> HIDE DEF a, d
<1>3. CASE d.status > 0
  <2>1. MergeResponse(a, d) = d
      BY <1>1, <1>3 DEF MergeResponse
  <2>2. d.status # 200 => E = {}
      BY <1>1
  <2> QED
      BY <1>1, <1>2, <2>1, <2>2 DEF GoodResponse, ResponseSet
<1>4. CASE ~(d.status > 0)
  <2>1. d.status = 0 /\ E = {} /\ b.status = 0
      BY <1>1, <1>4
  <2>2. MergeResponse(a, d) = [status |-> 0, is |-> "dict", entry |-> {}]
      BY <1>1, <2>1 DEF MergeResponse, MergeContent, Response
  <2> QED
      BY <1>2, <2>1, <2>2 DEF GoodResponse, ResponseSet
<1> QED
    BY <1>3, <1>4

\* What extends an extension extends the first.
LEMMA ExtendsOn ==
  ASSUME NEW s \in EntrySet, NEW e \in EntrySet, NEW f \in EntrySet, Extends(e, s), Extends(f, e)
  PROVE  Extends(f, s)
<1>1. /\ s.t \in Seq(Int) /\ e.t \in Seq(Int) /\ f.t \in Seq(Int)
      /\ s.x \in Seq(Int) /\ e.x \in Seq(Int) /\ f.x \in Seq(Int)
    BY DEF EntrySet
<1>2. ASSUME NEW p \in Seq(Int), NEW q \in Seq(Int), NEW r \in Seq(Int),
             IsPrefix(p, q), IsPrefix(q, r)
      PROVE  IsPrefix(p, r)
  <2>1. /\ Len(p) <= Len(q) /\ \A i \in 1 .. Len(p) : p[i] = q[i]
        /\ Len(q) <= Len(r) /\ \A i \in 1 .. Len(q) : q[i] = r[i]
      BY <1>2, PrefixIs
  <2>2. Len(p) \in Nat /\ Len(q) \in Nat /\ Len(r) \in Nat
      OBVIOUS
  <2>3. Len(p) <= Len(r)
      BY <2>1, <2>2
  <2>4. ASSUME NEW i \in 1 .. Len(p) PROVE p[i] = r[i]
    <3>1. i \in 1 .. Len(q)
        BY <2>1, <2>2
    <3> QED
        BY <2>1, <3>1
  <2> QED
      BY <2>3, <2>4, PrefixIs
<1> QED
    BY <1>1, <1>2 DEF Extends

\* The entries of the last data source.
LEMMA StoredEntries ==
  ASSUME InputsOK, StoresWork
  PROVE  LastStored \in SUBSET EntrySet
<1>1. daStores \in Seq(ResponseSet) /\ daStores # << >>
    BY DEF InputsOK, StoresWork
<1>2. daStores[Len(daStores)] \in ResponseSet
    BY <1>1
<1> QED
    BY <1>2 DEF LastStored, ResponseSet

\* A plain merge: of the router, of the user modules, of the tasks when the
\* window is in the past, and of a data source.
LEMMA PlainStage ==
  ASSUME InputsOK, NEW n \in 2 .. 6, NEW a, NEW b, GoodResponse(a), Stage(n, b), n # 3,
         n = 5 => ~HoldsNow, StoresWork \/ n <= 5 => a.status <= 200,
         \A e \in a.entry : Plain(e)
  PROVE  Stage(n - 1, MergeResponse(a, b))
<1> DEFINE r == MergeResponse(a, b)
<1>1. GoodResponse(b) /\ KeepsStored(b) /\ n - 1 \in 1 .. 5
    BY DEF Stage
<1>2. GoodResponse(r) /\ r.entry \in {a.entry, b.entry}
      /\ (a.status <= 200 /\ b.entry # {} => r.entry = b.entry)
      /\ (a.status <= 200 /\ b.status = 200 => r.status = 200)
    BY <1>1, MergeIs
<1> HIDE DEF r
<1>3. KeepsStored(r)
  <2> SUFFICES ASSUME StoresWork
               PROVE  r.status = 200 /\ \A s \in LastStored : \E e \in r.entry : Extends(e, s)
      BY DEF KeepsStored
  <2>1. b.status = 200 /\ \A s \in LastStored : \E e \in b.entry : Extends(e, s)
      BY <1>1 DEF KeepsStored
  <2> QED
      BY <1>2, <2>1
<1>4. n - 1 \in {3, 4} => ReachesTask(r)
  <2> SUFFICES ASSUME n - 1 \in {3, 4}, TaskCounts
               PROVE  \E e \in r.entry : Reaches(e, AnswerNow)
      BY DEF ReachesTask
  <2>1. n = 4 /\ a.status <= 200
      BY DEF TaskCounts
  <2>2. PICK e \in b.entry : Reaches(e, AnswerNow)
      BY <2>1 DEF Stage, ReachesTask
  <2> QED
      BY <1>2, <2>1, <2>2
<1>5. n - 1 <= 2 => ShowsTask(r) /\ ShowsCache(r)
  <2> SUFFICES ASSUME n - 1 <= 2 PROVE ShowsTask(r) /\ ShowsCache(r)
      OBVIOUS
  <2>1. ShowsTask(b) /\ ShowsCache(b) /\ a.status <= 200
      BY DEF Stage
  <2>2. b.entry \subseteq r.entry
      BY <1>2, <2>1
  <2> QED
      BY <2>1, <2>2 DEF ShowsTask, ShowsCache
<1>6. n - 1 >= 3 => \A e \in r.entry : Plain(e)
    BY <1>2 DEF Stage
<1>7. Stage(n - 1, r)
    BY <1>2, <1>3, <1>4, <1>5, <1>6 DEF Stage
<1> QED
    BY <1>7 DEF r

\* The merge of the task component.
LEMMA TaskStage ==
  ASSUME InputsOK, NEW b, Stage(5, b), HoldsNow
  PROVE  Stage(4, TaskMerge(b))
<1> DEFINE E == CASE ~daTask -> b.entry
                  [] daTask /\ b.entry = {} -> {Scalar(AnswerStart, AnswerNow)}
                  [] OTHER -> {AddNewer(e, AnswerNow, 0) : e \in b.entry}
           r == TaskMerge(b)
<1>1. r = Added(b, E)
    BY DEF TaskMerge
<1>2. /\ GoodResponse(b) /\ KeepsStored(b) /\ \A e \in b.entry : GoodEntry(e) /\ Plain(e)
      /\ b.entry \in SUBSET EntrySet
    BY DEF Stage, GoodResponse, ResponseSet, GoodEntry
<1>3. AnswerStart \in Int /\ AnswerNow \in Nat /\ 0 \in Nat
    BY StartIs
<1>4. /\ \A e \in E : GoodEntry(e) /\ Plain(e)
      /\ \A e \in b.entry : \E f \in E : Extends(f, e)
      /\ daTask => \E f \in E : Reaches(f, AnswerNow)
  <2>1. CASE ~daTask
    <3>1. E = b.entry
        BY <2>1
    <3>2. \A e \in b.entry : Extends(e, e)
        BY <1>2, ExtendsSelf
    <3> HIDE DEF E
    <3> QED
        BY <1>2, <2>1, <3>1, <3>2
  <2>2. CASE daTask /\ b.entry = {}
    <3>1. E = {Scalar(AnswerStart, AnswerNow)}
        BY <2>2
    <3> HIDE DEF E
    <3> QED
        BY <1>3, <2>2, <3>1, ScalarIs DEF Plain
  <2>3. CASE daTask /\ b.entry # {}
    <3>1. E = {AddNewer(e, AnswerNow, 0) : e \in b.entry}
        BY <2>3
    <3> HIDE DEF E
    <3>2. ASSUME NEW e \in b.entry
          PROVE  LET f == AddNewer(e, AnswerNow, 0)
                 IN  GoodEntry(f) /\ Plain(f) /\ Extends(f, e) /\ Reaches(f, AnswerNow)
      <4>1. Reaches(AddNewer(e, AnswerNow, 0), AnswerNow - 0)
          BY <1>2, <1>3, AddNewerOf
      <4>2. AnswerNow - 0 = AnswerNow
          BY <1>3
      <4>3. GoodEntry(AddNewer(e, AnswerNow, 0)) /\ Plain(AddNewer(e, AnswerNow, 0))
            /\ Extends(AddNewer(e, AnswerNow, 0), e)
          BY <1>2, <1>3, AddNewerOf
      <4> QED
          BY <4>1, <4>2, <4>3
    <3> QED
        BY <2>3, <3>1, <3>2
  <2> QED
      BY <2>1, <2>2, <2>3
<1> HIDE DEF E
<1>5. E \in SUBSET EntrySet /\ \A e \in E : TrueSeries(e)
    BY <1>4 DEF GoodEntry
<1>6. /\ GoodResponse(r) /\ r.entry = E
      /\ r.status = IF E # {} THEN 200 ELSE b.status
    BY <1>1, <1>2, <1>5, AddedIs
<1> HIDE DEF r
<1>7. KeepsStored(r)
  <2> SUFFICES ASSUME StoresWork
               PROVE  r.status = 200 /\ \A s \in LastStored : \E e \in r.entry : Extends(e, s)
      BY DEF KeepsStored
  <2>1. b.status = 200 /\ \A s \in LastStored : \E e \in b.entry : Extends(e, s)
      BY <1>2 DEF KeepsStored
  <2>2. ASSUME NEW s \in LastStored PROVE \E f \in E : Extends(f, s)
    <3>1. PICK e \in b.entry : Extends(e, s)
        BY <2>1
    <3>2. PICK f \in E : Extends(f, e)
        BY <1>4
    <3>3. s \in EntrySet /\ e \in EntrySet /\ f \in EntrySet
        BY <1>2, <1>5, StoredEntries
    <3> QED
        BY <3>1, <3>2, <3>3, ExtendsOn
  <2> QED
      BY <1>6, <2>1, <2>2
<1>8. ReachesTask(r)
    BY <1>4, <1>6 DEF ReachesTask, TaskCounts
<1>9. \A e \in r.entry : Plain(e)
    BY <1>4, <1>6
<1>10. Stage(4, r)
    BY <1>6, <1>7, <1>8, <1>9 DEF Stage
<1> QED
    BY <1>10 DEF r

\* With a data source that works, a task or not, an entry that is missing
\* is missing because nothing there is.
LEMMA MeshStage ==
  ASSUME InputsOK, NEW b, Stage(3, b)
  PROVE  Stage(2, MeshMerge(b))
<1> DEFINE U == {e \in daCache : InWindow(e)}
           E == CASE U = {} -> b.entry
                  [] U # {} /\ b.entry = {} -> U
                  [] b.entry # {} /\ \E c \in U : Known(c) = {} -> b.entry
                  [] OTHER -> UNION {{AddNewer(e, LastKnown(c), 1) : e \in b.entry} : c \in U}
           r == MeshMerge(b)
<1>1. r = Added(b, E)
    BY DEF MeshMerge
<1>2. /\ GoodResponse(b) /\ KeepsStored(b) /\ ReachesTask(b)
      /\ \A e \in b.entry : GoodEntry(e) /\ Plain(e) /\ Extends(e, e)
      /\ b.entry \in SUBSET EntrySet
    BY ExtendsSelf DEF Stage, GoodResponse, ResponseSet, GoodEntry
<1>3. /\ \A c \in U : c \in Usable /\ GoodEntry(c) /\ \A i \in 1 .. Len(c.x) : c.x[i] \in Nat \cup {Null}
      /\ \A c, d \in U : c = d
      /\ \A c \in Usable : c \in U
    BY DEF InputsOK, Usable
<1>4. ASSUME NEW c \in U, Known(c) # {} PROVE LastKnown(c) \in Nat
  <2>1. \E i \in 1 .. Len(c.x) : c.x[i] # Null /\ LastKnown(c) = c.x[i]
      BY <1>3, <1>4, LastKnownOf
  <2> QED
      BY <1>3, <2>1
<1>5. AnswerNow \in Nat
    BY DataAnswerAssumption
<1>12. ASSUME NEW e \in b.entry, Reaches(e, AnswerNow)
       PROVE  NewerThan(e, AnswerNow) \/ Hidden(AnswerNow)
    BY <1>2, <1>5, <1>12, ReachesShows
<1> HIDE DEF U
<1>6. /\ \A e \in E : GoodEntry(e)
      /\ \A e \in b.entry : \E f \in E : Extends(f, e)
      /\ \A e \in b.entry : Reaches(e, AnswerNow) =>
           (\E f \in E : NewerThan(f, AnswerNow)) \/ Hidden(AnswerNow)
      /\ \A c \in U : Known(c) # {} =>
           (\E f \in E : NewerThan(f, LastKnown(c) - 1)) \/ Hidden(LastKnown(c) - 1)
  <2>1. CASE U = {}
    <3>1. E = b.entry
        BY <2>1
    <3> HIDE DEF E
    <3> QED
        BY <1>2, <1>12, <2>1, <3>1
  <2>2. CASE U # {} /\ b.entry = {}
    <3>1. E = U
        BY <2>2
    <3> HIDE DEF E
    <3>2. ASSUME NEW c \in U, Known(c) # {} PROVE NewerThan(c, LastKnown(c) - 1)
      <4>1. LastKnown(c) \in Nat
          BY <1>4, <3>2
      <4> QED
          BY <3>2, <4>1 DEF NewerThan
    <3> QED
        BY <1>3, <2>2, <3>1, <3>2
  <2>3. CASE b.entry # {} /\ \E c \in U : Known(c) = {}
    <3>1. E = b.entry
        BY <2>3
    <3>2. \A c \in U : Known(c) = {}
        BY <1>3, <2>3
    <3> HIDE DEF E
    <3> QED
        BY <1>2, <1>12, <3>1, <3>2
  <2>4. CASE U # {} /\ b.entry # {} /\ \A c \in U : Known(c) # {}
    <3>1. E = UNION {{AddNewer(e, LastKnown(c), 1) : e \in b.entry} : c \in U}
        BY <2>4
    <3>2. \A f : f \in E <=> \E c \in U : \E e \in b.entry : f = AddNewer(e, LastKnown(c), 1)
      <4> DEFINE Newer(c) == {AddNewer(e, LastKnown(c), 1) : e \in b.entry}
      <4>1. \A c, f : f \in Newer(c) <=> \E e \in b.entry : f = AddNewer(e, LastKnown(c), 1)
          OBVIOUS
      <4>2. E = UNION {Newer(c) : c \in U}
          BY <3>1
      <4> HIDE DEF Newer, E
      <4>3. \A f : f \in E <=> \E c \in U : f \in Newer(c)
          BY <4>2, Zenon
      <4> QED
          BY <4>1, <4>3
    <3> HIDE DEF E
    <3>3. ASSUME NEW c \in U, NEW e \in b.entry
          PROVE  /\ AddNewer(e, LastKnown(c), 1) \in E
                 /\ GoodEntry(AddNewer(e, LastKnown(c), 1))
                 /\ Extends(AddNewer(e, LastKnown(c), 1), e)
                 /\ \/ NewerThan(AddNewer(e, LastKnown(c), 1), LastKnown(c) - 1)
                    \/ Hidden(LastKnown(c) - 1)
                 /\ Reaches(e, AnswerNow) =>
                      \/ NewerThan(AddNewer(e, LastKnown(c), 1), AnswerNow)
                      \/ Hidden(AnswerNow)
      <4>1. LastKnown(c) \in Nat /\ 1 \in Nat /\ GoodEntry(e) /\ Plain(e)
          BY <1>2, <1>4, <2>4
      <4>2. AddNewer(e, LastKnown(c), 1) \in E
          BY <3>2
      <4>3. GoodEntry(AddNewer(e, LastKnown(c), 1))
          BY <4>1, AddNewerOf
      <4>4. Extends(AddNewer(e, LastKnown(c), 1), e)
          BY <4>1, AddNewerOf
      <4>5. Plain(AddNewer(e, LastKnown(c), 1))
            /\ Reaches(AddNewer(e, LastKnown(c), 1), LastKnown(c) - 1)
            /\ (Reaches(e, AnswerNow) => Reaches(AddNewer(e, LastKnown(c), 1), AnswerNow))
          BY <1>5, <4>1, AddNewerOf
      <4>6. LastKnown(c) - 1 \in Int /\ AnswerNow \in Int
          BY <1>5, <4>1
      <4> QED
          BY <4>2, <4>3, <4>4, <4>5, <4>6, ReachesShows
    <3>5. \A e \in E : GoodEntry(e)
        BY <3>2, <3>3
    <3>6. PICK c \in U : TRUE
        BY <2>4
    <3>7. PICK d \in b.entry : TRUE
        BY <2>4
    <3>8. \A e \in b.entry : \E f \in E : Extends(f, e)
        BY <3>3, <3>6
    <3>9. \A e \in b.entry : Reaches(e, AnswerNow) =>
            (\E f \in E : NewerThan(f, AnswerNow)) \/ Hidden(AnswerNow)
        BY <3>3, <3>6
    <3>10. \A k \in U : Known(k) # {} =>
             (\E f \in E : NewerThan(f, LastKnown(k) - 1)) \/ Hidden(LastKnown(k) - 1)
        BY <3>3, <3>7
    <3> QED
        BY <3>5, <3>8, <3>9, <3>10
  <2> QED
      BY <2>1, <2>2, <2>3, <2>4
<1> HIDE DEF E
<1>7. E \in SUBSET EntrySet /\ \A e \in E : TrueSeries(e)
    BY <1>6 DEF GoodEntry
<1>8. /\ GoodResponse(r) /\ r.entry = E
      /\ r.status = IF E # {} THEN 200 ELSE b.status
    BY <1>1, <1>2, <1>7, AddedIs
<1> HIDE DEF r
<1>9. KeepsStored(r)
  <2> SUFFICES ASSUME StoresWork
               PROVE  r.status = 200 /\ \A s \in LastStored : \E e \in r.entry : Extends(e, s)
      BY DEF KeepsStored
  <2>1. b.status = 200 /\ \A s \in LastStored : \E e \in b.entry : Extends(e, s)
      BY <1>2 DEF KeepsStored
  <2>2. ASSUME NEW s \in LastStored PROVE \E f \in E : Extends(f, s)
    <3>1. PICK e \in b.entry : Extends(e, s)
        BY <2>1
    <3>2. PICK f \in E : Extends(f, e)
        BY <1>6
    <3>3. s \in EntrySet /\ e \in EntrySet /\ f \in EntrySet
        BY <1>2, <1>7, StoredEntries
    <3> QED
        BY <3>1, <3>2, <3>3, ExtendsOn
  <2> QED
      BY <1>8, <2>1, <2>2
<1>10. ShowsTask(r)
    BY <1>2, <1>6, <1>8 DEF ShowsTask, ReachesTask
<1>11. ShowsCache(r)
    BY <1>3, <1>6, <1>8 DEF ShowsCache
<1>13. Stage(2, r)
    BY <1>8, <1>9, <1>10, <1>11 DEF Stage
<1> QED
    BY <1>13 DEF r

\* Initially the last response is the task component's, or a data source's.
LEMMA InitAnswerInv == DataAnswerInit => DataAnswerInv
<1> SUFFICES ASSUME DataAnswerInit PROVE DataAnswerInv
    OBVIOUS
<1> DEFINE k == Len(daStores)
           n == Len(Responses)
           r == Responses[n].response
<1>1. InputsOK
    BY InitInputs
<1>2. daList = Responses
    BY DEF DataAnswerInit
<1>3. /\ Responses \in Seq([by : {"router", "mesh", "user", "task", "past", "store"},
                            response : ResponseSet])
      /\ n = 4 + k
      /\ Responses[4] = By(IF HoldsNow THEN "task" ELSE "past", TaskResponse)
      /\ \A i \in 1 .. k : Responses[4 + i] = By("store", daStores[i])
      /\ GoodResponse(TaskResponse) /\ TaskResponse.entry = {}
    BY <1>1, ResponsesIs
<1>4. k \in 0 .. 2 /\ daStores \in Seq(ResponseSet)
  <2>1. daStores \in Seq(ResponseSet) /\ Len(daStores) <= 2
      BY <1>1 DEF InputsOK
  <2>2. Len(daStores) \in Nat
      BY <2>1
  <2>3. \A m \in Nat : m <= 2 => m \in 0 .. 2
      OBVIOUS
  <2> QED
      BY <2>1, <2>2, <2>3, Zenon
<1>5. Stage(n, r)
  <2>1. CASE k = 0
    <3>1. n = 4 /\ r = TaskResponse
        BY <1>3, <2>1 DEF By
    <3>2. daStores = << >>
        BY <1>4, <2>1
    <3>3. GoodResponse(r) /\ r.entry = {}
        BY <1>3, <3>1
    <3> HIDE DEF n, r
    <3> QED
        BY <3>1, <3>2, <3>3 DEF Stage, KeepsStored, StoresWork, ReachesTask, TaskCounts
  <2>2. CASE k # 0
    <3>1. k \in 1 .. k /\ n >= 5
        BY <1>3, <1>4, <2>2
    <3>2. r = daStores[k]
      <4>1. Responses[n] = By("store", daStores[k])
          BY <1>3, <3>1, Zenon
      <4> QED
          BY <4>1 DEF By
    <3>3. GoodResponse(r) /\ \A e \in r.entry : Plain(e)
        BY <1>1, <3>1, <3>2 DEF InputsOK
    <3>4. KeepsStored(r)
      <4> SUFFICES ASSUME StoresWork
                   PROVE  r.status = 200 /\ \A s \in LastStored : \E e \in r.entry : Extends(e, s)
          BY DEF KeepsStored
      <4>1. LastStored = r.entry /\ r.status = 200
          BY <1>4, <3>1, <3>2 DEF LastStored, StoresWork
      <4>2. \A s \in LastStored : Extends(s, s)
          BY <1>1, ExtendsSelf, StoredEntries
      <4> QED
          BY <4>1, <4>2
    <3>5. n \in Nat
        BY <1>3, <1>4
    <3> HIDE DEF n, r
    <3> QED
        BY <3>1, <3>3, <3>4, <3>5 DEF Stage
  <2> QED
      BY <2>1, <2>2
<1>6. n \in 1 .. n
    BY <1>3, <1>4
<1> QED
    BY <1>1, <1>2, <1>3, <1>5, <1>6 DEF DataAnswerInv, ListOK

\* The response of a place, with all that comes after merged into it, when one
\* more is merged.
LEMMA MergedStage ==
  ASSUME InputsOK, NEW n \in 2 .. Len(Responses), NEW a, NEW b,
         a = Responses[n - 1], b.by = Responses[n].by, Stage(n, b.response)
  PROVE  Stage(n - 1, Merged(a, b)) /\ Merged(a, b) \in ResponseSet
<1> DEFINE none == Response(0, "none", {})
           S == StoresWork
<1>1. /\ Len(Responses) = 4 + Len(daStores)
      /\ Responses[1] = By("router", none) /\ Responses[2] = By("mesh", none)
      /\ Responses[3] = By("user", UserResponse)
      /\ Responses[4] = By(IF HoldsNow THEN "task" ELSE "past", TaskResponse)
      /\ \A i \in 1 .. Len(daStores) : Responses[4 + i] = By("store", daStores[i])
      /\ GoodResponse(UserResponse) /\ UserResponse.status = 200
      /\ GoodResponse(TaskResponse) /\ TaskResponse.entry = {}
      /\ TaskResponse.status = IF HoldsNow THEN 0 ELSE 200
      /\ \A e \in UserResponse.entry : Plain(e)
    BY ResponsesIs
<1>2. Len(daStores) \in 0 .. 2
  <2>1. daStores \in Seq(ResponseSet) /\ Len(daStores) <= 2
      BY DEF InputsOK
  <2>2. Len(daStores) \in Nat
      BY <2>1
  <2>3. \A m \in Nat : m <= 2 => m \in 0 .. 2
      OBVIOUS
  <2> QED
      BY <2>1, <2>2, <2>3, Zenon
<1>3. n \in 2 .. 6
    BY <1>1, <1>2
<1>4. GoodResponse(none) /\ none.status = 0 /\ none.entry = {}
    BY DEF Response, GoodResponse, ResponseSet
<1> HIDE DEF none
<1>5. Stage(n - 1, Merged(a, b))
  <2>1. CASE n = 2
    <3>1. Merged(a, b) = MergeResponse(none, b.response)
        BY <1>1, <2>1 DEF Merged, By
    <3>2. \A e \in none.entry : Plain(e)
        BY <1>4
    <3>3. none.status <= 200
        BY <1>4
    <3> QED
        BY <1>3, <1>4, <2>1, <3>1, <3>2, <3>3, PlainStage
  <2>2. CASE n = 3
    <3>1. Merged(a, b) = MeshMerge(b.response)
        BY <1>1, <2>2 DEF Merged, By
    <3>2. Stage(2, MeshMerge(b.response))
        BY <2>2, MeshStage
    <3> QED
        BY <2>2, <3>1, <3>2
  <2>3. CASE n = 4
    <3>1. Merged(a, b) = MergeResponse(UserResponse, b.response)
        BY <1>1, <2>3 DEF Merged, By
    <3>2. UserResponse.status <= 200
        BY <1>1
    <3> QED
        BY <1>1, <1>3, <2>3, <3>1, <3>2, PlainStage
  <2>4. CASE n = 5 /\ HoldsNow
    <3>1. Merged(a, b) = TaskMerge(b.response)
        BY <1>1, <2>4 DEF Merged, By
    <3>2. Stage(4, TaskMerge(b.response))
        BY <2>4, TaskStage
    <3> QED
        BY <2>4, <3>1, <3>2
  <2>5. CASE n = 5 /\ ~HoldsNow
    <3>1. Merged(a, b) = MergeResponse(TaskResponse, b.response)
        BY <1>1, <2>5 DEF Merged, By
    <3>2. TaskResponse.status <= 200 /\ \A e \in TaskResponse.entry : Plain(e)
        BY <1>1, <2>5
    <3> QED
        BY <1>1, <1>3, <2>5, <3>1, <3>2, PlainStage
  <2>6. CASE n = 6
    <3>0. 1 \in 1 .. Len(daStores)
        BY <1>1, <1>2, <2>6
    <3>1. a = By("store", daStores[1])
        BY <1>1, <2>6, <3>0
    <3>2. Merged(a, b) = MergeResponse(daStores[1], b.response)
        BY <3>1 DEF Merged, By
    <3>3. GoodResponse(daStores[1]) /\ \A e \in daStores[1].entry : Plain(e)
        BY <3>0 DEF InputsOK
    <3>4. StoresWork => daStores[1].status = 200
        BY <3>0 DEF InputsOK, StoresWork
    <3>5. StoresWork \/ n <= 5 => daStores[1].status <= 200
        BY <2>6, <3>4
    <3> QED
        BY <1>3, <2>6, <3>2, <3>3, <3>5, PlainStage
  <2> QED
      BY <1>3, <2>1, <2>2, <2>3, <2>4, <2>5, <2>6
<1> QED
    BY <1>5 DEF Stage, GoodResponse

\* The invariant speaks of the inputs, which nothing changes.
LEMMA InputsKept ==
  ASSUME UNCHANGED daInputs
  PROVE  /\ InputsOK => InputsOK'
         /\ Responses' = Responses
         /\ \A n, r : Stage(n, r) => Stage(n, r)'
<1>1. /\ daTo' = daTo /\ daStores' = daStores /\ daTask' = daTask /\ daUser' = daUser
      /\ daCache' = daCache
    BY DEF daInputs
<1>3. /\ HoldsNow' = HoldsNow /\ StoresWork' = StoresWork /\ LastStored' = LastStored
      /\ Usable' = Usable /\ AnswerStart' = AnswerStart
    BY <1>1 DEF HoldsNow, StoresWork, LastStored, Usable, InWindow, MeshTo, AnswerStart
<1>6. TaskCounts' = TaskCounts /\ (\A e : Plain(e)' = Plain(e)) /\ (\A t : Hidden(t)' = Hidden(t))
    BY <1>1, <1>3 DEF TaskCounts, Plain, Hidden
<1>2. InputsOK => InputsOK'
    BY <1>1, <1>6 DEF InputsOK
<1>4. Responses' = Responses
    BY <1>1, <1>3 DEF Responses, UserResponse, TaskResponse
<1>5. ASSUME NEW CONSTANT n, NEW CONSTANT r, Stage(n, r) PROVE Stage(n, r)'
    BY <1>1, <1>3, <1>5, <1>6 DEF Stage, KeepsStored, ReachesTask, ShowsTask, ShowsCache
<1> QED
    BY <1>2, <1>4, <1>5

\* A turn of the loop keeps the invariant.
LEMMA AnswerStep == DataAnswerInv /\ [MergeLast]_daVars => DataAnswerInv'
<1> SUFFICES ASSUME DataAnswerInv, [MergeLast]_daVars PROVE DataAnswerInv'
    OBVIOUS
<1> DEFINE S == [by : {"router", "mesh", "user", "task", "past", "store"}, response : ResponseSet]
<1>1. InputsOK /\ ListOK
    BY DEF DataAnswerInv
<1>2. UNCHANGED daInputs
    BY DEF MergeLast, daVars
<1>3. InputsOK' /\ Responses' = Responses
    BY <1>1, <1>2, InputsKept
<1>4. PICK n : n = Len(daList)
    OBVIOUS
<1>5. /\ daList \in Seq(S) /\ n \in 1 .. Len(Responses)
      /\ \A i \in 1 .. n - 1 : daList[i] = Responses[i]
      /\ daList[n].by = Responses[n].by /\ Stage(n, daList[n].response)
    BY <1>1, <1>4 DEF ListOK
<1>6. Len(Responses) \in Nat /\ n \in Nat
  <2>1. Responses \in Seq(S)
      BY <1>1, ResponsesIs
  <2>2. Len(Responses) \in Nat
      BY <2>1
  <2> QED
      BY <1>5, <2>2
<1>7. CASE MergeLast
  <2>1. n > 1 /\ daList' = Append(SubSeq(daList, 1, n - 2),
                             By(daList[n - 1].by, Merged(daList[n - 1], daList[n])))
      BY <1>4, <1>7 DEF MergeLast
  <2>2. n - 1 \in 1 .. n - 1 /\ n - 1 \in 1 .. Len(Responses) /\ n \in 2 .. Len(Responses)
        /\ n - 2 \in Nat
      BY <1>5, <1>6, <2>1
  <2>3. daList[n - 1] = Responses[n - 1]
      BY <1>5, <2>2
  <2>4. PICK r : r = Merged(daList[n - 1], daList[n])
      OBVIOUS
  <2>5. Stage(n - 1, r) /\ r \in ResponseSet
      BY <1>1, <1>5, <2>2, <2>3, <2>4, MergedStage
  <2>6. daList[n - 1] \in S /\ n = Len(daList)
    <3> HIDE DEF S
    <3>1. n - 1 \in 1 .. Len(daList)
        BY <1>4, <1>6, <2>1
    <3> QED
        BY <1>4, <1>5, <3>1
  <2>7. PICK w : w = daList[n - 1].by
      OBVIOUS
  <2>8. By(w, r) \in S
      BY <2>5, <2>6, <2>7 DEF By
  <2> DEFINE s == SubSeq(daList, 1, n - 2)
  <2> HIDE DEF S
  <2>9. s \in Seq(S) /\ Len(s) = n - 2 /\ \A i \in 1 .. n - 2 : s[i] = daList[i]
      BY <1>5, <1>6, <2>2, <2>6
  <2> HIDE DEF s
  <2>10. daList' = Append(s, By(w, r))
      BY <2>1, <2>4, <2>7 DEF s
  <2>11. /\ daList' \in Seq(S) /\ Len(daList') = n - 1 /\ daList'[n - 1] = By(w, r)
         /\ \A i \in 1 .. n - 2 : daList'[i] = daList[i]
      BY <1>6, <2>2, <2>8, <2>9, <2>10
  <2>12. \A i \in 1 .. n - 2 : daList'[i] = Responses[i]
    <3>1. \A i \in 1 .. n - 2 : i \in 1 .. n - 1
        BY <1>6
    <3> QED
        BY <1>5, <2>11, <3>1, Zenon
  <2>13. daList'[n - 1].by = Responses[n - 1].by /\ daList'[n - 1].response = r
      BY <2>3, <2>7, <2>11 DEF By
  <2>14. Stage(n - 1, r)'
      BY <1>2, <2>5, InputsKept
  <2>15. ListOK'
    <3>1. (n - 1) - 1 = n - 2
        BY <1>6
    <3> QED
        BY <1>3, <2>2, <2>11, <2>12, <2>13, <2>14, <3>1 DEF ListOK, S
  <2> QED
      BY <1>3, <2>15 DEF DataAnswerInv
<1>8. CASE UNCHANGED daVars
  <2>1. daList' = daList
      BY <1>8 DEF daVars
  <2>2. PICK r : r = daList[n].response
      OBVIOUS
  <2>3. Stage(n, r)'
      BY <1>2, <1>5, <2>2, InputsKept
  <2>4. ListOK'
      BY <1>3, <1>4, <1>5, <2>1, <2>2, <2>3 DEF ListOK
  <2> QED
      BY <1>3, <2>4 DEF DataAnswerInv
<1> QED
    BY <1>7, <1>8

\* The end of what is stored is at some time.
LEMMA StoredTimeIs ==
  ASSUME InputsOK, daStores # << >>, NEW s \in LastStored, s.t # << >>
  PROVE  EntryTime(s) \in Int
<1>1. daStores \in Seq(ResponseSet)
    BY DEF InputsOK
<1>2. s \in EntrySet
  <2>1. Len(daStores) \in 1 .. Len(daStores)
      BY <1>1
  <2>2. daStores[Len(daStores)] \in ResponseSet
      BY <1>1, <2>1
  <2> QED
      BY <2>2 DEF LastStored, ResponseSet
<1>3. s.start \in Int /\ s.t \in Seq(Int)
    BY <1>2 DEF EntrySet
<1>4. Last(s.t) \in Int
    BY <1>3 DEF Last
<1> QED
    BY <1>3, <1>4 DEF EntryTime

\* What is known of the answer when there is one.
LEMMA AnswerInvIsCurrent == DataAnswerInv => AnswerIsCurrent
<1> SUFFICES ASSUME DataAnswerInv, Answered PROVE
      /\ \A e \in Answer.entry : TrueSeries(e)
      /\ StoresWork => \A s \in LastStored : \E e \in Answer.entry :
           e.start = s.start /\ IsPrefix(s.t, e.t) /\ IsPrefix(s.x, e.x)
      /\ \A time \in Newest :
           \/ \E e \in Answer.entry : Known(e) # {} /\ LastKnown(e) >= time - 1
           \/ HidesNewer(time)
    BY DEF AnswerIsCurrent
<1>1. InputsOK /\ Stage(1, Answer)
    BY DEF DataAnswerInv, ListOK, Answered, Answer
<1>2. GoodResponse(Answer) /\ KeepsStored(Answer) /\ ShowsTask(Answer) /\ ShowsCache(Answer)
    BY <1>1 DEF Stage
<1>3. \A e \in Answer.entry : TrueSeries(e) /\ GoodEntry(e)
    BY <1>2 DEF GoodResponse, ResponseSet, GoodEntry
<1>4. ASSUME NEW time \in Newest
      PROVE  \/ \E e \in Answer.entry : Known(e) # {} /\ LastKnown(e) >= time - 1
             \/ HidesNewer(time)
  <2>1. CASE \E c \in Usable : Known(c) # {} /\ time = LastKnown(c)
      BY <1>2, <2>1 DEF ShowsCache, NewerThan, Hidden, HidesNewer
  <2>2. CASE daTask /\ HoldsNow /\ daStores # << >> /\ time = AnswerNow
    <3>1. AnswerNow \in Nat
        BY DataAnswerAssumption
    <3>2. CASE \E e \in Answer.entry : NewerThan(e, AnswerNow)
      <4>1. PICK e \in Answer.entry : NewerThan(e, AnswerNow)
          BY <3>2
      <4>2. LastKnown(e) \in Int
          BY <1>3, <4>1, LastKnownOf DEF NewerThan
      <4> QED
          BY <2>2, <3>1, <4>1, <4>2 DEF NewerThan
    <3>3. CASE Hidden(AnswerNow)
      <4>1. PICK s \in LastStored : s.t # << >> /\ Last(s.x) = Null /\ EntryTime(s) >= AnswerNow
          BY <3>3 DEF Hidden
      <4>2. EntryTime(s) \in Int
          BY <1>1, <2>2, <4>1, StoredTimeIs
      <4>3. EntryTime(s) >= time - 1
          BY <2>2, <3>1, <4>1, <4>2
      <4> QED
          BY <2>2, <4>1, <4>3 DEF HidesNewer
    <3> QED
        BY <1>2, <2>2, <3>2, <3>3 DEF ShowsTask, TaskCounts
  <2> QED
      BY <2>1, <2>2 DEF Newest, Usable
<1> QED
    BY <1>2, <1>3, <1>4 DEF KeepsStored, Extends

\* Whatever the data sources, tasks, user modules and the cache have, the answer
\* is one series in the order of time that keeps the stored points and ends with
\* a value as new as the newest, or with the empty bucket, as new, that the last
\* data source ends with (sd_mesh.py: CacheDataMergerResponse.merge_response();
\* sd_taskmodule.py: DataMergerResponse.merge_response(); router.py).
THEOREM AnswerAlwaysCurrent == DataAnswerSpec => []AnswerIsCurrent
<1>1. DataAnswerInit => DataAnswerInv
    BY InitAnswerInv
<1>2. DataAnswerInv /\ [MergeLast]_daVars => DataAnswerInv'
    BY AnswerStep
<1>3. DataAnswerInv => AnswerIsCurrent
    BY AnswerInvIsCurrent
<1> QED
    BY <1>1, <1>2, <1>3, PTL DEF DataAnswerSpec

(*************************************************************************)
(* Resample: whatever the points, the window and the interval.  The points *)
(* are in the order of time (ResampleInv).                               *)
(*************************************************************************)
\* The buckets cover the window that is asked for and less than one more in
\* front, and each time from their start to their end, and no other, is in one
\* of them; later times are in later buckets (sd_datasource.py, resample()).
THEOREM BucketsCover ==
  ASSUME NEW length \in Nat, NEW interval \in Nat \ {0}, NEW to \in Int
  PROVE  LET start == StartOf(length, to, interval)
             bucket(t) == (t - start) \div interval
         IN  /\ start <= to - length /\ start > to - length - interval
             /\ \A t \in Int : bucket(t) \in 0 .. Bins(length, interval) - 1 <=> start <= t /\ t < to
             /\ \A s, t \in Int : s <= t => bucket(s) <= bucket(t)
<1> DEFINE start == StartOf(length, to, interval)
           bucket(t) == (t - start) \div interval
           q == length \div interval
           r == length % interval
           n == Bins(length, interval)
<1>1. r \in 0 .. interval - 1 /\ length = interval * q + r /\ q \in Nat
    BY ModOf
<1>2. n = IF r > 0 THEN q + 1 ELSE q
    BY <1>1 DEF Bins
<1>3. start = to - n * interval
    BY DEF StartOf
<1> HIDE DEF q, r, n
<1>4. n \in Nat
    BY <1>1, <1>2
<1>5. /\ interval * n \in Nat /\ n * interval = interval * n
      /\ interval * n >= length /\ interval * n < length + interval
  <2>1. interval * (q + 1) = interval * q + interval
      BY <1>1
  <2>2. interval * q \in Nat
      BY <1>1
  <2>3. interval * n = IF r > 0 THEN interval * q + interval ELSE interval * q
      BY <1>1, <1>2, <2>1
  <2>4. n * interval = interval * n
      BY <1>4
  <2> QED
      BY <1>1, <2>2, <2>3, <2>4
<1>6. start \in Int /\ start <= to - length /\ start > to - length - interval
      /\ to = start + interval * n
    BY <1>3, <1>5
<1> HIDE DEF start
<1>7. ASSUME NEW t \in Int
      PROVE  bucket(t) \in 0 .. n - 1 <=> start <= t /\ t < to
  <2> DEFINE d == t - start
  <2>0. d \in Int
      BY <1>6
  <2>2. bucket(t) = d \div interval
      OBVIOUS
  <2>3. d >= 0 <=> start <= t
      BY <1>6
  <2>4. d < interval * n <=> t < to
      BY <1>5, <1>6
  <2> HIDE DEF d
  <2> DEFINE k == d \div interval
  <2>1. /\ d \in Int /\ d % interval \in 0 .. interval - 1
        /\ d = interval * k + (d % interval) /\ k \in Int
      BY <2>0, FloorOf
  <2> HIDE DEF k
  <2>5. interval * k \in Int /\ interval * 0 = 0
      BY <2>1
  <2>6. k < 0 => interval * k + interval <= 0
      BY <2>1, <2>5, Factors
  <2>7. 0 < k => interval <= interval * k
      BY <2>1, <2>5, Factors
  <2>8. k < n => interval * k + interval <= interval * n
      BY <1>4, <2>1, Factors
  <2>9. n < k => interval * n + interval <= interval * k
      BY <1>4, <2>1, Factors
  <2>10. k >= 0 <=> d >= 0
      BY <2>1, <2>5, <2>6, <2>7
  <2>11. k < n <=> d < interval * n
    <3>1. k = n => interval * k = interval * n
        OBVIOUS
    <3> QED
        BY <1>4, <1>5, <2>1, <2>5, <2>8, <2>9, <3>1
  <2>12. k \in 0 .. n - 1 <=> k >= 0 /\ k < n
      BY <1>4, <2>1
  <2> QED
      BY <2>2, <2>3, <2>4, <2>10, <2>11, <2>12 DEF k
<1>8. ASSUME NEW s \in Int, NEW t \in Int, s <= t
      PROVE  bucket(s) <= bucket(t)
  <2> DEFINE d == s - start
             e == t - start
  <2>3. d \in Int /\ e \in Int /\ d <= e
      BY <1>6, <1>8
  <2>7. bucket(s) = d \div interval /\ bucket(t) = e \div interval
      OBVIOUS
  <2> HIDE DEF d, e
  <2> DEFINE k == d \div interval
             m == e \div interval
  <2>1. /\ d % interval \in 0 .. interval - 1
        /\ d = interval * k + (d % interval) /\ k \in Int
      BY <2>3, FloorOf
  <2>2. /\ e % interval \in 0 .. interval - 1
        /\ e = interval * m + (e % interval) /\ m \in Int
      BY <2>3, FloorOf
  <2> HIDE DEF k, m
  <2>4. m < k => interval * m + interval <= interval * k
      BY <2>1, <2>2, Factors
  <2>5. interval * m \in Int /\ interval * k \in Int
      BY <2>1, <2>2
  <2>6. ~(m < k)
      BY <2>1, <2>2, <2>3, <2>4, <2>5
  <2> QED
      BY <2>1, <2>2, <2>6, <2>7 DEF k, m
<1> QED
    BY <1>6, <1>7, <1>8, Zenon DEF n, start

-----------------------------------------------------------------------------
SeriesPoint == Int \X Int
InOrderOfTime(s) == \A i, j \in 1 .. Len(s) : i < j => s[i][1] <= s[j][1]
ResampleInv == rsSeries \in Seq(SeriesPoint) /\ InOrderOfTime(rsSeries)

\* The points before a time are the first of a sorted series.
LEMMA PriorIs ==
  ASSUME NEW s \in Seq(SeriesPoint), InOrderOfTime(s), NEW start \in Int
  PROVE  LET before == {i \in DOMAIN s : s[i][1] < start}
             p == Prior(s, start)
         IN  /\ Cardinality(before) \in Nat
             /\ p \in Seq(SeriesPoint) /\ Len(p) = Cardinality(before)
             /\ \A i \in 1 .. Len(p) : p[i] = s[i] /\ i \in 1 .. Len(s) /\ s[i][1] < start
             /\ before = 1 .. Len(p) /\ Len(p) <= Len(s)
<1> DEFINE before == {i \in DOMAIN s : s[i][1] < start}
           A == {i \in DOMAIN s : \A j \in 1 .. i : s[j][1] < start}
<1>0. Len(s) \in Nat /\ DOMAIN s = 1 .. Len(s) /\ \A i \in 1 .. Len(s) : s[i][1] \in Int
    BY DEF SeriesPoint
<1>1. A = before
  <2>1. ASSUME NEW i \in before, NEW j \in 1 .. i PROVE s[j][1] < start
    <3>1. i \in 1 .. Len(s) /\ j \in 1 .. Len(s) /\ j <= i /\ s[i][1] < start
        BY <1>0
    <3>2. CASE j = i
        BY <3>1, <3>2
    <3>3. CASE j < i
      <4>1. s[j][1] <= s[i][1]
          BY <3>1, <3>3 DEF InOrderOfTime
      <4> QED
          BY <1>0, <3>1, <4>1
    <3> QED
        BY <3>1, <3>2, <3>3
  <2>2. ASSUME NEW i \in A PROVE s[i][1] < start
    <3>1. i \in 1 .. i
        BY <1>0
    <3> QED
        BY <3>1
  <2> QED
      BY <2>1, <2>2
<1>2. before \in SUBSET (0 .. Len(s)) /\ before \subseteq 1 .. Len(s)
      /\ \A i \in before : \A j \in 1 .. i : j \in before
  <2>1. ASSUME NEW i \in A, NEW j \in 1 .. i PROVE j \in before
      BY <1>0
  <2> QED
      BY <1>0, <1>1, <2>1
<1> HIDE DEF before, A
<1>3. PICK m \in 0 .. Len(s) : before = 1 .. m
  <2>1. CASE before = {}
    <3>1. before = 1 .. 0 /\ 0 \in 0 .. Len(s)
        BY <1>0, <2>1
    <3> QED
        BY <3>1
  <2>2. CASE before # {}
    <3>1. PICK m \in before : \A x \in before : x <= m
        BY <1>0, <1>2, <2>2, MaxOf
    <3>2. m \in 0 .. Len(s) /\ m \in 1 .. Len(s)
        BY <1>2, <3>1
    <3>3. \A x \in before : x \in 1 .. m
        BY <1>0, <1>2, <3>1, <3>2
    <3>4. \A x \in 1 .. m : x \in before
        BY <1>2, <3>1
    <3> QED
        BY <3>2, <3>3, <3>4
  <2> QED
      BY <2>1, <2>2
<1>4. Cardinality(before) = m /\ m \in Nat /\ m <= Len(s)
  <2>1. Cardinality(1 .. m) = IF 1 > m THEN 0 ELSE m - 1 + 1
      BY <1>0, <1>3, FS_Interval
  <2> QED
      BY <1>0, <1>3, <2>1
<1>5. Prior(s, start) = SubSeq(s, 1, m)
    BY <1>1, <1>4, Zenon DEF Prior, A
<1>6. /\ SubSeq(s, 1, m) \in Seq(SeriesPoint) /\ Len(SubSeq(s, 1, m)) = m
      /\ \A i \in 1 .. m : SubSeq(s, 1, m)[i] = s[i]
  <2> HIDE DEF SeriesPoint
  <2> QED
      BY <1>4
<1>7. \A i \in 1 .. m : i \in 1 .. Len(s) /\ s[i][1] < start
    BY <1>0, <1>3 DEF before
<1> QED
    BY <1>3, <1>4, <1>5, <1>6, <1>7 DEF before

\* w is n values with the points of s before start in front: as many times as
\* values, and the times in order.
HasPrior(s, w, start, n) ==
  LET before == {i \in DOMAIN s : s[i][1] < start}
  IN  /\ Len(w.t) = Len(w.x)
      /\ Len(w.x) = Cardinality(before) + n
      /\ \A i, j \in DOMAIN w.t : i < j => w.t[i] <= w.t[j]
      /\ \A i \in 1 .. Cardinality(before) : w.t[i] = 2 * (s[i][1] - start) /\ w.x[i] = s[i][2]

\* That is what resampling makes of a series, with the points before it.
LEMMA ResampledIs ==
  ASSUME NEW s \in Seq(SeriesPoint), InOrderOfTime(s), NEW length \in Nat, NEW interval \in Nat \ {0},
         NEW to \in Int, NEW reducer
  PROVE  HasPrior(s, Resampled(s, length, to, interval, reducer, TRUE),
                  StartOf(length, to, interval), Bins(length, interval))
<1> DEFINE n == Bins(length, interval)
           start == StartOf(length, to, interval)
           p == Prior(s, start)
           before == {i \in DOMAIN s : s[i][1] < start}
           buckets == Buckets(s, length, to, interval)
           value(k) == Reduce(s, buckets[k - 1], reducer)
           t1 == [i \in DOMAIN p |-> 2 * (p[i][1] - start)]
           t2 == [k \in 1 .. n |-> interval * (2 * k - 1)]
           x1 == [i \in DOMAIN p |-> p[i][2]]
           x2 == [k \in 1 .. n |-> value(k)]
           with == Resampled(s, length, to, interval, reducer, TRUE)
<1>1. with = [t |-> t1 \o t2, x |-> x1 \o x2]
    BY DEF Resampled
<1>2. n \in Nat /\ start \in Int
  <2>1. length \div interval \in Nat
      BY ModOf
  <2>2. n \in Nat
      BY <2>1 DEF Bins
  <2>3. n * interval \in Int
      BY <2>2
  <2> QED
      BY <2>2, <2>3 DEF StartOf
<1> DEFINE m == Cardinality(before)
<1> HIDE DEF start
<1>3. /\ m \in Nat /\ p \in Seq(SeriesPoint) /\ Len(p) = m
      /\ \A i \in 1 .. m : p[i] = s[i] /\ i \in 1 .. Len(s) /\ s[i][1] < start
  <2>1. Cardinality(before) \in Nat
      BY <1>2, PriorIs
  <2>2. p \in Seq(SeriesPoint)
      BY <1>2, PriorIs
  <2>3. Len(p) = Cardinality(before)
      BY <1>2, PriorIs
  <2>4. \A i \in 1 .. Len(p) : p[i] = s[i] /\ i \in 1 .. Len(s) /\ s[i][1] < start
      BY <1>2, PriorIs
  <2> QED
      BY <2>1, <2>2, <2>3, <2>4
<1> HIDE DEF n, p, m, buckets, before
<1>4. DOMAIN p = 1 .. m /\ \A i \in 1 .. m : p[i][1] \in Int /\ p[i][2] \in Int
    BY <1>3 DEF SeriesPoint
<1>5. t1 \in Seq(Int) /\ Len(t1) = m /\ \A i \in 1 .. m : t1[i] = 2 * (p[i][1] - start)
    BY <1>2, <1>3, <1>4
<1>6. t2 \in Seq(Int) /\ Len(t2) = n /\ \A k \in 1 .. n : t2[k] = interval * (2 * k - 1)
  <2>1. \A k \in 1 .. n : interval * (2 * k - 1) \in Int
      BY <1>2
  <2> QED
      BY <1>2, <2>1
<1>7. x1 \in Seq(Int) /\ Len(x1) = m /\ \A i \in 1 .. m : x1[i] = p[i][2]
    BY <1>3, <1>4
<1> DEFINE V == {value(k) : k \in 1 .. n}
<1>8. x2 \in Seq(V) /\ Len(x2) = n
  <2> HIDE DEF value
  <2>1. x2 \in [1 .. n -> V]
      OBVIOUS
  <2> HIDE DEF V
  <2> QED
      BY <1>2, <2>1
<1> HIDE DEF t1, t2, x1, x2, V
<1>9. /\ t1 \o t2 \in Seq(Int) /\ Len(t1 \o t2) = m + n
      /\ \A i \in 1 .. m + n : (t1 \o t2)[i] = IF i <= m THEN t1[i] ELSE t2[i - m]
  <2>1. /\ t1 \o t2 \in Seq(Int) /\ Len(t1 \o t2) = Len(t1) + Len(t2)
        /\ \A i \in 1 .. Len(t1) + Len(t2) :
             (t1 \o t2)[i] = IF i <= Len(t1) THEN t1[i] ELSE t2[i - Len(t1)]
      BY <1>5, <1>6, ConcatProperties, Zenon
  <2> QED
      BY <1>5, <1>6, <2>1
<1>10. Len(x1 \o x2) = m + n /\ \A i \in 1 .. m : (x1 \o x2)[i] = x1[i]
  <2>1. Int \subseteq Int \cup V /\ V \subseteq Int \cup V
      OBVIOUS
  <2>2. x1 \in Seq(Int \cup V) /\ x2 \in Seq(Int \cup V)
    <3>1. x1 \in [1 .. m -> Int] /\ x2 \in [1 .. n -> V]
        BY <1>7, <1>8
    <3>2. x1 \in [1 .. m -> Int \cup V] /\ x2 \in [1 .. n -> Int \cup V]
        BY <3>1
    <3> QED
        BY <1>2, <1>3, <3>2
  <2>3. /\ Len(x1 \o x2) = Len(x1) + Len(x2)
        /\ \A i \in 1 .. Len(x1) + Len(x2) :
             (x1 \o x2)[i] = IF i <= Len(x1) THEN x1[i] ELSE x2[i - Len(x1)]
      BY <2>2, ConcatProperties, Zenon
  <2>4. \A i \in 1 .. m : i \in 1 .. m + n /\ i <= m
      BY <1>2, <1>3
  <2> QED
      BY <1>7, <1>8, <2>3, <2>4
<1>11. \A i \in 1 .. m, j \in 1 .. m : i < j => t1[i] <= t1[j]
  <2> SUFFICES ASSUME NEW i \in 1 .. m, NEW j \in 1 .. m, i < j PROVE t1[i] <= t1[j]
      OBVIOUS
  <2>1. s[i][1] <= s[j][1] /\ p[i] = s[i] /\ p[j] = s[j]
      BY <1>3 DEF InOrderOfTime
  <2>2. p[i][1] \in Int /\ p[j][1] \in Int /\ p[i][1] <= p[j][1]
      BY <1>4, <2>1
  <2>3. t1[i] = 2 * (p[i][1] - start) /\ t1[j] = 2 * (p[j][1] - start)
      BY <1>5
  <2> QED
      BY <1>2, <2>2, <2>3
<1>12. \A i \in 1 .. m : t1[i] <= 0
  <2> SUFFICES ASSUME NEW i \in 1 .. m PROVE t1[i] <= 0
      OBVIOUS
  <2>1. p[i][1] \in Int /\ p[i][1] < start
      BY <1>3, <1>4
  <2>2. t1[i] = 2 * (p[i][1] - start)
      BY <1>5
  <2> QED
      BY <1>2, <2>1, <2>2
<1>13. \A k \in 1 .. n : t2[k] >= 0
  <2> SUFFICES ASSUME NEW k \in 1 .. n PROVE t2[k] >= 0
      OBVIOUS
  <2>1. 2 * k - 1 \in Nat
      BY <1>2
  <2>2. PICK f \in Nat : f = 2 * k - 1
      BY <2>1
  <2>3. interval * f \in Nat
      OBVIOUS
  <2>4. t2[k] = interval * f
      BY <1>6, <2>2
  <2> QED
      BY <2>3, <2>4
<1>14. \A i \in 1 .. n, j \in 1 .. n : i < j => t2[i] <= t2[j]
  <2> SUFFICES ASSUME NEW i \in 1 .. n, NEW j \in 1 .. n, i < j PROVE t2[i] <= t2[j]
      OBVIOUS
  <2>1. 2 * i - 1 \in Int /\ 2 * j - 1 \in Int /\ 2 * i - 1 < 2 * j - 1
      BY <1>2
  <2>2. PICK f \in Int, g \in Int : f = 2 * i - 1 /\ g = 2 * j - 1
      BY <2>1
  <2>3. interval * f + interval <= interval * g
      BY <2>1, <2>2, Factors
  <2>4. interval * f \in Int /\ interval * g \in Int
      OBVIOUS
  <2>5. t2[i] = interval * f /\ t2[j] = interval * g
      BY <1>6, <2>2
  <2> QED
      BY <2>3, <2>4, <2>5
<1>15. ASSUME NEW i \in 1 .. m + n, NEW j \in 1 .. m + n, i < j
       PROVE  (t1 \o t2)[i] <= (t1 \o t2)[j]
  <2>0. i \in Nat /\ j \in Nat /\ m \in Nat /\ n \in Nat /\ 1 <= i /\ j <= m + n /\ i < j
        /\ 1 <= j /\ i <= m + n
      BY <1>2, <1>3, <1>15
  <2>1. CASE j <= m
    <3>1. i \in 1 .. m /\ j \in 1 .. m /\ (t1 \o t2)[i] = t1[i] /\ (t1 \o t2)[j] = t1[j]
        BY <1>2, <1>3, <1>9, <1>15, <2>1
    <3> QED
        BY <1>11, <1>15, <3>1
  <2>2. CASE i <= m /\ m < j
    <3>1. i \in 1 .. m /\ j - m \in 1 .. n
        BY <2>0, <2>2
    <3>4. ~(j <= m)
        BY <2>0, <2>2
    <3>2. (t1 \o t2)[i] = t1[i] /\ (t1 \o t2)[j] = t2[j - m]
        BY <1>9, <2>2, <3>4
    <3>3. t1[i] \in Int /\ t2[j - m] \in Int
        BY <1>5, <1>6, <3>1
    <3> QED
        BY <1>12, <1>13, <3>1, <3>2, <3>3
  <2>3. CASE m < i
    <3>1. i - m \in 1 .. n /\ j - m \in 1 .. n /\ i - m < j - m
        BY <2>0, <2>3
    <3>4. ~(j <= m) /\ ~(i <= m)
        BY <2>0, <2>3
    <3>2. (t1 \o t2)[i] = t2[i - m] /\ (t1 \o t2)[j] = t2[j - m]
        BY <1>9, <3>4
    <3> QED
        BY <1>14, <3>1, <3>2
  <2>4. j <= m \/ (i <= m /\ m < j) \/ m < i
      BY <2>0
  <2> QED
      BY <2>1, <2>2, <2>3, <2>4, Zenon
<1>16. with.t = t1 \o t2 /\ with.x = x1 \o x2
  <2> HIDE DEF with
  <2> QED
      BY <1>1
<1> HIDE DEF with
<1>17. DOMAIN with.t = 1 .. m + n /\ Len(with.t) = m + n /\ Len(with.x) = m + n
    BY <1>9, <1>10, <1>16
<1>18. \A i, j \in DOMAIN with.t : i < j => with.t[i] <= with.t[j]
    BY <1>15, <1>16, <1>17
<1>19. \A i \in 1 .. m : with.t[i] = 2 * (s[i][1] - start) /\ with.x[i] = s[i][2]
  <2>1. \A i \in 1 .. m : i \in 1 .. m + n /\ i <= m
      BY <1>2, <1>3
  <2> QED
      BY <1>3, <1>5, <1>7, <1>9, <1>10, <1>16, <2>1
<1> QED
    BY <1>17, <1>18, <1>19 DEF HasPrior, with, m, n, before, start

\* There are no points at first.
LEMMA InitResample == ResampleInit => ResampleInv
    BY DEF ResampleInit, ResampleInv, InOrderOfTime

\* Points are added in the order of time.
LEMMA ResampleStep == ResampleInv /\ [ResampleNext]_rsSeries => ResampleInv'
<1> SUFFICES ASSUME ResampleInv, [ResampleNext]_rsSeries PROVE ResampleInv'
    OBVIOUS
<1> DEFINE n == Len(rsSeries)
<1>0. rsSeries \in Seq(SeriesPoint) /\ n \in Nat /\ InOrderOfTime(rsSeries)
      /\ \A i \in 1 .. n : rsSeries[i] \in SeriesPoint
    BY DEF ResampleInv
<1>1. CASE UNCHANGED rsSeries
    BY <1>1 DEF ResampleInv, InOrderOfTime
<1>2. ASSUME NEW t \in SeriesTimes, NEW x \in SeriesValues \cup {NaN}, AddPoint(t, x)
      PROVE  ResampleInv'
  <2>1. t \in Int /\ x \in Int /\ <<t, x>> \in SeriesPoint
      BY ResampleAssumption DEF SeriesPoint, NaN
  <2>2. rsSeries' = Append(rsSeries, <<t, x>>)
      BY <1>2 DEF AddPoint
  <2>3. n >= 1 => rsSeries[n][1] <= t
      BY <1>0, <1>2 DEF AddPoint, Last
  <2>4. PICK q : q = <<t, x>>
      OBVIOUS
  <2>5. q \in SeriesPoint /\ q[1] = t
      BY <2>1, <2>4
  <2>6. /\ rsSeries' \in Seq(SeriesPoint) /\ Len(rsSeries') = n + 1 /\ rsSeries'[n + 1] = q
        /\ \A i \in 1 .. n : rsSeries'[i] = rsSeries[i]
    <3> HIDE DEF SeriesPoint
    <3> QED
        BY <1>0, <2>2, <2>4, <2>5
  <2>7. InOrderOfTime(rsSeries')
    <3> SUFFICES ASSUME NEW i \in 1 .. n + 1, NEW j \in 1 .. n + 1, i < j
                 PROVE  rsSeries'[i][1] <= rsSeries'[j][1]
        BY <2>6 DEF InOrderOfTime
    <3> HIDE DEF n
    <3>1. CASE j \in 1 .. n
      <4>1. i \in 1 .. n
          BY <1>0, <3>1
      <4> QED
          BY <1>0, <2>6, <3>1, <4>1 DEF InOrderOfTime, n
    <3>2. CASE j = n + 1
      <4>1. i \in 1 .. n /\ n \in 1 .. n /\ n >= 1
          BY <1>0, <3>2
      <4>2. rsSeries[i][1] \in Int /\ rsSeries[n][1] \in Int
          BY <1>0, <4>1 DEF SeriesPoint
      <4>3. rsSeries[i][1] <= rsSeries[n][1]
        <5>1. CASE i = n
            BY <4>2, <5>1
        <5>2. CASE i # n
          <6>1. i < n
              BY <1>0, <4>1, <5>2
          <6> QED
              BY <1>0, <4>1, <6>1 DEF InOrderOfTime, n
        <5> QED
            BY <5>1, <5>2
      <4> QED
          BY <2>1, <2>3, <2>5, <2>6, <3>2, <4>1, <4>2, <4>3
    <3> QED
        BY <1>0, <3>1, <3>2
  <2> QED
      BY <2>6, <2>7 DEF ResampleInv, InOrderOfTime
<1> QED
    BY <1>1, <1>2 DEF ResampleNext

-----------------------------------------------------------------------------
\* A time is in a bucket, by the floor of its distance from the start, just when it
\* lies in the interval of time that the bucket stands for.
LEMMA BucketIs ==
  ASSUME NEW start \in Int, NEW interval \in Nat \ {0}, NEW t \in Int, NEW k \in Int
  PROVE  (t - start) \div interval = k - 1
           <=> start + interval * (k - 1) <= t /\ t < start + interval * k
<1> DEFINE d == t - start
           m == d \div interval
<1>1. d \in Int
    OBVIOUS
<1> HIDE DEF d
<1>2. m \in Int /\ d % interval \in 0 .. interval - 1 /\ d = interval * m + (d % interval)
    BY <1>1, FloorOf
<1> HIDE DEF m
<1>3. interval * m \in Int /\ interval * k \in Int /\ interval * (k - 1) \in Int
      /\ interval * (k - 1) = interval * k - interval
    BY <1>2
<1>4. m < k - 1 => interval * m + interval <= interval * (k - 1)
    BY <1>2, Factors
<1>5. k - 1 < m => interval * (k - 1) + interval <= interval * m
    BY <1>2, Factors
<1>6. m = k - 1 => interval * m = interval * (k - 1)
    OBVIOUS
<1>7. m = k - 1 <=> interval * (k - 1) <= d /\ d < interval * k
  <2>1. m = k - 1 \/ m < k - 1 \/ k - 1 < m
      BY <1>2
  <2> QED
      BY <1>1, <1>2, <1>3, <1>4, <1>5, <1>6, <2>1
<1>8. /\ start + interval * (k - 1) <= t <=> interval * (k - 1) <= d
      /\ t < start + interval * k <=> d < interval * k
    BY <1>3 DEF d
<1> QED
    BY <1>7, <1>8 DEF m, d

\* Among the places of a sequence of numbers that are chosen, one has the largest
\* number: otherwise there would be a shortest beginning without one.
LEMMA LargestOf ==
  ASSUME NEW n \in Nat, NEW S \in SUBSET (1 .. n), S # {}, NEW v \in [1 .. n -> Int]
  PROVE  \E i \in S : \A j \in S : v[j] <= v[i]
<1> DEFINE Upto(k) == {i \in S : i <= k}
           Has(k) == \E i \in Upto(k) : \A j \in Upto(k) : v[j] <= v[i]
           B == {k \in 1 .. n : Upto(k) # {} /\ ~Has(k)}
<1>1. Upto(n) = S
  <2>1. \A i \in S : i <= n
      OBVIOUS
  <2> QED
      BY <2>1
<1>2. CASE B = {}
  <2>1. n \in 1 .. n
    <3>1. PICK i \in S : TRUE
        OBVIOUS
    <3> QED
        BY <3>1
  <2>2. n \notin B
      BY <1>2
  <2>3. Has(n)
      BY <1>1, <2>1, <2>2
  <2> QED
      BY <1>1, <2>3
<1>3. CASE B # {}
  <2>1. PICK k \in B : \A x \in B : k <= x
    <3>1. B \in SUBSET Nat
        OBVIOUS
    <3> HIDE DEF B
    <3> QED
        BY <1>3, <3>1, MinOf
  <2>2. k \in 1 .. n /\ Upto(k) # {} /\ ~Has(k)
      OBVIOUS
  <2>3. CASE k \notin S \/ Upto(k - 1) = {}
    <3>1. CASE k \notin S
      <4>1. Upto(k) = Upto(k - 1)
        <5>1. \A i \in S : i <= k <=> i <= k - 1
          <6> TAKE i \in S
          <6>1. i \in Int /\ k \in Int /\ i # k
              BY <2>2, <3>1
          <6> QED
              BY <6>1
        <5> QED
            BY <5>1
      <4>2. k - 1 \in 1 .. n
        <5>1. PICK i \in S : i <= k - 1
            BY <2>2, <4>1
        <5> QED
            BY <2>2, <5>1
      <4>3. k - 1 \in B
          BY <2>2, <4>1, <4>2
      <4> QED
          BY <2>1, <2>2, <4>2, <4>3
    <3>2. CASE k \in S /\ Upto(k - 1) = {}
      <4>1. \A i \in Upto(k) : i = k
          BY <2>2, <3>2
      <4>2. k \in Upto(k) /\ v[k] \in Int
          BY <2>2, <3>2
      <4> QED
          BY <2>2, <4>1, <4>2
    <3> QED
        BY <2>3, <3>1, <3>2
  <2>4. CASE k \in S /\ Upto(k - 1) # {}
    <3>1. k - 1 \in 1 .. n
      <4>1. PICK i \in S : i <= k - 1
          BY <2>4
      <4> QED
          BY <2>2, <4>1
    <3>2. Has(k - 1)
      <4>1. ~(k <= k - 1)
          BY <2>2
      <4>2. k - 1 \notin B
          BY <2>1, <4>1, Zenon
      <4> QED
          BY <2>4, <3>1, <4>2
    <3>3. PICK i \in Upto(k - 1) : \A j \in Upto(k - 1) : v[j] <= v[i]
        BY <3>2
    <3>4. i \in Upto(k) /\ k \in Upto(k) /\ \A j \in Upto(k) : j \in Upto(k - 1) \/ j = k
        BY <2>2, <2>4
    <3>5. v[i] \in Int /\ v[k] \in Int
        BY <2>4
    <3>6. CASE v[k] <= v[i]
      <4>1. \A j \in Upto(k) : v[j] <= v[i]
          BY <3>3, <3>4, <3>6
      <4> QED
          BY <2>2, <3>4, <4>1
    <3>7. CASE v[i] < v[k]
      <4>1. \A j \in Upto(k) : v[j] <= v[k]
        <5> TAKE j \in Upto(k)
        <5>1. v[j] \in Int
            OBVIOUS
        <5>2. j = k \/ v[j] <= v[i]
            BY <3>3, <3>4
        <5>3. CASE j = k
            BY <3>5, <5>3
        <5>4. CASE v[j] <= v[i]
            BY <3>5, <3>7, <5>1, <5>4
        <5> QED
            BY <5>2, <5>3, <5>4
      <4> QED
          BY <2>2, <3>4, <4>1
    <3> QED
        BY <3>5, <3>6, <3>7
  <2> QED
      BY <2>2, <2>3, <2>4
<1> QED
    BY <1>2, <1>3

\* The values of a series that is resampled, without the points before it.
ResampledValues(s, length, to, interval, reducer) ==
  Resampled(s, length, to, interval, reducer, FALSE).x

\* They are those that reduce() makes of the buckets.
LEMMA ResampledWithoutPrior ==
  ASSUME NEW s \in Seq(SeriesPoint), NEW length \in Nat, NEW interval \in Nat \ {0},
         NEW to \in Int, NEW reducer \in Reducers
  PROVE  LET n == Bins(length, interval)
             buckets == Buckets(s, length, to, interval)
             x == ResampledValues(s, length, to, interval, reducer)
         IN  DOMAIN x = 1 .. n /\ \A k \in 1 .. n : x[k] = Reduce(s, buckets[k - 1], reducer)
<1> DEFINE n == Bins(length, interval)
           start == StartOf(length, to, interval)
           buckets == Buckets(s, length, to, interval)
           p == << >>
           value(k) == Reduce(s, buckets[k - 1], reducer)
           t1 == [i \in DOMAIN p |-> 2 * (p[i][1] - start)]
           t2 == [k \in 1 .. n |-> interval * (2 * k - 1)]
           x1 == [i \in DOMAIN p |-> p[i][2]]
           x2 == [k \in 1 .. n |-> value(k)]
           without == Resampled(s, length, to, interval, reducer, FALSE)
<1>1. without = [t |-> t1 \o t2, x |-> x1 \o x2]
    BY DEF Resampled
<1>2. n \in Nat
  <2>1. length \div interval \in Nat
      BY ModOf
  <2> QED
      BY <2>1 DEF Bins
<1> HIDE DEF n, buckets
<1>3. x1 = << >>
    OBVIOUS
<1> DEFINE V == {value(k) : k \in 1 .. n}
<1>4. x2 \in Seq(V) /\ Len(x2) = n /\ DOMAIN x2 = 1 .. n /\ \A k \in 1 .. n : x2[k] = value(k)
  <2> HIDE DEF value
  <2>1. x2 \in [1 .. n -> V] /\ DOMAIN x2 = 1 .. n /\ \A k \in 1 .. n : x2[k] = value(k)
      OBVIOUS
  <2> HIDE DEF V, x2
  <2> QED
      BY <1>2, <2>1
<1> HIDE DEF x1, x2, t1, t2, V, value
<1>5. x1 \o x2 = x2
    BY <1>3, <1>4, ConcatEmptySeq
<1>6. without.x = x2
  <2> HIDE DEF without
  <2> QED
      BY <1>1, <1>5
<1> QED
    BY <1>4, <1>6, Zenon DEF ResampledValues, without, n, buckets, value

\* What a reducer makes of some places of the series is what it promises of the
\* numbers there.
LEMMA ReduceSays ==
  ASSUME rsSeries \in Seq(SeriesPoint), NEW places \in SUBSET DOMAIN rsSeries, NEW reducer \in Reducers
  PROVE  Says(reducer, Reduce(rsSeries, places, reducer), {i \in places : rsSeries[i][2] # NaN})
<1> DEFINE n == Len(rsSeries)
           xx == {i \in places : rsSeries[i][2] # NaN}
           values == {rsSeries[i][2] : i \in xx}
           x == Reduce(rsSeries, places, reducer)
<1>1. n \in Nat /\ DOMAIN rsSeries = 1 .. n /\ \A i \in 1 .. n : rsSeries[i][2] \in Int
    BY DEF SeriesPoint
<1>2. xx \in SUBSET (1 .. n) /\ xx \in SUBSET Nat /\ xx \in SUBSET (0 .. n)
    BY <1>1
<1>3. /\ reducer = "count" => x = Cardinality(xx)
      /\ reducer # "count" /\ xx = {} => x = NaN
      /\ reducer = "first" /\ xx # {} => x = rsSeries[Min(xx)][2]
      /\ reducer = "last" /\ xx # {} => x = rsSeries[Max(xx)][2]
      /\ reducer = "min" /\ xx # {} => x = Min(values)
      /\ reducer = "max" /\ xx # {} => x = Max(values)
      /\ reducer = "sum" /\ xx # {} => x = Total(rsSeries, xx)
    BY DEF Reduce
<1> SUFFICES Says(reducer, x, xx)
    OBVIOUS
<1> HIDE DEF x, xx, n
<1>4. CASE reducer = "count"
    BY <1>3, <1>4 DEF Says
<1>5. CASE reducer # "count" /\ xx = {}
    BY <1>3, <1>5 DEF Says
<1>6. CASE reducer = "sum" /\ xx # {}
    BY <1>3, <1>6 DEF Says
<1>7. CASE reducer = "first" /\ xx # {}
  <2>1. Min(xx) \in xx /\ \A j \in xx : Min(xx) <= j
      BY <1>2, <1>7, MinOf
  <2>2. \E i \in xx : x = rsSeries[i][2] /\ \A j \in xx : i <= j
      BY <1>3, <1>7, <2>1
  <2> QED
      BY <1>7, <2>2, Zenon DEF Says
<1>8. CASE reducer = "last" /\ xx # {}
  <2>1. Max(xx) \in xx /\ \A j \in xx : j <= Max(xx)
      BY <1>1, <1>2, <1>8, MaxOf
  <2>2. \E i \in xx : x = rsSeries[i][2] /\ \A j \in xx : j <= i
      BY <1>3, <1>8, <2>1
  <2> QED
      BY <1>8, <2>2, Zenon DEF Says
<1>9. CASE reducer = "max" /\ xx # {}
  <2> DEFINE v == [i \in 1 .. n |-> rsSeries[i][2]]
  <2>1. v \in [1 .. n -> Int] /\ \A i \in xx : v[i] = rsSeries[i][2]
      BY <1>1, <1>2
  <2> HIDE DEF v
  <2>2. PICK i \in xx : \A j \in xx : v[j] <= v[i]
      BY <1>1, <1>2, <1>9, <2>1, LargestOf
  <2>3. rsSeries[i][2] \in values /\ \A y \in values : y <= rsSeries[i][2]
      BY <2>1, <2>2
  <2>4. Max(values) \in values /\ \A y \in values : y <= Max(values)
      BY <2>3 DEF Max
  <2>5. \E k \in xx : x = rsSeries[k][2] /\ \A j \in xx : rsSeries[j][2] <= x
      BY <1>3, <1>9, <2>4
  <2> QED
      BY <1>9, <2>5, Zenon DEF Says
<1>10. CASE reducer = "min" /\ xx # {}
  <2> DEFINE v == [i \in 1 .. n |-> 0 - rsSeries[i][2]]
  <2>1. v \in [1 .. n -> Int] /\ \A i \in xx : v[i] = 0 - rsSeries[i][2] /\ rsSeries[i][2] \in Int
      BY <1>1, <1>2
  <2> HIDE DEF v
  <2>2. PICK i \in xx : \A j \in xx : v[j] <= v[i]
      BY <1>1, <1>2, <1>10, <2>1, LargestOf
  <2>3. \A j \in xx : rsSeries[i][2] <= rsSeries[j][2]
      BY <2>1, <2>2
  <2>6. rsSeries[i][2] \in values /\ \A y \in values : rsSeries[i][2] <= y
      BY <2>3
  <2>4. Min(values) \in values /\ \A y \in values : Min(values) <= y
      BY <2>6 DEF Min
  <2>5. \E k \in xx : x = rsSeries[k][2] /\ \A j \in xx : x <= rsSeries[j][2]
      BY <1>3, <1>10, <2>4
  <2> QED
      BY <1>10, <2>5, Zenon DEF Says
<1> QED
    BY <1>4, <1>5, <1>6, <1>7, <1>8, <1>9, <1>10 DEF Reducers

\* Every value is that of the numbers of its interval, and each number of the
\* window is in exactly one of them.
LEMMA PointsAreKept ==
  ASSUME ResampleInv, NEW length \in Nat, NEW interval \in Nat \ {0}, SeriesTo \in Int
  PROVE  PointsKept(length, interval)
<1> DEFINE n == Bins(length, interval)
           start == StartOf(length, SeriesTo, interval)
           In(k) == Numbers(start + interval * (k - 1), start + interval * k)
           buckets == Buckets(rsSeries, length, SeriesTo, interval)
           X(reducer) == Resampled(rsSeries, length, SeriesTo, interval, reducer, FALSE).x
<1>1. rsSeries \in Seq(SeriesPoint) /\ \A i \in DOMAIN rsSeries : rsSeries[i][1] \in Int
    BY DEF ResampleInv, SeriesPoint
<1>2. n \in Nat /\ start \in Int
  <2>1. length \div interval \in Nat
      BY ModOf
  <2>2. n \in Nat
      BY <2>1 DEF Bins
  <2>3. n * interval \in Int
      BY <2>2
  <2> QED
      BY <2>2, <2>3 DEF StartOf
<1>3. \A t \in Int : (t - start) \div interval \in 0 .. n - 1 <=> start <= t /\ t < SeriesTo
    BY BucketsCover
<1>4. \A k \in 1 .. n : buckets[k - 1] = {i \in DOMAIN rsSeries : (rsSeries[i][1] - start) \div interval = k - 1}
  <2>1. \A k \in 1 .. n : k - 1 \in 0 .. n - 1
      BY <1>2
  <2> QED
      BY <2>1 DEF Buckets
<1> HIDE DEF start, n, buckets
<1>5. \A k \in 1 .. n : /\ buckets[k - 1] \in SUBSET DOMAIN rsSeries
                        /\ In(k) = {i \in buckets[k - 1] : rsSeries[i][2] # NaN}
  <2> TAKE k \in 1 .. n
  <2>1. \A i \in DOMAIN rsSeries : (rsSeries[i][1] - start) \div interval = k - 1
           <=> start + interval * (k - 1) <= rsSeries[i][1] /\ rsSeries[i][1] < start + interval * k
    <3> TAKE i \in DOMAIN rsSeries
    <3>1. PICK t \in Int : t = rsSeries[i][1]
        BY <1>1
    <3>2. k \in Int
        BY <1>2
    <3>3. (t - start) \div interval = k - 1 <=> start + interval * (k - 1) <= t /\ t < start + interval * k
        BY <1>2, <3>2, BucketIs
    <3> QED
        BY <3>1, <3>3
  <2> QED
      BY <1>4, <2>1 DEF Numbers
<1>6. ASSUME NEW reducer \in Reducers
      PROVE  DOMAIN X(reducer) = 1 .. n /\ \A k \in 1 .. n : Says(reducer, X(reducer)[k], In(k))
  <2>1. DOMAIN X(reducer) = 1 .. n
        /\ \A k \in 1 .. n : X(reducer)[k] = Reduce(rsSeries, buckets[k - 1], reducer)
    <3> DEFINE y == ResampledValues(rsSeries, length, SeriesTo, interval, reducer)
               m == Bins(length, interval)
               sets == Buckets(rsSeries, length, SeriesTo, interval)
    <3>1. DOMAIN y = 1 .. m
        BY <1>1, ResampledWithoutPrior
    <3>2. \A k \in 1 .. m : y[k] = Reduce(rsSeries, sets[k - 1], reducer)
        BY <1>1, ResampledWithoutPrior
    <3> QED
        BY <3>1, <3>2, Zenon DEF n, buckets, ResampledValues
  <2> HIDE DEF X
  <2>2. ASSUME NEW k \in 1 .. n PROVE Says(reducer, X(reducer)[k], In(k))
    <3>1. Says(reducer, Reduce(rsSeries, buckets[k - 1], reducer), {i \in buckets[k - 1] : rsSeries[i][2] # NaN})
        BY <1>1, <1>5, ReduceSays
    <3> QED
        BY <1>5, <2>1, <3>1, Zenon
  <2> QED
      BY <2>1, <2>2
<1>7. ASSUME NEW i \in Numbers(start, SeriesTo)
      PROVE  Cardinality({k \in 1 .. n : i \in In(k)}) = 1
  <2>1. i \in DOMAIN rsSeries /\ start <= rsSeries[i][1] /\ rsSeries[i][1] < SeriesTo /\ rsSeries[i][2] # NaN
      BY DEF Numbers
  <2> DEFINE b == (rsSeries[i][1] - start) \div interval
  <2>2. b \in 0 .. n - 1
      BY <1>1, <1>3, <2>1
  <2>3. \A k \in 1 .. n : i \in In(k) <=> b = k - 1
      BY <1>4, <1>5, <2>1
  <2> HIDE DEF b, In
  <2>4. {k \in 1 .. n : i \in In(k)} = {b + 1}
    <3>1. b + 1 \in 1 .. n /\ \A k \in 1 .. n : b = k - 1 <=> k = b + 1
        BY <1>2, <2>2
    <3> QED
        BY <2>3, <3>1
  <2> QED
      BY <2>4, FS_Singleton
<1> QED
    BY <1>6, <1>7, Zenon DEF PointsKept, n, start

\* What a table store fetches is a part of the series; no point of it but the
\* first, and that only if it is asked for, is before the window.
LEMMA FetchedIs ==
  ASSUME ResampleInv, NEW length \in Nat, SeriesTo \in Int, NEW prior \in {1, 2},
         NEW start \in Int, start <= SeriesTo - length
  PROVE  LET f == Fetched(rsSeries, length, SeriesTo, prior)
             before == {i \in DOMAIN f : f[i][1] < start}
             shown == {i \in PriorPlaces(length, prior) : rsSeries[i][1] < start}
         IN  /\ f \in Seq(SeriesPoint) /\ InOrderOfTime(f)
             /\ \/ before = {} /\ shown = {}
                \/ before = {1} /\ \E k \in 1 .. Len(rsSeries) : shown = {k} /\ f[1] = rsSeries[k]
<1> DEFINE s == rsSeries
           e == Prior(s, SeriesTo - length)
           q == Prior(s, SeriesTo)
           k == Len(e)
           l == Len(q)
           more == k > 0 /\ (prior = 2 \/ (prior = 1 /\ k = l))
           a == IF more THEN k ELSE k + 1
           f == Fetched(s, length, SeriesTo, prior)
           n == Len(s)
<1>1. s \in Seq(SeriesPoint) /\ InOrderOfTime(s) /\ n \in Nat /\ DOMAIN s = 1 .. n
      /\ \A i \in 1 .. n : s[i][1] \in Int
    BY DEF ResampleInv, SeriesPoint
<1>2. k \in Nat /\ k <= n /\ {i \in DOMAIN s : s[i][1] < SeriesTo - length} = 1 .. k
  <2>1. SeriesTo - length \in Int
      OBVIOUS
  <2>2. e \in Seq(SeriesPoint)
      BY <1>1, <2>1, PriorIs
  <2>3. {i \in DOMAIN s : s[i][1] < SeriesTo - length} = 1 .. k /\ k <= n
      BY <1>1, <2>1, PriorIs
  <2> QED
      BY <2>2, <2>3
<1>3. l \in Nat /\ l <= n /\ {i \in DOMAIN s : s[i][1] < SeriesTo} = 1 .. l
  <2>2. q \in Seq(SeriesPoint)
      BY <1>1, PriorIs
  <2>3. {i \in DOMAIN s : s[i][1] < SeriesTo} = 1 .. l /\ l <= n
      BY <1>1, PriorIs
  <2> QED
      BY <2>2, <2>3
<1>4. f = SubSeq(s, a, l)
    BY DEF Fetched
<1> HIDE DEF e, q, f
<1> DEFINE m == l - a + 1
<1>5. k <= l
  <2>1. \A i \in 1 .. k : i \in 1 .. l
    <3> TAKE i \in 1 .. k
    <3>1. i \in DOMAIN s /\ s[i][1] < SeriesTo - length /\ s[i][1] \in Int
        BY <1>1, <1>2
    <3>2. s[i][1] < SeriesTo
        BY <3>1
    <3> QED
        BY <1>3, <3>1, <3>2
  <2> QED
      BY <1>2, <1>3, <2>1
<1> HIDE DEF k, l, n
<1>6. a \in 1 .. l + 1 /\ m \in Nat /\ (more => a = k /\ k >= 1) /\ (~more => a = k + 1)
    BY <1>2, <1>3, <1>5
<1>7. f \in Seq(SeriesPoint) /\ Len(f) = m /\ \A i \in 1 .. m : f[i] = s[a + i - 1] /\ a + i - 1 \in a .. l
  <2> HIDE DEF a
  <2>1. \A i \in 1 .. m : a + i - 1 \in a .. l /\ a + i - 1 \in 1 .. n
      BY <1>1, <1>3, <1>6
  <2>2. f = [i \in 1 .. m |-> s[a + i - 1]]
      BY <1>1, <1>3, <1>4, <1>6, <2>1 DEF n
  <2>3. \A i \in 1 .. m : s[a + i - 1] \in SeriesPoint
      BY <1>1, <2>1
  <2> HIDE DEF m, SeriesPoint
  <2>4. f \in [1 .. m -> SeriesPoint]
      BY <2>2, <2>3
  <2>5. f \in Seq(SeriesPoint) /\ Len(f) = m
      BY <1>6, <2>4 DEF m
  <2> QED
      BY <2>1, <2>2, <2>5
<1> HIDE DEF a
<1>8. InOrderOfTime(f)
  <2> SUFFICES ASSUME NEW i \in 1 .. m, NEW j \in 1 .. m, i < j PROVE f[i][1] <= f[j][1]
      BY <1>7 DEF InOrderOfTime
  <2>1. a + i - 1 \in 1 .. n /\ a + j - 1 \in 1 .. n /\ a + i - 1 < a + j - 1
      BY <1>1, <1>3, <1>6
  <2> QED
      BY <1>1, <1>7, <2>1 DEF InOrderOfTime, n
<1>9. \A i \in DOMAIN f : f[i][1] < start => more /\ i = 1
  <2> SUFFICES ASSUME NEW i \in 1 .. m, f[i][1] < start PROVE more /\ i = 1
      BY <1>6, <1>7
  <2>1. a + i - 1 \in 1 .. n /\ f[i] = s[a + i - 1]
      BY <1>1, <1>3, <1>6, <1>7
  <2>2. s[a + i - 1][1] < SeriesTo - length
      BY <1>1, <2>1
  <2>3. a + i - 1 \in 1 .. k
      BY <1>1, <1>2, <2>1, <2>2
  <2> QED
      BY <1>2, <1>6, <2>3
<1>10. PriorPlaces(length, prior) = IF more THEN {k} ELSE {}
  <2>1. {i \in DOMAIN s : s[i][1] < SeriesTo} \ (1 .. k) = {} <=> k = l
    <3>1. k < l => l \in (1 .. l) \ (1 .. k)
        BY <1>2, <1>3
    <3> QED
        BY <1>2, <1>3, <1>5, <3>1
  <2>2. \A i \in 1 .. k : (\A j \in 1 .. k : j <= i) <=> i = k
      BY <1>2
  <2>3. PriorPlaces(length, prior) = {i \in 1 .. k : i = k /\ (prior = 2 \/ k = l)}
      BY <1>2, <2>1, <2>2 DEF PriorPlaces
  <2>4. more <=> k > 0 /\ (prior = 2 \/ k = l)
      OBVIOUS
  <2>5. \A i \in 1 .. k : k > 0
      BY <1>2
  <2>6. k > 0 => k \in 1 .. k
      BY <1>2
  <2> HIDE DEF more
  <2> QED
      BY <2>3, <2>4, <2>5, <2>6
<1> DEFINE before == {i \in DOMAIN f : f[i][1] < start}
           shown == {i \in PriorPlaces(length, prior) : s[i][1] < start}
<1>11. CASE more /\ s[k][1] < start
  <2>1. 1 \in 1 .. m /\ f[1] = s[k] /\ k \in 1 .. n
      BY <1>2, <1>3, <1>5, <1>6, <1>7, <1>11
  <2>2. before = {1}
      BY <1>6, <1>7, <1>9, <1>11, <2>1
  <2>3. shown = {k}
      BY <1>10, <1>11
  <2> QED
      BY <1>7, <1>8, <2>1, <2>2, <2>3 DEF f, n
<1>12. CASE ~(more /\ s[k][1] < start)
  <2>1. shown = {}
      BY <1>10, <1>12
  <2>2. before = {}
    <3> SUFFICES ASSUME NEW i \in before PROVE FALSE
        OBVIOUS
    <3>1. more /\ i = 1 /\ f[1][1] < start
        BY <1>9
    <3>2. 1 \in 1 .. m /\ f[1] = s[k]
        BY <1>2, <1>5, <1>6, <1>7, <3>1
    <3> QED
        BY <1>12, <3>1, <3>2
  <2> QED
      BY <1>7, <1>8, <2>1, <2>2 DEF f
<1> QED
    BY <1>11, <1>12

\* Whatever the series, the window and the interval, the point before is shown as
\* it is asked for.
LEMMA PriorIsKept ==
  ASSUME ResampleInv, NEW length \in Nat, NEW interval \in Nat \ {0}, SeriesTo \in Int,
         NEW prior \in {1, 2}
  PROVE  PriorKept(length, interval, prior)
<1> DEFINE f == Fetched(rsSeries, length, SeriesTo, prior)
           with == Resampled(f, length, SeriesTo, interval, "last", TRUE)
           start == StartOf(length, SeriesTo, interval)
           n == Bins(length, interval)
           before == {i \in DOMAIN f : f[i][1] < start}
           shown == {i \in PriorPlaces(length, prior) : rsSeries[i][1] < start}
<1>1. start \in Int /\ start <= SeriesTo - length
  <2>1. length \div interval \in Nat
      BY ModOf
  <2>2. n \in Nat
      BY <2>1 DEF Bins
  <2>3. n * interval \in Int
      BY <2>2
  <2>4. start <= SeriesTo - length
      BY BucketsCover
  <2> QED
      BY <2>2, <2>3, <2>4 DEF StartOf
<1>2. f \in Seq(SeriesPoint) /\ InOrderOfTime(f)
    BY <1>1, FetchedIs
<1>3. \/ before = {} /\ shown = {}
      \/ before = {1} /\ \E k \in 1 .. Len(rsSeries) : shown = {k} /\ f[1] = rsSeries[k]
    BY <1>1, FetchedIs
<1>4. HasPrior(f, with, start, n)
    BY <1>2, ResampledIs
<1>5. Len(with.t) = Len(with.x) /\ Len(with.x) = Cardinality(before) + n
    BY <1>4 DEF HasPrior
<1>6. \A i, j \in DOMAIN with.t : i < j => with.t[i] <= with.t[j]
    BY <1>4 DEF HasPrior
<1>7. \A i \in 1 .. Cardinality(before) : with.t[i] = 2 * (f[i][1] - start) /\ with.x[i] = f[i][2]
    BY <1>4 DEF HasPrior
<1> HIDE DEF f, with, n, before, shown, start
<1>8. Cardinality(shown) = Cardinality(before)
  <2>1. CASE before = {} /\ shown = {}
      BY <2>1
  <2>2. CASE before = {1} /\ \E k \in 1 .. Len(rsSeries) : shown = {k}
    <3>1. PICK k : shown = {k}
        BY <2>2
    <3>2. Cardinality({k}) = 1 /\ Cardinality({1}) = 1
        BY FS_Singleton
    <3> QED
        BY <2>2, <3>1, <3>2
  <2> QED
      BY <1>3, <2>1, <2>2
<1>9. \A i \in shown : with.t[1] = 2 * (rsSeries[i][1] - start) /\ with.x[1] = rsSeries[i][2]
  <2> SUFFICES ASSUME NEW i \in shown
               PROVE  with.t[1] = 2 * (rsSeries[i][1] - start) /\ with.x[1] = rsSeries[i][2]
      OBVIOUS
  <2>1. before = {1} /\ f[1] = rsSeries[i]
      BY <1>3
  <2>2. Cardinality(before) = 1
      BY <2>1, FS_Singleton
  <2>3. 1 \in 1 .. Cardinality(before)
      BY <2>2
  <2> QED
      BY <1>7, <2>1, <2>3
<1> QED
    BY <1>5, <1>6, <1>8, <1>9, Zenon DEF PriorKept, f, with, n, shown, start

\* Whatever the series, the window and the interval.
LEMMA ResampleInvKeeps ==
  ASSUME ResampleInv, NEW length \in Lengths, NEW interval \in Intervals
  PROVE  /\ WindowCovered(length, interval) /\ PointsKept(length, interval)
         /\ \A prior \in {1, 2} : PriorKept(length, interval, prior)
<1>1. length \in Nat /\ interval \in Nat \ {0} /\ SeriesTo \in Int
    BY ResampleAssumption
<1>2. WindowCovered(length, interval)
    BY <1>1, BucketsCover DEF WindowCovered
<1>3. PointsKept(length, interval)
    BY <1>1, PointsAreKept
<1>4. \A prior \in {1, 2} : PriorKept(length, interval, prior)
    BY <1>1, PriorIsKept
<1> QED
    BY <1>2, <1>3, <1>4

\* Whatever the points, windows and intervals: the buckets cover the window, each
\* number of it counts in the one value that stands for its time and in no other,
\* and of the points before them a table store shows the last, when it is asked for
\* (sd_datasource.py, resample() and reduce(); sd_datasource_TableStore.py).
THEOREM ResampleKeeps == ResampleSpec => []ResampleKeepsPoints
<1>1. ResampleInv => ResampleKeepsPoints
    BY ResampleInvKeeps DEF ResampleKeepsPoints
<1> QED
    BY InitResample, ResampleStep, <1>1, PTL DEF ResampleSpec

(*************************************************************************)
(* Console: for any number of texts, lines and clients.  A text that was *)
(* printed at a quiet time is in the outputs or on its way there, once and *)
(* in order, which needs that a drain finds the quiet texts before its   *)
(* position (PrintedInv, DrainInv); what is before the position a POST goes *)
(* back to has been read (PostInv).                                      *)
(*************************************************************************)
Quiet(t) == \E k \in 1 .. Len(conQuiet) : conQuiet[k] = t
DrainAt == conDrain.at

\* What the buffers hold has been printed, and a text is printed once.
PrintedInv ==
  /\ \A i \in 1 .. Len(conBuffer) : conBuffer[i] \in conPrinted
  /\ \A k \in 1 .. Len(conQuiet) : conQuiet[k] \in conPrinted
  /\ \A i \in 1 .. Len(conDrain.got) : conDrain.got[i] \in conPrinted
  /\ \A i \in 1 .. Len(conOutputs) : conOutputs[i] \in conPrinted
  /\ \A k, l \in 1 .. Len(conQuiet) : conQuiet[k] = conQuiet[l] => k = l

\* A drain is that of a client, after build(); at a quiet time the quiet texts
\* of the buffer are before its position, and after the cut it has none.
DrainInv ==
  /\ DrainAt = "no" <=> conDrain = NoDrain
  /\ DrainAt # "no" => conBuilt /\ conDrain.by \in Client
  /\ DrainAt = "no" => /\ conPos <= Len(conBuffer)
                       /\ \A i \in conPos + 1 .. Len(conBuffer) : ~Quiet(conBuffer[i])
  /\ DrainAt = "cut" => \A i \in 1 .. Len(conBuffer) : ~Quiet(conBuffer[i])

\* A read waits when build() was called.
PollInv == \A c \in Client : conPoll[c] # "away" => conBuilt

ReadBefore(n) == n <= Len(stdinText) /\ \A i \in 1 .. n : Contains(stdinRead, stdinText[i])

\* What is before the position a POST goes back to has been read.
PostInv ==
  /\ stdinPost.at \in {"no", "tell"} => ReadBefore(stdinPos)
  /\ stdinPost.at # "no" => ReadBefore(stdinPost.pos)
  /\ stdinPost.at \in {"end", "written"} => stdinPos = Len(stdinText)
  /\ stdinPost.at = "no" => stdinPost = NoPost

\* What came for a client since it waits has its notification, and a drain has
\* begun because of something that came for all that wait.
WaitInv == \A c \in Client :
  /\ conSince[c] <= conRevision
  /\ /\ conPoll[c] = "wait"
     /\ conPos > 0 \/ conRevision > conSince[c] \/ conDrain # NoDrain
     => conNotice > 0

ConsoleInv ==
  /\ ConsoleTypeOK /\ PrintedInv /\ DrainInv /\ PollInv /\ WaitInv
  /\ QuietTextKept /\ PostInv

-----------------------------------------------------------------------------
\* What overwriting does at each place.
LEMMA OverwriteOf ==
  ASSUME NEW S, NEW b \in Seq(S), NEW pos \in Nat, NEW t \in S
  PROVE  /\ Overwrite(b, pos, t) \in Seq(S)
         /\ pos <= Len(b) => Len(Overwrite(b, pos, t)) = IF pos < Len(b) THEN Len(b) ELSE Len(b) + 1
         /\ pos <= Len(b) => \A i \in 1 .. Len(Overwrite(b, pos, t)) :
              Overwrite(b, pos, t)[i] = IF i = pos + 1 THEN t ELSE b[i]
         /\ \A i \in 1 .. Len(Overwrite(b, pos, t)) :
              \/ Overwrite(b, pos, t)[i] = t
              \/ \E j \in 1 .. Len(b) : Overwrite(b, pos, t)[i] = b[j]
<1> DEFINE p == IF pos < Len(b) THEN pos ELSE Len(b)
           x == SubSeq(b, 1, p)
           y == <<t>>
           z == SubSeq(b, pos + 2, Len(b))
<1>0. Len(b) \in Nat
    OBVIOUS
<1>1. p \in Nat /\ p <= Len(b) /\ (pos <= Len(b) => p = pos)
    OBVIOUS
<1>2. x \in Seq(S) /\ Len(x) = p /\ \A i \in 1 .. p : x[i] = b[i]
    BY <1>1
<1>3. y \in Seq(S) /\ Len(y) = 1 /\ y[1] = t
    OBVIOUS
<1>4. /\ z \in Seq(S)
      /\ Len(z) = IF pos + 2 <= Len(b) THEN Len(b) - pos - 1 ELSE 0
      /\ \A i \in 1 .. Len(z) : z[i] = b[pos + 1 + i]
  <2>1. CASE pos + 2 <= Len(b)
    <3>1. pos + 2 \in 1 .. Len(b) /\ Len(b) \in 1 .. Len(b)
        BY <1>0, <2>1
    <3>2. z \in Seq(S) /\ Len(z) = Len(b) - (pos + 2) + 1
          /\ \A i \in 1 .. Len(z) : z[i] = b[pos + 2 + i - 1]
        BY <2>1, <3>1
    <3> HIDE DEF z
    <3> QED
        BY <1>0, <2>1, <3>2
  <2>2. CASE ~(pos + 2 <= Len(b))
    <3>1. z = << >>
        BY <1>0, <2>2
    <3> HIDE DEF z
    <3> QED
        BY <2>2, <3>1
  <2> QED
      BY <2>1, <2>2
<1> DEFINE w == x \o y
           o == w \o z
<1>5. Overwrite(b, pos, t) = o
    BY DEF Overwrite
<1> HIDE DEF p, x, y, z
<1>6. /\ w \in Seq(S) /\ Len(w) = p + 1 /\ w[p + 1] = t
      /\ \A i \in 1 .. p : w[i] = b[i]
  <2>0. /\ w \in Seq(S) /\ Len(w) = Len(x) + Len(y)
        /\ \A i \in 1 .. Len(x) + Len(y) : w[i] = IF i <= Len(x) THEN x[i] ELSE y[i - Len(x)]
      BY <1>2, <1>3, ConcatProperties, Zenon
  <2> HIDE DEF w
  <2>1. Len(w) = p + 1 /\ w \in Seq(S)
      BY <1>1, <1>2, <1>3, <2>0
  <2>2. \A i \in 1 .. p + 1 : w[i] = IF i <= Len(x) THEN x[i] ELSE y[i - Len(x)]
      BY <1>1, <1>2, <1>3, <2>0
  <2>3. p + 1 \in 1 .. p + 1 /\ ~(p + 1 <= Len(x)) /\ (p + 1) - Len(x) = 1
      BY <1>1, <1>2
  <2>4. \A i \in 1 .. p : i \in 1 .. p + 1 /\ i <= Len(x)
      BY <1>1, <1>2
  <2> QED
      BY <1>2, <1>3, <2>1, <2>2, <2>3, <2>4
<1> HIDE DEF w
<1>7. /\ o \in Seq(S) /\ Len(o) = p + 1 + Len(z)
      /\ \A i \in 1 .. Len(o) :
           \/ i <= p /\ o[i] = b[i] /\ i \in 1 .. Len(b)
           \/ i = p + 1 /\ o[i] = t
           \/ i > p + 1 /\ i - p - 1 \in 1 .. Len(z) /\ o[i] = z[i - p - 1]
  <2>1. /\ o \in Seq(S) /\ Len(o) = p + 1 + Len(z)
        /\ \A i \in 1 .. Len(o) : o[i] = IF i <= p + 1 THEN w[i] ELSE z[i - (p + 1)]
    <3>1. /\ o \in Seq(S) /\ Len(o) = Len(w) + Len(z)
          /\ \A i \in 1 .. Len(w) + Len(z) : o[i] = IF i <= Len(w) THEN w[i] ELSE z[i - Len(w)]
        BY <1>4, <1>6, ConcatProperties, Zenon
    <3> HIDE DEF o
    <3> QED
        BY <1>1, <1>6, <3>1
  <2> HIDE DEF o
  <2>2. ASSUME NEW i \in 1 .. Len(o)
        PROVE  \/ i <= p /\ o[i] = b[i] /\ i \in 1 .. Len(b)
               \/ i = p + 1 /\ o[i] = t
               \/ i > p + 1 /\ i - p - 1 \in 1 .. Len(z) /\ o[i] = z[i - p - 1]
    <3>1. CASE i <= p
        BY <1>0, <1>1, <1>6, <2>1, <3>1
    <3>2. CASE i = p + 1
        BY <1>1, <1>6, <2>1, <3>2
    <3>3. CASE i > p + 1
      <4>0. Len(z) \in Nat
          BY <1>4
      <4>1. i - (p + 1) = i - p - 1 /\ i - p - 1 \in 1 .. Len(z)
          BY <1>1, <2>1, <3>3, <4>0
      <4> QED
          BY <1>1, <2>1, <3>3, <4>1
    <3> QED
        BY <1>1, <3>1, <3>2, <3>3
  <2> QED
      BY <2>1, <2>2
<1>8. ASSUME NEW i \in 1 .. Len(o), i > p + 1 PROVE pos = p /\ i \in 1 .. Len(b) /\ o[i] = b[i]
  <2>1. i - p - 1 \in 1 .. Len(z) /\ o[i] = z[i - p - 1]
      BY <1>1, <1>7, <1>8
  <2>2. pos + 2 <= Len(b) /\ pos = p
      BY <2>1, <1>1, <1>4
  <2>3. z[i - p - 1] = b[pos + 1 + (i - p - 1)]
      BY <2>1, <1>4
  <2>4. i = pos + 1 + (i - p - 1) /\ i <= Len(b)
      BY <1>1, <1>4, <2>1, <2>2
  <2> QED
      BY <2>1, <2>2, <2>3, <2>4
<1> HIDE DEF o
<1>9. ASSUME pos <= Len(b)
      PROVE  /\ Len(o) = IF pos < Len(b) THEN Len(b) ELSE Len(b) + 1
             /\ \A i \in 1 .. Len(o) : o[i] = IF i = pos + 1 THEN t ELSE b[i]
  <2>1. Len(o) = IF pos < Len(b) THEN Len(b) ELSE Len(b) + 1
    <3>1. Len(z) = IF pos + 2 <= Len(b) THEN Len(b) - pos - 1 ELSE 0
        BY <1>4
    <3>2. Len(o) = pos + 1 + Len(z)
        BY <1>1, <1>7, <1>9
    <3>3. Len(z) \in Nat
        BY <1>4
    <3>4. CASE pos < Len(b)
      <4>1. CASE pos + 2 <= Len(b)
        <5>1. Len(z) = Len(b) - pos - 1
            BY <3>1, <4>1
        <5> QED
            BY <1>0, <3>2, <3>4, <5>1
      <4>2. CASE ~(pos + 2 <= Len(b))
        <5>1. Len(z) = 0 /\ Len(b) = pos + 1
            BY <1>0, <3>1, <3>4, <4>2
        <5> QED
            BY <1>0, <3>2, <3>4, <5>1
      <4> QED
          BY <4>1, <4>2
    <3>5. CASE pos = Len(b)
        BY <1>0, <3>1, <3>2, <3>3, <3>5
    <3> QED
        BY <1>0, <1>9, <3>4, <3>5
  <2>2. ASSUME NEW i \in 1 .. Len(o) PROVE o[i] = IF i = pos + 1 THEN t ELSE b[i]
      BY <1>1, <1>7, <1>8, <1>9, <2>2
  <2> QED
      BY <2>1, <2>2
<1>10. ASSUME NEW i \in 1 .. Len(o) PROVE o[i] = t \/ \E j \in 1 .. Len(b) : o[i] = b[j]
    BY <1>1, <1>7, <1>8
<1> QED
    BY <1>5, <1>7, <1>9, <1>10

\* What the deque keeps.
LEMMA DequeOf ==
  ASSUME NEW S, NEW s \in Seq(S)
  PROVE  LET m == IF Len(s) > MaxLines THEN MaxLines ELSE Len(s)
         IN  /\ Deque(s) \in Seq(S) /\ Len(Deque(s)) = m
             /\ \A i \in 1 .. m : Deque(s)[i] = s[Len(s) - m + i]
<1> DEFINE m == IF Len(s) > MaxLines THEN MaxLines ELSE Len(s)
           a == Len(s) - m + 1
<1>1. m \in Nat /\ a \in Nat /\ a >= 1 /\ m <= Len(s) /\ Len(s) - m = a - 1
    BY ConsoleAssumption
<1>2. Deque(s) = SubSeq(s, a, Len(s))
    BY DEF Deque
<1> HIDE DEF m, a
<1>3. CASE m = 0
  <2>1. a = Len(s) + 1
      BY <1>1, <1>3
  <2>2. Deque(s) = << >>
      BY <1>2, <2>1
  <2> QED
      BY <1>3, <2>2 DEF m
<1>4. CASE m > 0
  <2>1. a \in 1 .. Len(s) /\ Len(s) \in 1 .. Len(s)
      BY <1>1, <1>4
  <2>2. Deque(s) \in Seq(S) /\ Len(Deque(s)) = Len(s) - a + 1
        /\ \A i \in 1 .. Len(s) - a + 1 : Deque(s)[i] = s[a + i - 1]
      BY <1>2, <2>1
  <2>3. Len(s) - a + 1 = m /\ \A i \in 1 .. m : a + i - 1 = Len(s) - m + i
      BY <1>1
  <2>4. Deque(s) \in Seq(S) /\ Len(Deque(s)) = m /\ \A i \in 1 .. m : Deque(s)[i] = s[Len(s) - m + i]
      BY <2>2, <2>3
  <2> QED
      BY <2>4 DEF m
<1> QED
    BY <1>1, <1>3, <1>4

-----------------------------------------------------------------------------
(***************************************************************************)
(* In the lemmas below, shown is a sequence, and q the quiet texts.        *)
(***************************************************************************)
Among(t, s) == \E i \in 1 .. Len(s) : s[i] = t

OrderOf(s, q) ==
  \A i, j \in 1 .. Len(s), k, l \in 1 .. Len(q) : (i < j /\ s[i] = q[k] /\ s[j] = q[l]) => k < l
CompleteIn(s, q) == \A k, l \in 1 .. Len(q) : (Among(q[k], s) /\ k < l) => Among(q[l], s)
LostOnlyIf(s, q, full) == (\E k \in 1 .. Len(q) : ~Among(q[k], s)) => full

\* A text is quiet when it is in the list of the quiet ones.
LEMMA QuietIs ==
  QuietTextKept <=> /\ OrderOf(conOutputs \o Pending, conQuiet)
                    /\ CompleteIn(conOutputs \o Pending, conQuiet)
                    /\ LostOnlyIf(conOutputs \o Pending, conQuiet, Len(conOutputs) = MaxLines)
    BY DEF QuietTextKept, OrderOf, CompleteIn, LostOnlyIf, Among

\* The oldest are dropped, and what has nothing quiet comes after the rest.
LEMMA DequeKeeps ==
  ASSUME NEW S, NEW s \in Seq(S), NEW rest \in Seq(S), NEW q \in Seq(S), NEW full \in BOOLEAN,
         \A k, l \in 1 .. Len(q) : q[k] = q[l] => k = l,
         \A i \in 1 .. Len(rest), k \in 1 .. Len(q) : rest[i] # q[k],
         OrderOf(s, q), CompleteIn(s, q), LostOnlyIf(s, q, full),
         full => Len(s) >= MaxLines
  PROVE  /\ OrderOf(Deque(s) \o rest, q) /\ CompleteIn(Deque(s) \o rest, q)
         /\ LostOnlyIf(Deque(s) \o rest, q, Len(Deque(s)) = MaxLines)
<1> DEFINE m == IF Len(s) > MaxLines THEN MaxLines ELSE Len(s)
           d == Len(s) - m
           u == Deque(s) \o rest
<1>1. m \in Nat /\ d \in Nat /\ d + m = Len(s) /\ (d > 0 => m = MaxLines)
    BY ConsoleAssumption
<1>2. Deque(s) \in Seq(S) /\ Len(Deque(s)) = m /\ \A i \in 1 .. m : Deque(s)[i] = s[d + i]
  <2>1. \A i \in 1 .. m : Deque(s)[i] = s[Len(s) - m + i]
      BY DequeOf
  <2> QED
      BY DequeOf, <2>1
<1> HIDE DEF m, d
<1>3. u \in Seq(S) /\ Len(u) = m + Len(rest)
      /\ \A i \in 1 .. Len(u) : u[i] = IF i <= m THEN Deque(s)[i] ELSE rest[i - m]
  <2>1. /\ u \in Seq(S) /\ Len(u) = Len(Deque(s)) + Len(rest)
        /\ \A i \in 1 .. Len(Deque(s)) + Len(rest) :
             u[i] = IF i <= Len(Deque(s)) THEN Deque(s)[i] ELSE rest[i - Len(Deque(s))]
      BY <1>2, ConcatProperties, Zenon
  <2> HIDE DEF u
  <2> QED
      BY <1>2, <2>1
<1> HIDE DEF u
<1>4. ASSUME NEW i \in 1 .. Len(u), NEW k \in 1 .. Len(q), u[i] = q[k]
      PROVE  i <= m /\ d + i \in 1 .. Len(s) /\ s[d + i] = q[k]
  <2>1. CASE i <= m
      BY <1>1, <1>2, <1>3, <1>4, <2>1
  <2>2. CASE i > m
    <3>1. i - m \in 1 .. Len(rest) /\ u[i] = rest[i - m]
        BY <1>1, <1>3, <2>2
    <3> QED
        BY <1>4, <3>1
  <2> QED
      BY <1>1, <1>3, <2>1, <2>2
<1>5. ASSUME NEW k \in 1 .. Len(q), NEW b \in 1 .. Len(s), s[b] = q[k], b > d
      PROVE  Among(q[k], u)
  <2>1. b - d \in 1 .. m /\ d + (b - d) = b
      BY <1>1, <1>5
  <2>2. b - d \in 1 .. Len(u) /\ b - d <= m
      BY <1>1, <1>3, <2>1
  <2>3. u[b - d] = Deque(s)[b - d]
      BY <1>3, <2>2
  <2>4. Deque(s)[b - d] = s[b]
      BY <1>2, <2>1
  <2> QED
      BY <1>5, <2>2, <2>3, <2>4 DEF Among
<1>6. OrderOf(u, q)
  <2> SUFFICES ASSUME NEW i \in 1 .. Len(u), NEW j \in 1 .. Len(u), NEW k \in 1 .. Len(q),
                      NEW l \in 1 .. Len(q), i < j, u[i] = q[k], u[j] = q[l]
               PROVE  k < l
      BY DEF OrderOf
  <2>1. d + i \in 1 .. Len(s) /\ s[d + i] = q[k] /\ d + j \in 1 .. Len(s) /\ s[d + j] = q[l]
      BY <1>4
  <2>2. d + i < d + j
      BY <1>1, <1>3
  <2> QED
      BY <2>1, <2>2 DEF OrderOf
<1>7. CompleteIn(u, q)
  <2> SUFFICES ASSUME NEW k \in 1 .. Len(q), NEW l \in 1 .. Len(q), Among(q[k], u), k < l
               PROVE  Among(q[l], u)
      BY DEF CompleteIn
  <2>1. PICK i \in 1 .. Len(u) : u[i] = q[k]
      BY DEF Among
  <2>2. d + i \in 1 .. Len(s) /\ s[d + i] = q[k]
      BY <1>4, <2>1
  <2>3. PICK b \in 1 .. Len(s) : s[b] = q[l]
      BY <2>2 DEF CompleteIn, Among
  <2>4. ~(b < d + i)
      BY <2>2, <2>3 DEF OrderOf
  <2>5. b > d
      BY <1>1, <2>2, <2>4
  <2> QED
      BY <1>5, <2>3, <2>5
<1>8. LostOnlyIf(u, q, Len(Deque(s)) = MaxLines)
  <2> SUFFICES ASSUME NEW k \in 1 .. Len(q), ~Among(q[k], u) PROVE m = MaxLines
      BY <1>2 DEF LostOnlyIf
  <2>1. CASE Among(q[k], s)
    <3>1. PICK b \in 1 .. Len(s) : s[b] = q[k]
        BY <2>1 DEF Among
    <3>2. ~(b > d)
        BY <1>5, <3>1
    <3> QED
        BY <1>1, <3>2
  <2>2. CASE ~Among(q[k], s)
    <3>1. Len(s) >= MaxLines
        BY <2>2 DEF LostOnlyIf
    <3> QED
        BY <3>1, ConsoleAssumption DEF m
  <2> QED
      BY <2>1, <2>2
<1> QED
    BY <1>6, <1>7, <1>8 DEF u

-----------------------------------------------------------------------------
\* Nothing has been printed at first.
LEMMA InitConsole == ConsoleInit => ConsoleInv
<1> SUFFICES ASSUME ConsoleInit PROVE ConsoleInv
    OBVIOUS
<1> USE DEF ConsoleInit, NoDrain, NoPost
<1>1. ConsoleTypeOK
  <2>1. {conBuffer, conOutputs, conQuiet} \subseteq Seq(Text) /\ stdinText \in Seq(Command)
        /\ stdinRead \in Seq(Command)
      OBVIOUS
  <2>2. conDrain \in [by : Client \cup {NoClient}, at : {"no", "got", "sought", "cut"}, got : Seq(Text)]
      OBVIOUS
  <2>3. stdinPost \in [at : {"no", "tell", "end", "written"}, pos : Nat]
      OBVIOUS
  <2>4. /\ conPoll \in [Client -> {"away", "wait", "nap", "failed"}] /\ conSince \in [Client -> Nat]
      OBVIOUS
  <2>5. /\ {conPos, conRevision, conNotice, stdinPos} \subseteq Nat
        /\ conPrinted \subseteq Text
      OBVIOUS
  <2>6. {conBuilt, conClosed} \subseteq BOOLEAN
      BY Zenon
  <2> QED
      BY <2>1, <2>2, <2>3, <2>4, <2>5, <2>6 DEF ConsoleTypeOK
<1>2. PrintedInv /\ DrainInv /\ PollInv /\ PostInv
    BY DEF PrintedInv, PollInv, DrainInv, PostInv, DrainAt, Quiet, ReadBefore
<1>3. QuietTextKept
    BY DEF QuietTextKept, Pending
<1>4. WaitInv
    BY DEF WaitInv
<1> QED
    BY <1>1, <1>2, <1>3, <1>4 DEF ConsoleInv

\* What is shown is the outputs and what is pending.
LEMMA ShownIs ==
  ASSUME ConsoleTypeOK
  PROVE  /\ conOutputs \in Seq(Text) /\ Pending \in Seq(Text) /\ conOutputs \o Pending \in Seq(Text)
         /\ Len(conOutputs \o Pending) = Len(conOutputs) + Len(Pending)
         /\ \A i \in 1 .. Len(conOutputs) + Len(Pending) :
              (conOutputs \o Pending)[i] =
                IF i <= Len(conOutputs) THEN conOutputs[i] ELSE Pending[i - Len(conOutputs)]
<1>1. conOutputs \in Seq(Text) /\ Pending \in Seq(Text)
    BY DEF ConsoleTypeOK, Pending
<1> QED
    BY <1>1, ConcatProperties, Zenon

\* A thread prints while nobody drains: the text goes after all quiet ones.
LEMMA PrintQuiet ==
  ASSUME ConsoleInv, NEW t \in Text, PrintText(t), DrainAt = "no"
  PROVE  PrintedInv' /\ DrainInv' /\ QuietTextKept'
<1>0. /\ conBuffer \in Seq(Text) /\ conQuiet \in Seq(Text) /\ conOutputs \in Seq(Text) /\ conPos \in Nat
      /\ Len(conBuffer) \in Nat /\ Len(conQuiet) \in Nat /\ Len(conOutputs) \in Nat
      /\ PrintedInv /\ DrainInv /\ QuietTextKept /\ ConsoleTypeOK
    BY DEF ConsoleInv, ConsoleTypeOK
<1>1. /\ conDrain = NoDrain /\ conDrain' = conDrain /\ conBuilt' = conBuilt
      /\ conOutputs' = conOutputs /\ conQuiet' = Append(conQuiet, t)
      /\ conBuffer' = Overwrite(conBuffer, conPos, t) /\ conPos' = conPos + 1
      /\ t \notin conPrinted /\ conPrinted' = conPrinted \cup {t}
    BY <1>0 DEF PrintText, DrainInv
<1>2. conPos <= Len(conBuffer) /\ \A i \in conPos + 1 .. Len(conBuffer) : ~Quiet(conBuffer[i])
    BY <1>0 DEF DrainInv
<1>3. /\ conBuffer' \in Seq(Text)
      /\ Len(conBuffer') = IF conPos < Len(conBuffer) THEN Len(conBuffer) ELSE Len(conBuffer) + 1
      /\ \A i \in 1 .. Len(conBuffer') : conBuffer'[i] = IF i = conPos + 1 THEN t ELSE conBuffer[i]
  <2>1. /\ Overwrite(conBuffer, conPos, t) \in Seq(Text)
        /\ conPos <= Len(conBuffer) =>
             Len(Overwrite(conBuffer, conPos, t)) =
               IF conPos < Len(conBuffer) THEN Len(conBuffer) ELSE Len(conBuffer) + 1
        /\ conPos <= Len(conBuffer) => \A i \in 1 .. Len(Overwrite(conBuffer, conPos, t)) :
             Overwrite(conBuffer, conPos, t)[i] = IF i = conPos + 1 THEN t ELSE conBuffer[i]
    <3> DEFINE b == conBuffer
               o == Overwrite(b, conPos, t)
    <3>1. b \in Seq(Text) /\ conPos \in Nat
        BY <1>0
    <3> HIDE DEF b
    <3>2. o \in Seq(Text)
        BY <3>1, OverwriteOf
    <3>3. conPos <= Len(b) => Len(o) = IF conPos < Len(b) THEN Len(b) ELSE Len(b) + 1
        BY <3>1, OverwriteOf
    <3>4. conPos <= Len(b) => \A i \in 1 .. Len(o) : o[i] = IF i = conPos + 1 THEN t ELSE b[i]
        BY <3>1, OverwriteOf
    <3> QED
        BY <3>2, <3>3, <3>4 DEF b
  <2> QED
      BY <1>1, <1>2, <2>1
<1>4. /\ conQuiet' \in Seq(Text) /\ Len(conQuiet') = Len(conQuiet) + 1
      /\ \A k \in 1 .. Len(conQuiet) : conQuiet'[k] = conQuiet[k]
      /\ conQuiet'[Len(conQuiet) + 1] = t
    BY <1>0, <1>1
<1>5. \A i \in 1 .. Len(conBuffer') : i # conPos + 1 => i \in 1 .. Len(conBuffer)
    BY <1>0, <1>2, <1>3
<1>6. PrintedInv'
    BY <1>0, <1>1, <1>3, <1>4, <1>5 DEF PrintedInv, NoDrain
<1>7. ASSUME NEW i \in 1 .. Len(conBuffer), i # conPos + 1 PROVE conBuffer[i] # t
    BY <1>0, <1>1 DEF PrintedInv
<1>8. DrainInv'
  <2>1. conPos' <= Len(conBuffer')
      BY <1>0, <1>1, <1>2, <1>3
  <2>2. ASSUME NEW i \in conPos' + 1 .. Len(conBuffer') PROVE ~Quiet(conBuffer[i])' 
    <3>1. i \in conPos + 1 .. Len(conBuffer) /\ i # conPos + 1 /\ i \in 1 .. Len(conBuffer)
        BY <1>0, <1>1, <1>3, <1>5
    <3>2. conBuffer'[i] = conBuffer[i] /\ conBuffer[i] # t /\ ~Quiet(conBuffer[i])
        BY <1>2, <1>3, <1>7, <3>1
    <3> QED
        BY <1>4, <3>2 DEF Quiet
  <2>3. DrainAt' = "no" /\ conDrain' = NoDrain
      BY <1>1 DEF DrainAt, NoDrain
  <2> QED
      BY <2>1, <2>2, <2>3 DEF DrainInv
<1> DEFINE s == conOutputs \o Pending
           n == Len(conOutputs)
           c == n + conPos + 1
<1>9. /\ s \in Seq(Text) /\ n \in Nat /\ Len(s) = n + Len(conBuffer)
      /\ \A i \in 1 .. Len(s) : s[i] = IF i <= n THEN conOutputs[i] ELSE conBuffer[i - n]
  <2>1. Pending = conBuffer
      BY <1>1 DEF Pending
  <2> QED
      BY <1>0, <2>1, ShownIs
<1>10. /\ s' \in Seq(Text) /\ Len(s') = n + Len(conBuffer')
       /\ \A i \in 1 .. Len(s') : s'[i] = IF i <= n THEN conOutputs[i] ELSE conBuffer'[i - n]
  <2>1. s' = conOutputs \o conBuffer'
      BY <1>1 DEF Pending
  <2>2. /\ conOutputs \o conBuffer' \in Seq(Text)
        /\ Len(conOutputs \o conBuffer') = n + Len(conBuffer')
        /\ \A i \in 1 .. n + Len(conBuffer') : (conOutputs \o conBuffer')[i] =
             IF i <= n THEN conOutputs[i] ELSE conBuffer'[i - n]
      BY <1>0, <1>3, ConcatProperties, Zenon
  <2> QED
      BY <2>1, <2>2
<1> HIDE DEF s
<1>11. c \in 1 .. Len(s') /\ s'[c] = t
  <2>1. conPos + 1 \in 1 .. Len(conBuffer') /\ Len(conBuffer') \in Nat
      BY <1>0, <1>2, <1>3
  <2>2. c \in 1 .. Len(s') /\ ~(c <= n) /\ c - n = conPos + 1
      BY <1>0, <1>10, <2>1
  <2>3. s'[c] = conBuffer'[conPos + 1]
      BY <1>10, <2>2
  <2> QED
      BY <1>3, <2>1, <2>2, <2>3
<1>12. ASSUME NEW i \in 1 .. Len(s'), i # c PROVE i \in 1 .. Len(s) /\ s'[i] = s[i] /\ s[i] \in conPrinted
  <2>0. Len(conBuffer') \in Nat
      BY <1>3
  <2>1. CASE i <= n
      BY <1>0, <1>9, <1>10, <2>0, <2>1 DEF PrintedInv
  <2>2. CASE i > n
    <3>1. i - n \in 1 .. Len(conBuffer') /\ i - n # conPos + 1
        BY <1>0, <1>10, <1>12, <2>0, <2>2
    <3>2. i - n \in 1 .. Len(conBuffer) /\ conBuffer'[i - n] = conBuffer[i - n]
        BY <1>3, <1>5, <3>1
    <3>3. i \in 1 .. Len(s) /\ ~(i <= n)
        BY <1>0, <1>9, <2>2, <3>2
    <3>4. s'[i] = conBuffer[i - n] /\ s[i] = conBuffer[i - n]
        BY <1>9, <1>10, <3>2, <3>3
    <3> QED
        BY <1>0, <3>2, <3>3, <3>4 DEF PrintedInv
  <2> QED
      BY <1>0, <1>10, <2>0, <2>1, <2>2
<1>13. ASSUME NEW i \in 1 .. Len(s') PROVE s'[i] = t <=> i = c
    BY <1>0, <1>1, <1>11, <1>12
<1>14. \A i \in 1 .. Len(s) : i # c => i \in 1 .. Len(s') /\ s'[i] = s[i]
    BY <1>0, <1>3, <1>9, <1>10, <1>12
<1>15. ASSUME NEW i \in 1 .. Len(s), i > n + conPos PROVE ~Quiet(s[i])
  <2> HIDE DEF n, s
  <2>0. /\ i \in Nat /\ n \in Nat /\ conPos \in Nat /\ Len(conBuffer) \in Nat
        /\ i > n + conPos /\ i <= n + Len(conBuffer)
      BY <1>0, <1>9, <1>15
  <2>1. i - n \in conPos + 1 .. Len(conBuffer) /\ s[i] = conBuffer[i - n]
    <3>1. i - n \in conPos + 1 .. Len(conBuffer) /\ ~(i <= n)
        BY <2>0
    <3>2. s[i] = conBuffer[i - n]
        BY <1>9, <3>1
    <3> QED
        BY <3>1, <3>2
  <2> QED
      BY <1>2, <2>1
<1>16. OrderOf(s, conQuiet) /\ CompleteIn(s, conQuiet) /\ LostOnlyIf(s, conQuiet, n = MaxLines)
    BY <1>0, QuietIs DEF s
<1> HIDE DEF n
<1>17. ASSUME NEW k \in 1 .. Len(conQuiet) PROVE Among(conQuiet[k], s) <=> Among(conQuiet'[k], s')
  <2>1. conQuiet'[k] = conQuiet[k] /\ Quiet(conQuiet[k]) /\ conQuiet[k] # t
      BY <1>0, <1>1, <1>4 DEF Quiet, PrintedInv
  <2>2. ASSUME NEW i \in 1 .. Len(s), s[i] = conQuiet[k] PROVE i \in 1 .. Len(s') /\ s'[i] = conQuiet[k]
      BY <1>0, <1>9, <1>14, <1>15, <2>1, <2>2
  <2>3. ASSUME NEW i \in 1 .. Len(s'), s'[i] = conQuiet[k] PROVE i \in 1 .. Len(s) /\ s[i] = conQuiet[k]
      BY <1>0, <1>11, <1>12, <2>1, <2>3
  <2> QED
      BY <2>1, <2>2, <2>3 DEF Among
<1>18. Among(conQuiet'[Len(conQuiet) + 1], s')
    BY <1>0, <1>4, <1>11 DEF Among
<1>19. OrderOf(s', conQuiet')
  <2> SUFFICES ASSUME NEW i \in 1 .. Len(s'), NEW j \in 1 .. Len(s'), NEW k \in 1 .. Len(conQuiet'),
                      NEW l \in 1 .. Len(conQuiet'), i < j, s'[i] = conQuiet'[k], s'[j] = conQuiet'[l]
               PROVE  k < l
      BY DEF OrderOf
  <2>1. CASE i # c /\ j # c
    <3>1. i \in 1 .. Len(s) /\ s[i] = conQuiet'[k] /\ j \in 1 .. Len(s) /\ s[j] = conQuiet'[l]
        BY <1>0, <1>12, <2>1
    <3>2. k \in 1 .. Len(conQuiet) /\ l \in 1 .. Len(conQuiet)
        BY <1>0, <1>4, <1>13, <2>1
    <3> QED
        BY <1>0, <1>4, <1>16, <3>1, <3>2 DEF OrderOf
  <2>2. CASE i = c
    <3>1. j \in 1 .. Len(s) /\ j > n + conPos /\ s'[j] = s[j] /\ s'[j] # t
        BY <1>0, <1>9, <1>12, <1>13, <2>2
    <3>2. l # Len(conQuiet) + 1
        BY <1>4, <3>1
    <3>3. l \in 1 .. Len(conQuiet)
        BY <1>0, <1>4, <3>2
    <3>4. s[j] = conQuiet[l]
        BY <1>4, <3>1, <3>3
    <3> QED
        BY <1>0, <1>15, <3>1, <3>3, <3>4 DEF Quiet
  <2>3. CASE j = c
    <3>1. s'[i] # t /\ s'[j] = t
        BY <1>0, <1>13, <2>3
    <3>2. k \in 1 .. Len(conQuiet)
        BY <1>0, <1>4, <3>1
    <3>3. l = Len(conQuiet) + 1
        BY <1>0, <1>1, <1>4, <3>1 DEF PrintedInv
    <3> QED
        BY <3>2, <3>3
  <2> QED
      BY <2>1, <2>2, <2>3
<1>20. CompleteIn(s', conQuiet')
  <2> SUFFICES ASSUME NEW k \in 1 .. Len(conQuiet'), NEW l \in 1 .. Len(conQuiet'),
                      Among(conQuiet'[k], s'), k < l
               PROVE  Among(conQuiet'[l], s')
      BY DEF CompleteIn
  <2>0. Len(conQuiet) \in Nat /\ Len(conQuiet') = Len(conQuiet) + 1
      BY <1>0, <1>4
  <2>1. k \in 1 .. Len(conQuiet) /\ (l = Len(conQuiet) + 1 \/ l \in 1 .. Len(conQuiet))
      BY <2>0
  <2> QED
      BY <1>0, <1>16, <1>17, <1>18, <2>1 DEF CompleteIn
<1>21. LostOnlyIf(s', conQuiet', n = MaxLines)
  <2> SUFFICES ASSUME NEW k \in 1 .. Len(conQuiet'), ~Among(conQuiet'[k], s') PROVE n = MaxLines
      BY DEF LostOnlyIf
  <2>1. k \in 1 .. Len(conQuiet)
      BY <1>0, <1>4, <1>18
  <2> QED
      BY <1>0, <1>16, <1>17, <2>1 DEF LostOnlyIf
<1>22. QuietTextKept'
  <2>1. s' = (conOutputs \o Pending)' /\ n' = Len(conOutputs)' /\ n' = n
      BY <1>0, <1>1 DEF s, n
  <2> QED
      BY <1>19, <1>20, <1>21, <2>1 DEF QuietTextKept, OrderOf, CompleteIn, LostOnlyIf, Among
<1> QED
    BY <1>6, <1>8, <1>22

\* The invariant in the next state, for what is shown there.
LEMMA QuietNext ==
  ASSUME NEW s, NEW full \in BOOLEAN,
         s = (conOutputs \o Pending)', full => (Len(conOutputs) = MaxLines)',
         OrderOf(s, conQuiet'), CompleteIn(s, conQuiet'), LostOnlyIf(s, conQuiet', full)
  PROVE  QuietTextKept'
    BY DEF QuietTextKept, OrderOf, CompleteIn, LostOnlyIf, Among

\* What is shown stays as it is.
LEMMA SameShown ==
  ASSUME QuietTextKept, Pending' = Pending, UNCHANGED <<conOutputs, conQuiet>>
  PROVE  QuietTextKept'
<1> DEFINE s == conOutputs \o Pending
           full == Len(conOutputs) = MaxLines
<1>1. OrderOf(s, conQuiet') /\ CompleteIn(s, conQuiet') /\ LostOnlyIf(s, conQuiet', full)
    BY QuietIs
<1>2. s = (conOutputs \o Pending)' /\ (full => (Len(conOutputs) = MaxLines)') /\ full \in BOOLEAN
    OBVIOUS
<1> HIDE DEF s, full
<1> QED
    BY <1>1, <1>2, QuietNext

\* A thread prints during a drain: nothing of what is kept changes.
LEMMA PrintLoud ==
  ASSUME ConsoleInv, NEW t \in Text, PrintText(t), DrainAt # "no"
  PROVE  PrintedInv' /\ DrainInv' /\ QuietTextKept'
<1>0. /\ conBuffer \in Seq(Text) /\ conPos \in Nat
      /\ PrintedInv /\ DrainInv /\ QuietTextKept
    BY DEF ConsoleInv, ConsoleTypeOK
<1>1. /\ conDrain # NoDrain /\ conDrain' = conDrain /\ conBuilt' = conBuilt
      /\ conOutputs' = conOutputs /\ conQuiet' = conQuiet
      /\ conBuffer' = Overwrite(conBuffer, conPos, t)
      /\ t \notin conPrinted /\ conPrinted' = conPrinted \cup {t}
    BY <1>0 DEF PrintText, DrainInv
<1>2. \A i \in 1 .. Len(conBuffer') :
        conBuffer'[i] = t \/ \E j \in 1 .. Len(conBuffer) : conBuffer'[i] = conBuffer[j]
  <2>1. \A i \in 1 .. Len(Overwrite(conBuffer, conPos, t)) :
          \/ Overwrite(conBuffer, conPos, t)[i] = t
          \/ \E j \in 1 .. Len(conBuffer) : Overwrite(conBuffer, conPos, t)[i] = conBuffer[j]
    <3> DEFINE b == conBuffer
               o == Overwrite(b, conPos, t)
    <3>1. b \in Seq(Text) /\ conPos \in Nat
        BY <1>0
    <3> HIDE DEF b
    <3>2. \A i \in 1 .. Len(o) : o[i] = t \/ \E j \in 1 .. Len(b) : o[i] = b[j]
        BY <3>1, OverwriteOf
    <3> QED
        BY <3>2 DEF b
  <2> QED
      BY <1>1, <2>1
<1>3. PrintedInv'
    BY <1>0, <1>1, <1>2 DEF PrintedInv
<1>4. ~Quiet(t)
    BY <1>0, <1>1 DEF PrintedInv, Quiet
<1>5. DrainInv'
    BY <1>0, <1>1, <1>2, <1>4 DEF DrainInv, DrainAt, Quiet
<1>6. QuietTextKept'
  <2>1. Pending' = Pending
      BY <1>1 DEF Pending
  <2> QED
      BY <1>0, <1>1, <2>1, SameShown
<1> QED
    BY <1>3, <1>5, <1>6

\* What was pending goes to the outputs, by build() or at the end of a drain.
LEMMA OutputStep ==
  ASSUME ConsoleInv, ConBuild \/ DrainEnd
  PROVE  PrintedInv' /\ DrainInv' /\ QuietTextKept'
<1>0. /\ conBuffer \in Seq(Text) /\ conQuiet \in Seq(Text) /\ conOutputs \in Seq(Text)
      /\ Pending \in Seq(Text) /\ conDrain.got \in Seq(Text) /\ conPos \in Nat
      /\ PrintedInv /\ DrainInv /\ QuietTextKept /\ ConsoleTypeOK
    BY DEF ConsoleInv, ConsoleTypeOK, Pending
<1> DEFINE s == conOutputs \o Pending
<1>1. /\ conOutputs' = Deque(s) /\ conDrain' = NoDrain
      /\ conQuiet' = conQuiet /\ conPrinted' = conPrinted /\ conPos' = 0
      /\ conBuffer' \in Seq(Text)
      /\ \A i \in 1 .. Len(conBuffer') : ~Quiet(conBuffer'[i]) /\ conBuffer'[i] \in conPrinted
  <2>1. CASE ConBuild
    <3>1. conDrain = NoDrain /\ Pending = conBuffer /\ conBuffer' = << >>
        BY <1>0, <2>1 DEF ConBuild, DrainInv, Pending
    <3> QED
        BY <2>1, <3>1 DEF ConBuild
  <2>2. CASE DrainEnd
    <3>1. DrainAt = "cut" /\ conDrain # NoDrain /\ Pending = conDrain.got /\ conBuffer' = conBuffer
        BY <1>0, <2>2 DEF DrainEnd, DrainInv, Pending, DrainAt, NoDrain
    <3> QED
        BY <1>0, <2>2, <3>1 DEF DrainEnd, DrainInv, PrintedInv
  <2> QED
      BY <2>1, <2>2
<1>2. /\ s \in Seq(Text) /\ Len(s) = Len(conOutputs) + Len(Pending)
      /\ \A i \in 1 .. Len(s) : s[i] \in conPrinted
  <2>1. /\ s \in Seq(Text) /\ Len(s) = Len(conOutputs) + Len(Pending)
        /\ \A i \in 1 .. Len(s) :
             s[i] = IF i <= Len(conOutputs) THEN conOutputs[i] ELSE Pending[i - Len(conOutputs)]
      BY <1>0, ShownIs
  <2>2. \A i \in 1 .. Len(Pending) : Pending[i] \in conPrinted
      BY <1>0 DEF PrintedInv, Pending
  <2>3. ASSUME NEW i \in 1 .. Len(s) PROVE s[i] \in conPrinted
    <3> HIDE DEF s
    <3>0. Len(conOutputs) \in Nat /\ Len(Pending) \in Nat
        BY <1>0
    <3>1. CASE i <= Len(conOutputs)
      <4>1. i \in 1 .. Len(conOutputs) /\ s[i] = conOutputs[i]
          BY <2>1, <3>0, <3>1
      <4> QED
          BY <1>0, <4>1 DEF PrintedInv
    <3>2. CASE ~(i <= Len(conOutputs))
      <4>1. i - Len(conOutputs) \in 1 .. Len(Pending)
          BY <1>0, <2>1, <3>2
      <4> QED
          BY <2>1, <2>2, <3>2, <4>1
    <3> QED
        BY <3>1, <3>2
  <2> QED
      BY <2>1, <2>3
<1>3. OrderOf(s, conQuiet) /\ CompleteIn(s, conQuiet)
      /\ LostOnlyIf(s, conQuiet, Len(conOutputs) = MaxLines)
    BY <1>0, QuietIs
<1>4. Len(conOutputs) = MaxLines => Len(s) >= MaxLines
    BY <1>0, <1>2
<1>5. \A k, l \in 1 .. Len(conQuiet) : conQuiet[k] = conQuiet[l] => k = l
    BY <1>0 DEF PrintedInv
<1>6. \A i \in 1 .. Len(conBuffer'), k \in 1 .. Len(conQuiet) : conBuffer'[i] # conQuiet[k]
    BY <1>1 DEF Quiet
<1> HIDE DEF s
<1>7. /\ OrderOf(Deque(s) \o conBuffer', conQuiet) /\ CompleteIn(Deque(s) \o conBuffer', conQuiet)
      /\ LostOnlyIf(Deque(s) \o conBuffer', conQuiet, Len(Deque(s)) = MaxLines)
  <2> DEFINE full == Len(conOutputs) = MaxLines
  <2>1. full \in BOOLEAN
      OBVIOUS
  <2> HIDE DEF full
  <2>2. LostOnlyIf(s, conQuiet, full) /\ (full => Len(s) >= MaxLines)
      BY <1>3, <1>4 DEF full
  <2> QED
      BY <1>0, <1>1, <1>2, <1>3, <1>5, <1>6, <2>1, <2>2, DequeKeeps
<1>8. QuietTextKept'
  <2> DEFINE u == Deque(s) \o conBuffer'
             full == Len(Deque(s)) = MaxLines
  <2>1. u = (conOutputs \o Pending)' /\ (full => (Len(conOutputs) = MaxLines)') /\ full \in BOOLEAN
      BY <1>1 DEF Pending
  <2>2. OrderOf(u, conQuiet') /\ CompleteIn(u, conQuiet') /\ LostOnlyIf(u, conQuiet', full)
      BY <1>1, <1>7
  <2> HIDE DEF u, full
  <2> QED
      BY <2>1, <2>2, QuietNext
<1>9. PrintedInv'
  <2> DEFINE m == IF Len(s) > MaxLines THEN MaxLines ELSE Len(s)
  <2>1. Len(Deque(s)) = m /\ \A i \in 1 .. m : Deque(s)[i] = s[Len(s) - m + i]
      BY <1>2, DequeOf
  <2>2. \A i \in 1 .. m : Len(s) - m + i \in 1 .. Len(s)
      BY <1>2, ConsoleAssumption
  <2>3. \A i \in 1 .. Len(Deque(s)) : Deque(s)[i] \in conPrinted
      BY <1>2, <2>1, <2>2
  <2> QED
      BY <1>0, <1>1, <2>3 DEF PrintedInv, NoDrain
<1>10. DrainInv'
    BY <1>0, <1>1 DEF DrainInv, DrainAt, Quiet, NoDrain
<1> QED
    BY <1>8, <1>9, <1>10

\* A drain begins: what it has got is what was pending.
LEMMA DrainBegins ==
  ASSUME ConsoleInv, NEW c \in Client, conBuilt, conDrain' = [by |-> c, at |-> "got", got |-> conBuffer],
         conDrain = NoDrain,
         UNCHANGED <<conBuffer, conPos, conBuilt, conOutputs, conQuiet, conPrinted>>
  PROVE  PrintedInv' /\ DrainInv' /\ QuietTextKept'
<1>1. PrintedInv' /\ DrainInv'
    BY DEF ConsoleInv, PrintedInv, DrainInv, DrainAt, NoDrain
<1>2. Pending' = Pending
    BY DEF Pending, NoDrain
<1> QED
    BY <1>1, <1>2, SameShown DEF ConsoleInv

\* What shows texts is kept by every step.
LEMMA ShowStep ==
  ConsoleInv /\ [ConsoleNext]_consoleVars => PrintedInv' /\ DrainInv' /\ QuietTextKept'
<1> SUFFICES ASSUME ConsoleInv, [ConsoleNext]_consoleVars
             PROVE  PrintedInv' /\ DrainInv' /\ QuietTextKept'
    OBVIOUS
<1>0. ASSUME UNCHANGED <<conBuffer, conPos, conBuilt, conOutputs, conQuiet, conPrinted, conDrain>>
      PROVE  PrintedInv' /\ DrainInv' /\ QuietTextKept'
  <2>1. PrintedInv' /\ DrainInv'
      BY <1>0 DEF ConsoleInv, PrintedInv, DrainInv, DrainAt, Quiet
  <2>2. Pending' = Pending
      BY <1>0 DEF Pending
  <2> QED
      BY <1>0, <2>1, <2>2, SameShown DEF ConsoleInv
<1>1. ASSUME NEW t \in Text, PrintText(t) PROVE PrintedInv' /\ DrainInv' /\ QuietTextKept'
    BY <1>1, PrintQuiet, PrintLoud
<1>2. ASSUME ConBuild \/ DrainEnd PROVE PrintedInv' /\ DrainInv' /\ QuietTextKept'
    BY <1>2, OutputStep
<1>3. ASSUME NEW c \in Client, ConRead(c) PROVE PrintedInv' /\ DrainInv' /\ QuietTextKept'
    BY <1>0, <1>3, DrainBegins DEF ConRead, Drain
<1>4. ASSUME NEW c \in Client, ConAwake(c) PROVE PrintedInv' /\ DrainInv' /\ QuietTextKept'
  <2>1. conBuilt
      BY <1>4 DEF ConsoleInv, PollInv, ConAwake
  <2> QED
      BY <1>0, <1>4, <2>1, DrainBegins DEF ConAwake, Drain
<1>5. ASSUME DrainSeek \/ DrainTruncate PROVE PrintedInv' /\ DrainInv' /\ QuietTextKept'
  <2>1. /\ DrainAt \in {"got", "sought"} /\ DrainAt' \in {"sought", "cut"}
        /\ conDrain.by = conDrain'.by /\ conDrain.got = conDrain'.got
        /\ conDrain # NoDrain /\ conDrain' # NoDrain
        /\ DrainAt' = "cut" => conBuffer' = << >>
        /\ conBuffer' = conBuffer \/ conBuffer' = << >>
        /\ UNCHANGED <<conBuilt, conOutputs, conQuiet, conPrinted>>
      BY <1>5 DEF ConsoleInv, ConsoleTypeOK, DrainSeek, DrainTruncate, DrainAt, NoDrain
  <2>2. PrintedInv'
      BY <2>1 DEF ConsoleInv, PrintedInv
  <2>3. DrainInv'
      BY <2>1 DEF ConsoleInv, DrainInv, DrainAt
  <2>4. Pending' = Pending
      BY <2>1 DEF Pending
  <2> QED
      BY <2>1, <2>2, <2>3, <2>4, SameShown DEF ConsoleInv
<1>6. CASE ConNotify \/ ConFinalize
    BY <1>0, <1>6 DEF ConNotify, ConFinalize
<1>7. CASE StdinNext \/ UNCHANGED consoleVars
    BY <1>0, <1>7 DEF StdinNext, PostTell, PostSeekEnd, PostSeekBack, PostWrite, ReadLine, conVars,
       consoleVars
<1> QED
    BY <1>1, <1>2, <1>3, <1>4, <1>5, <1>6, <1>7 DEF ConsoleNext, StdoutNext, DrainStep

\* A read waits only after build().
LEMMA PollStep == ConsoleInv /\ [ConsoleNext]_consoleVars => PollInv'
<1> SUFFICES ASSUME ConsoleInv, [ConsoleNext]_consoleVars PROVE PollInv'
    OBVIOUS
<1> USE DEF ConsoleInv, ConsoleTypeOK, PollInv
<1>1. ASSUME NEW c \in Client, ConRead(c) \/ ConAwake(c) PROVE PollInv'
    BY <1>1 DEF ConRead, ConAwake, Drain
<1>2. CASE ConNotify
    BY <1>2 DEF ConNotify
<1>3. CASE DrainEnd
    BY <1>3 DEF DrainEnd
<1>4. CASE ConBuild
    BY <1>4 DEF ConBuild
<1>5. CASE \E t \in Text : PrintText(t)
    BY <1>5 DEF PrintText
<1>6. CASE DrainSeek \/ DrainTruncate \/ ConFinalize
    BY <1>6 DEF DrainSeek, DrainTruncate, ConFinalize
<1>7. CASE StdinNext \/ UNCHANGED consoleVars
    BY <1>7 DEF StdinNext, PostTell, PostSeekEnd, PostSeekBack, PostWrite, ReadLine, conVars,
       consoleVars
<1> QED
    BY <1>1, <1>2, <1>3, <1>4, <1>5, <1>6, <1>7 DEF ConsoleNext, StdoutNext, DrainStep

\* Nobody but a notification takes one, and it wakes all that wait.
LEMMA WaitStep == ConsoleInv /\ [ConsoleNext]_consoleVars => WaitInv'
<1> SUFFICES ASSUME ConsoleInv, [ConsoleNext]_consoleVars PROVE WaitInv'
    OBVIOUS
<1>0. /\ conRevision \in Nat /\ conNotice \in Nat /\ conPos \in Nat /\ conSince \in [Client -> Nat]
      /\ conPoll \in [Client -> {"away", "wait", "nap", "failed"}] /\ WaitInv /\ PollInv
      /\ conDrain \in [by : Client \cup {NoClient}, at : {"no", "got", "sought", "cut"}, got : Seq(Text)]
    BY DEF ConsoleInv, ConsoleTypeOK
<1>1. ASSUME NEW c \in Client, ConRead(c), MustWait(c) PROVE WaitInv'
  <2>1. CASE conPoll' = [conPoll EXCEPT ![c] = "wait"] /\ UNCHANGED <<conDrain, conSince>>
      BY <1>0, <1>1, <2>1 DEF ConRead, MustWait, WaitInv
  <2> QED
      BY <1>1, <2>1 DEF ConRead
<1>2. ASSUME NEW c \in Client, Drain(c), UNCHANGED <<conPos, conRevision, conNotice>> PROVE WaitInv'
    BY <1>0, <1>2 DEF Drain, WaitInv
<1>3. ASSUME NEW c \in Client, ConRead(c) \/ ConAwake(c) PROVE WaitInv'
  <2>1. CASE conPoll' = [conPoll EXCEPT ![c] = "failed"] /\ UNCHANGED <<conDrain, conSince>>
             /\ UNCHANGED <<conPos, conRevision, conNotice>>
      BY <1>0, <2>1 DEF WaitInv
  <2> QED
      BY <1>1, <1>2, <1>3, <2>1 DEF ConRead, ConAwake
<1>4. CASE ConNotify
    BY <1>0, <1>4 DEF ConNotify, WaitInv
<1>5. CASE DrainSeek \/ DrainTruncate
  <2>1. conDrain # NoDrain
      BY <1>5 DEF DrainSeek, DrainTruncate, NoDrain
  <2>2. UNCHANGED <<conRevision, conNotice, conPoll, conSince>>
      BY <1>5 DEF DrainSeek, DrainTruncate
  <2> QED
      BY <1>0, <2>1, <2>2 DEF WaitInv
<1>6. CASE DrainEnd
  <2>1. conDrain # NoDrain
      BY <1>6 DEF DrainEnd, NoDrain
  <2> QED
      BY <1>0, <1>6, <2>1 DEF DrainEnd, WaitInv
<1>7. CASE ConBuild
    BY <1>0, <1>7 DEF ConBuild, WaitInv, PollInv
<1>8. ASSUME NEW t \in Text, PrintText(t) PROVE WaitInv'
  <2>1. \A c \in Client : conPoll'[c] = "wait" => conNotice' > 0
      BY <1>0, <1>8 DEF PrintText, PollInv
  <2> QED
      BY <1>0, <1>8, <2>1 DEF PrintText, WaitInv
<1>9. CASE StdinNext \/ ConFinalize \/ UNCHANGED consoleVars
    BY <1>0, <1>9 DEF StdinNext, PostTell, PostSeekEnd, PostSeekBack, PostWrite, ReadLine, ConFinalize,
       conVars, consoleVars, WaitInv
<1> QED
    BY <1>3, <1>4, <1>5, <1>6, <1>7, <1>8, <1>9 DEF ConsoleNext, StdoutNext, DrainStep

\* What has been read stays read when the text grows at its end, or a script
\* reads on.
LEMMA ReadStays ==
  ASSUME NEW n \in Nat, stdinText \in Seq(Command), stdinText' \in Seq(Command),
         stdinRead \in Seq(Command), stdinRead' \in Seq(Command), ReadBefore(n),
         Len(stdinText) <= Len(stdinText'),
         \A i \in 1 .. Len(stdinText) : stdinText'[i] = stdinText[i],
         Len(stdinRead) <= Len(stdinRead'),
         \A i \in 1 .. Len(stdinRead) : stdinRead'[i] = stdinRead[i]
  PROVE  n <= Len(stdinText') /\ \A i \in 1 .. n : Contains(stdinRead', stdinText'[i])
<1>1. n <= Len(stdinText')
    BY DEF ReadBefore
<1>2. ASSUME NEW i \in 1 .. n PROVE Contains(stdinRead', stdinText'[i])
  <2>1. stdinText'[i] = stdinText[i] /\ Contains(stdinRead, stdinText[i])
      BY DEF ReadBefore
  <2>2. PICK j \in 1 .. Len(stdinRead) : stdinRead[j] = stdinText[i]
      BY <2>1 DEF Contains
  <2>3. j \in 1 .. Len(stdinRead') /\ stdinRead'[j] = stdinText'[i]
      BY <2>1, <2>2
  <2> QED
      BY <2>3 DEF Contains
<1> QED
    BY <1>1, <1>2

\* A POST appends at the end and goes back to where it was told to be.
LEMMA PostStep == ConsoleInv /\ [ConsoleNext]_consoleVars => PostInv'
<1> SUFFICES ASSUME ConsoleInv, [ConsoleNext]_consoleVars PROVE PostInv'
    OBVIOUS
<1>0. /\ stdinText \in Seq(Command) /\ stdinRead \in Seq(Command) /\ stdinPos \in Nat
      /\ stdinPost \in [at : {"no", "tell", "end", "written"}, pos : Nat]
      /\ Len(stdinText) \in Nat /\ Len(stdinRead) \in Nat /\ PostInv
    BY DEF ConsoleInv, ConsoleTypeOK
<1>1. CASE PostTell
    BY <1>0, <1>1 DEF PostTell, PostInv, NoPost, ReadBefore
<1>2. CASE PostSeekEnd
    BY <1>0, <1>2 DEF PostSeekEnd, PostInv, ReadBefore
<1>3. ASSUME NEW m \in Command, PostWrite(m) PROVE PostInv'
  <2>1. /\ stdinPost.at = "end" /\ stdinPos = Len(stdinText) /\ ReadBefore(stdinPost.pos)
        /\ stdinText' = Overwrite(stdinText, stdinPos, m) /\ stdinPos' = stdinPos + 1
        /\ stdinPost'.at = "written" /\ stdinPost'.pos = stdinPost.pos /\ stdinRead' = stdinRead
      BY <1>0, <1>3 DEF PostWrite, PostInv
  <2>2. /\ stdinText' \in Seq(Command) /\ Len(stdinText') = Len(stdinText) + 1
        /\ \A i \in 1 .. Len(stdinText) : stdinText'[i] = stdinText[i]
    <3> DEFINE b == stdinText
               o == Overwrite(b, stdinPos, m)
    <3>0. stdinPos = Len(b) /\ Len(b) \in Nat
        BY <1>0, <2>1
    <3>1. b \in Seq(Command) /\ stdinPos \in Nat
        BY <1>0
    <3> HIDE DEF b
    <3>2. o \in Seq(Command)
        BY <3>1, OverwriteOf
    <3>3. stdinPos <= Len(b) => Len(o) = IF stdinPos < Len(b) THEN Len(b) ELSE Len(b) + 1
        BY <3>1, OverwriteOf
    <3>4. stdinPos <= Len(b) => \A i \in 1 .. Len(o) : o[i] = IF i = stdinPos + 1 THEN m ELSE b[i]
        BY <3>1, OverwriteOf
    <3>5. Len(o) = Len(b) + 1
        BY <3>0, <3>3
    <3>6. \A i \in 1 .. Len(b) : i \in 1 .. Len(o) /\ i # stdinPos + 1
        BY <3>0, <3>5
    <3>7. \A i \in 1 .. Len(b) : o[i] = b[i]
        BY <3>0, <3>4, <3>6
    <3>8. stdinText' = o
        BY <2>1 DEF b
    <3> HIDE DEF o
    <3> QED
        BY <3>2, <3>5, <3>7, <3>8 DEF b
  <2>3. ReadBefore(stdinPost.pos)'
    <3>1. Len(stdinText) <= Len(stdinText') /\ stdinPost.pos \in Nat
        BY <1>0, <2>2
    <3> DEFINE n == stdinPost.pos
    <3>2. n \in Nat /\ ReadBefore(n)
        BY <2>1, <3>1
    <3> HIDE DEF n
    <3>3. n <= Len(stdinText') /\ \A i \in 1 .. n : Contains(stdinRead', stdinText'[i])
        BY <1>0, <2>1, <2>2, <3>1, <3>2, ReadStays
    <3> QED
        BY <2>1, <3>3 DEF n, ReadBefore
  <2> QED
      BY <1>0, <2>1, <2>2, <2>3 DEF PostInv
<1>4. CASE PostSeekBack
    BY <1>0, <1>4 DEF PostSeekBack, PostInv, NoPost, ReadBefore
<1>5. CASE ReadLine
  <2>1. /\ stdinPos < Len(stdinText) /\ stdinRead' = Append(stdinRead, stdinText[stdinPos + 1])
        /\ stdinPos' = stdinPos + 1 /\ stdinText' = stdinText /\ stdinPost' = stdinPost
      BY <1>5 DEF ReadLine
  <2>2. stdinPost.at \in {"no", "tell"}
      BY <1>0, <2>1 DEF PostInv
  <2>3. /\ stdinText[stdinPos + 1] \in Command /\ stdinRead' \in Seq(Command)
        /\ Len(stdinRead') = Len(stdinRead) + 1
        /\ \A i \in 1 .. Len(stdinRead) : stdinRead'[i] = stdinRead[i]
        /\ stdinRead'[Len(stdinRead) + 1] = stdinText[stdinPos + 1]
      BY <1>0, <2>1
  <2>4. ASSUME NEW n \in Nat, ReadBefore(n)
        PROVE  n <= Len(stdinText') /\ \A i \in 1 .. n : Contains(stdinRead', stdinText'[i])
    <3>1. Len(stdinRead) <= Len(stdinRead')
        BY <1>0, <2>3
    <3> QED
        BY <1>0, <2>1, <2>3, <2>4, <3>1, ReadStays
  <2>5. Contains(stdinRead', stdinText'[stdinPos + 1])
    <3>1. Len(stdinRead) + 1 \in 1 .. Len(stdinRead')
        BY <1>0, <2>3
    <3> QED
        BY <2>1, <2>3, <3>1 DEF Contains
  <2>6. ReadBefore(stdinPos)'
    <3>1. \A i \in 1 .. stdinPos : Contains(stdinRead', stdinText'[i])
        BY <1>0, <2>2, <2>4 DEF PostInv
    <3>2. \A i \in 1 .. stdinPos' : i \in 1 .. stdinPos \/ i = stdinPos + 1
        BY <1>0, <2>1
    <3>3. stdinPos' <= Len(stdinText')
        BY <1>0, <2>1
    <3> QED
        BY <2>5, <3>1, <3>2, <3>3 DEF ReadBefore
  <2>7. stdinPost.at # "no" => ReadBefore(stdinPost.pos)'
    <3> SUFFICES ASSUME stdinPost.at # "no" PROVE ReadBefore(stdinPost.pos)'
        OBVIOUS
    <3> DEFINE n == stdinPost.pos
    <3>1. n \in Nat /\ ReadBefore(n)
        BY <1>0 DEF PostInv
    <3> HIDE DEF n
    <3>2. n <= Len(stdinText') /\ \A i \in 1 .. n : Contains(stdinRead', stdinText'[i])
        BY <2>4, <3>1
    <3> QED
        BY <2>1, <3>2 DEF n, ReadBefore
  <2> QED
      BY <1>0, <2>1, <2>2, <2>6, <2>7 DEF PostInv
<1>6. CASE StdoutNext \/ ConFinalize \/ UNCHANGED consoleVars
  <2>1. UNCHANGED stdinVars
      BY <1>6 DEF StdoutNext, PrintText, ConBuild, ConNotify, DrainStep, DrainSeek, DrainTruncate,
         DrainEnd, ConRead, ConAwake, ConFinalize, consoleVars
  <2> QED
      BY <1>0, <2>1 DEF stdinVars, PostInv, ReadBefore
<1> QED
    BY <1>1, <1>2, <1>3, <1>4, <1>5, <1>6 DEF ConsoleNext, StdinNext

\* Every step of the console keeps the types.
LEMMA ConsoleStepType == ConsoleInv /\ [ConsoleNext]_consoleVars => ConsoleTypeOK'
<1> SUFFICES ASSUME ConsoleInv, [ConsoleNext]_consoleVars PROVE ConsoleTypeOK'
    OBVIOUS
<1> USE DEF ConsoleInv, ConsoleTypeOK
<1>1. ASSUME NEW t \in Text, PrintText(t) PROVE ConsoleTypeOK'
  <2>1. Overwrite(conBuffer, conPos, t) \in Seq(Text)
    <3>1. conBuffer \in Seq(Text) /\ conPos \in Nat
        OBVIOUS
    <3> DEFINE b == conBuffer
    <3> HIDE DEF b
    <3>2. b \in Seq(Text)
        BY <3>1 DEF b
    <3>3. Overwrite(b, conPos, t) \in Seq(Text)
        BY <3>1, <3>2, OverwriteOf
    <3> QED
        BY <3>3 DEF b
  <2>2. /\ conBuffer' \in Seq(Text) /\ conOutputs' \in Seq(Text) /\ conQuiet' \in Seq(Text)
        /\ conPos' \in Nat /\ conNotice' \in Nat /\ conPrinted' \subseteq Text
      BY <1>1, <2>1 DEF PrintText
  <2> QED
      BY <1>1, <2>2 DEF PrintText, stdinVars
<1>2. CASE ConBuild
  <2>1. Deque(conOutputs \o conBuffer) \in Seq(Text)
    <3>1. conOutputs \o conBuffer \in Seq(Text)
        OBVIOUS
    <3> QED
        BY <3>1, DequeOf
  <2> QED
      BY <1>2, <2>1 DEF ConBuild, stdinVars
<1>3. CASE DrainEnd
  <2>1. Deque(conOutputs \o conDrain.got) \in Seq(Text)
    <3>1. conOutputs \o conDrain.got \in Seq(Text)
        OBVIOUS
    <3> QED
        BY <3>1, DequeOf
  <2>2. conDrain.by \in Client
      BY <1>3 DEF DrainEnd, DrainInv, DrainAt
  <2> QED
      BY <1>3, <2>1, <2>2 DEF DrainEnd, stdinVars, NoDrain
<1>4. ASSUME NEW c \in Client, ConRead(c) \/ ConAwake(c) PROVE ConsoleTypeOK'
  <2>1. conDrain' \in [by : Client \cup {NoClient}, at : {"no", "got", "sought", "cut"}, got : Seq(Text)]
      BY <1>4 DEF ConRead, ConAwake, Drain
  <2>2. /\ conPoll' \in [Client -> {"away", "wait", "nap", "failed"}]
        /\ conSince' \in [Client -> Nat]
      BY <1>4 DEF ConRead, ConAwake, Drain
  <2> QED
      BY <1>4, <2>1, <2>2 DEF ConRead, ConAwake, stdinVars
<1>5. CASE ConNotify
    BY <1>5 DEF ConNotify, stdinVars
<1>6. CASE DrainSeek \/ DrainTruncate
  <2>1. conDrain' \in [by : Client \cup {NoClient}, at : {"no", "got", "sought", "cut"}, got : Seq(Text)]
      BY <1>6 DEF DrainSeek, DrainTruncate
  <2>2. conBuffer' \in Seq(Text) /\ conPos' \in Nat
    <3>1. CASE DrainSeek
        BY <3>1 DEF DrainSeek
    <3>2. CASE DrainTruncate
      <4>1. conBuffer' = << >> /\ conPos' = conPos
          BY <3>2 DEF DrainTruncate
      <4> QED
          BY <4>1
    <3> QED
        BY <1>6, <3>1, <3>2
  <2> QED
      BY <1>6, <2>1, <2>2 DEF DrainSeek, DrainTruncate, stdinVars
<1>7. CASE ConFinalize \/ UNCHANGED consoleVars
    BY <1>7 DEF ConFinalize, stdinVars, conVars, consoleVars
<1>8. CASE PostTell \/ PostSeekEnd \/ PostSeekBack
  <2>1. stdinPost' \in [at : {"no", "tell", "end", "written"}, pos : Nat] /\ stdinPos' \in Nat
      BY <1>8 DEF PostTell, PostSeekEnd, PostSeekBack, NoPost
  <2> QED
      BY <1>8, <2>1 DEF PostTell, PostSeekEnd, PostSeekBack, conVars
<1>9. ASSUME NEW m \in Command, PostWrite(m) PROVE ConsoleTypeOK'
  <2>1. Overwrite(stdinText, stdinPos, m) \in Seq(Command)
    <3>1. stdinText \in Seq(Command) /\ stdinPos \in Nat
        OBVIOUS
    <3> DEFINE b == stdinText
    <3> HIDE DEF b
    <3>2. b \in Seq(Command)
        BY <3>1 DEF b
    <3>3. Overwrite(b, stdinPos, m) \in Seq(Command)
        BY <3>1, <3>2, OverwriteOf
    <3> QED
        BY <3>3 DEF b
  <2>2. stdinPost' \in [at : {"no", "tell", "end", "written"}, pos : Nat]
      BY <1>9 DEF PostWrite
  <2>3. stdinPos' \in Nat
      BY <1>9 DEF PostWrite
  <2>4. stdinText' \in Seq(Command)
      BY <1>9, <2>1 DEF PostWrite
  <2> QED
      BY <1>9, <2>2, <2>3, <2>4 DEF PostWrite, conVars
<1>10. CASE ReadLine
    BY <1>10 DEF ReadLine, conVars
<1> QED
    BY <1>1, <1>2, <1>3, <1>4, <1>5, <1>6, <1>7, <1>8, <1>9, <1>10
    DEF ConsoleNext, StdoutNext, StdinNext, DrainStep

\* The invariant of the console is inductive.
LEMMA ConsoleStep == ConsoleInv /\ [ConsoleNext]_consoleVars => ConsoleInv'
    BY ConsoleStepType, ShowStep, PollStep, WaitStep, PostStep DEF ConsoleInv

\* The parts of the invariant that the property states.
LEMMA ConsoleInvLosesNothing == ConsoleInv => ConsoleLosesNothing
<1>1. ConsoleInv => QuietTextKept /\ NoCommandSkipped
    BY DEF ConsoleInv, PostInv, ReadBefore, NoCommandSkipped
<1>2. ConsoleInv => NotificationPending
    BY DEF ConsoleInv, WaitInv, NotificationPending, NewsFor
<1> QED
    BY <1>1, <1>2 DEF ConsoleLosesNothing

\* For any number of texts, lines and clients: what is printed and posted at
\* quiet times is neither lost, but when the outputs are full, nor repeated or
\* reordered; and no notification is lost on a client that waits (sd_console.py).
THEOREM NothingLostInConsole == ConsoleSpec => []ConsoleLosesNothing
<1>1. ConsoleInv /\ [ConsoleNext]_consoleVars => ConsoleInv'
    BY ConsoleStep
<1> QED
    BY <1>1, InitConsole, ConsoleInvLosesNothing, PTL DEF ConsoleSpec
=============================================================================
