--------------------------- MODULE MeshRPC_proofs ---------------------------
(***************************************************************************)
(* What MeshRPC guarantees for any number of meshes and calls, and any     *)
(* nesting of the calls.                                                   *)
(*                                                                         *)
(* 1. The state has its type.                                              *)
(* 2. Each mesh gives its calls ids that differ (IdsDistinct), so that the *)
(*    table of reply queues is exact.                                      *)
(* 3. A message that is on its way or in a queue belongs to the call whose *)
(*    id it carries (Addressed), so that a call returns its own replies.   *)
(* 4. Each execution of a call has one request before it and one answer    *)
(*    after it (SingleInv), so that MeshRPC implements RPC.                *)
(***************************************************************************)
EXTENDS MeshRPC, TLAPS

-----------------------------------------------------------------------------
(* Type correctness.                                                       *)

\* The table of reply queues of one mesh.
Table(d) == DOMAIN d \subseteq Nat /\ d \in [DOMAIN d -> Seq(Answer)]

LEMMA TablePut ==
    ASSUME NEW d, Table(d), NEW k \in Nat, NEW v \in Seq(Answer)
    PROVE  Table(Put(d, k, v))
<1>1. d \in [DOMAIN d -> Seq(Answer)]
    BY DEF Table
<1>2. /\ Put(d, k, v) \in [DOMAIN d \cup {k} -> Seq(Answer)]
      /\ DOMAIN Put(d, k, v) = DOMAIN d \cup {k}
    BY <1>1 DEF Put
<1> QED
    BY <1>2 DEF Table

LEMMA TablePop ==
    ASSUME NEW d, Table(d), NEW k
    PROVE  Table(Pop(d, k))
<1>1. d \in [DOMAIN d -> Seq(Answer)]
    BY DEF Table
<1>2. /\ Pop(d, k) \in [DOMAIN d \ {k} -> Seq(Answer)]
      /\ DOMAIN Pop(d, k) = DOMAIN d \ {k}
    BY <1>1 DEF Pop
<1> QED
    BY <1>2 DEF Table

\* TypeOK but for reply_queues.
RestType ==
    /\ rpc_count \in [Meshes -> Nat]
    /\ stop_requested \in [Meshes -> BOOLEAN]
    /\ pc \in [Calls -> {"new", "sending", "waiting", "returned", "cancelled"}]
    /\ cid \in [Calls -> Nat]
    /\ replies \in [Calls -> SUBSET Answer]
    /\ handler \in [Meshes -> {"none", "waiting", "running", "replying", "ended"}]
    /\ current \in [Meshes -> Request \cup {None}]
    /\ \A m \in Meshes : handler[m] \in {"running", "replying"} <=> current[m] # None
    /\ listener \in [Meshes -> {"none", "waiting", "ended"}]
    /\ stopper \in [Meshes -> {"new", "call", "reply", "done"}]
    /\ tasks \in [Meshes -> SUBSET {"call", "reply"}]
    /\ requests \subseteq Request
    /\ answers \subseteq Answer
    /\ runs \in [Calls -> SUBSET Meshes]

TablesType == DOMAIN reply_queues = Meshes /\ \A m \in Meshes : Table(reply_queues[m])

LEMMA TypeParts ==
    /\ TypeOK <=> RestType /\ TablesType
    /\ TypeOK' <=> RestType' /\ TablesType'
BY DEF TypeOK, RestType, TablesType, Table

\* One table is replaced.
LEMMA TablesStep ==
    ASSUME TablesType, NEW m \in Meshes, NEW d, Table(d),
           reply_queues' = [reply_queues EXCEPT ![m] = d]
    PROVE  TablesType'
BY DEF TablesType

LEMMA InitType == Init => TypeOK
<1> SUFFICES ASSUME Init PROVE RestType /\ TablesType
    BY TypeParts
<1>1. Table(EmptyDict)
    BY DEF Table, EmptyDict
<1>2. TablesType
    BY <1>1 DEF Init, TablesType
<1>3. RestType
    BY DEF Init, RestType
<1> QED
    BY <1>2, <1>3

LEMMA CallType ==
    ASSUME TypeOK, NEW c \in Calls, Call(c)
    PROVE  TypeOK'
<1> DEFINE m == By[c]
           id == NextId(m)
<1>1. m \in Meshes /\ id \in Nat
    BY MeshRPCAssumption DEF TypeOK, NextId
<1>2. RestType /\ TablesType
    BY TypeParts
<1>3. Published(c, id) \subseteq Request
    BY <1>1, MeshRPCAssumption DEF Published, Request
<1>4. Table(Put(reply_queues[m], id, <<>>))
    <2>1. Table(reply_queues[m]) /\ <<>> \in Seq(Answer)
        BY <1>1, <1>2 DEF TablesType
    <2> QED
        BY <1>1, <2>1, TablePut
<1>5. TablesType'
    BY <1>1, <1>2, <1>4, TablesStep DEF Call
<1>6. RestType'
    BY <1>1, <1>2, <1>3 DEF RestType, Call, stopping
<1> QED
    BY <1>5, <1>6, TypeParts

LEMMA ReturnType ==
    ASSUME TypeOK, NEW c \in Calls, Return(c)
    PROVE  /\ TablesType'
           /\ pc' \in [Calls -> {"new", "sending", "waiting", "returned", "cancelled"}]
<1>1. By[c] \in Meshes /\ TablesType
    BY MeshRPCAssumption, TypeParts
<1>2. Table(Pop(reply_queues[By[c]], cid[c]))
    BY <1>1, TablePop DEF TablesType
<1>3. TablesType'
    BY <1>1, <1>2, TablesStep DEF Return
<1> QED
    BY <1>3 DEF Return, TypeOK

LEMMA ReceiveType ==
    ASSUME TypeOK, QueuesExact, NEW c \in Calls, Receive(c)
    PROVE  TypeOK'
<1> DEFINE m == By[c]
           queue == reply_queues[m][cid[c]]
<1>1. m \in Meshes /\ RestType /\ TablesType /\ pc[c] = "waiting" /\ queue # <<>>
    BY MeshRPCAssumption, TypeParts DEF Receive
<1>2. cid[c] \in DOMAIN reply_queues[m]
    BY <1>1 DEF QueuesExact, Registered
<1>3. queue \in Seq(Answer)
    BY <1>1, <1>2 DEF TablesType, Table
<1>4. Head(queue) \in Answer /\ Tail(queue) \in Seq(Answer)
    BY <1>1, <1>3
<1>5. replies' \in [Calls -> SUBSET Answer]
    BY <1>1, <1>4 DEF Receive, RestType
<1>6. CASE Return(c)
    BY <1>1, <1>5, <1>6, ReturnType, TypeParts DEF Receive, RestType, stopping
<1>7. CASE UNCHANGED pc /\ reply_queues' = [reply_queues EXCEPT ![m] = Put(@, cid[c], Tail(queue))]
    <2>1. Table(Put(reply_queues[m], cid[c], Tail(queue)))
        BY <1>1, <1>4, TablePut DEF TablesType, RestType
    <2>2. TablesType'
        BY <1>1, <1>7, <2>1, TablesStep
    <2>3. RestType'
        BY <1>1, <1>5, <1>7 DEF Receive, RestType, stopping
    <2> QED
        BY <2>2, <2>3, TypeParts
<1> QED
    BY <1>6, <1>7 DEF Receive

LEMMA TakeReplyType ==
    ASSUME TypeOK, NEW a \in answers, TakeReply(a)
    PROVE  TypeOK'
<1> DEFINE m == a.to
           id == a.correlation_id
           d == reply_queues[m]
<1>1. a \in Answer /\ m \in Meshes /\ id \in Nat /\ RestType /\ TablesType
    BY TypeParts DEF TypeOK, Answer
<1>2. ASSUME id \in DOMAIN d
      PROVE  Table(Put(d, id, Append(d[id], a)))
    <2>1. Append(d[id], a) \in Seq(Answer)
        BY <1>1, <1>2 DEF TablesType, Table
    <2> QED
        BY <1>1, <2>1, TablePut DEF TablesType
<1>3. Table(IF id \in DOMAIN d THEN Put(d, id, Append(d[id], a)) ELSE d)
    BY <1>1, <1>2 DEF TablesType
<1>4. TablesType'
    BY <1>1, <1>3, TablesStep DEF TakeReply
<1>5. RestType'
    BY <1>1 DEF TakeReply, RestType, NextRound, stopping
<1> QED
    BY <1>4, <1>5, TypeParts

\* The steps that leave the tables of queues alone.
LEMMA OtherType ==
    ASSUME TypeOK, NEW m \in Meshes,
           \/ \E c \in Calls : Sent(c) \/ CancelCall(c)
           \/ \E r \in requests : Take(r)
           \/ FunctionEnds(m) \/ Reply(m) \/ ReplyFails(m)
           \/ HandlerIdles(m) \/ HandlerFails(m)
           \/ ListenerIdles(m) \/ ListenerFails(m) \/ Start(m) \/ RequestStop(m) \/ Stop(m)
    PROVE  TypeOK'
<1>1. RestType /\ TablesType
    BY TypeParts
<1>2. ASSUME reply_queues' = reply_queues, RestType'
      PROVE  TypeOK'
    BY <1>1, <1>2, TypeParts DEF TablesType
<1>3. ASSUME NEW c \in Calls, Sent(c) \/ CancelCall(c)
      PROVE  TypeOK'
    BY <1>1, <1>2, <1>3 DEF RestType, Sent, CancelCall, stopping
<1>4. ASSUME NEW r \in requests, Take(r)
      PROVE  TypeOK'
    <2>1. r \in Request /\ r # None /\ r.to \in Meshes /\ r.call \in Calls
        BY <1>1, MeshRPCAssumption DEF RestType, Request
    <2> QED
        BY <1>1, <1>2, <1>4, <2>1 DEF RestType, Take, stopping, calling
<1>5. CASE FunctionEnds(m)
    BY <1>1, <1>2, <1>5 DEF RestType, FunctionEnds, stopping, calling
<1>6. CASE Reply(m)
    <2>1. current[m] \in Request
        BY <1>1, <1>6 DEF RestType, Reply
    <2>2. answers' \subseteq Answer
        BY <1>1, <1>6, <2>1 DEF RestType, Reply, Request, Answer
    <2> QED
        BY <1>1, <1>2, <1>6, <2>2 DEF RestType, Reply, NextRound, stopping, calling
<1>7. CASE \/ HandlerIdles(m) \/ HandlerFails(m) \/ ReplyFails(m)
            \/ ListenerIdles(m) \/ ListenerFails(m)
    BY <1>1, <1>2, <1>7
       DEF RestType, HandlerIdles, HandlerFails, ReplyFails, ListenerIdles, ListenerFails,
           NextRound, stopping, calling
<1>8. CASE Start(m) \/ RequestStop(m)
    <2>1. CASE Start(m)
        BY <1>1, <1>2, <2>1 DEF RestType, Start, calling
    <2>2. CASE RequestStop(m)
        BY <1>1, <1>2, <2>2 DEF RestType, RequestStop, stopping, calling
    <2> QED
        BY <1>8, <2>1, <2>2
<1>9. CASE Stop(m)
    <2>1. ASSUME NEW t \in tasks[m], Cancel(m, t)
          PROVE  TypeOK'
        <3>1. t \in {"call", "reply"}
            BY <1>1 DEF RestType
        <3> QED
            BY <1>1, <1>2, <1>9, <2>1, <3>1
               DEF RestType, Stop, Cancel, CancelFunction, CancelHandler
    <2>2. CASE tasks[m] = {} /\ stopper' = [stopper EXCEPT ![m] = "done"]
               /\ UNCHANGED <<tasks, handler, current, pc, listener>>
        BY <1>1, <1>2, <1>9, <2>2 DEF RestType, Stop
    <2> QED
        BY <1>9, <2>1, <2>2 DEF Stop
<1> QED
    BY <1>3, <1>4, <1>5, <1>6, <1>7, <1>8, <1>9

LEMMA StepType == TypeOK /\ QueuesExact /\ [Next]_vars => TypeOK'
<1> SUFFICES ASSUME TypeOK, QueuesExact, [Next]_vars PROVE TypeOK'
    OBVIOUS
<1>1. ASSUME NEW c \in Calls, Call(c) PROVE TypeOK'
    BY <1>1, CallType
<1>2. ASSUME NEW c \in Calls, Receive(c) PROVE TypeOK'
    BY <1>2, ReceiveType
<1>3. ASSUME NEW c \in Calls, GiveUp(c) PROVE TypeOK'
    <2>1. TablesType' /\ RestType'
        BY <1>3, ReturnType, TypeParts DEF GiveUp, RestType, stopping
    <2> QED
        BY <2>1, TypeParts
<1>4. ASSUME NEW a \in answers, TakeReply(a) PROVE TypeOK'
    BY <1>4, TakeReplyType
<1>5. ASSUME NEW c \in Calls, Sent(c) \/ CancelCall(c) PROVE TypeOK'
    BY <1>5, OtherType, MeshRPCAssumption
<1>6. ASSUME NEW r \in requests, Take(r) PROVE TypeOK'
    <2>1. r.to \in Meshes
        BY DEF TypeOK, Request
    <2> QED
        BY <1>6, <2>1, OtherType
<1>7. ASSUME NEW m \in Meshes,
             \/ FunctionEnds(m) \/ Reply(m) \/ ReplyFails(m)
             \/ HandlerIdles(m) \/ HandlerFails(m)
             \/ ListenerIdles(m) \/ ListenerFails(m) \/ Start(m) \/ RequestStop(m) \/ Stop(m)
      PROVE  TypeOK'
    BY <1>7, OtherType
<1>8. CASE UNCHANGED vars
    BY <1>8 DEF TypeOK, vars, calling, stopping
<1> QED
    BY <1>1, <1>2, <1>3, <1>4, <1>5, <1>6, <1>7, <1>8 DEF Next

-----------------------------------------------------------------------------
(* Correlation ids and the table of reply queues.                          *)

Started(c) == pc[c] # "new"

IdsDistinct ==
    /\ \A c \in Calls : Started(c) => cid[c] \in 1..rpc_count[By[c]]
    /\ \A c, d \in Calls :
        Started(c) /\ Started(d) /\ By[c] = By[d] /\ cid[c] = cid[d] => c = d

QueuesInv == IdsDistinct /\ QueuesExact

\* A step after which the calls are registered as before, each under its id.
LEMMA SameQueues ==
    ASSUME TypeOK, QueuesInv, UNCHANGED <<rpc_count, cid>>,
           \A c \in Calls : (Registered(c)' <=> Registered(c)) /\ (Started(c)' <=> Started(c)),
           \A m \in Meshes : DOMAIN reply_queues'[m] = DOMAIN reply_queues[m]
    PROVE  QueuesInv'
<1>1. IdsDistinct'
    BY DEF QueuesInv, IdsDistinct
<1>2. ASSUME NEW m \in Meshes
      PROVE  {c \in Calls : By[c] = m /\ Registered(c)}'
                = {c \in Calls : By[c] = m /\ Registered(c)}
    OBVIOUS
<1>3. ASSUME NEW m \in Meshes
      PROVE  DOMAIN reply_queues'[m]
                = {cid'[c] : c \in {c \in Calls : By[c] = m /\ Registered(c)'}}
    BY <1>2 DEF QueuesInv, QueuesExact
<1> QED
    BY <1>1, <1>3 DEF QueuesInv, QueuesExact

\* The call has left the table, and no other has its id.
LEMMA ReturnQueues ==
    ASSUME TypeOK, QueuesInv, UNCHANGED <<rpc_count, cid>>, NEW c \in Calls, Open(c), Return(c)
    PROVE  QueuesInv'
<1> DEFINE m == By[c]
<1>1. /\ m \in Meshes /\ Started(c) /\ Registered(c) /\ ~Registered(c)' /\ Started(c)'
      /\ \A d \in Calls \ {c} : pc'[d] = pc[d]
    BY MeshRPCAssumption DEF TypeOK, Open, Return, Started, Registered
<1>2. \A d \in Calls : (Started(d)' <=> Started(d)) /\ (Registered(d)' <=> Registered(d) /\ d # c)
    BY <1>1 DEF Started, Registered
<1>3. IdsDistinct'
    BY <1>2 DEF QueuesInv, IdsDistinct
<1>4. DOMAIN reply_queues'[m] = DOMAIN reply_queues[m] \ {cid[c]}
    BY <1>1 DEF Return, Pop, TypeOK
<1>5. \A k \in Meshes \ {m} : reply_queues'[k] = reply_queues[k]
    BY DEF Return, TypeOK
<1>6. ASSUME NEW k \in Meshes
      PROVE  DOMAIN reply_queues'[k]
                = {cid'[d] : d \in {d \in Calls : By[d] = k /\ Registered(d)'}}
    <2>1. DOMAIN reply_queues[k] = {cid[d] : d \in {d \in Calls : By[d] = k /\ Registered(d)}}
        BY DEF QueuesInv, QueuesExact
    <2>2. CASE k # m
        <3>1. \A d \in Calls : By[d] = k => d # c
            BY <2>2
        <3> QED
            BY <1>2, <1>5, <2>1, <2>2, <3>1
    <2>3. CASE k = m
        <3>1. \A d \in Calls : By[d] = m /\ Registered(d) /\ d # c => cid[d] # cid[c]
            BY <1>1 DEF QueuesInv, QueuesExact
        <3> QED
            BY <1>2, <1>4, <2>1, <2>3, <3>1
    <2> QED
        BY <2>2, <2>3
<1>7. \A d, e \in Calls :
        Registered(d)' /\ Registered(e)' /\ By[d] = By[e] /\ cid'[d] = cid'[e] => d = e
    BY <1>2 DEF QueuesInv, QueuesExact
<1> QED
    BY <1>3, <1>6, <1>7 DEF QueuesInv, QueuesExact

\* The new call has an id that no call of its mesh has had.
LEMMA CallQueues ==
    ASSUME TypeOK, QueuesInv, NEW c \in Calls, Call(c)
    PROVE  QueuesInv'
<1> DEFINE m == By[c]
           id == NextId(m)
<1>1. /\ m \in Meshes /\ rpc_count \in [Meshes -> Nat] /\ id = rpc_count[m] + 1
      /\ ~Started(c) /\ ~Registered(c) /\ Started(c)' /\ Registered(c)'
      /\ rpc_count' = [rpc_count EXCEPT ![m] = @ + 1]
    BY MeshRPCAssumption DEF TypeOK, Call, NextId, Started, Registered
<1>2. /\ cid'[c] = id
      /\ \A d \in Calls \ {c} : pc'[d] = pc[d] /\ cid'[d] = cid[d]
    BY DEF TypeOK, Call
<1>3. \A d \in Calls : /\ Started(d)' <=> Started(d) \/ d = c
                       /\ Registered(d)' <=> Registered(d) \/ d = c
    BY <1>1, <1>2 DEF Started, Registered
<1>4. \A d \in Calls : Started(d) => cid[d] \in 1..rpc_count[By[d]] /\ d # c
    BY <1>1 DEF QueuesInv, IdsDistinct
<1>5. \A d \in Calls : Started(d) /\ By[d] = m => cid[d] # id
    BY <1>1, <1>4
<1>6. IdsDistinct'
    <2>1. ASSUME NEW d \in Calls, Started(d)'
          PROVE  cid'[d] \in 1..rpc_count'[By[d]]
        <3>1. By[d] \in Meshes
            BY MeshRPCAssumption
        <3>2. CASE d = c
            BY <1>1, <1>2, <3>2
        <3>3. CASE d # c
            <4>1. cid'[d] = cid[d] /\ cid[d] \in 1..rpc_count[By[d]]
                BY <1>2, <1>3, <1>4, <2>1, <3>3
            <4> QED
                BY <1>1, <3>1, <4>1
        <3> QED
            BY <3>2, <3>3
    <2>2. ASSUME NEW d \in Calls, NEW e \in Calls, Started(d)', Started(e)',
                 By[d] = By[e], cid'[d] = cid'[e]
          PROVE  d = e
        BY <1>2, <1>3, <1>5, <2>2 DEF QueuesInv, IdsDistinct
    <2> QED
        BY <2>1, <2>2 DEF IdsDistinct
<1>7. DOMAIN reply_queues'[m] = DOMAIN reply_queues[m] \cup {id}
    BY <1>1 DEF Call, Put, TypeOK
<1>8. \A k \in Meshes \ {m} : reply_queues'[k] = reply_queues[k]
    BY DEF Call, TypeOK
<1>9. ASSUME NEW k \in Meshes
      PROVE  DOMAIN reply_queues'[k]
                = {cid'[d] : d \in {d \in Calls : By[d] = k /\ Registered(d)'}}
    <2>1. DOMAIN reply_queues[k] = {cid[d] : d \in {d \in Calls : By[d] = k /\ Registered(d)}}
        BY DEF QueuesInv, QueuesExact
    <2>2. \A d \in Calls : Registered(d) => cid'[d] = cid[d]
        BY <1>1, <1>2
    <2>3. CASE k # m
        BY <1>3, <1>8, <2>1, <2>2, <2>3
    <2>4. CASE k = m
        BY <1>2, <1>3, <1>7, <2>1, <2>2, <2>4
    <2> QED
        BY <2>3, <2>4
<1>10. \A d, e \in Calls :
        Registered(d)' /\ Registered(e)' /\ By[d] = By[e] /\ cid'[d] = cid'[e] => d = e
    <2>1. \A d \in Calls : Registered(d)' => Started(d)'
        BY DEF Registered, Started
    <2> QED
        BY <1>6, <2>1 DEF IdsDistinct
<1> QED
    BY <1>6, <1>9, <1>10 DEF QueuesInv, QueuesExact

\* What a step of stop() does to the calls: those of a function may be cancelled.
LEMMA StopCalls ==
    ASSUME TypeOK, NEW m \in Meshes, Stop(m)
    PROVE  /\ UNCHANGED <<rpc_count, cid, reply_queues, replies, requests, answers, runs>>
           /\ \A c \in Calls : pc'[c] = pc[c] \/ (Open(c) /\ pc'[c] = "cancelled")
           /\ \A k \in Meshes : current'[k] \in {current[k], None}
<1>1. ASSUME NEW t \in tasks[m], Cancel(m, t)
      PROVE  /\ \A c \in Calls : pc'[c] = pc[c] \/ (Open(c) /\ pc'[c] = "cancelled")
             /\ \A k \in Meshes : current'[k] \in {current[k], None}
    <2>1. CASE CancelFunction(m)
        BY <2>1 DEF CancelFunction, Inner
    <2>2. CASE CancelHandler(m)
        BY <2>2 DEF CancelHandler, TypeOK
    <2>3. CASE UNCHANGED <<current, pc>>
        BY <2>3
    <2> QED
        BY <1>1, <2>1, <2>2, <2>3 DEF Cancel
<1> QED
    BY <1>1 DEF Stop

LEMMA StepQueues == TypeOK /\ QueuesInv /\ [Next]_vars => QueuesInv'
<1> SUFFICES ASSUME TypeOK, QueuesInv, [Next]_vars PROVE QueuesInv'
    OBVIOUS
<1>1. ASSUME NEW c \in Calls, Call(c) PROVE QueuesInv'
    BY <1>1, CallQueues
<1>2. ASSUME NEW c \in Calls, Sent(c) \/ CancelCall(c) PROVE QueuesInv'
    <2>1. \A d \in Calls : (Registered(d)' <=> Registered(d)) /\ (Started(d)' <=> Started(d))
        BY <1>2 DEF Sent, CancelCall, Open, Registered, Started, TypeOK
    <2>2. UNCHANGED <<rpc_count, cid, reply_queues>>
        BY <1>2 DEF Sent, CancelCall
    <2> QED
        BY <2>1, <2>2, SameQueues
<1>3. ASSUME NEW c \in Calls, Receive(c) PROVE QueuesInv'
    <2>1. Open(c) /\ UNCHANGED <<rpc_count, cid>>
        BY <1>3 DEF Receive, Open
    <2>2. CASE Return(c)
        BY <2>1, <2>2, ReturnQueues
    <2>3. CASE UNCHANGED pc /\ reply_queues' = [reply_queues EXCEPT ![By[c]] =
                                     Put(@, cid[c], Tail(reply_queues[By[c]][cid[c]]))]
        <3>1. By[c] \in Meshes /\ cid[c] \in DOMAIN reply_queues[By[c]]
            BY <2>1, MeshRPCAssumption DEF QueuesInv, QueuesExact, Registered, Open
        <3>2. \A m \in Meshes : DOMAIN reply_queues'[m] = DOMAIN reply_queues[m]
            BY <2>3, <3>1 DEF Put, TypeOK
        <3>3. \A d \in Calls : (Registered(d)' <=> Registered(d)) /\ (Started(d)' <=> Started(d))
            BY <2>3 DEF Registered, Started
        <3> QED
            BY <2>1, <3>2, <3>3, SameQueues
    <2> QED
        BY <1>3, <2>2, <2>3 DEF Receive
<1>4. ASSUME NEW c \in Calls, GiveUp(c) PROVE QueuesInv'
    BY <1>4, ReturnQueues DEF GiveUp, Open
<1>5. ASSUME NEW a \in answers, TakeReply(a) PROVE QueuesInv'
    <2>1. \A m \in Meshes : DOMAIN reply_queues'[m] = DOMAIN reply_queues[m]
        <3> DEFINE d == reply_queues[a.to]
        <3>1. a.to \in Meshes
            BY DEF TypeOK, Answer
        <3>2. a.correlation_id \in DOMAIN d =>
                DOMAIN Put(d, a.correlation_id, Append(d[a.correlation_id], a)) = DOMAIN d
            BY DEF Put
        <3>3. \E e : DOMAIN e = DOMAIN d /\ reply_queues' = [reply_queues EXCEPT ![a.to] = e]
            BY <1>5, <3>2 DEF TakeReply
        <3> QED
            BY <3>1, <3>3 DEF TypeOK
    <2>2. \A d \in Calls : (Registered(d)' <=> Registered(d)) /\ (Started(d)' <=> Started(d))
        BY <1>5 DEF TakeReply, Registered, Started
    <2> QED
        BY <1>5, <2>1, <2>2, SameQueues DEF TakeReply
<1>6. ASSUME NEW m \in Meshes, Stop(m) PROVE QueuesInv'
    <2>1. \A d \in Calls : (Registered(d)' <=> Registered(d)) /\ (Started(d)' <=> Started(d))
        BY <1>6, StopCalls DEF Registered, Started, Open
    <2> QED
        BY <1>6, <2>1, StopCalls, SameQueues
<1>7. ASSUME UNCHANGED calling PROVE QueuesInv'
    BY <1>7, SameQueues DEF calling, Registered, Started
<1>8. ASSUME NEW m \in Meshes,
             \/ FunctionEnds(m) \/ Reply(m) \/ ReplyFails(m)
             \/ HandlerIdles(m) \/ HandlerFails(m)
             \/ ListenerIdles(m) \/ ListenerFails(m) \/ Start(m) \/ RequestStop(m)
      PROVE  UNCHANGED calling
    BY <1>8
       DEF FunctionEnds, Reply, HandlerIdles, HandlerFails, ReplyFails, ListenerIdles,
           ListenerFails, Start, RequestStop
<1>9. ASSUME NEW r \in requests, Take(r) PROVE UNCHANGED calling
    BY <1>9 DEF Take
<1>10. CASE UNCHANGED vars
    BY <1>7, <1>10 DEF vars
<1> QED
    BY <1>1, <1>2, <1>3, <1>4, <1>5, <1>6, <1>7, <1>8, <1>9, <1>10 DEF Next

LEMMA InitQueues == Init => QueuesInv
BY DEF Init, QueuesInv, QueuesExact, IdsDistinct, Registered, Started, EmptyDict

\* The state of the mesh keeps its type; the queue of a call is there when the
\* call looks into it.
THEOREM TypeCorrect == Spec => [](TypeOK /\ QueuesInv)
<1>1. Init => TypeOK /\ QueuesInv
    BY InitType, InitQueues
<1>2. TypeOK /\ QueuesInv /\ [Next]_vars => TypeOK' /\ QueuesInv'
    BY StepType, StepQueues DEF QueuesInv
<1> QED
    BY <1>1, <1>2, PTL DEF Spec

\* The table of reply queues holds exactly the calls that are not over, or were
\* cancelled, each under an id of its own.
THEOREM QueuesExactAlways == Spec => []QueuesExact
<1>1. QueuesInv => QueuesExact
    BY DEF QueuesInv
<1> QED
    BY <1>1, TypeCorrect, PTL

-----------------------------------------------------------------------------
(* Replies.                                                                *)

\* A request of, and an answer to, the call whose id it carries.
AsksFor(r) ==
    Started(r.call) /\ r.correlation_id = cid[r.call] /\ r.reply_to = By[r.call]

Answers(x) ==
    /\ Started(x.call) /\ x.to = By[x.call] /\ x.correlation_id = cid[x.call]
    /\ x.from \in runs[x.call]

RequestsInv == \A r \in requests : AsksFor(r)

CurrentInv ==
    \A m \in Meshes : current[m] # None =>
        AsksFor(current[m]) /\ m \in runs[current[m].call]

AnswersInv == \A x \in answers : Answers(x)

\* What is in the queue of an id is an answer to the call of that id.
Belongs(x, m, id) == Answers(x) /\ x.to = m /\ x.correlation_id = id

QueuedInv ==
    \A m \in Meshes : \A id \in DOMAIN reply_queues[m] :
        \A i \in DOMAIN reply_queues[m][id] : Belongs(reply_queues[m][id][i], m, id)

Addressed == RequestsInv /\ CurrentInv /\ AnswersInv /\ QueuedInv

RepliesInv == Addressed /\ OwnReplies

\* A call that has been made keeps its id, and an execution stays in history.
Settled ==
    \A c \in Calls :
        /\ Started(c) => Started(c)' /\ cid'[c] = cid[c]
        /\ runs[c] \subseteq runs'[c]

LEMMA StepSettles == TypeOK /\ [Next]_vars => Settled
<1> SUFFICES ASSUME TypeOK, [Next]_vars PROVE Settled
    OBVIOUS
<1>1. ASSUME NEW c \in Calls, Call(c) PROVE Settled
    BY <1>1 DEF Call, Settled, Started, TypeOK
<1>2. ASSUME NEW c \in Calls, Sent(c) \/ CancelCall(c) PROVE Settled
    BY <1>2 DEF Sent, CancelCall, Settled, Started, TypeOK
<1>3. ASSUME NEW c \in Calls, Receive(c) \/ GiveUp(c) PROVE Settled
    BY <1>3 DEF Receive, GiveUp, Return, Settled, Started, TypeOK
<1>4. ASSUME NEW r \in requests, Take(r) PROVE Settled
    BY <1>4 DEF Take, calling, Settled, Started, TypeOK
<1>5. ASSUME NEW a \in answers, TakeReply(a) PROVE Settled
    BY <1>5 DEF TakeReply, Settled, Started
<1>6. ASSUME NEW m \in Meshes, Stop(m) PROVE Settled
    BY <1>6, StopCalls DEF Settled, Started, Open
<1>7. ASSUME NEW m \in Meshes,
             \/ FunctionEnds(m) \/ Reply(m) \/ ReplyFails(m)
             \/ HandlerIdles(m) \/ HandlerFails(m)
             \/ ListenerIdles(m) \/ ListenerFails(m) \/ Start(m) \/ RequestStop(m)
      PROVE  Settled
    BY <1>7
       DEF FunctionEnds, Reply, HandlerIdles, HandlerFails, ReplyFails, ListenerIdles,
           ListenerFails, Start, RequestStop, calling, Settled, Started
<1>8. CASE UNCHANGED vars
    BY <1>8 DEF vars, calling, Settled, Started
<1> QED
    BY <1>1, <1>2, <1>3, <1>4, <1>5, <1>6, <1>7, <1>8 DEF Next

LEMMA AsksForStays ==
    ASSUME Settled, NEW r \in Request, AsksFor(r)
    PROVE  AsksFor(r)'
BY DEF Settled, AsksFor, Request

LEMMA AnswersStays ==
    ASSUME Settled, NEW x \in Answer, Answers(x)
    PROVE  Answers(x)'
BY DEF Settled, Answers, Answer

LEMMA SameRequests ==
    ASSUME TypeOK, Settled, RequestsInv, requests' \subseteq requests
    PROVE  RequestsInv'
BY AsksForStays DEF RequestsInv, TypeOK

LEMMA SameCurrent ==
    ASSUME TypeOK, Settled, CurrentInv,
           \A m \in Meshes : current'[m] \in {current[m], None}
    PROVE  CurrentInv'
<1> SUFFICES ASSUME NEW m \in Meshes, current'[m] # None
             PROVE  AsksFor(current[m])' /\ m \in runs'[current[m].call] /\ current'[m] = current[m]
    BY DEF CurrentInv, AsksFor, Started
<1>1. /\ current'[m] = current[m] /\ current[m] \in Request
      /\ AsksFor(current[m]) /\ m \in runs[current[m].call] /\ current[m].call \in Calls
    BY DEF CurrentInv, TypeOK, Request
<1> QED
    BY <1>1 DEF AsksFor, Settled

LEMMA SameAnswers ==
    ASSUME TypeOK, Settled, AnswersInv, answers' \subseteq answers
    PROVE  AnswersInv'
BY AnswersStays DEF AnswersInv, TypeOK

LEMMA SameReplies ==
    ASSUME TypeOK, Settled, OwnReplies, replies' = replies
    PROVE  OwnReplies'
BY DEF OwnReplies, Settled

\* The table of m becomes d, whose entries were there or belong to their ids.
LEMMA TableKept ==
    ASSUME TypeOK, Settled, QueuedInv, NEW m \in Meshes, NEW d,
           \A id \in DOMAIN d : \A i \in DOMAIN d[id] :
              \/ /\ id \in DOMAIN reply_queues[m]
                 /\ \E j \in DOMAIN reply_queues[m][id] : d[id][i] = reply_queues[m][id][j]
              \/ d[id][i] \in Answer /\ Belongs(d[id][i], m, id),
           reply_queues' = [reply_queues EXCEPT ![m] = d]
    PROVE  QueuedInv'
<1>1. ASSUME NEW k \in Meshes, NEW id \in DOMAIN reply_queues[k],
             NEW i \in DOMAIN reply_queues[k][id]
      PROVE  reply_queues[k][id][i] \in Answer /\ Belongs(reply_queues[k][id][i], k, id)
    BY DEF QueuedInv, TypeOK
<1>2. ASSUME NEW x \in Answer, NEW k, NEW id, Belongs(x, k, id)
      PROVE  Belongs(x, k, id)'
    BY <1>2, AnswersStays DEF Belongs
<1>3. ASSUME NEW k \in Meshes, NEW id \in DOMAIN reply_queues'[k],
             NEW i \in DOMAIN reply_queues'[k][id]
      PROVE  /\ reply_queues'[k][id][i] \in Answer
             /\ Belongs(reply_queues'[k][id][i], k, id)
    <2>1. CASE k = m
        <3>1. reply_queues'[k] = d
            BY <2>1 DEF TypeOK
        <3> QED
            BY <1>1, <2>1, <3>1
    <2>2. CASE k # m
        <3>1. reply_queues'[k] = reply_queues[k]
            BY <2>2 DEF TypeOK
        <3> QED
            BY <1>1, <3>1
    <2> QED
        BY <2>1, <2>2
<1> QED
    BY <1>2, <1>3 DEF QueuedInv

LEMMA SameQueued ==
    ASSUME TypeOK, Settled, QueuedInv, reply_queues' = reply_queues
    PROVE  QueuedInv'
<1>1. ASSUME NEW k \in Meshes, NEW id \in DOMAIN reply_queues[k],
             NEW i \in DOMAIN reply_queues[k][id]
      PROVE  Belongs(reply_queues[k][id][i], k, id)'
    <2>1. reply_queues[k][id][i] \in Answer /\ Belongs(reply_queues[k][id][i], k, id)
        BY DEF QueuedInv, TypeOK
    <2> QED
        BY <2>1, AnswersStays DEF Belongs
<1> QED
    BY <1>1 DEF QueuedInv

LEMMA CallReplies ==
    ASSUME TypeOK, QueuesInv, Settled, RepliesInv, NEW c \in Calls, Call(c)
    PROVE  RepliesInv'
<1> DEFINE m == By[c]
           id == NextId(m)
           d == Put(reply_queues[m], id, <<>>)
<1>1. m \in Meshes /\ RequestsInv /\ CurrentInv /\ AnswersInv /\ QueuedInv /\ OwnReplies
    BY MeshRPCAssumption DEF RepliesInv, Addressed
<1>2. RequestsInv'
    <2>1. Started(c)' /\ cid'[c] = id
        BY DEF Call, Started, TypeOK
    <2>2. \A r \in Published(c, id) : AsksFor(r)'
        BY <2>1 DEF Published, AsksFor
    <2>3. \A r \in requests : AsksFor(r)'
        BY <1>1, AsksForStays DEF RequestsInv, TypeOK
    <2> QED
        BY <2>2, <2>3 DEF Call, RequestsInv
<1>3. CurrentInv' /\ AnswersInv' /\ OwnReplies'
    BY <1>1, SameCurrent, SameAnswers, SameReplies DEF Call
<1>4. QueuedInv'
    <2>1. ASSUME NEW k \in DOMAIN d, NEW i \in DOMAIN d[k]
          PROVE  /\ k \in DOMAIN reply_queues[m]
                 /\ \E j \in DOMAIN reply_queues[m][k] : d[k][i] = reply_queues[m][k][j]
        BY DEF Put
    <2>2. reply_queues' = [reply_queues EXCEPT ![m] = d]
        BY DEF Call
    <2>3. \A k \in DOMAIN d : \A i \in DOMAIN d[k] :
            \/ /\ k \in DOMAIN reply_queues[m]
               /\ \E j \in DOMAIN reply_queues[m][k] : d[k][i] = reply_queues[m][k][j]
            \/ d[k][i] \in Answer /\ Belongs(d[k][i], m, k)
        BY <2>1
    <2> HIDE DEF d
    <2> QED
        BY <1>1, <2>2, <2>3, TableKept
<1> QED
    BY <1>2, <1>3, <1>4 DEF RepliesInv, Addressed

LEMMA ReturnQueued ==
    ASSUME TypeOK, Settled, QueuedInv, NEW c \in Calls, Return(c)
    PROVE  QueuedInv'
<1> DEFINE m == By[c]
           d == Pop(reply_queues[m], cid[c])
<1>1. \A k \in DOMAIN d : k \in DOMAIN reply_queues[m] /\ d[k] = reply_queues[m][k]
    BY DEF Pop
<1>2. m \in Meshes /\ reply_queues' = [reply_queues EXCEPT ![m] = d]
    BY MeshRPCAssumption DEF Return
<1> QED
    BY <1>1, <1>2, TableKept

\* What is in the queue of a call is an answer to it: nobody else has its id.
LEMMA ReceiveReplies ==
    ASSUME TypeOK, QueuesInv, Settled, RepliesInv, NEW c \in Calls, Receive(c)
    PROVE  RepliesInv'
<1> DEFINE m == By[c]
           queue == reply_queues[m][cid[c]]
<1>1. m \in Meshes /\ RequestsInv /\ CurrentInv /\ AnswersInv /\ QueuedInv /\ OwnReplies
    BY MeshRPCAssumption DEF RepliesInv, Addressed
<1>2. RequestsInv' /\ CurrentInv' /\ AnswersInv'
    BY <1>1, SameRequests, SameCurrent, SameAnswers DEF Receive, stopping
<1>3. cid[c] \in DOMAIN reply_queues[m] /\ Started(c)
    BY <1>1 DEF Receive, QueuesInv, QueuesExact, Registered, Started
<1>4. queue \in Seq(Answer) /\ queue # <<>>
    BY <1>1, <1>3 DEF Receive, TypeOK
<1>5. Head(queue).call = c /\ Head(queue).from \in runs[c]
    <2>1. 1 \in DOMAIN queue /\ Head(queue) = queue[1] /\ queue[1] \in Answer
        BY <1>4
    <2>2. Belongs(queue[1], m, cid[c])
        BY <1>1, <1>3, <2>1 DEF QueuedInv
    <2>3. queue[1].call \in Calls
        BY <2>1 DEF Answer
    <2>4. queue[1].call = c
        BY <1>3, <2>2, <2>3 DEF Belongs, Answers, QueuesInv, IdsDistinct
    <2> QED
        BY <2>1, <2>2, <2>4 DEF Belongs, Answers
<1>6. OwnReplies'
    BY <1>1, <1>5 DEF Receive, OwnReplies, TypeOK
<1>7. QueuedInv'
    <2>1. CASE Return(c)
        BY <1>1, <2>1, ReturnQueued
    <2>2. CASE reply_queues' = [reply_queues EXCEPT ![m] = Put(@, cid[c], Tail(queue))]
        <3> DEFINE d == Put(reply_queues[m], cid[c], Tail(queue))
        <3>1. \A i \in DOMAIN Tail(queue) : i + 1 \in DOMAIN queue /\ Tail(queue)[i] = queue[i + 1]
            BY <1>4
        <3>2. /\ DOMAIN d = DOMAIN reply_queues[m]
              /\ \A k \in DOMAIN d : d[k] = IF k = cid[c] THEN Tail(queue) ELSE reply_queues[m][k]
            BY <1>3 DEF Put
        <3>3. ASSUME NEW k \in DOMAIN d, NEW i \in DOMAIN d[k]
              PROVE  /\ k \in DOMAIN reply_queues[m]
                     /\ \E j \in DOMAIN reply_queues[m][k] : d[k][i] = reply_queues[m][k][j]
            <4> HIDE DEF d
            <4>1. CASE k = cid[c]
                BY <3>1, <3>2, <4>1
            <4>2. CASE k # cid[c]
                BY <3>2, <4>2
            <4> QED
                BY <4>1, <4>2
        <3>4. reply_queues' = [reply_queues EXCEPT ![m] = d]
            BY <2>2
        <3>5. \A k \in DOMAIN d : \A i \in DOMAIN d[k] :
                \/ /\ k \in DOMAIN reply_queues[m]
                   /\ \E j \in DOMAIN reply_queues[m][k] : d[k][i] = reply_queues[m][k][j]
                \/ d[k][i] \in Answer /\ Belongs(d[k][i], m, k)
            BY <3>3
        <3> HIDE DEF d
        <3> QED
            BY <1>1, <3>4, <3>5, TableKept
    <2> QED
        BY <2>1, <2>2 DEF Receive
<1> QED
    BY <1>2, <1>6, <1>7 DEF RepliesInv, Addressed

LEMMA TakeReplyReplies ==
    ASSUME TypeOK, Settled, RepliesInv, NEW a \in answers, TakeReply(a)
    PROVE  RepliesInv'
<1> DEFINE m == a.to
           id == a.correlation_id
           old == reply_queues[m]
           d == Put(old, id, Append(old[id], a))
<1>1. RequestsInv /\ CurrentInv /\ AnswersInv /\ QueuedInv /\ OwnReplies
    BY DEF RepliesInv, Addressed
<1>2. a \in Answer /\ m \in Meshes /\ Belongs(a, m, id)
    BY <1>1 DEF TypeOK, AnswersInv, Answer, Belongs
<1>3. RequestsInv' /\ CurrentInv' /\ AnswersInv' /\ OwnReplies'
    BY <1>1, SameRequests, SameCurrent, SameAnswers, SameReplies DEF TakeReply
<1>4. CASE id \in DOMAIN old
    <2>1. old[id] \in Seq(Answer)
        BY <1>2, <1>4 DEF TypeOK
    <2>2. \A i \in DOMAIN Append(old[id], a) :
            \/ i \in DOMAIN old[id] /\ Append(old[id], a)[i] = old[id][i]
            \/ Append(old[id], a)[i] = a
        BY <1>2, <2>1
    <2>3. /\ DOMAIN d = DOMAIN old
          /\ \A k \in DOMAIN d : d[k] = IF k = id THEN Append(old[id], a) ELSE old[k]
        BY <1>4 DEF Put
    <2>4. ASSUME NEW k \in DOMAIN d, NEW i \in DOMAIN d[k]
          PROVE  \/ /\ k \in DOMAIN old
                    /\ \E j \in DOMAIN old[k] : d[k][i] = old[k][j]
                 \/ d[k][i] \in Answer /\ Belongs(d[k][i], m, k)
        <3> HIDE DEF d
        <3>1. CASE k = id
            BY <1>2, <1>4, <2>2, <2>3, <3>1
        <3>2. CASE k # id
            BY <2>3, <3>2
        <3> QED
            BY <3>1, <3>2
    <2>5. reply_queues' = [reply_queues EXCEPT ![m] = d]
        BY <1>4 DEF TakeReply
    <2>6. QueuedInv'
        <3> HIDE DEF d
        <3> QED
            BY <1>1, <1>2, <2>4, <2>5, TableKept
    <2> QED
        BY <1>3, <2>6 DEF RepliesInv, Addressed
<1>5. CASE id \notin DOMAIN old
    <2>1. reply_queues' = [reply_queues EXCEPT ![m] = old]
        BY <1>5 DEF TakeReply
    <2>2. QueuedInv'
        <3> HIDE DEF old
        <3>1. QueuedInv'
            BY <1>1, <1>2, <2>1, TableKept DEF old
        <3> QED
            BY <3>1
    <2> QED
        BY <1>3, <2>2 DEF RepliesInv, Addressed
<1> QED
    BY <1>4, <1>5

LEMMA StepReplies ==
    TypeOK /\ QueuesInv /\ RepliesInv /\ [Next]_vars => RepliesInv'
<1> SUFFICES ASSUME TypeOK, QueuesInv, RepliesInv, [Next]_vars PROVE RepliesInv'
    OBVIOUS
<1>1. Settled
    BY StepSettles
<1>2. RequestsInv /\ CurrentInv /\ AnswersInv /\ QueuedInv /\ OwnReplies
    BY DEF RepliesInv, Addressed
<1>3. ASSUME NEW c \in Calls, Call(c) PROVE RepliesInv'
    BY <1>1, <1>3, CallReplies
<1>4. ASSUME NEW c \in Calls, Receive(c) PROVE RepliesInv'
    BY <1>1, <1>4, ReceiveReplies
<1>5. ASSUME NEW a \in answers, TakeReply(a) PROVE RepliesInv'
    BY <1>1, <1>5, TakeReplyReplies
<1>6. ASSUME NEW c \in Calls, GiveUp(c) PROVE RepliesInv'
    <2>1. QueuedInv'
        BY <1>1, <1>2, <1>6, ReturnQueued DEF GiveUp
    <2>2. RequestsInv' /\ CurrentInv' /\ AnswersInv' /\ OwnReplies'
        BY <1>1, <1>2, <1>6, SameRequests, SameCurrent, SameAnswers, SameReplies DEF GiveUp
    <2> QED
        BY <2>1, <2>2 DEF RepliesInv, Addressed
<1>7. ASSUME NEW r \in requests, Take(r) PROVE RepliesInv'
    <2>1. r \in Request /\ r.call \in Calls /\ r.to \in Meshes /\ AsksFor(r)
        BY <1>2 DEF TypeOK, Request, RequestsInv
    <2>2. CurrentInv'
        <3>1. AsksFor(r)' /\ r.to \in runs'[r.call]
            BY <1>1, <1>7, <2>1, AsksForStays DEF Take, TypeOK
        <3>2. ASSUME NEW m \in Meshes, m # r.to, current'[m] # None
              PROVE  /\ current'[m] = current[m] /\ AsksFor(current[m])'
                     /\ m \in runs'[current[m].call]
            <4>1. current'[m] = current[m] /\ current[m] \in Request
                BY <1>7, <3>2 DEF Take, TypeOK
            <4>2. AsksFor(current[m]) /\ m \in runs[current[m].call] /\ current[m].call \in Calls
                BY <1>2, <3>2, <4>1 DEF CurrentInv, Request
            <4> QED
                BY <1>1, <4>1, <4>2 DEF AsksFor, Settled
        <3>3. current'[r.to] = r
            BY <1>7, <2>1 DEF Take, TypeOK
        <3> QED
            BY <3>1, <3>2, <3>3 DEF CurrentInv, AsksFor, Started
    <2>3. RequestsInv' /\ AnswersInv' /\ QueuedInv' /\ OwnReplies'
        BY <1>1, <1>2, <1>7, SameRequests, SameAnswers, SameQueued, SameReplies DEF Take, calling
    <2> QED
        BY <2>2, <2>3 DEF RepliesInv, Addressed
<1>8. ASSUME NEW m \in Meshes, Reply(m) PROVE RepliesInv'
    <2>1. /\ current[m] \in Request /\ AsksFor(current[m]) /\ m \in runs[current[m].call]
          /\ current[m].call \in Calls
        BY <1>2, <1>8 DEF Reply, TypeOK, CurrentInv, Request
    <2>2. AnswersInv'
        <3>1. \A x \in answers' : x \in Answer /\ Answers(x)
            BY <1>2, <1>8, <2>1
               DEF Reply, AnswersInv, Answers, AsksFor, TypeOK, Answer, Request
        <3> QED
            BY <1>1, <3>1, AnswersStays DEF AnswersInv
    <2>3. CurrentInv'
        BY <1>1, <1>2, <1>8, SameCurrent DEF Reply, TypeOK
    <2>4. RequestsInv' /\ QueuedInv' /\ OwnReplies'
        BY <1>1, <1>2, <1>8, SameRequests, SameQueued, SameReplies DEF Reply, calling
    <2> QED
        BY <2>2, <2>3, <2>4 DEF RepliesInv, Addressed
<1>9. ASSUME UNCHANGED <<reply_queues, replies, requests, answers>>,
             \A m \in Meshes : current'[m] \in {current[m], None}
      PROVE  RepliesInv'
    BY <1>1, <1>2, <1>9, SameRequests, SameCurrent, SameAnswers, SameQueued, SameReplies
       DEF RepliesInv, Addressed
<1>10. ASSUME NEW m \in Meshes, Stop(m) PROVE RepliesInv'
    BY <1>9, <1>10, StopCalls
<1>11. ASSUME NEW c \in Calls, Sent(c) \/ CancelCall(c) PROVE RepliesInv'
    BY <1>9, <1>11 DEF Sent, CancelCall
<1>12. ASSUME NEW m \in Meshes,
              \/ FunctionEnds(m) \/ HandlerIdles(m) \/ HandlerFails(m) \/ ReplyFails(m)
              \/ ListenerIdles(m) \/ ListenerFails(m) \/ Start(m) \/ RequestStop(m)
       PROVE  RepliesInv'
    BY <1>1, <1>2, <1>9, <1>12
       DEF FunctionEnds, HandlerIdles, HandlerFails, ReplyFails, ListenerIdles,
           ListenerFails, Start, RequestStop, calling, TypeOK
<1>13. CASE UNCHANGED vars
    BY <1>9, <1>13 DEF vars, calling
<1> QED
    BY <1>3, <1>4, <1>5, <1>6, <1>7, <1>8, <1>10, <1>11, <1>12, <1>13 DEF Next

LEMMA InitReplies == Init => RepliesInv
BY DEF Init, RepliesInv, Addressed, RequestsInv, CurrentInv, AnswersInv, QueuedInv,
       OwnReplies, EmptyDict

\* A call returns replies to itself, from meshes that have executed it, whatever
\* was late, lost or cancelled before.
THEOREM OwnRepliesAlways == Spec => []OwnReplies
<1>1. Init => RepliesInv
    BY InitReplies
<1>2. TypeOK /\ QueuesInv /\ RepliesInv /\ [Next]_vars => RepliesInv'
    BY StepReplies
<1>3. RepliesInv => OwnReplies
    BY DEF RepliesInv
<1> QED
    BY <1>1, <1>2, <1>3, TypeCorrect, PTL DEF Spec

-----------------------------------------------------------------------------
(* The refinement of RPC.                                                  *)

Same(x, y) == x.call = y.call /\ x.from = y.from

\* The execution that x comes from is over, and its call has no such answer yet.
Over(x) == current[x.from] = None \/ current[x.from].call # x.call

Fresh(x) == Over(x) /\ \A y \in replies[x.call] : y.from # x.from

\* Each execution of a call has one request before it, and one answer after it:
\* on its way, or in a queue, or received.
OnceInv ==
    /\ \A r \in requests : r.to \in Callees[r.call] \ runs[r.call]
    /\ \A c \in Calls : runs[c] # {} => Started(c)

AnswersFresh ==
    \A x \in answers :
        /\ Fresh(x)
        /\ \A m \in Meshes : \A id \in DOMAIN reply_queues[m] :
            \A i \in DOMAIN reply_queues[m][id] : ~Same(x, reply_queues[m][id][i])

QueuedFresh ==
    \A m \in Meshes : \A id \in DOMAIN reply_queues[m] :
        \A i \in DOMAIN reply_queues[m][id] :
            /\ Fresh(reply_queues[m][id][i])
            /\ \A j \in DOMAIN reply_queues[m][id] :
                Same(reply_queues[m][id][i], reply_queues[m][id][j]) => i = j

RepliesOver == \A c \in Calls : \A x \in replies[c] : Over(x)

SingleInv == OnceInv /\ AnswersFresh /\ QueuedFresh /\ RepliesOver

\* All that the refinement needs of the state.
MeshInv == TypeOK /\ QueuesInv /\ RepliesInv /\ SingleInv

\* Every queue entry is an answer to the call whose queue it is in.
LEMMA EntryType ==
    ASSUME TypeOK, QueuedInv, NEW m \in Meshes, NEW id \in DOMAIN reply_queues[m],
           NEW i \in DOMAIN reply_queues[m][id]
    PROVE  /\ reply_queues[m][id][i] \in Answer
           /\ reply_queues[m][id][i].call \in Calls
           /\ reply_queues[m][id][i].from \in Meshes
           /\ Belongs(reply_queues[m][id][i], m, id)
<1>1. reply_queues[m][id][i] \in Answer /\ Belongs(reply_queues[m][id][i], m, id)
    BY DEF TypeOK, QueuedInv
<1> QED
    BY <1>1 DEF Answer

LEMMA FreshStays ==
    ASSUME NEW x \in Answer, Fresh(x), replies' = replies,
           \A m \in Meshes : current'[m] \in {current[m], None}
    PROVE  Fresh(x)'
BY DEF Fresh, Over, Answer

\* Nothing is added to what is on its way, in the queues or received.
LEMMA FewerSingle ==
    ASSUME TypeOK, RepliesInv, SingleInv, UNCHANGED replies, answers' \subseteq answers,
           \A m \in Meshes : current'[m] \in {current[m], None},
           \A m \in Meshes : \A id \in DOMAIN reply_queues'[m] :
              \/ reply_queues'[m][id] = <<>>
              \/ /\ id \in DOMAIN reply_queues[m]
                 /\ reply_queues'[m][id] = reply_queues[m][id]
    PROVE  AnswersFresh' /\ QueuedFresh' /\ RepliesOver'
<1>1. AnswersFresh /\ QueuedFresh /\ RepliesOver /\ QueuedInv
    BY DEF SingleInv, RepliesInv, Addressed
<1>2. \A m \in Meshes : \A id \in DOMAIN reply_queues'[m] :
        \A i \in DOMAIN reply_queues'[m][id] :
            /\ id \in DOMAIN reply_queues[m]
            /\ reply_queues'[m][id] = reply_queues[m][id]
    OBVIOUS
<1>3. AnswersFresh'
    <2>1. \A x \in answers' : x \in answers /\ Fresh(x)'
        BY <1>1, FreshStays DEF AnswersFresh, TypeOK
    <2> QED
        BY <1>1, <1>2, <2>1 DEF AnswersFresh, Same
<1>4. QueuedFresh'
    <2>1. ASSUME NEW m \in Meshes, NEW id \in DOMAIN reply_queues'[m],
                 NEW i \in DOMAIN reply_queues'[m][id]
          PROVE  /\ Fresh(reply_queues[m][id][i])'
                 /\ \A j \in DOMAIN reply_queues'[m][id] :
                      Same(reply_queues'[m][id][i], reply_queues'[m][id][j]) => i = j
        <3>1. id \in DOMAIN reply_queues[m] /\ reply_queues'[m][id] = reply_queues[m][id]
            BY <1>2
        <3>2. i \in DOMAIN reply_queues[m][id]
            BY <3>1
        <3>3. reply_queues[m][id][i] \in Answer
            BY <1>1, <3>1, <3>2, EntryType
        <3>4. Fresh(reply_queues[m][id][i])
            BY <1>1, <3>1, <3>2 DEF QueuedFresh
        <3>5. \A y \in Answer : Fresh(y) => Fresh(y)'
            BY FreshStays
        <3>6. Fresh(reply_queues[m][id][i])'
            BY <3>1, <3>3, <3>4, <3>5 DEF Fresh, Over
        <3> QED
            BY <1>1, <3>1, <3>2, <3>6 DEF QueuedFresh, Same
    <2> QED
        BY <2>1 DEF QueuedFresh, Same
<1>5. RepliesOver'
    BY <1>1 DEF RepliesOver, Over, TypeOK, Answer
<1> QED
    BY <1>3, <1>4, <1>5

LEMMA SameOnce ==
    ASSUME OnceInv, Settled, requests' \subseteq requests, runs' = runs
    PROVE  OnceInv'
BY DEF OnceInv, Settled

LEMMA CallSingle ==
    ASSUME MeshInv, Settled, NEW c \in Calls, Call(c)
    PROVE  SingleInv'
<1> DEFINE m == By[c]
           id == NextId(m)
<1>1. m \in Meshes /\ ~Started(c) /\ TypeOK /\ RepliesInv /\ SingleInv /\ OnceInv
    BY MeshRPCAssumption DEF Call, Started, MeshInv, SingleInv
<1>2. OnceInv'
    <2>1. runs[c] = {}
        BY <1>1 DEF OnceInv, TypeOK
    <2>2. \A r \in Published(c, id) : r.to \in Callees[r.call] \ runs[r.call]
        BY <2>1 DEF Published
    <2>3. requests' = requests \cup Published(c, id) /\ runs' = runs
        BY DEF Call
    <2> QED
        BY <1>1, <2>2, <2>3 DEF OnceInv, Settled
<1>3. \A k \in Meshes : \A n \in DOMAIN reply_queues'[k] :
        \/ reply_queues'[k][n] = <<>>
        \/ n \in DOMAIN reply_queues[k] /\ reply_queues'[k][n] = reply_queues[k][n]
    BY <1>1 DEF Call, Put, TypeOK
<1>4. UNCHANGED <<replies, answers, current>>
    BY DEF Call
<1> QED
    BY <1>1, <1>2, <1>3, <1>4, FewerSingle DEF SingleInv

LEMMA ReturnTables ==
    ASSUME TypeOK, NEW c \in Calls, Return(c)
    PROVE  \A k \in Meshes : \A n \in DOMAIN reply_queues'[k] :
              n \in DOMAIN reply_queues[k] /\ reply_queues'[k][n] = reply_queues[k][n]
BY MeshRPCAssumption DEF Return, Pop, TypeOK

\* The mesh has not executed the call before, so nothing is an answer of it.
LEMMA TakeSingle ==
    ASSUME MeshInv, NEW r \in requests, Take(r)
    PROVE  SingleInv'
<1> DEFINE m == r.to
<1>1. /\ TypeOK /\ RequestsInv /\ AnswersInv /\ QueuedInv /\ OwnReplies
      /\ OnceInv /\ AnswersFresh /\ QueuedFresh /\ RepliesOver
    BY DEF MeshInv, RepliesInv, Addressed, SingleInv
<1>2. /\ r \in Request /\ m \in Meshes /\ r.call \in Calls /\ AsksFor(r)
      /\ m \notin runs[r.call]
    BY <1>1 DEF TypeOK, Request, RequestsInv, OnceInv
<1>3. /\ current' = [current EXCEPT ![m] = r]
      /\ runs' = [runs EXCEPT ![r.call] = @ \cup {m}]
      /\ requests' = requests \ {r}
      /\ UNCHANGED <<pc, replies, answers, reply_queues>>
    BY DEF Take, calling
<1>4. OnceInv'
    <2>1. ASSUME NEW q \in requests'
          PROVE  q.to \in Callees[q.call] \ runs'[q.call]
        <3>1. q \in requests /\ q # r /\ q \in Request /\ AsksFor(q) /\ q.call \in Calls
            BY <1>1, <1>3 DEF TypeOK, RequestsInv, Request
        <3>2. ~(q.to = r.to /\ q.call = r.call)
            BY <1>2, <3>1 DEF AsksFor, Request
        <3> QED
            BY <1>1, <1>2, <1>3, <3>1, <3>2 DEF OnceInv, TypeOK
    <2>2. \A c \in Calls : runs'[c] # {} => Started(c)'
        BY <1>1, <1>2, <1>3 DEF OnceInv, AsksFor, Started, TypeOK
    <2> QED
        BY <2>1, <2>2 DEF OnceInv
<1>5. ASSUME NEW x \in Answer, x.from \in runs[x.call], Over(x)
      PROVE  Over(x)'
    <2>1. x.from \in Meshes /\ ~(x.from = m /\ x.call = r.call)
        BY <1>2, <1>5 DEF Answer
    <2> QED
        BY <1>1, <1>3, <1>5, <2>1 DEF Over, TypeOK
<1>6. AnswersFresh'
    <2>1. ASSUME NEW x \in answers
          PROVE  Fresh(x)'
        BY <1>1, <1>3, <1>5 DEF AnswersFresh, AnswersInv, Answers, Fresh, TypeOK
    <2> QED
        BY <1>1, <1>3, <2>1 DEF AnswersFresh, Same
<1>7. QueuedFresh'
    <2>1. ASSUME NEW k \in Meshes, NEW id \in DOMAIN reply_queues[k],
                 NEW i \in DOMAIN reply_queues[k][id]
          PROVE  Fresh(reply_queues[k][id][i])'
        <3>1. /\ reply_queues[k][id][i] \in Answer
              /\ Belongs(reply_queues[k][id][i], k, id) /\ Fresh(reply_queues[k][id][i])
            BY <1>1, EntryType DEF QueuedFresh
        <3> QED
            BY <1>3, <1>5, <3>1 DEF Belongs, Answers, Fresh, Over
    <2> QED
        BY <1>1, <1>3, <2>1 DEF QueuedFresh, Same
<1>8. RepliesOver'
    <2>1. \A c \in Calls : \A x \in replies[c] : x \in Answer /\ x.from \in runs[x.call] /\ Over(x)
        BY <1>1 DEF OwnReplies, RepliesOver, TypeOK
    <2> QED
        BY <1>3, <1>5, <2>1 DEF RepliesOver
<1> QED
    BY <1>4, <1>6, <1>7, <1>8 DEF SingleInv

\* The execution of current[m] is over with this answer, the first of it.
LEMMA ReplySingle ==
    ASSUME MeshInv, Settled, NEW m \in Meshes, Reply(m)
    PROVE  SingleInv'
<1>1. /\ TypeOK /\ QueuedInv /\ CurrentInv
      /\ OnceInv /\ AnswersFresh /\ QueuedFresh /\ RepliesOver
    BY DEF MeshInv, RepliesInv, Addressed, SingleInv
<1>2. PICK r \in Request : r = current[m] /\ r # None /\ r.call \in Calls
    BY <1>1 DEF Reply, TypeOK, Request
<1>3. PICK new \in Answer :
        /\ new.call = r.call /\ new.from = m
        /\ \A x \in answers' : x \in answers \/ x = new
    <2> DEFINE n == [to |-> r.reply_to, call |-> r.call,
                     correlation_id |-> r.correlation_id, from |-> m]
    <2>1. n \in Answer /\ n.call = r.call /\ n.from = m
        BY <1>2 DEF Request, Answer
    <2>2. \A x \in answers' : x \in answers \/ x = n
        BY <1>2 DEF Reply
    <2> QED
        BY <2>1, <2>2
<1>4. /\ UNCHANGED <<pc, replies, reply_queues, requests, runs>>
      /\ current'[m] = None /\ \A k \in Meshes : current'[k] \in {current[k], None}
    BY <1>1 DEF Reply, calling, TypeOK
<1>5. OnceInv'
    BY <1>1, <1>4, SameOnce
<1>6. \A x \in Answer : Fresh(x) => Fresh(x)'
    BY <1>4, FreshStays
<1>7. \A x \in Answer : Over(x) => ~Same(x, new)
    BY <1>2, <1>3 DEF Over, Same
<1>8. Fresh(new)'
    <2>1. Over(new)'
        BY <1>3, <1>4 DEF Over
    <2>2. \A y \in replies[r.call] : y \in Answer /\ Over(y) /\ y.call = r.call
        BY <1>1, <1>2 DEF RepliesOver, TypeOK, OwnReplies, MeshInv, RepliesInv
    <2>3. \A y \in replies[r.call] : y.from # m
        BY <1>3, <1>7, <2>2 DEF Same
    <2> QED
        BY <1>3, <1>4, <2>1, <2>3 DEF Fresh
<1>9. ASSUME NEW k \in Meshes, NEW id \in DOMAIN reply_queues[k],
             NEW i \in DOMAIN reply_queues[k][id]
      PROVE  /\ Fresh(reply_queues[k][id][i])'
             /\ ~Same(new, reply_queues[k][id][i])
    <2> DEFINE e == reply_queues[k][id][i]
    <2>1. e \in Answer /\ Fresh(e)
        BY <1>1, EntryType DEF QueuedFresh
    <2>2. ~Same(new, e)
        BY <1>7, <2>1 DEF Fresh, Same
    <2>3. e' = e
        BY <1>4
    <2> QED
        BY <1>6, <2>1, <2>2, <2>3 DEF Fresh, Over
<1>10. AnswersFresh'
    <2>1. \A x \in answers : x \in Answer /\ Fresh(x) /\ Fresh(x)'
        BY <1>1, <1>6 DEF AnswersFresh, TypeOK
    <2>2. ASSUME NEW x \in answers'
          PROVE  /\ Fresh(x)'
                 /\ \A k \in Meshes : \A id \in DOMAIN reply_queues[k] :
                      \A i \in DOMAIN reply_queues[k][id] : ~Same(x, reply_queues[k][id][i])
        <3>1. CASE x \in answers
            BY <1>1, <2>1, <3>1 DEF AnswersFresh
        <3>2. CASE x = new
            BY <1>8, <1>9, <3>2
        <3> QED
            BY <1>3, <3>1, <3>2
    <2> QED
        BY <1>4, <2>2 DEF AnswersFresh, Same
<1>11. QueuedFresh'
    BY <1>1, <1>4, <1>9 DEF QueuedFresh, Same
<1>12. RepliesOver'
    BY <1>1, <1>4 DEF RepliesOver, Over, TypeOK, Answer
<1> QED
    BY <1>5, <1>10, <1>11, <1>12 DEF SingleInv

LEMMA AppendEntries ==
    ASSUME NEW S, NEW q \in Seq(S), NEW a \in S
    PROVE  /\ DOMAIN Append(q, a) = DOMAIN q \cup {Len(q) + 1}
           /\ Len(q) + 1 \notin DOMAIN q
           /\ Append(q, a)[Len(q) + 1] = a
           /\ \A i \in DOMAIN q : Append(q, a)[i] = q[i]
OBVIOUS

\* The reply leaves the messages and joins the queue of its id.
LEMMA TakeReplySingle ==
    ASSUME MeshInv, Settled, NEW a \in answers, TakeReply(a)
    PROVE  SingleInv'
<1> DEFINE m == a.to
           id == a.correlation_id
           old == reply_queues[m]
<1>1. /\ TypeOK /\ RepliesInv /\ SingleInv /\ QueuedInv /\ AnswersInv
      /\ OnceInv /\ AnswersFresh /\ QueuedFresh /\ RepliesOver
    BY DEF MeshInv, RepliesInv, Addressed, SingleInv
<1>2. a \in Answer /\ m \in Meshes /\ Fresh(a) /\ Answers(a)
    BY <1>1 DEF TypeOK, Answer, AnswersFresh, AnswersInv
<1>3. answers' = answers \ {a} /\ UNCHANGED <<pc, replies, requests, runs, current>>
    BY DEF TakeReply
<1>4. OnceInv'
    BY <1>1, <1>3, SameOnce
<1>5. CASE id \notin DOMAIN old
    <2>1. \A k \in Meshes : reply_queues'[k] = reply_queues[k]
        BY <1>1, <1>5 DEF TakeReply, TypeOK
    <2> QED
        BY <1>1, <1>3, <1>4, <2>1, FewerSingle DEF SingleInv
<1>6. CASE id \in DOMAIN old
    <2>1. /\ old[id] \in Seq(Answer)
          /\ \A k \in Meshes : DOMAIN reply_queues'[k] = DOMAIN reply_queues[k]
          /\ \A k \in Meshes : \A n \in DOMAIN reply_queues[k] :
                reply_queues'[k][n] =
                    IF k = m /\ n = id THEN Append(old[id], a) ELSE reply_queues[k][n]
        <3> DEFINE d == Put(old, id, Append(old[id], a))
        <3>1. old[id] \in Seq(Answer)
            BY <1>1, <1>2, <1>6 DEF TypeOK
        <3>2. /\ DOMAIN d = DOMAIN old
              /\ \A n \in DOMAIN old : d[n] = IF n = id THEN Append(old[id], a) ELSE old[n]
            BY <1>6 DEF Put
        <3>3. reply_queues' = [reply_queues EXCEPT ![m] = d]
            BY <1>6 DEF TakeReply
        <3> HIDE DEF d
        <3>4. reply_queues'[m] = d /\ \A k \in Meshes \ {m} : reply_queues'[k] = reply_queues[k]
            BY <1>1, <1>2, <3>3 DEF TypeOK
        <3> QED
            BY <3>1, <3>2, <3>4
    <2>2. /\ DOMAIN Append(old[id], a) = DOMAIN old[id] \cup {Len(old[id]) + 1}
          /\ Len(old[id]) + 1 \notin DOMAIN old[id]
          /\ Append(old[id], a)[Len(old[id]) + 1] = a
          /\ \A i \in DOMAIN old[id] : Append(old[id], a)[i] = old[id][i]
        BY <1>2, <2>1, AppendEntries
    <2>3. ASSUME NEW k \in Meshes, NEW n \in DOMAIN reply_queues'[k],
                 NEW i \in DOMAIN reply_queues'[k][n]
          PROVE  \/ /\ k = m /\ n = id /\ i = Len(old[id]) + 1
                    /\ reply_queues'[k][n][i] = a
                 \/ /\ n \in DOMAIN reply_queues[k] /\ i \in DOMAIN reply_queues[k][n]
                    /\ reply_queues'[k][n][i] = reply_queues[k][n][i]
        <3>1. CASE k = m /\ n = id
            BY <2>1, <2>2, <3>1
        <3>2. CASE ~(k = m /\ n = id)
            BY <2>1, <3>2
        <3> QED
            BY <3>1, <3>2
    <2>4. \A x \in answers \ {a} : ~Same(x, a)
        <3>1. \A x \in answers : x \in Answer /\ Answers(x)
            BY <1>1 DEF AnswersInv, TypeOK
        <3>2. \A x \in answers : Same(x, a) =>
                x.to = a.to /\ x.call = a.call /\ x.correlation_id = a.correlation_id /\ x.from = a.from
            BY <1>2, <3>1 DEF Answers, Same
        <3> QED
            BY <1>2, <3>1, <3>2 DEF Answer
    <2>5. \A k \in Meshes : \A n \in DOMAIN reply_queues[k] :
            \A i \in DOMAIN reply_queues[k][n] :
                ~Same(a, reply_queues[k][n][i]) /\ ~Same(reply_queues[k][n][i], a)
        BY <1>1 DEF AnswersFresh, Same
    <2>6. AnswersFresh'
        <3>1. \A x \in answers' : x \in answers \ {a} /\ Fresh(x)'
            BY <1>1, <1>3 DEF AnswersFresh, Fresh, Over
        <3>2. ASSUME NEW x \in answers', NEW k \in Meshes, NEW n \in DOMAIN reply_queues'[k],
                     NEW i \in DOMAIN reply_queues'[k][n]
              PROVE  ~Same(x, reply_queues'[k][n][i])
            BY <1>1, <2>3, <2>4, <3>1 DEF AnswersFresh
        <3> QED
            BY <3>1, <3>2 DEF AnswersFresh, Same
    <2>7. QueuedFresh'
        <3>1. ASSUME NEW k \in Meshes, NEW n \in DOMAIN reply_queues'[k],
                     NEW i \in DOMAIN reply_queues'[k][n]
              PROVE  Fresh(reply_queues[k][n][i])'
            <4>1. Fresh(reply_queues'[k][n][i])
                BY <1>1, <1>2, <2>3 DEF QueuedFresh
            <4> QED
                BY <1>3, <4>1 DEF Fresh, Over
        <3>2. ASSUME NEW k \in Meshes, NEW n \in DOMAIN reply_queues'[k],
                     NEW i \in DOMAIN reply_queues'[k][n], NEW j \in DOMAIN reply_queues'[k][n],
                     Same(reply_queues'[k][n][i], reply_queues'[k][n][j])
              PROVE  i = j
            BY <1>1, <2>3, <2>5, <3>2 DEF QueuedFresh
        <3> QED
            BY <3>1, <3>2 DEF QueuedFresh, Same
    <2>8. RepliesOver'
        BY <1>1, <1>3 DEF RepliesOver, Over
    <2> QED
        BY <1>4, <2>6, <2>7, <2>8 DEF SingleInv
<1> QED
    BY <1>5, <1>6

LEMMA TailEntries ==
    ASSUME NEW S, NEW q \in Seq(S), q # <<>>
    PROVE  /\ 1 \in DOMAIN q /\ Head(q) = q[1] /\ Head(q) \in S
           /\ \A i \in DOMAIN Tail(q) :
                /\ i \in Nat /\ i # 0
                /\ i + 1 \in DOMAIN q /\ Tail(q)[i] = q[i + 1]
OBVIOUS

\* What a call does not receive now is where it was, or one place nearer.
LEMMA ReceiveTables ==
    ASSUME TypeOK, NEW c \in Calls, Receive(c), cid[c] \in DOMAIN reply_queues[By[c]],
           NEW k \in Meshes, NEW n \in DOMAIN reply_queues'[k],
           NEW i \in DOMAIN reply_queues'[k][n]
    PROVE  /\ n \in DOMAIN reply_queues[k]
           /\ \/ /\ k = By[c] /\ n = cid[c] /\ i \in Nat /\ i + 1 # 1
                 /\ i + 1 \in DOMAIN reply_queues[k][n]
                 /\ reply_queues'[k][n][i] = reply_queues[k][n][i + 1]
              \/ /\ ~(k = By[c] /\ n = cid[c])
                 /\ i \in DOMAIN reply_queues[k][n]
                 /\ reply_queues'[k][n][i] = reply_queues[k][n][i]
<1> DEFINE m == By[c]
           queue == reply_queues[m][cid[c]]
<1>1. m \in Meshes /\ queue \in Seq(Answer) /\ queue # <<>>
    <2>1. m \in Meshes
        BY MeshRPCAssumption
    <2> QED
        BY <2>1 DEF Receive, TypeOK
<1>2. CASE Return(c)
    <2>1. n \in DOMAIN reply_queues[k] /\ reply_queues'[k][n] = reply_queues[k][n]
        BY <1>2, ReturnTables
    <2>2. ~(k = m /\ n = cid[c])
        BY <1>1, <1>2 DEF Return, Pop, TypeOK
    <2> QED
        BY <2>1, <2>2
<1>3. CASE reply_queues' = [reply_queues EXCEPT ![m] = Put(@, cid[c], Tail(queue))]
    <2> DEFINE d == Put(reply_queues[m], cid[c], Tail(queue))
    <2>1. /\ DOMAIN d = DOMAIN reply_queues[m]
          /\ \A l \in DOMAIN d : d[l] = IF l = cid[c] THEN Tail(queue) ELSE reply_queues[m][l]
        BY DEF Put
    <2>2. reply_queues' = [reply_queues EXCEPT ![m] = d]
        BY <1>3
    <2> HIDE DEF d
    <2>3. reply_queues'[m] = d /\ \A l \in Meshes \ {m} : reply_queues'[l] = reply_queues[l]
        BY <1>1, <2>2 DEF TypeOK
    <2>4. CASE k = m /\ n = cid[c]
        <3>1. n \in DOMAIN reply_queues[k] /\ reply_queues'[k][n] = Tail(queue)
            BY <2>1, <2>3, <2>4
        <3>2. i \in DOMAIN Tail(queue)
            BY <3>1
        <3>3. i \in Nat /\ i # 0 /\ i + 1 \in DOMAIN queue /\ Tail(queue)[i] = queue[i + 1]
            BY <1>1, <3>2, TailEntries
        <3> QED
            BY <2>4, <3>1, <3>3
    <2>5. CASE ~(k = m /\ n = cid[c])
        BY <2>1, <2>3, <2>5
    <2> QED
        BY <2>4, <2>5
<1> QED
    BY <1>2, <1>3 DEF Receive

\* The reply that is received was the only one from its mesh.
LEMMA ReceiveSingle ==
    ASSUME MeshInv, Settled, NEW c \in Calls, Receive(c)
    PROVE  SingleInv'
<1> DEFINE m == By[c]
           queue == reply_queues[m][cid[c]]
           h == Head(queue)
<1>1. /\ TypeOK /\ QueuesInv /\ RepliesInv /\ QueuedInv /\ AnswersInv
      /\ OnceInv /\ AnswersFresh /\ QueuedFresh /\ RepliesOver
      /\ m \in Meshes
    BY MeshRPCAssumption DEF MeshInv, RepliesInv, Addressed, SingleInv
<1>2. cid[c] \in DOMAIN reply_queues[m]
    BY <1>1 DEF Receive, QueuesInv, QueuesExact, Registered
<1>3. queue \in Seq(Answer) /\ queue # <<>>
    BY <1>1, <1>2 DEF Receive, TypeOK
<1>4. 1 \in DOMAIN queue /\ h = queue[1] /\ h \in Answer
    BY <1>3, TailEntries
<1>5. PICK x0 \in Answer : x0 = h
    BY <1>4
<1>6. /\ replies' = [replies EXCEPT ![c] = @ \cup {x0}]
      /\ UNCHANGED <<current, requests, answers, runs, cid>>
    BY <1>5 DEF Receive, stopping
<1>7. OnceInv'
    BY <1>1, <1>6, SameOnce
<1>8. Over(x0) /\ \A x \in Answer : Over(x) => Over(x)'
    BY <1>1, <1>2, <1>4, <1>5, <1>6 DEF QueuedFresh, Fresh, Over
<1>9. ASSUME NEW x \in Answer, Fresh(x), x.call = c => x.from # x0.from
      PROVE  Fresh(x)'
    BY <1>1, <1>6, <1>8, <1>9 DEF Fresh, TypeOK, Answer
<1>10. x0.call = c
    <2>1. Started(c) /\ Belongs(x0, m, cid[c]) /\ x0.call \in Calls
        BY <1>1, <1>2, <1>4, <1>5, EntryType DEF Receive, Started
    <2> QED
        BY <1>1, <2>1 DEF Belongs, Answers, QueuesInv, IdsDistinct
<1>11. \A x \in answers : x.call = c => x.from # x0.from
    <2>1. \A x \in answers : ~Same(x, x0)
        BY <1>1, <1>2, <1>4, <1>5 DEF AnswersFresh
    <2> QED
        BY <1>10, <2>1 DEF Same
<1>12. \A k \in Meshes : \A n \in DOMAIN reply_queues'[k] : \A i \in DOMAIN reply_queues'[k][n] :
          /\ n \in DOMAIN reply_queues[k]
          /\ \/ /\ k = m /\ n = cid[c] /\ i \in Nat /\ i + 1 # 1
                /\ i + 1 \in DOMAIN reply_queues[k][n]
                /\ reply_queues'[k][n][i] = reply_queues[k][n][i + 1]
             \/ /\ ~(k = m /\ n = cid[c])
                /\ i \in DOMAIN reply_queues[k][n]
                /\ reply_queues'[k][n][i] = reply_queues[k][n][i]
    BY <1>1, <1>2, ReceiveTables
<1>13. AnswersFresh'
    <2>1. \A x \in answers' : x \in answers /\ x \in Answer /\ Fresh(x)'
        BY <1>1, <1>6, <1>9, <1>11 DEF AnswersFresh, TypeOK
    <2>2. ASSUME NEW x \in answers', NEW k \in Meshes, NEW n \in DOMAIN reply_queues'[k],
                 NEW i \in DOMAIN reply_queues'[k][n]
          PROVE  ~Same(x, reply_queues'[k][n][i])
        BY <1>1, <1>12, <2>1 DEF AnswersFresh
    <2> QED
        BY <2>1, <2>2 DEF AnswersFresh, Same
<1>14. QueuedFresh'
    <2>1. ASSUME NEW k \in Meshes, NEW n \in DOMAIN reply_queues[k],
                 NEW j \in DOMAIN reply_queues[k][n], ~(k = m /\ n = cid[c] /\ j = 1)
          PROVE  /\ reply_queues[k][n][j] \in Answer /\ Fresh(reply_queues[k][n][j])
                 /\ reply_queues[k][n][j].call = c => reply_queues[k][n][j].from # x0.from
        <3>1. /\ reply_queues[k][n][j] \in Answer /\ Fresh(reply_queues[k][n][j])
              /\ Belongs(reply_queues[k][n][j], k, n)
            BY <1>1, EntryType DEF QueuedFresh
        <3>2. ASSUME reply_queues[k][n][j].call = c
              PROVE  ~Same(reply_queues[k][n][j], x0)
            <4>1. k = m /\ n = cid[c]
                BY <3>1, <3>2 DEF Belongs, Answers
            <4> QED
                BY <1>1, <1>2, <1>4, <1>5, <2>1, <4>1 DEF QueuedFresh
        <3> QED
            BY <1>10, <3>1, <3>2 DEF Same
    <2>2. ASSUME NEW k \in Meshes, NEW n \in DOMAIN reply_queues'[k],
                 NEW i \in DOMAIN reply_queues'[k][n]
          PROVE  Fresh(reply_queues[k][n][i])'
        <3>1. PICK e \in Answer :
                /\ e = reply_queues'[k][n][i] /\ Fresh(e)
                /\ e.call = c => e.from # x0.from
            BY <1>12, <2>1
        <3>2. Fresh(e)'
            BY <1>9, <3>1
        <3> QED
            BY <3>1, <3>2 DEF Fresh, Over
    <2>3. ASSUME NEW k \in Meshes, NEW n \in DOMAIN reply_queues'[k],
                 NEW i \in DOMAIN reply_queues'[k][n], NEW j \in DOMAIN reply_queues'[k][n],
                 Same(reply_queues'[k][n][i], reply_queues'[k][n][j])
          PROVE  i = j
        <3>1. CASE k = m /\ n = cid[c]
            <4>1. /\ i \in Nat /\ j \in Nat
                  /\ i + 1 \in DOMAIN reply_queues[k][n] /\ j + 1 \in DOMAIN reply_queues[k][n]
                  /\ Same(reply_queues[k][n][i + 1], reply_queues[k][n][j + 1])
                  /\ n \in DOMAIN reply_queues[k]
                BY <1>12, <2>3, <3>1
            <4>2. i + 1 = j + 1
                BY <1>1, <4>1 DEF QueuedFresh
            <4> QED
                BY <4>1, <4>2
        <3>2. CASE ~(k = m /\ n = cid[c])
            BY <1>1, <1>12, <2>3, <3>2 DEF QueuedFresh
        <3> QED
            BY <3>1, <3>2
    <2> QED
        BY <2>2, <2>3 DEF QueuedFresh, Same
<1>15. RepliesOver'
    BY <1>1, <1>6, <1>8 DEF RepliesOver, TypeOK
<1> QED
    BY <1>7, <1>13, <1>14, <1>15 DEF SingleInv

LEMMA StepSingle == MeshInv /\ [Next]_vars => SingleInv'
<1> SUFFICES ASSUME MeshInv, [Next]_vars PROVE SingleInv'
    OBVIOUS
<1>1. TypeOK /\ RepliesInv /\ SingleInv /\ OnceInv /\ Settled
    BY StepSettles DEF MeshInv, SingleInv
<1>2. ASSUME NEW c \in Calls, Call(c) PROVE SingleInv'
    BY <1>1, <1>2, CallSingle
<1>3. ASSUME NEW c \in Calls, Receive(c) PROVE SingleInv'
    BY <1>1, <1>3, ReceiveSingle
<1>4. ASSUME NEW r \in requests, Take(r) PROVE SingleInv'
    BY <1>4, TakeSingle
<1>5. ASSUME NEW m \in Meshes, Reply(m) PROVE SingleInv'
    BY <1>1, <1>5, ReplySingle
<1>6. ASSUME NEW a \in answers, TakeReply(a) PROVE SingleInv'
    BY <1>1, <1>6, TakeReplySingle
<1>7. ASSUME UNCHANGED <<replies, answers, requests, runs>>,
             \A m \in Meshes : current'[m] \in {current[m], None},
             \A m \in Meshes : \A id \in DOMAIN reply_queues'[m] :
                /\ id \in DOMAIN reply_queues[m]
                /\ reply_queues'[m][id] = reply_queues[m][id]
      PROVE  SingleInv'
    <2>1. OnceInv'
        BY <1>1, <1>7, SameOnce
    <2>2. AnswersFresh' /\ QueuedFresh' /\ RepliesOver'
        BY <1>1, <1>7, FewerSingle
    <2> QED
        BY <2>1, <2>2 DEF SingleInv
<1>8. ASSUME NEW c \in Calls, GiveUp(c) PROVE SingleInv'
    <2>1. \A m \in Meshes : \A id \in DOMAIN reply_queues'[m] :
            id \in DOMAIN reply_queues[m] /\ reply_queues'[m][id] = reply_queues[m][id]
        BY <1>1, <1>8, ReturnTables DEF GiveUp
    <2> QED
        BY <1>7, <1>8, <2>1 DEF GiveUp
<1>9. ASSUME NEW m \in Meshes, Stop(m) PROVE SingleInv'
    BY <1>1, <1>7, <1>9, StopCalls
<1>10. ASSUME NEW c \in Calls, Sent(c) \/ CancelCall(c) PROVE SingleInv'
    BY <1>7, <1>10 DEF Sent, CancelCall
<1>11. ASSUME NEW m \in Meshes,
              \/ FunctionEnds(m) \/ HandlerIdles(m) \/ HandlerFails(m) \/ ReplyFails(m)
              \/ ListenerIdles(m) \/ ListenerFails(m) \/ Start(m) \/ RequestStop(m)
       PROVE  SingleInv'
    BY <1>1, <1>7, <1>11
       DEF FunctionEnds, HandlerIdles, HandlerFails, ReplyFails, ListenerIdles,
           ListenerFails, Start, RequestStop, calling, TypeOK
<1>12. CASE UNCHANGED vars
    BY <1>7, <1>12 DEF vars, calling
<1> QED
    BY <1>2, <1>3, <1>4, <1>5, <1>6, <1>8, <1>9, <1>10, <1>11, <1>12 DEF Next

LEMMA InitSingle == Init => SingleInv
BY DEF Init, SingleInv, OnceInv, AnswersFresh, QueuedFresh, RepliesOver, EmptyDict

LEMMA MeshInvAlways == Spec => []MeshInv
<1>1. Init => MeshInv
    BY InitType, InitQueues, InitReplies, InitSingle DEF MeshInv
<1>2. MeshInv /\ [Next]_vars => MeshInv'
    <2> SUFFICES ASSUME MeshInv, [Next]_vars PROVE MeshInv'
        OBVIOUS
    <2>1. TypeOK /\ QueuesInv /\ RepliesInv
        BY DEF MeshInv
    <2>2. TypeOK' /\ QueuesInv' /\ RepliesInv' /\ SingleInv'
        BY <2>1, StepType, StepQueues, StepReplies, StepSingle DEF QueuesInv
    <2> QED
        BY <2>2 DEF MeshInv
<1> QED
    BY <1>1, <1>2, PTL DEF Spec

LEMMA InitPromise == Init => Promise!Init
<1> SUFFICES ASSUME Init PROVE Promise!Init
    OBVIOUS
<1>1. CallState = [c \in Calls |-> "new"]
    BY DEF Init, CallState
<1>2. Executing = [m \in Meshes |-> None]
    BY DEF Init, Executing
<1>3. Received = [c \in Calls |-> {}]
    BY DEF Init, Received
<1> QED
    BY <1>1, <1>2, <1>3 DEF Init, Promise!Init

\* How the three views change with what they are made of.
LEMMA SameViews ==
    /\ UNCHANGED pc => UNCHANGED CallState
    /\ UNCHANGED <<handler, current>> => UNCHANGED Executing
    /\ UNCHANGED replies => UNCHANGED Received
BY DEF CallState, Open, Executing, Received

LEMMA CallMoves ==
    ASSUME TypeOK, NEW c \in Calls, NEW p, pc' = [pc EXCEPT ![c] = p]
    PROVE  /\ p = "sending" => CallState' = [CallState EXCEPT ![c] = "open"]
           /\ p \in {"returned", "cancelled"} => CallState' = [CallState EXCEPT ![c] = "closed"]
BY DEF CallState, Open, TypeOK

\* Steps of one call, which open or close it.
LEMMA CallRefines ==
    ASSUME TypeOK, NEW c \in Calls, Call(c)
    PROVE  Promise!Open(c)
<1>1. pc' = [pc EXCEPT ![c] = "sending"] /\ pc[c] = "new"
      /\ UNCHANGED <<handler, current, replies, runs>>
    BY DEF Call
<1>2. CallState' = [CallState EXCEPT ![c] = "open"]
    BY <1>1, CallMoves
<1>3. CallState[c] = "new"
    BY <1>1 DEF CallState
<1> QED
    BY <1>1, <1>2, <1>3, SameViews DEF Promise!Open

LEMMA GiveUpRefines ==
    ASSUME TypeOK, NEW c \in Calls, GiveUp(c) \/ CancelCall(c)
    PROVE  Promise!GiveUp(c)
<1>1. /\ Open(c) /\ pc' \in {[pc EXCEPT ![c] = "returned"], [pc EXCEPT ![c] = "cancelled"]}
      /\ UNCHANGED <<handler, current, replies, runs>>
    BY DEF GiveUp, CancelCall, Return, Open
<1>2. CallState' = [CallState EXCEPT ![c] = "closed"]
    BY <1>1, CallMoves
<1>3. CallState[c] = "open"
    BY <1>1 DEF CallState, Open
<1> QED
    BY <1>1, <1>2, <1>3, SameViews DEF Promise!GiveUp

\* The reply is from an execution that is over, and the first from its mesh.
LEMMA ReceiveRefines ==
    ASSUME MeshInv, NEW c \in Calls, Receive(c)
    PROVE  \E m \in Meshes : Promise!Answer(c, m)
<1> DEFINE queue == reply_queues[By[c]][cid[c]]
<1>1. /\ TypeOK /\ QueuesInv /\ RepliesInv /\ QueuedInv /\ QueuedFresh
      /\ By[c] \in Meshes /\ pc[c] = "waiting"
    BY MeshRPCAssumption DEF MeshInv, RepliesInv, Addressed, SingleInv, Receive
<1>2. cid[c] \in DOMAIN reply_queues[By[c]]
    BY <1>1 DEF QueuesInv, QueuesExact, Registered
<1>3. queue \in Seq(Answer) /\ queue # <<>>
    BY <1>1, <1>2 DEF Receive, TypeOK
<1>4. 1 \in DOMAIN queue /\ Head(queue) = queue[1]
    BY <1>3, TailEntries
<1>5. PICK x \in Answer :
        x = Head(queue) /\ Fresh(x) /\ Belongs(x, By[c], cid[c]) /\ x.from \in Meshes /\ x.call \in Calls
    BY <1>1, <1>2, <1>4, EntryType DEF QueuedFresh
<1>6. x.call = c /\ x.from \in runs[c]
    <2>1. Started(c)
        BY <1>1 DEF Started
    <2> QED
        BY <1>1, <1>5, <2>1 DEF Belongs, Answers, QueuesInv, IdsDistinct
<1>7. replies' = [replies EXCEPT ![c] = @ \cup {x}] /\ UNCHANGED <<handler, current, runs>>
    BY <1>5 DEF Receive
<1>8. Received' = [Received EXCEPT ![c] = @ \cup {<<c, x.from>>}]
    <2>1. Received'[c] = Received[c] \cup {<<c, x.from>>}
        BY <1>1, <1>6, <1>7 DEF Received, TypeOK
    <2>2. \A d \in Calls \ {c} : Received'[d] = Received[d]
        BY <1>1, <1>7 DEF Received, TypeOK
    <2>3. Received' = [d \in Calls |-> Received'[d]] /\ Received = [d \in Calls |-> Received[d]]
        BY DEF Received
    <2> QED
        BY <2>1, <2>2, <2>3
<1>9. <<c, x.from>> \notin Received[c]
    BY <1>5, <1>6 DEF Fresh, Received
<1>10. Executing[x.from] # c
    BY <1>5, <1>6, <1>1, MeshRPCAssumption DEF Fresh, Over, Executing, TypeOK
<1>11. CallState' = [CallState EXCEPT ![c] = IF c \in Many THEN "open" ELSE "closed"]
    <2>1. CASE c \notin Many /\ Return(c)
        <3>1. pc' = [pc EXCEPT ![c] = "returned"]
            BY <2>1 DEF Return
        <3>2. TypeOK
            BY <1>1
        <3>3. CallState' = [CallState EXCEPT ![c] = "closed"]
            BY <3>1, <3>2, CallMoves
        <3> QED
            BY <2>1, <3>3
    <2>2. CASE c \in Many /\ UNCHANGED pc
        BY <1>1, <2>2 DEF CallState, Open, TypeOK
    <2> QED
        BY <2>1, <2>2 DEF Receive
<1>12. CallState[c] = "open"
    BY <1>1 DEF CallState, Open
<1> QED
    BY <1>5, <1>6, <1>7, <1>8, <1>9, <1>10, <1>11, <1>12, SameViews DEF Promise!Answer

LEMMA TakeRefines ==
    ASSUME MeshInv, NEW r \in requests, Take(r)
    PROVE  \E c \in Calls, m \in Meshes : Promise!Begin(c, m)
<1> DEFINE m == r.to
           c == r.call
<1>1. TypeOK /\ RequestsInv /\ OnceInv
    BY DEF MeshInv, RepliesInv, Addressed, SingleInv
<1>2. /\ r \in Request /\ m \in Meshes /\ c \in Calls /\ Started(c)
      /\ m \in Callees[c] \ runs[c]
    BY <1>1 DEF TypeOK, Request, RequestsInv, AsksFor, OnceInv
<1>3. CallState[c] # "new"
    BY <1>2 DEF CallState, Started
<1>4. Executing[m] = None
    BY <1>2 DEF Take, Executing
<1>5. Executing' = [Executing EXCEPT ![m] = c]
    BY <1>1, <1>2 DEF Take, Executing, TypeOK
<1>6. runs' = [runs EXCEPT ![c] = @ \cup {m}] /\ UNCHANGED <<pc, replies>>
    BY DEF Take, calling
<1> QED
    BY <1>2, <1>3, <1>4, <1>5, <1>6, SameViews DEF Promise!Begin

LEMMA FunctionEndsRefines ==
    ASSUME TypeOK, NEW m \in Meshes, FunctionEnds(m)
    PROVE  Promise!End(m)
<1>1. current[m] \in Request /\ handler[m] = "running"
    BY DEF FunctionEnds, TypeOK
<1>2. Executing[m] # None
    BY <1>1, MeshRPCAssumption DEF Executing, Request
<1>3. Executing' = [Executing EXCEPT ![m] = None]
    BY DEF FunctionEnds, Executing, TypeOK
<1>4. UNCHANGED <<pc, replies, runs>>
    BY DEF FunctionEnds, calling
<1> QED
    BY <1>2, <1>3, <1>4, SameViews DEF Promise!End

\* A cancelled function ends together with the calls it waits for; anything else
\* that stop() does is not seen.
LEMMA StopRefines ==
    ASSUME TypeOK, NEW m \in Meshes, Stop(m)
    PROVE  (\E cs \in SUBSET Calls : Promise!Interrupt(m, cs)) \/ UNCHANGED Promise!vars
<1>1. UNCHANGED <<replies, runs>>
    BY DEF Stop
<1>2. CASE handler[m] = "running" /\ CancelFunction(m)
    <2>1. PICK cs \in SUBSET Calls : cs = Inner(m)
        BY DEF Inner
    <2>2. current[m] \in Request
        BY <1>2 DEF TypeOK
    <2>3. Executing[m] # None
        BY <1>2, <2>2, MeshRPCAssumption DEF Executing, Request
    <2>4. Executing' = [Executing EXCEPT ![m] = None]
        BY <1>2 DEF CancelFunction, Executing, TypeOK
    <2>5. \A c \in cs : CallState[c] = "open"
        BY <2>1 DEF Inner, CallState, Open
    <2>6. pc' = [c \in Calls |-> IF c \in cs THEN "cancelled" ELSE pc[c]]
        BY <1>2, <2>1 DEF CancelFunction
    <2>7. CallState' = [c \in Calls |-> IF c \in cs THEN "closed" ELSE CallState[c]]
        BY <2>6 DEF CallState, Open
    <2> QED
        BY <1>1, <2>3, <2>4, <2>5, <2>7, SameViews DEF Promise!Interrupt
<1>3. ASSUME handler[m] # "running", handler' = [handler EXCEPT ![m] = "ended"],
             \A k \in Meshes \ {m} : current'[k] = current[k], UNCHANGED pc
      PROVE  UNCHANGED Promise!vars
    <2>1. UNCHANGED Executing
        BY <1>3 DEF Executing, TypeOK
    <2> QED
        BY <1>1, <1>3, <2>1, SameViews DEF Promise!vars
<1>4. ASSUME UNCHANGED <<handler, current, pc>>
      PROVE  UNCHANGED Promise!vars
    BY <1>1, <1>4, SameViews DEF Promise!vars
<1>5. ASSUME NEW t \in tasks[m], Cancel(m, t), ~(handler[m] = "running" /\ CancelFunction(m))
      PROVE  UNCHANGED Promise!vars
    <2>1. CASE handler[m] \in {"waiting", "replying"} /\ CancelHandler(m)
        BY <1>3, <2>1 DEF CancelHandler, TypeOK
    <2> QED
        BY <1>4, <1>5, <2>1 DEF Cancel
<1> QED
    BY <1>2, <1>4, <1>5 DEF Stop

LEMMA StepRefines == MeshInv /\ [Next]_vars => [Promise!Next]_(Promise!vars)
<1> SUFFICES ASSUME MeshInv, [Next]_vars PROVE Promise!Next \/ UNCHANGED Promise!vars
    OBVIOUS
<1>1. TypeOK
    BY DEF MeshInv
<1>2. ASSUME NEW c \in Calls, Call(c) \/ GiveUp(c) \/ CancelCall(c) PROVE Promise!Next
    BY <1>1, <1>2, CallRefines, GiveUpRefines DEF Promise!Next
<1>3. ASSUME NEW c \in Calls, Receive(c) PROVE Promise!Next
    BY <1>3, ReceiveRefines DEF Promise!Next
<1>4. ASSUME NEW r \in requests, Take(r) PROVE Promise!Next
    BY <1>4, TakeRefines DEF Promise!Next
<1>5. ASSUME NEW m \in Meshes, FunctionEnds(m) PROVE Promise!Next
    BY <1>1, <1>5, FunctionEndsRefines DEF Promise!Next
<1>6. ASSUME NEW m \in Meshes, Stop(m) PROVE Promise!Next \/ UNCHANGED Promise!vars
    BY <1>1, <1>6, StopRefines DEF Promise!Next
<1>7. ASSUME NEW c \in Calls, Sent(c) PROVE UNCHANGED Promise!vars
    <2>1. UNCHANGED CallState
        BY <1>1, <1>7 DEF Sent, CallState, Open, TypeOK
    <2> QED
        BY <1>7, <2>1, SameViews DEF Sent, Promise!vars
<1>8. ASSUME NEW m \in Meshes,
             Reply(m) \/ HandlerIdles(m) \/ HandlerFails(m) \/ ReplyFails(m) \/ Start(m)
      PROVE  UNCHANGED Promise!vars
    <2>1. UNCHANGED Executing
        BY <1>1, <1>8
           DEF Reply, HandlerIdles, HandlerFails, ReplyFails, Start, NextRound, Executing,
               TypeOK
    <2>2. UNCHANGED <<pc, replies, runs>>
        BY <1>8 DEF Reply, HandlerIdles, HandlerFails, ReplyFails, Start, calling
    <2> QED
        BY <2>1, <2>2, SameViews DEF Promise!vars
<1>9. ASSUME UNCHANGED <<pc, replies, runs, handler, current>>
      PROVE  UNCHANGED Promise!vars
    BY <1>9, SameViews DEF Promise!vars
<1>10. ASSUME NEW m \in Meshes, ListenerIdles(m) \/ ListenerFails(m) \/ RequestStop(m)
       PROVE  UNCHANGED Promise!vars
    BY <1>9, <1>10 DEF ListenerIdles, ListenerFails, RequestStop, calling
<1>11. ASSUME NEW a \in answers, TakeReply(a) PROVE UNCHANGED Promise!vars
    BY <1>9, <1>11 DEF TakeReply
<1>12. CASE UNCHANGED vars
    BY <1>9, <1>12 DEF vars, calling
<1> QED
    BY <1>2, <1>3, <1>4, <1>5, <1>6, <1>7, <1>8, <1>10, <1>11, <1>12 DEF Next

\* The mesh implements RPC: at most one execution of a call on each mesh that has
\* the name, and answers from executions that are over, one for each.
THEOREM Refinement == Spec => ImplementsRPC
<1>1. Init => Promise!Init
    BY InitPromise
<1>2. MeshInv /\ [Next]_vars => [Promise!Next]_(Promise!vars)
    BY StepRefines
<1> QED
    BY <1>1, <1>2, MeshInvAlways, PTL DEF Spec, ImplementsRPC, Promise!Spec

-----------------------------------------------------------------------------
(* What is over stays over: nested calls and aio_stop().                   *)

\* No call is left behind by the function that made it.
LEMMA StepOrphans == TypeOK /\ NoOrphans /\ [Next]_vars => NoOrphans'
<1> SUFFICES ASSUME TypeOK, NoOrphans, [Next]_vars PROVE NoOrphans'
    OBVIOUS
<1>0. \A c \in Calls : By[c] \in Meshes
    BY MeshRPCAssumption
<1>1. ASSUME \A c \in Calls : Open(c)' => Open(c),
             \A m \in Meshes : handler[m] = "running" =>
                                 handler'[m] = "running" /\ current'[m] = current[m]
      PROVE  NoOrphans'
    BY <1>0, <1>1 DEF NoOrphans
<1>2. ASSUME NEW c \in Calls, Call(c) PROVE NoOrphans'
    <2>1. \A d \in Calls : d # c => (Open(d)' <=> Open(d))
        BY <1>2 DEF Call, Open, TypeOK
    <2>2. MayCall(c) /\ UNCHANGED <<handler, current>>
        BY <1>2 DEF Call
    <2> QED
        BY <2>1, <2>2 DEF MayCall, NoOrphans
<1>3. ASSUME NEW c \in Calls, Sent(c) \/ Receive(c) \/ GiveUp(c) \/ CancelCall(c)
      PROVE  NoOrphans'
    <2>1. \A d \in Calls : Open(d)' => Open(d)
        BY <1>3 DEF Sent, Receive, GiveUp, CancelCall, Return, Open, TypeOK
    <2>2. UNCHANGED <<handler, current>>
        BY <1>3 DEF Sent, Receive, GiveUp, CancelCall
    <2> QED
        BY <1>1, <2>1, <2>2
<1>4. ASSUME NEW r \in requests, Take(r) PROVE NoOrphans'
    <2>1. r.to \in Meshes /\ UNCHANGED pc
        BY <1>4 DEF Take, calling, TypeOK, Request
    <2>2. \A m \in Meshes : handler[m] = "running" =>
                              handler'[m] = "running" /\ current'[m] = current[m]
        BY <1>4, <2>1 DEF Take, TypeOK
    <2> QED
        BY <1>1, <2>1, <2>2 DEF Open
<1>6. ASSUME NEW m \in Meshes, handler[m] = "running" => \A c \in Inner(m) : ~Open(c)',
             \A k \in Meshes \ {m} : handler'[k] = handler[k] /\ current'[k] = current[k],
             \A c \in Calls : Open(c)' => Open(c)
      PROVE  NoOrphans'
    <2> SUFFICES ASSUME NEW c \in Calls, Open(c)', Within[c] # None
                 PROVE  handler'[By[c]] = "running" /\ current'[By[c]].call = Within[c]
        BY DEF NoOrphans
    <2>1. Open(c) /\ handler[By[c]] = "running" /\ current[By[c]].call = Within[c]
        BY <1>6 DEF NoOrphans
    <2>2. By[c] # m
        <3>1. By[c] = m => c \in Inner(m)
            BY <2>1 DEF Inner, TypeOK
        <3> QED
            BY <1>6, <2>1, <3>1
    <2> QED
        BY <1>0, <1>6, <2>1, <2>2
<1>7. ASSUME NEW m \in Meshes,
             \/ FunctionEnds(m) \/ Reply(m) \/ ReplyFails(m)
             \/ HandlerIdles(m) \/ HandlerFails(m) \/ Start(m)
      PROVE  NoOrphans'
    <2>1. UNCHANGED pc /\ (handler[m] = "running" => Inner(m) = {})
        BY <1>7
           DEF FunctionEnds, Reply, HandlerIdles, HandlerFails, ReplyFails, Start, calling
    <2>2. \A k \in Meshes \ {m} : handler'[k] = handler[k] /\ current'[k] = current[k]
        BY <1>7
           DEF FunctionEnds, Reply, HandlerIdles, HandlerFails, ReplyFails, Start, TypeOK
    <2> QED
        BY <1>6, <2>1, <2>2 DEF Open
<1>8. ASSUME NEW m \in Meshes, Stop(m) PROVE NoOrphans'
    <2>1. \A c \in Calls : Open(c)' => Open(c)
        BY <1>8, StopCalls DEF Open
    <2>2. CASE handler[m] = "running" /\ CancelFunction(m)
        <3>1. \A c \in Inner(m) : ~Open(c)'
            BY <2>2 DEF CancelFunction, Inner, Open
        <3>2. \A k \in Meshes \ {m} : handler'[k] = handler[k] /\ current'[k] = current[k]
            BY <2>2 DEF CancelFunction, TypeOK
        <3> QED
            BY <1>6, <2>1, <3>1, <3>2
    <2>3. CASE handler[m] # "running" /\ CancelHandler(m)
        <3>1. \A k \in Meshes \ {m} : handler'[k] = handler[k] /\ current'[k] = current[k]
            BY <2>3 DEF CancelHandler, TypeOK
        <3> QED
            BY <1>6, <2>1, <2>3, <3>1
    <2>4. CASE UNCHANGED <<handler, current>>
        BY <1>1, <2>1, <2>4
    <2>5. (\E t \in tasks[m] : Cancel(m, t)) \/ UNCHANGED <<handler, current>>
        BY <1>8 DEF Stop
    <2> QED
        BY <2>2, <2>3, <2>4, <2>5 DEF Cancel
<1>9. ASSUME UNCHANGED <<pc, handler, current>> PROVE NoOrphans'
    BY <1>9 DEF NoOrphans, Open
<1>10. ASSUME NEW m \in Meshes, ListenerIdles(m) \/ ListenerFails(m) \/ RequestStop(m)
       PROVE  NoOrphans'
    BY <1>9, <1>10 DEF ListenerIdles, ListenerFails, RequestStop, calling
<1>11. ASSUME NEW a \in answers, TakeReply(a) PROVE NoOrphans'
    BY <1>9, <1>11 DEF TakeReply
<1>12. CASE UNCHANGED vars
    BY <1>9, <1>12 DEF vars, calling
<1> QED
    BY <1>2, <1>3, <1>4, <1>7, <1>8, <1>10, <1>11, <1>12 DEF Next

\* What aio_stop() has taken out of its set is what it waits for, or has ended.
StopInv ==
    \A m \in Meshes :
        /\ stopper[m] = "new" => tasks[m] = (IF handler[m] = "none" THEN {} ELSE {"call", "reply"})
        /\ stopper[m] # "new" =>
              /\ handler[m] # "none"
              /\ "call" \in tasks[m] \/ stopper[m] = "call" \/ handler[m] = "ended"
              /\ "reply" \in tasks[m] \/ listener[m] = "ended"
        /\ stopper[m] = "done" => tasks[m] = {}

\* Stopping keeps it: what is awaited has ended when the next is cancelled.
LEMMA StopStep ==
    ASSUME TypeOK, StopInv, NEW m \in Meshes, Stop(m) PROVE StopInv'
<1>1. Awaited(m) /\ handler[m] # "none" /\ tasks[m] \in SUBSET {"call", "reply"}
      /\ stopper[m] \in {"new", "call", "reply", "done"}
    BY DEF Stop, Awaited, StopInv, TypeOK
<1>2. ASSUME NEW k \in Meshes, k # m
      PROVE  UNCHANGED <<stopper[k], tasks[k], handler[k], listener[k]>>
    BY <1>2 DEF Stop, Cancel, CancelFunction, CancelHandler, TypeOK
<1>3. CASE tasks[m] = {} /\ stopper' = [stopper EXCEPT ![m] = "done"]
           /\ UNCHANGED <<tasks, handler, current, pc, listener>>
    <2>1. stopper[m] # "new"
        BY <1>1, <1>3 DEF StopInv
    <2>2. handler[m] = "ended" /\ listener[m] = "ended"
        BY <1>1, <1>3, <2>1 DEF StopInv, Awaited
    <2>3. stopper'[m] = "done"
        BY <1>3 DEF TypeOK
    <2> QED
        BY <1>1, <1>2, <1>3, <2>2, <2>3 DEF StopInv
<1>4. ASSUME NEW t \in tasks[m], Cancel(m, t) PROVE StopInv'
    <2>0. t \in {"call", "reply"}
        BY <1>1
    <2>1. stopper'[m] = t /\ tasks'[m] = tasks[m] \ {t}
        BY <1>4 DEF Cancel, TypeOK
    <2>2. handler'[m] # "none"
        BY <1>1, <1>4 DEF Cancel, CancelFunction, CancelHandler, TypeOK
    <2>3. handler[m] = "ended" => handler'[m] = "ended"
        BY <1>1, <1>4 DEF Cancel, CancelFunction, CancelHandler, TypeOK
    <2>4. listener[m] = "ended" \/ t = "reply" => listener'[m] = "ended"
        BY <1>4 DEF Cancel, TypeOK
    <2>5. "call" \in tasks[m] \/ handler[m] = "ended"
        BY <1>1, <1>4 DEF Awaited, StopInv
    <2>6. "reply" \in tasks[m] \/ listener[m] = "ended"
        BY <1>1, <1>4 DEF Awaited, StopInv
    <2>7. "call" \in tasks'[m] \/ stopper'[m] = "call" \/ handler'[m] = "ended"
        BY <2>0, <2>1, <2>3, <2>5
    <2>8. "reply" \in tasks'[m] \/ listener'[m] = "ended"
        BY <2>0, <2>1, <2>4, <2>6
    <2> QED
        BY <1>2, <2>0, <2>1, <2>2, <2>7, <2>8 DEF StopInv
<1> QED
    BY <1>3, <1>4 DEF Stop

LEMMA StepStop == TypeOK /\ StopInv /\ [Next]_vars => StopInv'
<1> SUFFICES ASSUME TypeOK, StopInv, [Next]_vars PROVE StopInv'
    OBVIOUS
<1>1. ASSUME UNCHANGED stopping,
             \A m \in Meshes : /\ handler'[m] = "none" <=> handler[m] = "none"
                               /\ handler[m] = "ended" => handler'[m] = "ended"
                               /\ listener[m] = "ended" => listener'[m] = "ended"
      PROVE  StopInv'
    BY <1>1 DEF StopInv, stopping
<1>2. ASSUME NEW c \in Calls, Call(c) \/ Sent(c) \/ Receive(c) \/ GiveUp(c) \/ CancelCall(c)
      PROVE  StopInv'
    BY <1>1, <1>2 DEF Call, Sent, Receive, GiveUp, CancelCall
<1>3. ASSUME NEW r \in requests, Take(r) PROVE StopInv'
    BY <1>1, <1>3 DEF Take, TypeOK, Request
<1>4. ASSUME NEW a \in answers, TakeReply(a) PROVE StopInv'
    BY <1>1, <1>4 DEF TakeReply, TypeOK, Answer
<1>5. ASSUME NEW m \in Meshes,
             \/ FunctionEnds(m) \/ Reply(m) \/ ReplyFails(m)
             \/ HandlerIdles(m) \/ HandlerFails(m)
             \/ ListenerIdles(m) \/ ListenerFails(m) \/ RequestStop(m)
      PROVE  StopInv'
    BY <1>1, <1>5
       DEF FunctionEnds, Reply, HandlerIdles, HandlerFails, ReplyFails, ListenerIdles,
           ListenerFails, RequestStop, NextRound, TypeOK
<1>6. ASSUME NEW m \in Meshes, Start(m) PROVE StopInv'
    BY <1>6 DEF Start, StopInv, TypeOK
<1>7. ASSUME NEW m \in Meshes, Stop(m) PROVE StopInv'
    BY <1>7, StopStep
<1>8. CASE UNCHANGED vars
    BY <1>1, <1>8 DEF vars
<1> QED
    BY <1>2, <1>3, <1>4, <1>5, <1>6, <1>7, <1>8 DEF Next

\* Whatever meshes, calls and nesting, and however a stop meets them: when
\* aio_stop() has returned neither task of the mesh runs.  It takes more than
\* cancelling both: the call handler swallows the cancellation of a function
\* and goes on (mesh.py, aio_stop() and _start_rpc_call_handler()).
THEOREM StoppedStaysQuiet == Spec => []StoppedIsQuiet
<1>1. Init => StopInv
    BY DEF Init, StopInv
<1>2. TypeOK /\ StopInv => StoppedIsQuiet
    BY DEF TypeOK, StopInv, StoppedIsQuiet
<1> QED
    BY <1>1, <1>2, StepStop, TypeCorrect, PTL DEF Spec

\* However calls nest, also into the mesh that executes them: a call made by a
\* function waits only while that function runs.
THEOREM NoCallIsOrphaned == Spec => []NoOrphans
<1>1. Init => NoOrphans
    BY DEF Init, NoOrphans, Open
<1> QED
    BY <1>1, StepOrphans, TypeCorrect, PTL DEF Spec
=============================================================================
