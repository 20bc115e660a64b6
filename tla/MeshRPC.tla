------------------------------ MODULE MeshRPC ------------------------------
(***************************************************************************)
(* Remote procedure calls between meshes, class Mesh in                    *)
(* lib/slowpy/slowpy/mesh/mesh.py, over any of its brokers.                *)
(*                                                                         *)
(* A mesh has two tasks: the call handler takes one request at a time,     *)
(* executes the function and publishes the reply; the reply handler puts   *)
(* each reply into the queue registered under its correlation id.  A call  *)
(* registers a queue, publishes, and waits for the queue with a timeout.   *)
(* A function may call again, also the mesh that is executing it.  Each    *)
(* action is a stretch of a task from one await that suspends to the next. *)
(*                                                                         *)
(* The broker is external: a message is on its way until it is taken,      *)
(* messages may overtake each other, and since nothing makes a handler     *)
(* take one, each may be lost; one that nobody listens to is.  Each mesh   *)
(* is a process of its own, with its own stop event.                       *)
(* Abstracted: names (Callees), arguments and results (a reply says which  *)
(* call it answers), and whether a function raised (it answers as well).   *)
(***************************************************************************)
EXTENDS Naturals, Sequences, FiniteSets, PyDict

CONSTANTS Meshes,     \* the Mesh objects
          Calls,      \* the calls of aio_call_many()
          By,         \* the mesh that makes each call
          Callees,    \* the meshes that have the name the call asks for
          Many,       \* the calls with multiple_replies=True
          Within,     \* the call whose function makes this call, or None
          Stoppable,  \* bound: the meshes that may be stopped
          None

Request == [to: Meshes, call: Calls, correlation_id: Nat, reply_to: Meshes]
Answer  == [to: Meshes, call: Calls, correlation_id: Nat, from: Meshes]

ASSUME MeshRPCAssumption ==
    /\ IsFiniteSet(Meshes) /\ IsFiniteSet(Calls)
    /\ By \in [Calls -> Meshes]
    /\ Callees \in [Calls -> SUBSET Meshes]
    /\ Many \subseteq Calls
    /\ Within \in [Calls -> Calls \cup {None}]
    /\ \A c \in Calls : Within[c] # None => By[c] \in Callees[Within[c]]
    /\ Stoppable \subseteq Meshes
    /\ None \notin Calls \cup Request

VARIABLES
    rpc_count,        \* self._rpc_count
    reply_queues,     \* self._reply_queues  correlation_id -> queue
    stop_requested,   \* the stop event of the process
    pc, cid, replies, \* of a call: where it is, its correlation_id, its result
    handler, current, \* the task of the call handler, and what it executes
    listener,         \* the task of the reply handler
    stopper, tasks,   \* aio_stop(): what it waits for, and what is left to stop
    requests, answers,\* messages on their way
    runs              \* history: the meshes that have taken each call

calling  == <<rpc_count, reply_queues, pc, cid, replies>>
stopping == <<stopper, tasks>>
vars     == <<calling, stop_requested, handler, current, listener, stopping,
              requests, answers, runs>>

Open(c) == pc[c] \in {"sending", "waiting"}

TypeOK ==
    /\ rpc_count \in [Meshes -> Nat]
    /\ \A m \in Meshes :
        /\ DOMAIN reply_queues[m] \subseteq Nat
        /\ reply_queues[m] \in [DOMAIN reply_queues[m] -> Seq(Answer)]
    /\ DOMAIN reply_queues = Meshes
    /\ stop_requested \in [Meshes -> BOOLEAN]
    /\ pc \in [Calls -> {"new", "sending", "waiting", "returned", "cancelled"}]
    /\ cid \in [Calls -> Nat]
    /\ replies \in [Calls -> SUBSET Answer]
    /\ handler \in [Meshes -> {"none", "waiting", "running", "replying", "ended"}]
    /\ current \in [Meshes -> Request \cup {None}]
    /\ \A m \in Meshes : handler[m] \in {"running", "replying"} <=> current[m] # None
    /\ listener \in [Meshes -> {"none", "waiting", "ended"}]
    /\ stopper \in [Meshes -> {"new", "call", "reply", "done"}]
    /\ tasks \in [Meshes -> SUBSET {"call", "reply"}]
    /\ requests \subseteq Request
    /\ answers \subseteq Answer
    /\ runs \in [Calls -> SUBSET Meshes]

Init ==
    /\ rpc_count = [m \in Meshes |-> 0]
    /\ reply_queues = [m \in Meshes |-> EmptyDict]
    /\ stop_requested = [m \in Meshes |-> FALSE]
    /\ pc = [c \in Calls |-> "new"]
    /\ cid = [c \in Calls |-> 0]
    /\ replies = [c \in Calls |-> {}]
    /\ handler = [m \in Meshes |-> "none"]
    /\ current = [m \in Meshes |-> None]
    /\ listener = [m \in Meshes |-> "none"]
    /\ stopper = [m \in Meshes |-> "new"]
    /\ tasks = [m \in Meshes |-> {}]
    /\ requests = {}
    /\ answers = {}
    /\ runs = [c \in Calls |-> {}]

-----------------------------------------------------------------------------
(* A call: aio_call_many().                                                *)

\* The calls that the function of mesh m has made and still waits for.
Inner(m) ==
    {c \in Calls : By[c] = m /\ current[m] # None /\ Within[c] = current[m].call /\ Open(c)}

\* A user's task, or the function of Within[c] that its mesh executes.
MayCall(c) ==
    \/ Within[c] = None
    \/ handler[By[c]] = "running" /\ current[By[c]].call = Within[c]

\* What publishing the request makes: one message for each mesh of that name
\* that has subscribed.
Published(c, id) ==
    {[to |-> m, call |-> c, correlation_id |-> id, reply_to |-> By[c]] :
        m \in {m \in Callees[c] : handler[m] # "none"}}

\* Mutant: the number of open calls as the correlation id.
NextId_Open(m) == Cardinality(DOMAIN reply_queues[m]) + 1

NextId(m) == rpc_count[m] + 1

\* Mutant: the queue is registered when the publishing has come to its end.
Call_RegistersLate(c) ==
    LET m == By[c] IN
    /\ pc[c] = "new" /\ MayCall(c)
    /\ rpc_count' = [rpc_count EXCEPT ![m] = @ + 1]
    /\ cid' = [cid EXCEPT ![c] = NextId(m)]
    /\ requests' = requests \cup Published(c, NextId(m))
    /\ pc' = [pc EXCEPT ![c] = "sending"]
    /\ UNCHANGED <<reply_queues, replies, stop_requested, handler, current, listener,
                   stopping, answers, runs>>

\* The queue is there before the request goes out; publishing may suspend.
Call(c) ==
    LET m == By[c] IN
    /\ pc[c] = "new" /\ MayCall(c)
    /\ rpc_count' = [rpc_count EXCEPT ![m] = @ + 1]
    /\ cid' = [cid EXCEPT ![c] = NextId(m)]
    /\ reply_queues' = [reply_queues EXCEPT ![m] = Put(@, NextId(m), <<>>)]
    /\ requests' = requests \cup Published(c, NextId(m))
    /\ pc' = [pc EXCEPT ![c] = "sending"]
    /\ UNCHANGED <<replies, stop_requested, handler, current, listener, stopping,
                   answers, runs>>

\* aio_publish() has returned.
Sent(c) ==
    /\ pc[c] = "sending"
    /\ pc' = [pc EXCEPT ![c] = "waiting"]
    /\ UNCHANGED <<rpc_count, reply_queues, cid, replies, stop_requested, handler,
                   current, listener, stopping, requests, answers, runs>>

\* The loop has ended: the queue is removed.
Return(c) ==
    /\ pc' = [pc EXCEPT ![c] = "returned"]
    /\ reply_queues' = [reply_queues EXCEPT ![By[c]] = Pop(@, cid[c])]

\* A reply has come.  With multiple_replies the call waits for more.
Receive(c) ==
    LET queue == reply_queues[By[c]][cid[c]] IN
    /\ pc[c] = "waiting" /\ queue # <<>>
    /\ replies' = [replies EXCEPT ![c] = @ \cup {Head(queue)}]
    /\ \/ c \notin Many /\ Return(c)
       \/ /\ c \in Many
          /\ reply_queues' = [reply_queues EXCEPT ![By[c]] = Put(@, cid[c], Tail(queue))]
          /\ UNCHANGED pc
    /\ UNCHANGED <<rpc_count, cid, stop_requested, handler, current, listener, stopping,
                   requests, answers, runs>>

\* Mutant: the time is looked at when a reply has come.
GiveUp_AfterReply(c) ==
    /\ pc[c] = "waiting" /\ replies[c] # {}
    /\ Return(c)
    /\ UNCHANGED <<rpc_count, cid, replies, stop_requested, handler, current, listener,
                   stopping, requests, answers, runs>>

\* The time is up, or a stop has been requested.  A single call returns None.
GiveUp(c) ==
    /\ pc[c] = "waiting"
    /\ Return(c)
    /\ UNCHANGED <<rpc_count, cid, replies, stop_requested, handler, current, listener,
                   stopping, requests, answers, runs>>

\* The user's task is cancelled at one of its awaits: the queue stays.
CancelCall(c) ==
    /\ Open(c) /\ Within[c] = None
    /\ pc' = [pc EXCEPT ![c] = "cancelled"]
    /\ UNCHANGED <<rpc_count, reply_queues, cid, replies, stop_requested, handler,
                   current, listener, stopping, requests, answers, runs>>

-----------------------------------------------------------------------------
(* The call handler.                                                       *)

\* Mutant: the broker keeps the message.
Take_Keeps(r) ==
    LET m == r.to IN
    /\ r \in requests /\ handler[m] = "waiting"
    /\ handler' = [handler EXCEPT ![m] = "running"]
    /\ current' = [current EXCEPT ![m] = r]
    /\ runs' = [runs EXCEPT ![r.call] = @ \cup {m}]
    /\ UNCHANGED <<calling, stop_requested, listener, stopping, requests, answers>>

Take(r) ==
    LET m == r.to IN
    /\ r \in requests /\ handler[m] = "waiting"
    /\ requests' = requests \ {r}
    /\ handler' = [handler EXCEPT ![m] = "running"]
    /\ current' = [current EXCEPT ![m] = r]
    /\ runs' = [runs EXCEPT ![r.call] = @ \cup {m}]
    /\ UNCHANGED <<calling, stop_requested, listener, stopping, answers>>

\* The function returns or raises; it waits for the calls it makes.
FunctionEnds(m) ==
    /\ handler[m] = "running" /\ Inner(m) = {}
    /\ handler' = [handler EXCEPT ![m] = "replying"]
    /\ UNCHANGED <<calling, stop_requested, current, listener, stopping, requests,
                   answers, runs>>

\* Mutant: while True.
NextRound_Always(m) == "waiting"

\* while not ctrl.is_stop_requested(): the test before each wait for a message,
\* in both handlers.
NextRound(m) == IF stop_requested[m] THEN "ended" ELSE "waiting"

\* Mutant: the correlation id is not copied into the reply's headers.
Reply_NoId(m) ==
    LET r == current[m] IN
    /\ handler[m] = "replying"
    /\ answers' = answers \cup
          {[to |-> r.reply_to, call |-> r.call, correlation_id |-> None, from |-> m]}
    /\ handler' = [handler EXCEPT ![m] = NextRound(m)]
    /\ current' = [current EXCEPT ![m] = None]
    /\ UNCHANGED <<calling, stop_requested, listener, stopping, requests, runs>>

\* The reply carries the correlation id and goes to the mesh that asked.
Reply(m) ==
    LET r == current[m] IN
    /\ handler[m] = "replying"
    /\ answers' = answers \cup
          {[to |-> a, call |-> r.call, correlation_id |-> r.correlation_id, from |-> m] :
              a \in {a \in {r.reply_to} : listener[a] # "none"}}
    /\ handler' = [handler EXCEPT ![m] = NextRound(m)]
    /\ current' = [current EXCEPT ![m] = None]
    /\ UNCHANGED <<calling, stop_requested, listener, stopping, requests, runs>>

\* The reply is no JSON, or cannot be published: the exception ends the task.
ReplyFails(m) ==
    /\ handler[m] = "replying"
    /\ handler' = [handler EXCEPT ![m] = "ended"]
    /\ current' = [current EXCEPT ![m] = None]
    /\ UNCHANGED <<calling, stop_requested, listener, stopping, requests, answers, runs>>

\* No message has come for 0.1 seconds.
HandlerIdles(m) ==
    /\ handler[m] = "waiting"
    /\ handler' = [handler EXCEPT ![m] = NextRound(m)]
    /\ UNCHANGED <<calling, stop_requested, current, listener, stopping, requests,
                   answers, runs>>

\* A message without headers, or one whose body is no dictionary, has come to
\* the topic: the exception ends the task.
HandlerFails(m) ==
    /\ handler[m] = "waiting"
    /\ handler' = [handler EXCEPT ![m] = "ended"]
    /\ UNCHANGED <<calling, stop_requested, current, listener, stopping, requests,
                   answers, runs>>

-----------------------------------------------------------------------------
(* The reply handler.                                                      *)

\* A reply that nobody waits for any more is dropped.
TakeReply(a) ==
    LET m == a.to  id == a.correlation_id IN
    /\ a \in answers /\ listener[m] = "waiting"
    /\ answers' = answers \ {a}
    /\ reply_queues' = [reply_queues EXCEPT ![m] =
          IF id \in DOMAIN @ THEN Put(@, id, Append(@[id], a)) ELSE @]
    /\ listener' = [listener EXCEPT ![m] = NextRound(m)]
    /\ UNCHANGED <<rpc_count, pc, cid, replies, stop_requested, handler, current,
                   stopping, requests, runs>>

ListenerIdles(m) ==
    /\ listener[m] = "waiting"
    /\ listener' = [listener EXCEPT ![m] = NextRound(m)]
    /\ UNCHANGED <<calling, stop_requested, handler, current, stopping, requests,
                   answers, runs>>

\* A message without headers has come to the topic: the exception ends the task.
ListenerFails(m) ==
    /\ listener[m] = "waiting"
    /\ listener' = [listener EXCEPT ![m] = "ended"]
    /\ UNCHANGED <<calling, stop_requested, handler, current, stopping, requests,
                   answers, runs>>

-----------------------------------------------------------------------------
(* aio_start() and aio_stop().                                             *)

Start(m) ==
    /\ handler[m] = "none"
    /\ handler' = [handler EXCEPT ![m] = "waiting"]
    /\ listener' = [listener EXCEPT ![m] = "waiting"]
    /\ tasks' = [tasks EXCEPT ![m] = {"call", "reply"}]
    /\ UNCHANGED <<calling, stop_requested, current, stopper, requests, answers, runs>>

RequestStop(m) ==
    /\ m \in Stoppable /\ ~stop_requested[m]
    /\ stop_requested' = [stop_requested EXCEPT ![m] = TRUE]
    /\ UNCHANGED <<calling, handler, current, listener, stopping, requests, answers, runs>>

\* CancelledError in the function: it and the calls it waits for are over, and
\* the handler goes on to reply.
CancelFunction(m) ==
    /\ handler' = [handler EXCEPT ![m] = "replying"]
    /\ pc' = [c \in Calls |-> IF c \in Inner(m) THEN "cancelled" ELSE pc[c]]
    /\ UNCHANGED current

\* CancelledError at any other await ends the task; a reply that was being
\* published may have gone out (Reply) or not.
CancelHandler(m) ==
    /\ handler' = [handler EXCEPT ![m] = "ended"]
    /\ current' = [current EXCEPT ![m] = None]
    /\ UNCHANGED pc

\* The next task is cancelled and awaited.  One that has ended is taken out of
\* the set by its callback, or cancelled to no effect: it is not waited for.
Cancel(m, t) ==
    /\ tasks' = [tasks EXCEPT ![m] = @ \ {t}]
    /\ stopper' = [stopper EXCEPT ![m] = t]
    /\ \/ /\ t = "call" /\ handler[m] = "running"
          /\ CancelFunction(m) /\ UNCHANGED listener
       \/ /\ t = "call" /\ handler[m] \in {"waiting", "replying"}
          /\ CancelHandler(m) /\ UNCHANGED listener
       \/ /\ t = "call" /\ handler[m] = "ended"
          /\ UNCHANGED <<handler, current, pc, listener>>
       \/ /\ t = "reply"
          /\ listener' = [listener EXCEPT ![m] = "ended"]
          /\ UNCHANGED <<handler, current, pc>>

\* The task that is awaited has ended.
Awaited(m) ==
    \/ stopper[m] = "new" /\ m \in Stoppable /\ handler[m] # "none"
    \/ stopper[m] = "call" /\ handler[m] = "ended"
    \/ stopper[m] = "reply" /\ listener[m] = "ended"

Stop(m) ==
    /\ Awaited(m)
    /\ \/ \E t \in tasks[m] : Cancel(m, t)
       \/ /\ tasks[m] = {}
          /\ stopper' = [stopper EXCEPT ![m] = "done"]
          /\ UNCHANGED <<tasks, handler, current, pc, listener>>
    /\ UNCHANGED <<rpc_count, reply_queues, cid, replies, stop_requested, requests,
                   answers, runs>>

-----------------------------------------------------------------------------
Next ==
    \/ \E c \in Calls : Call(c) \/ Sent(c) \/ Receive(c) \/ GiveUp(c) \/ CancelCall(c)
    \/ \E r \in requests : Take(r)
    \/ \E a \in answers : TakeReply(a)
    \/ \E m \in Meshes :
        \/ FunctionEnds(m) \/ Reply(m) \/ ReplyFails(m)
        \/ HandlerIdles(m) \/ HandlerFails(m)
        \/ ListenerIdles(m) \/ ListenerFails(m)
        \/ Start(m) \/ RequestStop(m) \/ Stop(m)

\* The event loops go on, publishing and timeouts come to their end, and so do
\* the user's functions as far as they do not wait for a call.
Fairness ==
    /\ \A c \in Calls : WF_vars(Sent(c)) /\ WF_vars(Receive(c) \/ GiveUp(c))
    /\ \A m \in Meshes :
        /\ WF_vars(FunctionEnds(m)) /\ WF_vars(Reply(m))
        /\ WF_vars(HandlerIdles(m)) /\ WF_vars(ListenerIdles(m))
        /\ WF_vars(stopper[m] # "new" /\ Stop(m))

Spec     == Init /\ [][Next]_vars
FairSpec == Spec /\ Fairness

-----------------------------------------------------------------------------
(* Properties.                                                             *)

\* The table of reply queues is exactly the calls that are not over, and those
\* that were cancelled: each has its queue under an id of its own before a
\* reply can come, and nothing else is left in the table.
Registered(c) == pc[c] \in {"sending", "waiting", "cancelled"}

QueuesExact ==
    /\ \A m \in Meshes :
        DOMAIN reply_queues[m] = {cid[c] : c \in {c \in Calls : By[c] = m /\ Registered(c)}}
    /\ \A c, d \in Calls :
        Registered(c) /\ Registered(d) /\ By[c] = By[d] /\ cid[c] = cid[d] => c = d

\* A call returns no reply but those to itself, however late the replies to
\* the calls before it are.
OwnReplies ==
    \A c \in Calls : \A a \in replies[c] : a.call = c /\ a.from \in runs[c]

\* Every call comes to its end, whatever is lost and whoever is stopped.
CallsEnd == \A c \in Calls : Open(c) ~> ~Open(c)

\* No function waits for ever, although the meshes that it calls may be waiting
\* for a call of their own to the mesh that executes it, or be this mesh.
FunctionsEnd == \A m \in Meshes : handler[m] = "running" ~> handler[m] # "running"

\* A call made by a function is over before the function is, also when that is
\* cancelled, so that none is left waiting on behalf of a function that has ended.
NoOrphans ==
    \A c \in Calls : Open(c) /\ Within[c] # None =>
        handler[By[c]] = "running" /\ current[By[c]].call = Within[c]

\* The three together: neither a call nor a function waits for ever, and no call
\* waits longer than the function that made it.
CallsAndFunctionsEnd == []NoOrphans /\ CallsEnd /\ FunctionsEnd

\* When aio_stop() has returned, no handler takes a message any more, whatever it
\* was executing when it was cancelled.
StoppedIsQuiet ==
    \A m \in Meshes : stopper[m] = "done" => handler[m] = "ended" /\ listener[m] = "ended"

\* aio_stop() comes to its end when the process has been told to stop, and not
\* before both handlers have ended.
StopEndsOnRequest ==
    /\ []StoppedIsQuiet
    /\ \A m \in Meshes :
          stopper[m] # "new" /\ stop_requested[m] ~> stopper[m] = "done"

\* The docstring of aio_start() says that the tasks can be stopped by
\* aio_stop(): it comes to its end.
StopEnds == \A m \in Meshes : stopper[m] # "new" ~> stopper[m] = "done"

-----------------------------------------------------------------------------
(* The mesh implements RPC: queues, ids and late replies make no difference *)
(* to what a call returns and how often a function is executed.             *)

CallState ==
    [c \in Calls |-> IF pc[c] = "new" THEN "new" ELSE IF Open(c) THEN "open" ELSE "closed"]

Executing == [m \in Meshes |-> IF handler[m] = "running" THEN current[m].call ELSE None]

Received == [c \in Calls |-> {<<r.call, r.from>> : r \in replies[c]}]

Promise == INSTANCE RPC WITH state <- CallState, busy <- Executing, got <- Received

\* A call is executed at most once on each mesh of the name it asks for, and it
\* returns answers from executions of itself that are over, one for each.
ImplementsRPC == Promise!Spec
=============================================================================
