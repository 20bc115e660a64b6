----------------------------- MODULE RabbitRPC -----------------------------
(***************************************************************************)
(* Remote procedure calls through RabbitMQ                                 *)
(* (lib/slowpy/slowpy/control/control_AsyncRabbitMQ.py: RpcCallNode,       *)
(* RpcFunctionNode, QueueNode, PublisherNode).  Calls made on one queue    *)
(* share it for their replies: each takes the first reply there is, keeps  *)
(* it when its correlation id is its own, and otherwise hands it back.     *)
(*                                                                         *)
(* The broker is external: a reply that is handed back returns to its old  *)
(* place, so that the queue is a set of numbered replies, taken in order.  *)
(***************************************************************************)
EXTENDS Integers

CONSTANTS RpcCaller,
          MaxReplies     \* how many replies the callees send, in all

ASSUME RabbitAssumption == MaxReplies \in Nat

VARIABLES rpcCall,      \* where each call is
          rpcHeld,      \* the reply a call has taken: at most one, as a set
          rpcRequests,  \* calls whose request has not been answered
          rpcQueue,     \* replies [n, to] in the queue
          rpcSent,      \* how many replies were sent
          rpcStop, rpcClosed

rabbitVars == <<rpcCall, rpcHeld, rpcRequests, rpcQueue, rpcSent, rpcStop, rpcClosed>>

Reply == [n : 1 .. MaxReplies, to : RpcCaller]
Waiting == {"poll", "sleep"}

RabbitTypeOK ==
  /\ rpcCall \in [RpcCaller -> {"new", "poll", "hold", "sleep", "done", "none", "empty", "raised"}]
  /\ rpcHeld \in [RpcCaller -> SUBSET Reply]
  /\ rpcRequests \subseteq RpcCaller /\ rpcQueue \subseteq Reply
  /\ rpcSent \in 0 .. MaxReplies
  /\ {rpcStop, rpcClosed} \subseteq BOOLEAN

RabbitInit ==
  /\ rpcCall = [c \in RpcCaller |-> "new"] /\ rpcHeld = [c \in RpcCaller |-> {}]
  /\ rpcRequests = {} /\ rpcQueue = {} /\ rpcSent = 0
  /\ rpcStop = FALSE /\ rpcClosed = FALSE

Becomes(c, s) == rpcCall' = [rpcCall EXCEPT ![c] = s]

PublishRequest(c) ==
  /\ rpcCall[c] = "new"
  /\ Becomes(c, "poll")
  /\ rpcRequests' = rpcRequests \cup {c}
  /\ UNCHANGED <<rpcHeld, rpcQueue, rpcSent, rpcStop, rpcClosed>>

\* The request cannot be published: the call returns None, after aio_close()
\* of the connection, its exchanges and queues (once at most in the model).
\* The get() of the other calls is cancelled, which is the end of the call with
\* an empty message when a stop is asked for and raises otherwise; those that sleep
\* or hold a reply find no queue after it, which raises.  What was taken goes back
\* to the broker.
PublishFails(c) ==
  /\ rpcCall[c] = "new" /\ ~rpcClosed
  /\ rpcClosed' = TRUE
  /\ rpcQueue' = rpcQueue \cup UNION {rpcHeld[d] : d \in RpcCaller}
  /\ rpcHeld' = [d \in RpcCaller |-> {}]
  /\ rpcCall' = [d \in RpcCaller |->
       CASE d = c -> "none"
         [] d # c /\ rpcCall[d] = "poll" -> IF rpcStop THEN "empty" ELSE "raised"
         [] d # c /\ rpcCall[d] \in {"sleep", "hold"} -> "raised"
         [] OTHER -> rpcCall[d]]
  /\ UNCHANGED <<rpcRequests, rpcSent, rpcStop>>

\* RpcFunctionNode.aio_get() of some callee: with a fanout or topic exchange
\* there may be more than one, so that a request can be answered again.
SendReply(c) ==
  /\ c \in rpcRequests /\ rpcSent < MaxReplies
  /\ rpcSent' = rpcSent + 1
  /\ rpcQueue' = rpcQueue \cup {[n |-> rpcSent + 1, to |-> c]}
  /\ rpcRequests' \in {rpcRequests, rpcRequests \ {c}}
  /\ UNCHANGED <<rpcCall, rpcHeld, rpcStop, rpcClosed>>

First == CHOOSE r \in rpcQueue : \A s \in rpcQueue : r.n <= s.n

GetReply(c) ==
  /\ rpcCall[c] = "poll" /\ rpcQueue # {}
  /\ rpcHeld' = [rpcHeld EXCEPT ![c] = {First}]
  /\ rpcQueue' = rpcQueue \ {First}
  /\ Becomes(c, "hold")
  /\ UNCHANGED <<rpcRequests, rpcSent, rpcStop, rpcClosed>>

\* No reply: the stop and the timeout are looked at here only.
GetNothing(c) ==
  /\ rpcCall[c] = "poll" /\ rpcQueue = {}
  /\ rpcCall' \in {[rpcCall EXCEPT ![c] = s] : s \in IF rpcStop THEN {"empty"} ELSE {"empty", "sleep"}}
  /\ UNCHANGED <<rpcHeld, rpcRequests, rpcQueue, rpcSent, rpcStop, rpcClosed>>

\* Mutant: a reply that is not one's own is dropped.
MutRequeue(c) ==
  /\ rpcQueue' = rpcQueue
  /\ Becomes(c, "poll")

\* nack(requeue=True), and again without a pause.  Two calls that hold each
\* other's reply may go on like that, and a reply nobody waits for any more
\* keeps all later calls from theirs.
Requeue(c) ==
  /\ rpcQueue' = rpcQueue \cup rpcHeld[c]
  /\ Becomes(c, "poll")

SelectReply(c) ==
  /\ rpcCall[c] = "hold"
  /\ rpcHeld' = [rpcHeld EXCEPT ![c] = {}]
  /\ \/ /\ \E r \in rpcHeld[c] : r.to = c
        /\ Becomes(c, "done") /\ UNCHANGED rpcQueue
     \/ /\ \E r \in rpcHeld[c] : r.to # c
        /\ Requeue(c)
  /\ UNCHANGED <<rpcRequests, rpcSent, rpcStop, rpcClosed>>

WakeUp(c) ==
  /\ rpcCall[c] = "sleep"
  /\ Becomes(c, "poll")
  /\ UNCHANGED <<rpcHeld, rpcRequests, rpcQueue, rpcSent, rpcStop, rpcClosed>>

RabbitStop ==
  /\ ~rpcStop /\ rpcStop' = TRUE
  /\ UNCHANGED <<rpcCall, rpcHeld, rpcRequests, rpcQueue, rpcSent, rpcClosed>>

CallStep(c) == GetReply(c) \/ GetNothing(c) \/ SelectReply(c) \/ WakeUp(c)

RabbitNext ==
  \/ \E c \in RpcCaller : PublishRequest(c) \/ PublishFails(c) \/ SendReply(c) \/ CallStep(c)
  \/ RabbitStop

RabbitSpec == RabbitInit /\ [][RabbitNext]_rabbitVars

(***************************************************************************)
(* Properties                                                              *)
(***************************************************************************)
Around == rpcQueue \cup UNION {rpcHeld[d] : d \in RpcCaller}

\* As long as a call waits, a reply to it is not lost to another one: every
\* reply sent to a call that has not got one is in the queue or in the hands of
\* a call that will hand it back.
RepliesKept ==
  \A c \in RpcCaller : rpcCall[c] \in Waiting \cup {"hold"} =>
    (c \in rpcRequests \/ \E r \in Around : r.to = c)
=============================================================================
