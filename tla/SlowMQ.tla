------------------------------- MODULE SlowMQ -------------------------------
(***************************************************************************)
(* The websocket message broker of the server, SlowMQComponent in          *)
(* app/server/sd_slowmq.py.                                                *)
(*                                                                         *)
(* Each connection is served by one asyncio task running connect().  A     *)
(* task gives way only at an await that suspends: receive(), the send of a *)
(* reply, and the gather() over the sends of a published message.  Between *)
(* two of them it runs alone, so each action below is one such stretch.    *)
(* The sends of a gather() are tasks of their own; sends holds those that  *)
(* were started and have not finished.                                     *)
(*                                                                         *)
(* Abstracted: client names (used in log lines only), the bodies of        *)
(* messages, and the order in which a dictionary lists its keys.           *)
(* The websocket below send() is external: a send to a connection whose    *)
(* peer is gone is either lost or raises, and sends to one websocket that  *)
(* were started by different tasks may overtake each other.                *)
(***************************************************************************)
EXTENDS Naturals, FiniteSets, Sequences, TopicMatch, PyDict

CONSTANTS Conns,        \* websocket connections; each is made once
          Patterns,     \* topic patterns clients subscribe to, valid or not
          Topics,       \* topics clients publish to
          MaxPublish,   \* bound on the number of messages published in all
          LateJoin,     \* may a client connect after another one has left?
          Slow,         \* connections whose peer may stop reading
          NoId          \* client_id before it is assigned

ASSUME SlowMQAssumption ==
    /\ IsFiniteSet(Conns)
    /\ MaxPublish \in Nat
    /\ LateJoin \in BOOLEAN
    /\ Slow \subseteq Conns
    /\ NoId \notin Nat
    /\ Patterns \cup Topics \subseteq Seq(STRING)

VARIABLES
    websockets,   \* self.websockets   client_id -> websocket
    clients,      \* self.clients      client_id -> the client
    subscribers,  \* self.subscribers  topic pattern -> set of client_id
    pc,           \* where the task of each connection is
    client_id,    \* its local variable client_id
    closed,       \* has the peer gone?
    sends,        \* started and unfinished websocket.send() calls
    log,          \* history: the published messages
    delivered,    \* history: what each peer was sent, as indices of log
    reused        \* history: has add_client ever given out an id in use?

registry == <<websockets, clients, subscribers>>
history  == <<log, delivered, reused>>
vars     == <<registry, pc, client_id, closed, sends, history>>

NoPattern == <<>>
Live(c)   == pc[c] \in {"receive", "await", "raised"}

\* A started send.  by: the task that awaits it; to: the websocket; via: the
\* pattern it was found under; n: the index of the message in log, 0 for the
\* answer to a request.
Send == [by: Conns, to: Conns, via: Patterns \cup {NoPattern}, n: Nat]

TypeOK ==
    /\ websockets \in [DOMAIN websockets -> Conns]
    /\ clients \in [DOMAIN clients -> Conns]
    /\ subscribers \in [DOMAIN subscribers -> SUBSET Nat]
    /\ DOMAIN websockets \subseteq Nat
    /\ DOMAIN clients \subseteq Nat /\ IsFiniteSet(DOMAIN clients)
    /\ DOMAIN subscribers \subseteq Patterns
    /\ pc \in [Conns -> {"new", "receive", "await", "raised", "done", "refused"}]
    /\ client_id \in [Conns -> Nat \cup {NoId}]
    /\ \A c \in Conns : client_id[c] = NoId <=> pc[c] \in {"new", "refused"}
    /\ closed \in [Conns -> BOOLEAN]
    /\ sends \subseteq Send
    /\ log \in Seq([from: Conns, topic: Topics])
    /\ delivered \in [Conns -> Seq(Nat)]
    /\ reused \in BOOLEAN

Init ==
    /\ websockets = EmptyDict
    /\ clients = EmptyDict
    /\ subscribers = EmptyDict
    /\ pc = [c \in Conns |-> "new"]
    /\ client_id = [c \in Conns |-> NoId]
    /\ closed = [c \in Conns |-> FALSE]
    /\ sends = {}
    /\ log = <<>>
    /\ delivered = [c \in Conns |-> <<>>]
    /\ reused = FALSE

-----------------------------------------------------------------------------
(* Connecting.                                                             *)

NextId == Cardinality(DOMAIN clients)     \* len(self.clients)

\* accept() succeeds and add_client() registers the connection.
Connect(c) ==
    /\ pc[c] = "new"
    /\ LateJoin \/ \A d \in Conns : pc[d] # "done"
    /\ client_id' = [client_id EXCEPT ![c] = NextId]
    /\ clients' = Put(clients, NextId, c)
    /\ websockets' = Put(websockets, NextId, c)
    /\ reused' = (reused \/ NextId \in DOMAIN clients)
    /\ pc' = [pc EXCEPT ![c] = "receive"]
    /\ UNCHANGED <<subscribers, closed, sends, log, delivered>>

\* Mutant: no return after a failed accept().
AcceptFails_FallsThrough(c) ==
    /\ pc[c] = "new"
    /\ pc' = [pc EXCEPT ![c] = "receive"]
    /\ UNCHANGED <<registry, client_id, closed, sends, history>>

\* accept() raises: connect() returns without a trace.
AcceptFails(c) ==
    /\ pc[c] = "new"
    /\ pc' = [pc EXCEPT ![c] = "refused"]
    /\ closed' = [closed EXCEPT ![c] = TRUE]
    /\ UNCHANGED <<registry, client_id, sends, history>>

\* The peer goes away; its task learns of it at its next receive() or send.
PeerCloses(c) ==
    /\ Live(c) /\ ~closed[c]
    /\ closed' = [closed EXCEPT ![c] = TRUE]
    /\ UNCHANGED <<registry, pc, client_id, sends, history>>

-----------------------------------------------------------------------------
(* Leaving.                                                                *)

\* Mutant: the subscriptions are left to the next owner of the id.
RemoveClient_KeepsSubs(c, subs) ==
    /\ websockets' = Pop(websockets, client_id[c])
    /\ clients' = Pop(clients, client_id[c])
    /\ subscribers' = subs
    /\ pc' = [pc EXCEPT ![c] = "done"]
    /\ closed' = [closed EXCEPT ![c] = TRUE]
    /\ UNCHANGED <<client_id, sends, history>>

\* The finally clause: remove_client(), run on the subscriptions subs.  The
\* websocket goes first, so reply_error() finds none and nothing suspends.
\* unsubscribe() looks the name up in clients for its log line: when the entry
\* is missing, KeyError ends the clean-up after the first subscription.
RemoveClient(c, subs) ==
    LET id   == client_id[c]
        held == {p \in DOMAIN subs : id \in subs[p]}
    IN  /\ websockets' = Pop(websockets, id)
        /\ clients' = Pop(clients, id)
        /\ \/ /\ id \in DOMAIN clients \/ held = {}
              /\ subscribers' = [p \in DOMAIN subs |-> subs[p] \ {id}]
           \/ /\ id \notin DOMAIN clients
              /\ \E p \in held : subscribers' = [subs EXCEPT ![p] = @ \ {id}]
        /\ pc' = [pc EXCEPT ![c] = "done"]
        /\ closed' = [closed EXCEPT ![c] = TRUE]
        /\ UNCHANGED <<client_id, sends, history>>

\* Mutant: the task ends without remove_client().
LeavesNoCleanup(c) ==
    /\ pc' = [pc EXCEPT ![c] = "done"]
    /\ closed' = [closed EXCEPT ![c] = TRUE]
    /\ UNCHANGED <<registry, client_id, sends, history>>

Disconnect_NoCleanup(c) == pc[c] = "receive" /\ closed[c] /\ LeavesNoCleanup(c)

\* receive() raises ConnectionClosed.
Disconnect(c) ==
    /\ pc[c] = "receive" /\ closed[c]
    /\ RemoveClient(c, subscribers)

\* A send awaited by this task raised.
SendRaised(c) ==
    /\ pc[c] = "raised"
    /\ RemoveClient(c, subscribers)

\* A message whose headers are not what handle_message() expects (headers that
\* are no object, a topic that is no string): the exception ends the task.  A
\* message that is no JSON or has no headers only makes connect() go round.
MalformedMessage(c) ==
    /\ pc[c] = "receive"
    /\ RemoveClient(c, subscribers)

-----------------------------------------------------------------------------
(* Requests.                                                               *)

\* Mutant: the sends are started and not awaited.
Await_NoWait(c, new) == sends' = sends \cup new /\ UNCHANGED pc

\* The task of c starts the sends in new and waits for them.
Await(c, new) ==
    /\ sends' = sends \cup new
    /\ pc' = [pc EXCEPT ![c] = IF new = {} THEN "receive" ELSE "await"]

\* A reply or reply_error(): sent to the websocket found under the task's
\* client_id, and only if the request has a message_id (wanted).
Answer(c, wanted) ==
    Await(c, {[by |-> c, to |-> websockets[id], via |-> NoPattern, n |-> 0] :
                 id \in {i \in {client_id[c]} \cap DOMAIN websockets : wanted}})

\* Mutant: the set is made anew at each subscription.
Subscribed_Anew(subs, p, id) == Put(subs, p, {id})

\* subs with client id added to the subscribers of p, made if there are none.
Subscribed(subs, p, id) ==
    Put(subs, p, (IF p \in DOMAIN subs THEN subs[p] ELSE {}) \cup {id})

Subscribe(c, p, wanted) ==
    LET subs == Subscribed(subscribers, p, client_id[c])
    IN  /\ pc[c] = "receive"
        /\ \/ /\ ~Valid(p)
              /\ Answer(c, wanted)
              /\ UNCHANGED <<registry, client_id, closed, history>>
           \/ /\ Valid(p) /\ client_id[c] \in DOMAIN clients
              /\ subscribers' = subs
              /\ Answer(c, wanted)
              /\ UNCHANGED <<websockets, clients, client_id, closed, history>>
           \/ /\ Valid(p) /\ client_id[c] \notin DOMAIN clients   \* KeyError
              /\ RemoveClient(c, subs)

Unsubscribe(c, p, wanted) ==
    LET known == p \in DOMAIN subscribers /\ client_id[c] \in subscribers[p]
    IN  /\ pc[c] = "receive"
        /\ \/ /\ ~known
              /\ Answer(c, wanted)
              /\ UNCHANGED <<registry, client_id, closed, history>>
           \/ /\ known /\ client_id[c] \in DOMAIN clients
              /\ subscribers' = [subscribers EXCEPT ![p] = @ \ {client_id[c]}]
              /\ UNCHANGED <<websockets, clients, pc, client_id, closed, sends, history>>
           \/ /\ known /\ client_id[c] \notin DOMAIN clients      \* KeyError
              /\ RemoveClient(c, [subscribers EXCEPT ![p] = @ \ {client_id[c]}])

\* The receivers that publish() collects: a client found under two patterns is
\* collected twice.
Receivers(topic) ==
    {r \in Conns \X Patterns :
        /\ r[2] \in DOMAIN subscribers /\ Match(r[2], topic)
        /\ \E id \in subscribers[r[2]] \cap DOMAIN websockets : websockets[id] = r[1]}

Publish(c, topic) ==
    /\ pc[c] = "receive"
    /\ Len(log) < MaxPublish
    /\ log' = Append(log, [from |-> c, topic |-> topic])
    /\ Await(c, {[by |-> c, to |-> r[1], via |-> r[2], n |-> Len(log')] :
                    r \in Receivers(topic)})
    /\ UNCHANGED <<registry, client_id, closed, delivered, reused>>

-----------------------------------------------------------------------------
(* The end of a send.                                                      *)

\* gather() returns when the last send it waits for is done.
Finish(s) ==
    /\ sends' = sends \ {s}
    /\ pc' = IF pc[s.by] = "await" /\ \A r \in sends' : r.by # s.by
             THEN [pc EXCEPT ![s.by] = "receive"] ELSE pc

\* Mutant: one send after the other, the slow peer's first.
Deliver_InTurn(s) ==
    /\ s \in sends /\ ~closed[s.to]
    /\ \A r \in sends : r.by = s.by /\ r.to \in Slow => r = s
    /\ Finish(s)
    /\ UNCHANGED <<registry, client_id, closed, history>>

\* Mutant: a send is done by the task of the connection it goes to.
Deliver_ByOwner(s) ==
    /\ s \in sends /\ ~closed[s.to] /\ pc[s.to] = "receive"
    /\ Finish(s)
    /\ delivered' = IF s.n = 0 THEN delivered
                    ELSE [delivered EXCEPT ![s.to] = Append(@, s.n)]
    /\ UNCHANGED <<registry, client_id, closed, log, reused>>

Deliver(s) ==
    /\ s \in sends /\ ~closed[s.to]
    /\ Finish(s)
    /\ delivered' = IF s.n = 0 THEN delivered
                    ELSE [delivered EXCEPT ![s.to] = Append(@, s.n)]
    /\ UNCHANGED <<registry, client_id, closed, log, reused>>

\* The peer is gone and the server's websocket layer drops the frame.
Lose(s) ==
    /\ s \in sends /\ closed[s.to]
    /\ Finish(s)
    /\ UNCHANGED <<registry, client_id, closed, history>>

\* Mutant: the exception is dropped together with the end of the send.
Fail_Swallowed(s) ==
    /\ s \in sends /\ closed[s.to]
    /\ sends' = sends \ {s}
    /\ UNCHANGED <<registry, pc, client_id, closed, history>>

\* The peer is gone and send() raises.  gather() passes the first exception to
\* the awaiting task and lets the other sends run on.
Fail(s) ==
    /\ s \in sends /\ closed[s.to]
    /\ sends' = sends \ {s}
    /\ pc' = IF pc[s.by] = "await" THEN [pc EXCEPT ![s.by] = "raised"] ELSE pc
    /\ UNCHANGED <<registry, client_id, closed, history>>

-----------------------------------------------------------------------------
Next ==
    \/ \E c \in Conns :
        \/ Connect(c) \/ AcceptFails(c) \/ PeerCloses(c)
        \/ Disconnect(c) \/ SendRaised(c) \/ MalformedMessage(c)
        \/ \E p \in Patterns, wanted \in BOOLEAN :
            Subscribe(c, p, wanted) \/ Unsubscribe(c, p, wanted)
        \/ \E t \in Topics : Publish(c, t)
    \/ \E s \in sends : Deliver(s) \/ Lose(s) \/ Fail(s)

\* The event loop runs every task that can go on, and the peers that are not
\* slow read, so that a started send comes to its end whatever else is sent.
\* Disconnect is strongly fair: what the peer sent before it left is finite, so
\* its task comes to the end of it.
Fairness ==
    /\ \A c \in Conns : SF_vars(Disconnect(c)) /\ WF_vars(SendRaised(c))
    /\ \A c, d \in Conns :
        WF_vars(\E s \in sends :
                   /\ s.by = c /\ s.to = d /\ (d \notin Slow \/ closed[d])
                   /\ (Deliver(s) \/ Lose(s) \/ Fail(s)))

Spec     == Init /\ [][Next]_vars
FairSpec == Spec /\ Fairness

-----------------------------------------------------------------------------
(* Properties.                                                             *)

\* A registered websocket belongs to a task that is still serving it and that
\* knows itself by that id: publish() never starts a send to a connection
\* whose clean-up has run.  It holds even after ids were given out twice.
RegisteredIsLive ==
    \A id \in DOMAIN websockets :
        Live(websockets[id]) /\ client_id[websockets[id]] = id

\* Until an id is given out twice, the three dictionaries are exactly the live
\* connections: each is found under its own id, nobody else is, and only live
\* ids are subscribed (a clean-up leaves nothing behind for the next owner of
\* the id).
RegistryExact ==
    ~reused =>
        /\ \A c \in Conns : Live(c) =>
              /\ client_id[c] \in DOMAIN websockets \cap DOMAIN clients
              /\ websockets[client_id[c]] = c
              /\ clients[client_id[c]] = c
        /\ DOMAIN websockets = DOMAIN clients
        /\ \A p \in DOMAIN subscribers : subscribers[p] \subseteq DOMAIN clients

\* A peer gets the messages of one publisher in the order they were published,
\* although the sends run as tasks of their own: publish() waits for them
\* before its task takes the next request, and a failed send ends the task.
InOrder ==
    \A c \in Conns : \A i, j \in DOMAIN delivered[c] :
        /\ i < j
        /\ log[delivered[c][i]].from = log[delivered[c][j]].from
        => delivered[c][i] <= delivered[c][j]

\* What the comments on the three dictionaries say: a client_id stands for one
\* websocket and one client.
ClientIdIdentifiesClient ==
    \A c, d \in Conns : Live(c) /\ Live(d) /\ c # d => client_id[c] # client_id[d]

\* A task waits only while a send of its own is under way: the last one to end,
\* or the first one to fail, ends the wait, also when others run on.
AwaitsASend == \A c \in Conns : pc[c] = "await" => \E s \in sends : s.by = c

\* So a task waits for ever on the sends it started only if one of them is to a
\* peer that has stopped reading: a publisher gets to its next request, or to
\* its end, although those it sends to may be waiting to send to it.
HeldUp(c) == \E s \in sends : s.by = c /\ s.to \in Slow

PublisherGoesOn ==
    /\ []AwaitsASend
    /\ \A c \in Conns : pc[c] = "await" ~> pc[c] # "await" \/ HeldUp(c)

\* ... and a peer that went away is eventually forgotten: its task ends and
\* runs its clean-up, unless a peer that has stopped reading holds it up.
DeadPeerForgotten ==
    \A c \in Conns : closed[c] ~> pc[c] \in {"done", "refused"} \/ HeldUp(c)

\* A peer that stopped reading holds up the publisher, but not the copies of
\* the same message to the others: gather() has started them all.
OthersServed ==
    \A c \in Conns \ Slow : \A n \in 1..MaxPublish :
        (\E s \in sends : s.to = c /\ s.n = n)
            ~> (\A s \in sends : ~(s.to = c /\ s.n = n))

-----------------------------------------------------------------------------
(* The broker implements PubSub.                                           *)

Member(c) == IF pc[c] = "new" THEN "new" ELSE IF Live(c) THEN "in" ELSE "out"

Membership == [c \in Conns |-> Member(c)]

Subscriptions ==
    [c \in Conns |-> IF Live(c)
                     THEN {p \in DOMAIN subscribers : client_id[c] \in subscribers[p]}
                     ELSE {}]

Copies == {[to |-> s.to, via |-> s.via, n |-> s.n] : s \in {s \in sends : s.n # 0}}

Promise == INSTANCE PubSub WITH
    member <- Membership, subs <- Subscriptions, gone <- closed, inflight <- Copies

\* Whoever comes and goes, each step of the broker is one of PubSub until an id
\* is given out twice: what clients have to do with each other is only what PubSub
\* says, whatever ids, dictionaries, tasks and failing sends do.
ImplementsUntilReused == Promise!Init /\ [][~reused' => [Promise!Next]_(Promise!vars)]_vars

\* Without a late join the broker implements PubSub: subscriptions end with
\* their connection, a message reaches the subscribers of that moment through
\* each matching pattern and nobody else, and is lost only by who is gone.
ImplementsPubSub == Promise!Spec
=============================================================================
