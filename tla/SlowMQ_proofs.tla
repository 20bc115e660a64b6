---------------------------- MODULE SlowMQ_proofs ----------------------------
(***************************************************************************)
(* What SlowMQ guarantees for any number of connections, patterns, topics  *)
(* and messages.  Each invariant below is inductive together with TypeOK.  *)
(***************************************************************************)
EXTENDS SlowMQ, MCTopicMatch, FiniteSetTheorems, NaturalsInduction, WellFoundedInduction, TLAPS

\* d[k] = v sets the value of k, adds k to the keys and leaves the others alone.
LEMMA PutType ==
    ASSUME NEW S, NEW D, NEW d \in [D -> S], NEW k, NEW v \in S
    PROVE  /\ Put(d, k, v) \in [D \cup {k} -> S]
           /\ DOMAIN Put(d, k, v) = D \cup {k}
           /\ Put(d, k, v)[k] = v
           /\ \A x \in D : x # k => Put(d, k, v)[x] = d[x]
BY DEF Put

\* d.pop(k, None) takes k out of the keys and leaves the others alone.
LEMMA PopType ==
    ASSUME NEW S, NEW D, NEW d \in [D -> S], NEW k
    PROVE  /\ Pop(d, k) \in [D \ {k} -> S]
           /\ DOMAIN Pop(d, k) = D \ {k}
           /\ \A x \in D \ {k} : Pop(d, k)[x] = d[x]
BY DEF Pop

-----------------------------------------------------------------------------
(* Type correctness.                                                       *)

LEMMA NextIdType == TypeOK => NextId \in Nat
BY FS_CardinalityType DEF TypeOK, NextId

LEMMA InitType == Init => TypeOK
<1> SUFFICES ASSUME Init PROVE TypeOK
    OBVIOUS
<1>1. IsFiniteSet({})
    BY FS_EmptySet
<1>2. /\ websockets = EmptyDict /\ clients = EmptyDict /\ subscribers = EmptyDict
      /\ DOMAIN EmptyDict = {}
      /\ \A S : EmptyDict \in [{} -> S]
    BY DEF Init, EmptyDict
<1>3. sends = {} /\ log = <<>> /\ delivered = [c \in Conns |-> <<>>] /\ reused = FALSE
    BY DEF Init
<1>4. /\ pc = [c \in Conns |-> "new"] /\ client_id = [c \in Conns |-> NoId]
      /\ closed = [c \in Conns |-> FALSE]
    BY DEF Init
<1>5. log \in Seq([from: Conns, topic: Topics]) /\ delivered \in [Conns -> Seq(Nat)]
    BY <1>3
<1> QED
    BY <1>1, <1>2, <1>3, <1>4, <1>5 DEF TypeOK

LEMMA RemoveClientType ==
    ASSUME TypeOK, NEW c \in Conns, Live(c), NEW subs,
           subs \in [DOMAIN subs -> SUBSET Nat], DOMAIN subs \subseteq Patterns,
           RemoveClient(c, subs)
    PROVE  TypeOK'
<1> DEFINE id == client_id[c]
<1>1. /\ websockets' \in [DOMAIN websockets' -> Conns]
      /\ DOMAIN websockets' \subseteq Nat
    <2>1. websockets' = Pop(websockets, id) /\ websockets \in [DOMAIN websockets -> Conns]
        BY DEF TypeOK, RemoveClient
    <2>2. websockets' \in [DOMAIN websockets \ {id} -> Conns]
        BY <2>1, PopType
    <2> QED
        BY <2>2 DEF TypeOK
<1>2. /\ clients' \in [DOMAIN clients' -> Conns]
      /\ DOMAIN clients' \subseteq Nat
      /\ DOMAIN clients' = DOMAIN clients \ {id}
    <2>1. clients' = Pop(clients, id) /\ clients \in [DOMAIN clients -> Conns]
        BY DEF TypeOK, RemoveClient
    <2>2. clients' \in [DOMAIN clients \ {id} -> Conns]
        BY <2>1, PopType
    <2> QED
        BY <2>2 DEF TypeOK
<1>3. IsFiniteSet(DOMAIN clients')
    BY <1>2, FS_Subset DEF TypeOK
<1>4. /\ subscribers' \in [DOMAIN subscribers' -> SUBSET Nat]
      /\ DOMAIN subscribers' \subseteq Patterns
    BY DEF RemoveClient
<1> QED
    BY <1>1, <1>2, <1>3, <1>4, SlowMQAssumption DEF TypeOK, RemoveClient, Live, history

LEMMA AwaitType ==
    ASSUME TypeOK, NEW c \in Conns, pc[c] = "receive", NEW new \in SUBSET Send,
           Await(c, new)
    PROVE  /\ sends' \subseteq Send
           /\ pc' \in [Conns -> {"new", "receive", "await", "raised", "done", "refused"}]
           /\ \A d \in Conns : client_id[d] = NoId <=> pc'[d] \in {"new", "refused"}
BY DEF Await, TypeOK

LEMMA AnswerType ==
    ASSUME TypeOK, NEW c \in Conns, pc[c] = "receive", NEW wanted \in BOOLEAN,
           Answer(c, wanted)
    PROVE  /\ sends' \subseteq Send
           /\ pc' \in [Conns -> {"new", "receive", "await", "raised", "done", "refused"}]
           /\ \A d \in Conns : client_id[d] = NoId <=> pc'[d] \in {"new", "refused"}
<1> DEFINE new == {[by |-> c, to |-> websockets[id], via |-> NoPattern, n |-> 0] :
                      id \in {i \in {client_id[c]} \cap DOMAIN websockets : wanted}}
<1>1. new \in SUBSET Send
    BY DEF TypeOK, Send
<1>2. Await(c, new)
    BY DEF Answer
<1> QED
    BY <1>1, <1>2, AwaitType

LEMMA FinishType ==
    ASSUME TypeOK, NEW s \in sends, Finish(s)
    PROVE  /\ sends' \subseteq Send
           /\ pc' \in [Conns -> {"new", "receive", "await", "raised", "done", "refused"}]
           /\ \A d \in Conns : client_id[d] = NoId <=> pc'[d] \in {"new", "refused"}
BY DEF Finish, TypeOK, Send

LEMMA StepType == TypeOK /\ [Next]_vars => TypeOK'
<1> SUFFICES ASSUME TypeOK, [Next]_vars PROVE TypeOK'
    OBVIOUS
<1>1. ASSUME NEW c \in Conns, Connect(c) PROVE TypeOK'
    <2>1. /\ clients' \in [DOMAIN clients' -> Conns]
          /\ websockets' \in [DOMAIN websockets' -> Conns]
          /\ DOMAIN clients' = DOMAIN clients \cup {NextId}
          /\ DOMAIN websockets' = DOMAIN websockets \cup {NextId}
        <3>1. /\ clients' = Put(clients, NextId, c)
              /\ websockets' = Put(websockets, NextId, c)
              /\ clients \in [DOMAIN clients -> Conns]
              /\ websockets \in [DOMAIN websockets -> Conns]
            BY <1>1 DEF Connect, TypeOK
        <3>2. clients' \in [DOMAIN clients \cup {NextId} -> Conns]
            BY <3>1, PutType
        <3>3. websockets' \in [DOMAIN websockets \cup {NextId} -> Conns]
            BY <3>1, PutType
        <3> QED
            BY <3>2, <3>3
    <2>2. IsFiniteSet(DOMAIN clients')
        <3>1. IsFiniteSet(DOMAIN clients \cup {NextId})
            BY FS_AddElement DEF TypeOK
        <3> QED
            BY <2>1, <3>1
    <2> QED
        BY <1>1, <2>1, <2>2, NextIdType, SlowMQAssumption DEF Connect, TypeOK
<1>2. ASSUME NEW c \in Conns, AcceptFails(c) PROVE TypeOK'
    BY <1>2 DEF AcceptFails, TypeOK, registry, history
<1>3. ASSUME NEW c \in Conns, PeerCloses(c) PROVE TypeOK'
    BY <1>3 DEF PeerCloses, TypeOK, registry, history
<1>4. ASSUME NEW c \in Conns, Disconnect(c) PROVE TypeOK'
    BY <1>4, RemoveClientType DEF Disconnect, TypeOK, Live
<1>5. ASSUME NEW c \in Conns, SendRaised(c) PROVE TypeOK'
    BY <1>5, RemoveClientType DEF SendRaised, TypeOK, Live
<1>6. ASSUME NEW c \in Conns, MalformedMessage(c) PROVE TypeOK'
    BY <1>6, RemoveClientType DEF MalformedMessage, TypeOK, Live
<1>7. ASSUME NEW c \in Conns, NEW p \in Patterns, NEW wanted \in BOOLEAN,
             Subscribe(c, p, wanted)
      PROVE  TypeOK'
    <2> DEFINE subs == Subscribed(subscribers, p, client_id[c])
    <2>1. client_id[c] \in Nat /\ Live(c)
        BY <1>7 DEF Subscribe, TypeOK, Live
    <2>2. subs \in [DOMAIN subs -> SUBSET Nat] /\ DOMAIN subs \subseteq Patterns
        <3>1. (IF p \in DOMAIN subscribers THEN subscribers[p] ELSE {}) \cup {client_id[c]}
                 \in SUBSET Nat
            BY <2>1 DEF TypeOK
        <3>2. subscribers \in [DOMAIN subscribers -> SUBSET Nat]
            BY DEF TypeOK
        <3>3. subs \in [DOMAIN subscribers \cup {p} -> SUBSET Nat]
            BY <3>1, <3>2, PutType DEF Subscribed
        <3> QED
            BY <3>3 DEF TypeOK
    <2>3. CASE RemoveClient(c, subs)
        BY <2>1, <2>2, <2>3, RemoveClientType
    <2>4. CASE ~RemoveClient(c, subs)
        <3>1. /\ Answer(c, wanted)
              /\ subscribers' \in {subscribers, subs}
              /\ UNCHANGED <<websockets, clients, client_id, closed, history>>
            BY <1>7, <2>4 DEF Subscribe, registry
        <3> QED
            BY <1>7, <2>2, <3>1, AnswerType DEF Subscribe, TypeOK, history
    <2> QED
        BY <2>3, <2>4
<1>8. ASSUME NEW c \in Conns, NEW p \in Patterns, NEW wanted \in BOOLEAN,
             Unsubscribe(c, p, wanted)
      PROVE  TypeOK'
    <2> DEFINE subs == [subscribers EXCEPT ![p] = @ \ {client_id[c]}]
    <2>1. Live(c)
        BY <1>8 DEF Unsubscribe, Live
    <2>2. subs \in [DOMAIN subs -> SUBSET Nat] /\ DOMAIN subs \subseteq Patterns
        BY DEF TypeOK
    <2>3. CASE RemoveClient(c, subs)
        BY <2>1, <2>2, <2>3, RemoveClientType
    <2>4. CASE UNCHANGED <<websockets, clients, pc, client_id, closed, sends, history>>
               /\ subscribers' = subs
        BY <2>2, <2>4 DEF TypeOK, history
    <2>5. CASE Answer(c, wanted) /\ UNCHANGED <<registry, client_id, closed, history>>
        BY <1>8, <2>5, AnswerType DEF Unsubscribe, TypeOK, registry, history
    <2> QED
        BY <1>8, <2>3, <2>4, <2>5 DEF Unsubscribe
<1>9. ASSUME NEW c \in Conns, NEW t \in Topics, Publish(c, t) PROVE TypeOK'
    <2> DEFINE new == {[by |-> c, to |-> r[1], via |-> r[2], n |-> Len(log')] :
                          r \in Receivers(t)}
    <2>1. log' \in Seq([from: Conns, topic: Topics]) /\ Len(log') \in Nat
        BY <1>9 DEF Publish, TypeOK
    <2>2. new \in SUBSET Send
        BY <2>1 DEF Receivers, Send
    <2>3. Await(c, new) /\ pc[c] = "receive"
        BY <1>9 DEF Publish
    <2> QED
        BY <1>9, <2>1, <2>2, <2>3, AwaitType DEF Publish, TypeOK, registry
<1>10. ASSUME NEW s \in sends, Deliver(s) PROVE TypeOK'
    <2>1. s.to \in Conns /\ s.n \in Nat
        BY DEF TypeOK, Send
    <2>2. delivered' \in [Conns -> Seq(Nat)]
        BY <1>10, <2>1 DEF Deliver, TypeOK
    <2> QED
        BY <1>10, <2>2, FinishType DEF Deliver, TypeOK, registry
<1>11. ASSUME NEW s \in sends, Lose(s) PROVE TypeOK'
    BY <1>11, FinishType DEF Lose, TypeOK, registry, history
<1>12. ASSUME NEW s \in sends, Fail(s) PROVE TypeOK'
    BY <1>12 DEF Fail, TypeOK, Send, registry, history
<1>13. CASE UNCHANGED vars
    BY <1>13 DEF TypeOK, vars, registry, history
<1> QED
    BY <1>1, <1>2, <1>3, <1>4, <1>5, <1>6, <1>7, <1>8, <1>9, <1>10, <1>11, <1>12, <1>13
    DEF Next

\* The state of the broker always has its type: no handler leaves a dictionary
\* with a key or a value of another kind, and a task has its client_id exactly
\* from add_client on.
THEOREM TypeCorrect == Spec => []TypeOK
BY InitType, StepType, PTL DEF Spec

-----------------------------------------------------------------------------
(* The registry.                                                           *)

Registry == RegisteredIsLive /\ RegistryExact

\* A step that leaves the ids and who is live alone, and subscribes nobody who
\* is not registered, keeps the registry in order.
LEMMA SameRegistry ==
    ASSUME Registry, UNCHANGED <<websockets, clients, client_id, reused>>,
           \A c \in Conns : Live(c)' <=> Live(c),
           TypeOK,
           ~reused => \A p \in DOMAIN subscribers' : subscribers'[p] \subseteq DOMAIN clients
    PROVE  Registry'
<1>1. \A id \in DOMAIN websockets : websockets[id] \in Conns
    BY DEF TypeOK
<1>2. RegisteredIsLive'
    BY <1>1 DEF Registry, RegisteredIsLive
<1>3. RegistryExact'
    BY DEF Registry, RegistryExact
<1> QED
    BY <1>2, <1>3 DEF Registry

LEMMA InitRegistry == Init => Registry
<1> SUFFICES ASSUME Init PROVE Registry
    OBVIOUS
<1>1. /\ DOMAIN websockets = {} /\ DOMAIN clients = {} /\ DOMAIN subscribers = {}
    BY DEF Init, EmptyDict
<1>2. \A c \in Conns : ~Live(c)
    BY DEF Init, Live
<1> QED
    BY <1>1, <1>2 DEF Registry, RegisteredIsLive, RegistryExact

LEMMA RemoveClientRegistry ==
    ASSUME TypeOK, Registry, NEW c \in Conns, Live(c), NEW subs,
           ~reused => \A p \in DOMAIN subs : subs[p] \subseteq DOMAIN clients,
           RemoveClient(c, subs)
    PROVE  Registry'
<1> DEFINE id == client_id[c]
<1>1. /\ DOMAIN websockets' = DOMAIN websockets \ {id}
      /\ \A x \in DOMAIN websockets' : websockets'[x] = websockets[x]
    BY DEF RemoveClient, Pop
<1>2. /\ DOMAIN clients' = DOMAIN clients \ {id}
      /\ \A x \in DOMAIN clients' : clients'[x] = clients[x]
    BY DEF RemoveClient, Pop
<1>3. /\ client_id' = client_id /\ reused' = reused
      /\ \A d \in Conns : d # c => (Live(d)' <=> Live(d))
      /\ ~Live(c)'
    BY DEF RemoveClient, Live, TypeOK, history
<1>4. \A x \in DOMAIN websockets : websockets[x] \in Conns
    BY DEF TypeOK
<1>5. RegisteredIsLive'
    BY <1>1, <1>3, <1>4 DEF Registry, RegisteredIsLive
<1>6. ASSUME ~reused PROVE RegistryExact'
    <2>1. id \in DOMAIN clients
        BY <1>6 DEF Registry, RegistryExact
    <2>2. subscribers' = [p \in DOMAIN subs |-> subs[p] \ {id}]
        BY <2>1 DEF RemoveClient
    <2>3. \A p \in DOMAIN subscribers' : subscribers'[p] \subseteq DOMAIN clients'
        BY <1>2, <1>6, <2>2
    <2>4. \A d \in Conns : Live(d)' => d # c /\ client_id[d] # id
        BY <1>3, <1>6 DEF Registry, RegistryExact
    <2> QED
        BY <1>1, <1>2, <1>3, <1>6, <2>3, <2>4 DEF Registry, RegistryExact
<1> QED
    BY <1>3, <1>5, <1>6 DEF Registry, RegistryExact

LEMMA ConnectRegistry ==
    ASSUME TypeOK, Registry, NEW c \in Conns, Connect(c)
    PROVE  Registry'
<1> DEFINE id == NextId
<1>1. /\ DOMAIN websockets' = DOMAIN websockets \cup {id} /\ websockets'[id] = c
      /\ \A x \in DOMAIN websockets : x # id => websockets'[x] = websockets[x]
    BY DEF Connect, Put
<1>2. /\ DOMAIN clients' = DOMAIN clients \cup {id} /\ clients'[id] = c
      /\ \A x \in DOMAIN clients : x # id => clients'[x] = clients[x]
    BY DEF Connect, Put
<1>3. /\ client_id'[c] = id /\ Live(c)' /\ ~Live(c)
      /\ \A d \in Conns : d # c => client_id'[d] = client_id[d] /\ (Live(d)' <=> Live(d))
    BY DEF Connect, Live, TypeOK
<1>4. \A x \in DOMAIN websockets : websockets[x] \in Conns
    BY DEF TypeOK
<1>5. RegisteredIsLive'
    BY <1>1, <1>3, <1>4 DEF Registry, RegisteredIsLive
<1>6. ASSUME ~reused' PROVE RegistryExact'
    <2>1. ~reused /\ id \notin DOMAIN clients
        BY <1>6 DEF Connect
    <2>2. \A d \in Conns : Live(d) => client_id[d] # id
        BY <2>1 DEF Registry, RegistryExact
    <2>3. subscribers' = subscribers
        BY DEF Connect
    <2> QED
        BY <1>1, <1>2, <1>3, <2>1, <2>2, <2>3 DEF Registry, RegistryExact
<1> QED
    BY <1>5, <1>6 DEF Registry, RegistryExact

LEMMA StepRegistry == TypeOK /\ Registry /\ [Next]_vars => Registry'
<1> SUFFICES ASSUME TypeOK, Registry, [Next]_vars PROVE Registry'
    OBVIOUS
<1>0. ~reused => \A p \in DOMAIN subscribers : subscribers[p] \subseteq DOMAIN clients
    BY DEF Registry, RegistryExact
<1>1. ASSUME NEW c \in Conns, Connect(c) PROVE Registry'
    BY <1>1, ConnectRegistry
<1>2. ASSUME NEW c \in Conns, AcceptFails(c) \/ PeerCloses(c) PROVE Registry'
    <2>1. \A d \in Conns : Live(d)' <=> Live(d)
        BY <1>2 DEF AcceptFails, PeerCloses, Live, TypeOK
    <2> QED
        BY <1>0, <1>2, <2>1, SameRegistry DEF AcceptFails, PeerCloses, registry, history
<1>3. ASSUME NEW c \in Conns, Disconnect(c) \/ SendRaised(c) \/ MalformedMessage(c)
      PROVE  Registry'
    <2>1. Live(c) /\ RemoveClient(c, subscribers)
        BY <1>3 DEF Disconnect, SendRaised, MalformedMessage, Live
    <2> QED
        BY <1>0, <2>1, RemoveClientRegistry
<1>4. ASSUME NEW c \in Conns, NEW new, pc[c] = "receive", Await(c, new)
      PROVE  \A d \in Conns : Live(d)' <=> Live(d)
    BY <1>4 DEF Await, Live, TypeOK
<1>5. ASSUME NEW c \in Conns, NEW p \in Patterns, NEW wanted \in BOOLEAN,
             Subscribe(c, p, wanted)
      PROVE  Registry'
    <2> DEFINE subs == Subscribed(subscribers, p, client_id[c])
    <2>1. pc[c] = "receive" /\ Live(c)
        BY <1>5 DEF Subscribe, Live
    <2>2. ~reused => client_id[c] \in DOMAIN clients
        BY <2>1 DEF Registry, RegistryExact
    <2>3. ~reused => \A q \in DOMAIN subs : subs[q] \subseteq DOMAIN clients
        BY <1>0, <2>2 DEF Subscribed, Put
    <2>4. CASE RemoveClient(c, subs)
        BY <2>1, <2>3, <2>4, RemoveClientRegistry
    <2>5. CASE ~RemoveClient(c, subs)
        <3>1. /\ Answer(c, wanted)
              /\ subscribers' \in {subscribers, subs}
              /\ UNCHANGED <<websockets, clients, client_id, reused>>
            BY <1>5, <2>5 DEF Subscribe, registry, history
        <3>2. \A d \in Conns : Live(d)' <=> Live(d)
            BY <1>4, <2>1, <3>1 DEF Answer
        <3> QED
            BY <1>0, <2>3, <3>1, <3>2, SameRegistry
    <2> QED
        BY <2>4, <2>5
<1>6. ASSUME NEW c \in Conns, NEW p \in Patterns, NEW wanted \in BOOLEAN,
             Unsubscribe(c, p, wanted)
      PROVE  Registry'
    <2> DEFINE subs == [subscribers EXCEPT ![p] = @ \ {client_id[c]}]
    <2>1. pc[c] = "receive" /\ Live(c)
        BY <1>6 DEF Unsubscribe, Live
    <2>2. ~reused => \A q \in DOMAIN subs : subs[q] \subseteq DOMAIN clients
        BY <1>0
    <2>3. CASE RemoveClient(c, subs)
        BY <2>1, <2>2, <2>3, RemoveClientRegistry
    <2>4. CASE ~RemoveClient(c, subs)
        <3>1. /\ Answer(c, wanted) \/ UNCHANGED pc
              /\ subscribers' \in {subscribers, subs}
              /\ UNCHANGED <<websockets, clients, client_id, reused>>
            BY <1>6, <2>4 DEF Unsubscribe, registry, history
        <3>2. \A d \in Conns : Live(d)' <=> Live(d)
            BY <1>4, <2>1, <3>1 DEF Answer, Live
        <3> QED
            BY <1>0, <2>2, <3>1, <3>2, SameRegistry
    <2> QED
        BY <2>3, <2>4
<1>7. ASSUME NEW c \in Conns, NEW t \in Topics, Publish(c, t) PROVE Registry'
    <2>1. \A d \in Conns : Live(d)' <=> Live(d)
        BY <1>4, <1>7 DEF Publish
    <2> QED
        BY <1>0, <1>7, <2>1, SameRegistry DEF Publish, registry
<1>8. ASSUME NEW s \in sends, Deliver(s) \/ Lose(s) \/ Fail(s) PROVE Registry'
    <2>1. \A d \in Conns : Live(d)' <=> Live(d)
        BY <1>8 DEF Deliver, Lose, Fail, Finish, Live, TypeOK
    <2>2. UNCHANGED <<registry, client_id, reused>>
        BY <1>8 DEF Deliver, Lose, Fail, history
    <2> QED
        BY <1>0, <2>1, <2>2, SameRegistry DEF registry
<1>9. CASE UNCHANGED vars
    <2>1. \A d \in Conns : Live(d)' <=> Live(d)
        BY <1>9 DEF vars, Live
    <2> QED
        BY <1>0, <1>9, <2>1, SameRegistry DEF vars, registry, history
<1> QED
    BY <1>1, <1>2, <1>3, <1>5, <1>6, <1>7, <1>8, <1>9 DEF Next

\* publish() only ever finds websockets whose task is still serving them, under
\* the id that task took: whatever the order of departures and arrivals, even
\* with ids given out twice.
THEOREM RegisteredIsLiveAlways == Spec => []RegisteredIsLive
<1>1. Spec => []Registry
    BY InitType, StepType, InitRegistry, StepRegistry, PTL DEF Spec
<1>2. Registry => RegisteredIsLive
    BY DEF Registry
<1> QED
    BY <1>1, <1>2, PTL

\* As long as no id was given out twice, the dictionaries are exactly the live
\* connections and a clean-up has left no subscription behind.
THEOREM RegistryExactAlways == Spec => []RegistryExact
<1>1. Spec => []Registry
    BY InitType, StepType, InitRegistry, StepRegistry, PTL DEF Spec
<1>2. Registry => RegistryExact
    BY DEF Registry
<1> QED
    BY <1>1, <1>2, PTL

-----------------------------------------------------------------------------
(* Unique ids.                                                             *)

\* While nobody has left, the ids in use are those below len(self.clients).
Dense ==
    /\ (\A c \in Conns : pc[c] # "done") => DOMAIN clients = 0..(NextId - 1)
    /\ ~reused

LEMMA InitDense == Init => Dense
<1> SUFFICES ASSUME Init PROVE Dense
    OBVIOUS
<1>1. DOMAIN clients = {} /\ ~reused
    BY DEF Init, EmptyDict
<1>2. NextId = 0
    BY <1>1, FS_EmptySet DEF NextId
<1> QED
    BY <1>1, <1>2 DEF Dense

LEMMA StepDense ==
    ASSUME ~LateJoin, TypeOK, Dense, [Next]_vars PROVE Dense'
<1>1. ASSUME NEW c \in Conns, Connect(c) PROVE Dense'
    <2>1. \A d \in Conns : pc[d] # "done"
        BY <1>1 DEF Connect
    <2>2. DOMAIN clients = 0..(NextId - 1) /\ NextId \in Nat
        BY <2>1, NextIdType DEF Dense
    <2>3. NextId \notin DOMAIN clients
        BY <2>2
    <2>4. ~reused'
        BY <1>1, <2>3 DEF Connect, Dense
    <2>5. DOMAIN clients' = DOMAIN clients \cup {NextId}
        BY <1>1 DEF Connect, Put
    <2>6. Cardinality(DOMAIN clients \cup {NextId}) = Cardinality(DOMAIN clients) + 1
        BY <2>3, FS_AddElement DEF TypeOK
    <2>7. NextId' = NextId + 1
        BY <2>5, <2>6 DEF NextId
    <2> QED
        BY <2>2, <2>4, <2>5, <2>7 DEF Dense
<1>2. ASSUME UNCHANGED <<clients, reused>>,
             \A d \in Conns : pc[d] = "done" => pc'[d] = "done"
      PROVE  Dense'
    BY <1>2 DEF Dense, NextId
<1>3. ASSUME NEW c \in Conns, NEW subs, RemoveClient(c, subs) PROVE Dense'
    <2>1. pc'[c] = "done" /\ ~reused'
        BY <1>3 DEF RemoveClient, TypeOK, Dense, history
    <2> QED
        BY <2>1 DEF Dense
<1>4. ASSUME NEW c \in Conns, NEW new, pc[c] = "receive", Await(c, new)
      PROVE  \A d \in Conns : pc[d] = "done" => pc'[d] = "done"
    BY <1>4 DEF Await, TypeOK
<1>5. ASSUME NEW c \in Conns, AcceptFails(c) \/ PeerCloses(c) PROVE Dense'
    BY <1>2, <1>5 DEF AcceptFails, PeerCloses, TypeOK, registry, history
<1>6. ASSUME NEW c \in Conns, Disconnect(c) \/ SendRaised(c) \/ MalformedMessage(c)
      PROVE  Dense'
    BY <1>3, <1>6 DEF Disconnect, SendRaised, MalformedMessage
<1>7. ASSUME NEW c \in Conns, NEW p \in Patterns, NEW wanted \in BOOLEAN,
             Subscribe(c, p, wanted) \/ Unsubscribe(c, p, wanted)
      PROVE  Dense'
    <2>1. CASE \E subs : RemoveClient(c, subs)
        BY <1>3, <2>1
    <2>2. CASE ~\E subs : RemoveClient(c, subs)
        <3>1. /\ UNCHANGED <<clients, reused>>
              /\ pc[c] = "receive"
              /\ Answer(c, wanted) \/ UNCHANGED pc
            BY <1>7, <2>2 DEF Subscribe, Unsubscribe, registry, history
        <3> QED
            BY <1>2, <1>4, <3>1 DEF Answer
    <2> QED
        BY <2>1, <2>2
<1>8. ASSUME NEW c \in Conns, NEW t \in Topics, Publish(c, t) PROVE Dense'
    BY <1>2, <1>4, <1>8 DEF Publish, registry
<1>9. ASSUME NEW s \in sends, Deliver(s) \/ Lose(s) \/ Fail(s) PROVE Dense'
    BY <1>2, <1>9 DEF Deliver, Lose, Fail, Finish, TypeOK, registry, history
<1>10. CASE UNCHANGED vars
    BY <1>2, <1>10 DEF vars, registry, history
<1> QED
    BY <1>1, <1>5, <1>6, <1>7, <1>8, <1>9, <1>10 DEF Next

\* When no client connects after another one has left, an id is never given out
\* twice, so that every live connection is found under its own id: what goes
\* wrong with ids needs a departure followed by an arrival.
THEOREM IdsUniqueWithoutLateJoin ==
    ASSUME ~LateJoin PROVE Spec => []ClientIdIdentifiesClient
<1>1. TypeOK /\ Dense /\ [Next]_vars => Dense'
    BY StepDense
<1>2. Spec => [](Dense /\ Registry)
    BY <1>1, InitType, StepType, InitRegistry, StepRegistry, InitDense, PTL DEF Spec
<1>3. Dense /\ Registry => ClientIdIdentifiesClient
    BY DEF Dense, Registry, RegistryExact, ClientIdIdentifiesClient
<1> QED
    BY <1>2, <1>3, PTL
-----------------------------------------------------------------------------
(* The order of messages.                                                  *)

\* A task that takes requests waits for no send; a send brings the last message
\* that its task published, or an answer; and what peers have got was published.
OrderInv ==
    /\ \A s \in sends : pc[s.by] \notin {"new", "receive"}
    /\ \A s \in sends : s.n # 0 =>
          /\ s.n \in 1 .. Len(log) /\ log[s.n].from = s.by
          /\ \A k \in 1 .. Len(log) : log[k].from = s.by => k <= s.n
    /\ \A c \in Conns : \A i \in 1 .. Len(delivered[c]) : delivered[c][i] \in 1 .. Len(log)
    /\ \A c \in Conns : \A i, j \in 1 .. Len(delivered[c]) :
          i < j /\ log[delivered[c][i]].from = log[delivered[c][j]].from
          => delivered[c][i] <= delivered[c][j]

LEMMA InitOrder == Init => OrderInv
BY DEF Init, OrderInv

\* A step in which nothing is published or delivered, sends only end or are
\* answers of a task that had none, and no task takes requests with a send open.
LEMMA SameOrder ==
    ASSUME OrderInv, UNCHANGED <<log, delivered>>,
           \A s \in sends' : s \in sends \/ s.n = 0,
           \A s \in sends' : pc'[s.by] \notin {"new", "receive"}
    PROVE  OrderInv'
BY DEF OrderInv

LEMMA AwaitOrder ==
    ASSUME TypeOK, OrderInv, NEW c \in Conns, pc[c] = "receive", NEW new,
           \A s \in new : s.by = c, Await(c, new)
    PROVE  \A s \in sends' : pc'[s.by] \notin {"new", "receive"}
<1>1. \A s \in sends : s.by # c /\ s.by \in Conns
    BY DEF OrderInv, TypeOK, Send
<1>2. CASE new = {}
    BY <1>1, <1>2 DEF Await, OrderInv, TypeOK
<1>3. CASE new # {}
    BY <1>1, <1>3 DEF Await, OrderInv, TypeOK
<1> QED
    BY <1>2, <1>3

LEMMA AnswerOrder ==
    ASSUME TypeOK, OrderInv, NEW c \in Conns, pc[c] = "receive", NEW wanted \in BOOLEAN,
           Answer(c, wanted), UNCHANGED <<log, delivered>>
    PROVE  OrderInv'
<1> DEFINE new == {[by |-> c, to |-> websockets[id], via |-> NoPattern, n |-> 0] :
                      id \in {i \in {client_id[c]} \cap DOMAIN websockets : wanted}}
<1>1. \A s \in new : s.by = c /\ s.n = 0
    OBVIOUS
<1>2. Await(c, new) /\ sends' = sends \cup new
    BY DEF Answer, Await
<1>3. \A s \in sends' : pc'[s.by] \notin {"new", "receive"}
    BY <1>1, <1>2, AwaitOrder
<1> QED
    BY <1>1, <1>2, <1>3, SameOrder

LEMMA RemoveClientOrder ==
    ASSUME TypeOK, OrderInv, NEW c \in Conns, NEW subs, RemoveClient(c, subs)
    PROVE  OrderInv'
<1>1. \A s \in sends' : s \in sends /\ s.by \in Conns
    BY DEF RemoveClient, TypeOK, Send
<1>2. \A s \in sends' : pc'[s.by] \notin {"new", "receive"}
    BY <1>1 DEF RemoveClient, OrderInv, TypeOK
<1> QED
    BY <1>1, <1>2, SameOrder DEF RemoveClient, history

LEMMA PublishOrder ==
    ASSUME TypeOK, OrderInv, NEW c \in Conns, NEW t \in Topics, Publish(c, t)
    PROVE  OrderInv'
<1> DEFINE new == {[by |-> c, to |-> r[1], via |-> r[2], n |-> Len(log')] :
                      r \in Receivers(t)}
<1>1. /\ log \in Seq([from: Conns, topic: Topics]) /\ Len(log) \in Nat
      /\ log' = Append(log, [from |-> c, topic |-> t])
    BY DEF Publish, TypeOK
<1>2. /\ Len(log') = Len(log) + 1 /\ log'[Len(log')].from = c
      /\ \A k \in 1 .. Len(log) : log'[k] = log[k]
    BY <1>1
<1>3. \A s \in new : s.by = c /\ s.n = Len(log')
    OBVIOUS
<1>4. Await(c, new) /\ sends' = sends \cup new /\ pc[c] = "receive"
    BY DEF Publish, Await
<1>5. \A s \in sends' : pc'[s.by] \notin {"new", "receive"}
    BY <1>3, <1>4, AwaitOrder
<1>6. \A s \in sends : s.by # c
    BY <1>4 DEF OrderInv
<1>7. ASSUME NEW s \in sends', s.n # 0
      PROVE  /\ s.n \in 1 .. Len(log') /\ log'[s.n].from = s.by
             /\ \A k \in 1 .. Len(log') : log'[k].from = s.by => k <= s.n
    <2>1. CASE s \in new
        BY <1>1, <1>2, <1>3, <2>1
    <2>2. CASE s \in sends
        <3>1. /\ s.n \in 1 .. Len(log) /\ log[s.n].from = s.by
              /\ \A k \in 1 .. Len(log) : log[k].from = s.by => k <= s.n
            BY <1>7, <2>2 DEF OrderInv
        <3> QED
            BY <1>1, <1>2, <1>6, <2>2, <3>1
    <2> QED
        BY <1>4, <2>1, <2>2
<1>8. delivered' = delivered
    BY DEF Publish
<1>9. ASSUME NEW d \in Conns
      PROVE  /\ \A i \in 1 .. Len(delivered'[d]) : delivered'[d][i] \in 1 .. Len(log')
             /\ \A i, j \in 1 .. Len(delivered'[d]) :
                   i < j /\ log'[delivered'[d][i]].from = log'[delivered'[d][j]].from
                   => delivered'[d][i] <= delivered'[d][j]
    <2>1. \A i \in 1 .. Len(delivered[d]) : delivered[d][i] \in 1 .. Len(log)
        BY DEF OrderInv
    <2>2. \A i \in 1 .. Len(delivered[d]) : log'[delivered[d][i]] = log[delivered[d][i]]
        BY <1>2, <2>1
    <2> QED
        BY <1>1, <1>2, <1>8, <2>1, <2>2 DEF OrderInv
<1> QED
    BY <1>5, <1>7, <1>9 DEF OrderInv

LEMMA FinishOrder ==
    ASSUME TypeOK, OrderInv, NEW s \in sends, Finish(s) \/ Fail(s)
    PROVE  /\ \A r \in sends' : r \in sends
           /\ \A r \in sends' : pc'[r.by] \notin {"new", "receive"}
<1>1. sends' = sends \ {s} /\ s.by \in Conns
    BY DEF Finish, Fail, TypeOK, Send
<1>2. \A r \in sends : r.by \in Conns
    BY DEF TypeOK, Send
<1>3. CASE Finish(s)
    BY <1>1, <1>2, <1>3 DEF Finish, OrderInv, TypeOK
<1>4. CASE Fail(s)
    BY <1>1, <1>2, <1>4 DEF Fail, OrderInv, TypeOK
<1> QED
    BY <1>1, <1>3, <1>4

LEMMA DeliverOrder ==
    ASSUME TypeOK, OrderInv, NEW s \in sends, Deliver(s)
    PROVE  OrderInv'
<1>1. /\ \A r \in sends' : r \in sends
      /\ \A r \in sends' : pc'[r.by] \notin {"new", "receive"}
    BY FinishOrder DEF Deliver
<1>2. log' = log
    BY DEF Deliver
<1>3. CASE s.n = 0
    BY <1>1, <1>2, <1>3, SameOrder DEF Deliver
<1>4. CASE s.n # 0
    <2>1. /\ s.to \in Conns /\ delivered \in [Conns -> Seq(Nat)]
          /\ delivered' = [delivered EXCEPT ![s.to] = Append(@, s.n)]
        BY <1>4 DEF Deliver, TypeOK, Send
    <2>2. /\ s.n \in 1 .. Len(log) /\ log[s.n].from = s.by
          /\ \A k \in 1 .. Len(log) : log[k].from = s.by => k <= s.n
        BY <1>4 DEF OrderInv
    <2> DEFINE old == delivered[s.to]
    <2>3. ASSUME NEW d \in Conns
          PROVE  /\ \A i \in 1 .. Len(delivered'[d]) : delivered'[d][i] \in 1 .. Len(log)
                 /\ \A i, j \in 1 .. Len(delivered'[d]) :
                       i < j /\ log[delivered'[d][i]].from = log[delivered'[d][j]].from
                       => delivered'[d][i] <= delivered'[d][j]
        <3>1. CASE d # s.to
            BY <2>1, <3>1 DEF OrderInv
        <3>2. CASE d = s.to
            <4>1. old \in Seq(Nat) /\ delivered'[d] = Append(old, s.n) /\ Len(old) \in Nat
                BY <2>1, <3>2
            <4>2. /\ Len(delivered'[d]) = Len(old) + 1
                  /\ delivered'[d][Len(old) + 1] = s.n
                  /\ \A i \in 1 .. Len(old) : delivered'[d][i] = old[i]
                BY <4>1
            <4>3. /\ \A i \in 1 .. Len(old) : old[i] \in 1 .. Len(log)
                  /\ \A i, j \in 1 .. Len(old) :
                        i < j /\ log[old[i]].from = log[old[j]].from => old[i] <= old[j]
                BY <2>1 DEF OrderInv
            <4>4. \A i \in 1 .. Len(old) : log[old[i]].from = log[s.n].from => old[i] <= s.n
                BY <2>2, <4>3
            <4>5. \A i \in 1 .. Len(old) + 1 : i \in 1 .. Len(old) \/ i = Len(old) + 1
                BY <4>1
            <4>6. \A i \in 1 .. Len(old) + 1 : delivered'[d][i] \in 1 .. Len(log)
                BY <2>2, <4>2, <4>3, <4>5
            <4>7. ASSUME NEW i \in 1 .. Len(old) + 1, NEW j \in 1 .. Len(old) + 1, i < j,
                         log[delivered'[d][i]].from = log[delivered'[d][j]].from
                  PROVE  delivered'[d][i] <= delivered'[d][j]
                <5>1. i \in 1 .. Len(old)
                    BY <4>1, <4>7
                <5>2. CASE j \in 1 .. Len(old)
                    BY <4>2, <4>3, <4>7, <5>1, <5>2
                <5>3. CASE j = Len(old) + 1
                    BY <4>2, <4>4, <4>7, <5>1, <5>3
                <5> QED
                    BY <4>5, <5>2, <5>3
            <4> QED
                BY <4>2, <4>6, <4>7
        <3> QED
            BY <3>1, <3>2
    <2>4. \A r \in sends' : r.n # 0 =>
             /\ r.n \in 1 .. Len(log) /\ log[r.n].from = r.by
             /\ \A k \in 1 .. Len(log) : log[k].from = r.by => k <= r.n
        BY <1>1 DEF OrderInv
    <2> QED
        BY <1>1, <1>2, <2>3, <2>4 DEF OrderInv
<1> QED
    BY <1>3, <1>4

LEMMA StepOrder == TypeOK /\ OrderInv /\ [Next]_vars => OrderInv'
<1> SUFFICES ASSUME TypeOK, OrderInv, [Next]_vars PROVE OrderInv'
    OBVIOUS
<1>1. ASSUME NEW c \in Conns, Connect(c) \/ AcceptFails(c) \/ PeerCloses(c) PROVE OrderInv'
    <2>1. UNCHANGED <<sends, log, delivered>>
        BY <1>1 DEF Connect, AcceptFails, PeerCloses, history
    <2>2. \A s \in sends : s.by \in Conns /\ pc[s.by] \notin {"new", "receive"}
        BY DEF OrderInv, TypeOK, Send
    <2>3. \A s \in sends' : pc'[s.by] \notin {"new", "receive"}
        BY <1>1, <2>1, <2>2 DEF Connect, AcceptFails, PeerCloses, TypeOK
    <2> QED
        BY <2>1, <2>3, SameOrder
<1>2. ASSUME NEW c \in Conns, Disconnect(c) \/ SendRaised(c) \/ MalformedMessage(c)
      PROVE  OrderInv'
    BY <1>2, RemoveClientOrder DEF Disconnect, SendRaised, MalformedMessage
<1>3. ASSUME NEW c \in Conns, NEW p \in Patterns, NEW wanted \in BOOLEAN,
             Subscribe(c, p, wanted) \/ Unsubscribe(c, p, wanted)
      PROVE  OrderInv'
    <2>1. CASE \E subs : RemoveClient(c, subs)
        BY <2>1, RemoveClientOrder
    <2>2. CASE Answer(c, wanted) /\ pc[c] = "receive" /\ UNCHANGED history
        BY <2>2, AnswerOrder DEF history
    <2>3. CASE UNCHANGED <<pc, sends, history>>
        BY <2>3, SameOrder DEF OrderInv, history
    <2> QED
        BY <1>3, <2>1, <2>2, <2>3 DEF Subscribe, Unsubscribe
<1>4. ASSUME NEW c \in Conns, NEW t \in Topics, Publish(c, t) PROVE OrderInv'
    BY <1>4, PublishOrder
<1>5. ASSUME NEW s \in sends, Deliver(s) PROVE OrderInv'
    BY <1>5, DeliverOrder
<1>6. ASSUME NEW s \in sends, Lose(s) \/ Fail(s) PROVE OrderInv'
    BY <1>6, FinishOrder, SameOrder DEF Lose, Fail, history
<1>7. CASE UNCHANGED vars
    BY <1>7 DEF OrderInv, vars, history
<1> QED
    BY <1>1, <1>2, <1>3, <1>4, <1>5, <1>6, <1>7 DEF Next

\* A peer gets the messages of one publisher in the order in which they were
\* published, for any number of messages and whatever fails: publish() waits for
\* its sends, and a task whose wait was cut short by an exception publishes no more.
THEOREM InOrderAlways == Spec => []InOrder
<1>1. Spec => [](TypeOK /\ OrderInv)
    BY InitType, StepType, InitOrder, StepOrder, PTL DEF Spec
<1>2. TypeOK /\ OrderInv => InOrder
    <2> SUFFICES ASSUME TypeOK, OrderInv PROVE InOrder
        OBVIOUS
    <2>1. \A c \in Conns : DOMAIN delivered[c] = 1 .. Len(delivered[c])
        BY DEF TypeOK
    <2> QED
        BY <2>1 DEF OrderInv, InOrder
<1> QED
    BY <1>1, <1>2, PTL

\* In a step that ends no send, and in which no task comes to wait, every task
\* that waits still has its send.
LEMMA SameWait ==
    ASSUME AwaitsASend, sends \subseteq sends',
           \A c \in Conns : pc'[c] = "await" => pc[c] = "await"
    PROVE  AwaitsASend'
BY DEF AwaitsASend

\* A task begins to wait with the sends it has started.
LEMMA AwaitWaits ==
    ASSUME TypeOK, AwaitsASend, NEW c \in Conns, NEW new, \A s \in new : s.by = c, Await(c, new)
    PROVE  AwaitsASend'
<1>1. sends' = sends \cup new /\ \A d \in Conns : d # c => pc'[d] = pc[d]
    BY DEF Await, TypeOK
<1>2. pc'[c] = "await" => new # {}
    BY DEF Await, TypeOK
<1>3. ASSUME NEW d \in Conns, pc'[d] = "await" PROVE \E s \in sends' : s.by = d
    BY <1>1, <1>2, <1>3 DEF AwaitsASend
<1> QED
    BY <1>3 DEF AwaitsASend

\* A task that has its answer sent waits for it.
LEMMA AnswerWaits ==
    ASSUME TypeOK, AwaitsASend, NEW c \in Conns, NEW wanted \in BOOLEAN, Answer(c, wanted)
    PROVE  AwaitsASend'
<1> DEFINE new == {[by |-> c, to |-> websockets[id], via |-> NoPattern, n |-> 0] :
                      id \in {i \in {client_id[c]} \cap DOMAIN websockets : wanted}}
<1>1. (\A s \in new : s.by = c) /\ Await(c, new)
    BY DEF Answer
<1> QED
    BY <1>1, AwaitWaits

\* A task that ends waits for nothing, and the sends of others go on.
LEMMA RemoveClientWaits ==
    ASSUME TypeOK, AwaitsASend, NEW c \in Conns, NEW subs, RemoveClient(c, subs)
    PROVE  AwaitsASend'
BY SameWait DEF RemoveClient, TypeOK

\* The end of a send ends the wait of its task, or leaves another send to wait for.
LEMMA EndWaits ==
    ASSUME TypeOK, AwaitsASend, NEW s \in sends, Finish(s) \/ Fail(s)
    PROVE  AwaitsASend'
<1>1. sends' = sends \ {s} /\ s.by \in Conns
    BY DEF Finish, Fail, TypeOK, Send
<1>2. ASSUME NEW d \in Conns, pc'[d] = "await" PROVE \E r \in sends' : r.by = d
    <2>1. pc[d] = "await"
        BY <1>1, <1>2 DEF Finish, Fail, TypeOK
    <2>2. CASE d # s.by
        BY <1>1, <2>1, <2>2 DEF AwaitsASend
    <2>3. CASE d = s.by
        BY <1>1, <1>2, <2>1, <2>3 DEF Finish, Fail, TypeOK
    <2> QED
        BY <2>2, <2>3
<1> QED
    BY <1>2 DEF AwaitsASend

\* Every step of a task, and every end of a send, leaves no task waiting for nothing.
LEMMA StepWaits == TypeOK /\ AwaitsASend /\ [Next]_vars => AwaitsASend'
<1> SUFFICES ASSUME TypeOK, AwaitsASend, [Next]_vars PROVE AwaitsASend'
    OBVIOUS
<1>1. ASSUME NEW c \in Conns, Connect(c) \/ AcceptFails(c) \/ PeerCloses(c) PROVE AwaitsASend'
    BY <1>1, SameWait DEF Connect, AcceptFails, PeerCloses, TypeOK
<1>2. ASSUME NEW c \in Conns, Disconnect(c) \/ SendRaised(c) \/ MalformedMessage(c)
      PROVE  AwaitsASend'
    BY <1>2, RemoveClientWaits DEF Disconnect, SendRaised, MalformedMessage
<1>3. ASSUME NEW c \in Conns, NEW p \in Patterns, NEW wanted \in BOOLEAN,
             Subscribe(c, p, wanted) \/ Unsubscribe(c, p, wanted)
      PROVE  AwaitsASend'
    <2>1. CASE \E subs : RemoveClient(c, subs)
        BY <2>1, RemoveClientWaits
    <2>2. CASE Answer(c, wanted)
        BY <2>2, AnswerWaits
    <2>3. CASE UNCHANGED <<pc, sends>>
        BY <2>3 DEF AwaitsASend
    <2> QED
        BY <1>3, <2>1, <2>2, <2>3 DEF Subscribe, Unsubscribe
<1>4. ASSUME NEW c \in Conns, NEW t \in Topics, Publish(c, t) PROVE AwaitsASend'
    <2> DEFINE new == {[by |-> c, to |-> r[1], via |-> r[2], n |-> Len(log')] : r \in Receivers(t)}
    <2>1. (\A s \in new : s.by = c) /\ Await(c, new)
        BY <1>4 DEF Publish
    <2> QED
        BY <2>1, AwaitWaits
<1>5. ASSUME NEW s \in sends, Deliver(s) \/ Lose(s) \/ Fail(s) PROVE AwaitsASend'
    BY <1>5, EndWaits DEF Deliver, Lose
<1>6. CASE UNCHANGED vars
    BY <1>6 DEF AwaitsASend, vars
<1> QED
    BY <1>1, <1>2, <1>3, <1>4, <1>5, <1>6 DEF Next

\* Whatever fails, is lost or is answered: no task of a connection waits for a
\* gather() in which nothing is left to come (sd_slowmq.py, publish() and the replies to requests).
THEOREM NobodyWaitsForNothing == Spec => []AwaitsASend
<1>1. Init => AwaitsASend
    BY DEF Init, AwaitsASend
<1> QED
    BY InitType, StepType, StepWaits, <1>1, PTL DEF Spec

-----------------------------------------------------------------------------
(* Topic patterns.                                                         *)

\* Of a set of numbers that is not empty, one is the largest below a bound.
LEMMA Last ==
  ASSUME NEW n \in Nat, NEW S, S \subseteq 1 .. n, S # {}
  PROVE  \E m \in S : \A k \in S : k <= m
<1> DEFINE N == {n - k : k \in S}
<1>1. N \subseteq Nat /\ N # {}
  <2>1. \A k \in S : k \in 1 .. n /\ n - k \in Nat
      OBVIOUS
  <2> QED
      BY <2>1, Zenon
<1>2. PICK m \in N : \A k \in N : ~(<<k, m>> \in OpToRel(<, Nat))
  <2>1. IsWellFoundedOn(OpToRel(<, Nat), Nat)
      BY NatLessThanWellFounded
  <2> QED
      BY <1>1, <2>1, WFMin
<1>3. \A k \in N : m <= k
  <2> SUFFICES ASSUME NEW k \in N, ~(m <= k) PROVE FALSE
      OBVIOUS
  <2>1. <<k, m>> \in Nat \X Nat /\ k < m
      BY <1>1
  <2>2. <<k, m>> \in OpToRel(<, Nat)
      BY <2>1, Zenon DEF OpToRel
  <2> QED
      BY <1>2, <2>2
<1>4. PICK last \in S : m = n - last
    OBVIOUS
<1>5. \A k \in S : k <= last
    BY <1>3, <1>4
<1> QED
    BY <1>5

\* One round of the loop of topic_match() at index k.
Round(p, t, k, next) ==
    IF k > Len(p) THEN k = Len(t) + 1
    ELSE p[k] = Rest \/ (k <= Len(t) /\ p[k] \in {Star, t[k]} /\ next)

Rounds(p, t, w) == [k \in 1 .. (Len(p) + 1) |-> Round(p, t, k, w[k + 1])]

\* If any function obeys the rounds of the loop, Walk does.
LEMMA WalkIs ==
  ASSUME NEW p, NEW t, NEW w, w = Rounds(p, t, w)
  PROVE Walk(p, t) = Rounds(p, t, Walk(p, t))
<1> DEFINE W == CHOOSE x : x = Rounds(p, t, x)
<1>1. W = Rounds(p, t, W)
   BY Zenon
<1>2. Walk(p, t) = W
   BY Zenon DEF Walk, Rounds, Round
<1> QED BY <1>1, <1>2, Zenon

\* Only one function does.
LEMMA OneWalk ==
  ASSUME NEW p \in Seq(STRING), NEW t \in Seq(STRING), NEW v, NEW w,
         v = Rounds(p, t, v), w = Rounds(p, t, w)
  PROVE  v[1] <=> w[1]
<1> DEFINE n == Len(p) + 1
           Bad == {k \in 1 .. n : ~(v[k] <=> w[k])}
<1>1. n \in Nat \ {0}
    OBVIOUS
<1>2. \A k \in 1 .. n : v[k] = Round(p, t, k, v[k + 1]) /\ w[k] = Round(p, t, k, w[k + 1])
  <2> SUFFICES ASSUME NEW k \in 1 .. n
               PROVE v[k] = Round(p, t, k, v[k + 1]) /\ w[k] = Round(p, t, k, w[k + 1])
      OBVIOUS
  <2>1. Rounds(p, t, v)[k] = Round(p, t, k, v[k + 1]) /\ Rounds(p, t, w)[k] = Round(p, t, k, w[k + 1])
      BY Zenon DEF Rounds
  <2> QED
      BY <2>1, Zenon
<1>3. ASSUME Bad # {} PROVE FALSE
  <2>1. PICK m \in Bad : \A k \in Bad : k <= m
      <3>1. Bad \subseteq 1 .. n
          OBVIOUS
      <3> HIDE DEF Bad
      <3> QED
          BY <1>1, <1>3, <3>1, Last
  <2>2. m \in 1 .. n /\ ~(v[m] <=> w[m])
      BY <2>1
  <2>3. m + 1 \notin Bad
      BY <2>1, <2>2
  <2>4. CASE m = n
      <3>1. m > Len(p)
          BY <2>4
      <3> QED
          BY <1>2, <2>2, <3>1, Zenon DEF Round
  <2>5. CASE m # n
      <3>1. m + 1 \in 1 .. n
          BY <1>1, <2>2, <2>5
      <3>2. v[m + 1] <=> w[m + 1]
          BY <2>3, <3>1
      <3>3. Round(p, t, m, v[m + 1]) <=> Round(p, t, m, w[m + 1])
          BY <3>2, Zenon DEF Round
      <3> QED
          BY <1>2, <2>2, <3>3, Zenon
  <2> QED
      BY <2>4, <2>5
<1>4. 1 \in 1 .. n
    BY <1>1
<1> QED
    BY <1>3, <1>4, Zenon

\* What is left of a valid pattern from index k agrees with the topic.
Ends(p) == Len(p) > 0 /\ p[Len(p)] = Rest

Agrees(p, t, k) ==
    IF Ends(p)
    THEN IF k > Len(p) THEN k = Len(t) + 1
         ELSE \A i \in 1 .. (Len(p) - 1) : k <= i => i <= Len(t) /\ p[i] \in {Star, t[i]}
    ELSE Len(p) = Len(t) /\ \A i \in 1 .. Len(p) : k <= i => p[i] \in {Star, t[i]}

\* What holds from an index on holds at it and from the next one on.
LEMMA From ==
  ASSUME NEW n \in Int, NEW k \in 1 .. n, NEW S
  PROVE  (\A i \in 1 .. n : k <= i => i \in S)
            <=> k \in S /\ \A i \in 1 .. n : k + 1 <= i => i \in S
BY SMT

LEMMA AgreesIsWalk ==
  ASSUME NEW p \in Seq(STRING), NEW t \in Seq(STRING), Valid(p)
  PROVE  \A k \in 1 .. (Len(p) + 1) : Agrees(p, t, k) <=> Round(p, t, k, Agrees(p, t, k + 1))
<1> SUFFICES ASSUME NEW k \in 1 .. (Len(p) + 1)
             PROVE Agrees(p, t, k) <=> Round(p, t, k, Agrees(p, t, k + 1))
    OBVIOUS
<1>1. Len(p) \in Nat /\ Len(t) \in Nat
    OBVIOUS
<1>2. \A i \in 1 .. Len(p) : p[i] = Rest => i = Len(p)
  <2>1. DOMAIN p = 1 .. Len(p)
      OBVIOUS
  <2> QED
      BY <2>1, Zenon DEF Valid
<1> DEFINE Here(i) == p[i] \in {Star, t[i]}
<1>3. CASE k > Len(p)
  <2>1. k = Len(p) + 1
      BY <1>1, <1>3
  <2>2. Round(p, t, k, Agrees(p, t, k + 1)) <=> k = Len(t) + 1
      BY <1>3, Zenon DEF Round
  <2>3. Agrees(p, t, k) <=> k = Len(t) + 1
    <3>1. CASE Ends(p)
        BY <1>3, <3>1, Zenon DEF Agrees
    <3>2. CASE ~Ends(p)
        BY <1>1, <2>1, <3>2 DEF Agrees
    <3> QED
        BY <3>1, <3>2
  <2> QED
      BY <2>2, <2>3
<1>4. CASE k <= Len(p) /\ Ends(p)
  <2> DEFINE Good == {i \in 1 .. (Len(p) - 1) : i <= Len(t) /\ Here(i)}
  <2>1. ~(k > Len(p)) /\ k \in 1 .. Len(p)
      BY <1>1, <1>4
  <2>2. Agrees(p, t, k) <=> \A i \in 1 .. (Len(p) - 1) : k <= i => i <= Len(t) /\ Here(i)
      BY <1>4, <2>1, Zenon DEF Agrees
  <2>3. Round(p, t, k, Agrees(p, t, k + 1))
            <=> p[k] = Rest \/ (k <= Len(t) /\ Here(k) /\ Agrees(p, t, k + 1))
      BY <2>1, Zenon DEF Round
  <2>4. CASE k = Len(p)
    <3>1. p[k] = Rest
        BY <1>4, <2>4 DEF Ends
    <3>2. \A i \in 1 .. (Len(p) - 1) : ~(k <= i)
        BY <1>1, <2>4
    <3> QED
        BY <2>2, <2>3, <3>1, <3>2, Zenon
  <2>5. CASE k # Len(p)
    <3>0. p[k] # Rest
        BY <1>2, <2>1, <2>5, Zenon
    <3>1. ~(k + 1 > Len(p)) /\ k \in 1 .. (Len(p) - 1) /\ Len(p) - 1 \in Int
        BY <1>1, <2>1, <2>5
    <3>2. Agrees(p, t, k + 1)
             <=> \A i \in 1 .. (Len(p) - 1) : k + 1 <= i => i <= Len(t) /\ Here(i)
        BY <1>4, <3>1, Zenon DEF Agrees
    <3>3. (\A i \in 1 .. (Len(p) - 1) : k <= i => i \in Good)
             <=> k \in Good /\ \A i \in 1 .. (Len(p) - 1) : k + 1 <= i => i \in Good
        BY <1>1, <3>1, From
    <3>4. \A i \in 1 .. (Len(p) - 1) : i \in Good <=> i <= Len(t) /\ Here(i)
        BY Zenon
    <3> HIDE DEF Here, Good
    <3> QED
        BY <2>2, <2>3, <3>0, <3>1, <3>2, <3>3, <3>4, Zenon
  <2> QED
      BY <2>4, <2>5
<1>5. CASE k <= Len(p) /\ ~Ends(p)
  <2>1. ~(k > Len(p)) /\ k \in 1 .. Len(p)
      BY <1>1, <1>5
  <2>2. \A j : Agrees(p, t, j)
             <=> Len(p) = Len(t) /\ \A i \in 1 .. Len(p) : j <= i => Here(i)
      BY <1>5, Zenon DEF Agrees
  <2>3. Round(p, t, k, Agrees(p, t, k + 1))
            <=> p[k] = Rest \/ (k <= Len(t) /\ Here(k) /\ Agrees(p, t, k + 1))
      BY <2>1, Zenon DEF Round
  <2>4. p[k] # Rest
    <3>1. Len(p) > 0
        BY <1>1, <2>1
    <3> QED
        BY <1>2, <1>5, <2>1, <3>1, Zenon DEF Ends
  <2> DEFINE Good == {i \in 1 .. Len(p) : Here(i)}
  <2>5. (\A i \in 1 .. Len(p) : k <= i => i \in Good)
           <=> k \in Good /\ \A i \in 1 .. Len(p) : k + 1 <= i => i \in Good
      BY <1>1, <2>1, From
  <2>6. \A i \in 1 .. Len(p) : i \in Good <=> Here(i)
      BY Zenon
  <2>7. Len(p) = Len(t) => k <= Len(t)
      BY <1>5
  <2> HIDE DEF Here, Good
  <2> QED
      BY <2>1, <2>2, <2>3, <2>4, <2>5, <2>6, <2>7, Zenon
<1> QED
    BY <1>1, <1>3, <1>4, <1>5

\* On every valid pattern and every topic the loop decides what the rules say.
THEOREM MatchFollowsRules ==
  ASSUME NEW p \in Seq(STRING), NEW t \in Seq(STRING), Valid(p)
  PROVE  Match(p, t) <=> MatchByRules(p, t)
<1> DEFINE n == Len(p) + 1
           a == [k \in 1 .. n |-> Agrees(p, t, k)]
           b == [k \in 1 .. n |-> Round(p, t, k, a[k + 1])]
<1>1. \A k \in 1 .. n : Agrees(p, t, k) <=> Round(p, t, k, a[k + 1])
  <2> SUFFICES ASSUME NEW k \in 1 .. n PROVE Agrees(p, t, k) <=> Round(p, t, k, a[k + 1])
      OBVIOUS
  <2>1. CASE k = n
      <3>1. k > Len(p)
          BY <2>1
      <3>2. Round(p, t, k, a[k + 1]) <=> Round(p, t, k, Agrees(p, t, k + 1))
          BY <3>1, Zenon DEF Round
      <3> QED
          BY <3>2, AgreesIsWalk, Zenon
  <2>2. CASE k # n
      <3>1. k + 1 \in 1 .. n
          BY <2>2
      <3>2. a[k + 1] = Agrees(p, t, k + 1)
          BY <3>1, Zenon
      <3> QED
          BY <3>2, AgreesIsWalk, Zenon
  <2> QED
      BY <2>1, <2>2
<1>2. \A k \in 1 .. n : Agrees(p, t, k) = Round(p, t, k, a[k + 1])
  <2>1. ASSUME NEW k PROVE Agrees(p, t, k) \in BOOLEAN /\ Round(p, t, k, a[k + 1]) \in BOOLEAN
      <3> HIDE DEF a
      <3> QED
         BY Zenon DEF Agrees, Round
  <2> QED
      BY <1>1, <2>1, Zenon
<1>3. a = b
  <2> HIDE DEF n
  <2> QED
    BY <1>2, Zenon
<1>4. a = Rounds(p, t, a)
    BY <1>3, Zenon DEF Rounds
<1>5. Walk(p, t) = Rounds(p, t, Walk(p, t))
    BY <1>4, WalkIs
<1>6. Walk(p, t)[1] <=> a[1]
    BY <1>4, <1>5, OneWalk
<1>7. a[1] <=> Agrees(p, t, 1)
    <2>1. 1 \in 1 .. n
        OBVIOUS
    <2> QED
        BY <2>1, Zenon
<1>8. Agrees(p, t, 1) <=> MatchByRules(p, t)
  <2>1. Len(p) \in Nat /\ Len(t) \in Nat
    OBVIOUS
  <2>2. CASE Ends(p)
    <3>1. MatchByRules(p, t) <=> Len(t) >= Len(p) - 1 /\ Agree(p, t, Len(p) - 1)
        BY <2>2, Zenon DEF MatchByRules, Ends
    <3> QED
        BY <2>1, <2>2, <3>1 DEF Agrees, Ends, Agree
  <2>3. CASE ~Ends(p)
    <3>1. MatchByRules(p, t) <=> Len(t) = Len(p) /\ Agree(p, t, Len(p))
        BY <2>3, Zenon DEF MatchByRules, Ends
    <3> QED
        BY <2>1, <2>3, <3>1 DEF Agrees, Ends, Agree
  <2> QED
      BY <2>2, <2>3
<1> QED
    BY <1>6, <1>7, <1>8, Zenon DEF Match

\* The same of the patterns and topics that the runs enumerate.
THEOREM LoopAlwaysFollowsRules == TopicSpec => []LoopFollowsRules
<1> DEFINE Tokens == pattern \in Seq(STRING) /\ topic \in Seq(STRING)
<1>1. TopicInit => Tokens
    BY DEF TopicInit
<1>2. Tokens /\ [TopicNext]_topicVars => Tokens'
    <2>1. \A x \in Names \cup {Star, Rest} \cup PartialWildcards : x \in STRING
        BY NamesAssumption, PartialWildcardsAssumption, Zenon
    <2> QED
        BY <2>1 DEF TopicNext, GrowPattern, GrowTopic, topicVars
<1>3. Tokens => LoopFollowsRules
    BY MatchFollowsRules DEF LoopFollowsRules
<1> QED
    BY <1>1, <1>2, <1>3, PTL DEF TopicSpec

-----------------------------------------------------------------------------
(* The implementation of PubSub.                                           *)

\* Only valid patterns are subscribed to.
ValidInv == \A p \in DOMAIN subscribers : Valid(p)

BrokerInv == TypeOK /\ Registry /\ ~reused /\ OrderInv /\ ValidInv

LEMMA InitValid == Init => ValidInv
BY DEF Init, ValidInv, EmptyDict

LEMMA StepValid == TypeOK /\ ValidInv /\ [Next]_vars => ValidInv'
<1> SUFFICES ASSUME TypeOK, ValidInv, [Next]_vars PROVE ValidInv'
    OBVIOUS
<1>1. ASSUME NEW c \in Conns, NEW subs, \A p \in DOMAIN subs : Valid(p),
             RemoveClient(c, subs)
      PROVE  ValidInv'
    BY <1>1 DEF RemoveClient, ValidInv
<1>2. ASSUME NEW c \in Conns, NEW p \in Patterns, NEW wanted \in BOOLEAN,
             Subscribe(c, p, wanted)
      PROVE  ValidInv'
    <2> DEFINE subs == Subscribed(subscribers, p, client_id[c])
    <2>1. Valid(p) => \A q \in DOMAIN subs : Valid(q)
        BY DEF Subscribed, Put, ValidInv
    <2>2. CASE UNCHANGED subscribers
        BY <2>2 DEF ValidInv
    <2>3. CASE Valid(p) /\ subscribers' = subs
        BY <2>1, <2>3 DEF ValidInv
    <2>4. CASE Valid(p) /\ RemoveClient(c, subs)
        BY <1>1, <2>1, <2>4
    <2> QED
        BY <1>2, <2>2, <2>3, <2>4 DEF Subscribe, registry
<1>3. ASSUME NEW c \in Conns, NEW p \in Patterns, NEW wanted \in BOOLEAN,
             Unsubscribe(c, p, wanted)
      PROVE  ValidInv'
    <2> DEFINE subs == [subscribers EXCEPT ![p] = @ \ {client_id[c]}]
    <2>1. \A q \in DOMAIN subs : Valid(q)
        BY DEF ValidInv
    <2>2. CASE UNCHANGED subscribers
        BY <2>2 DEF ValidInv
    <2>3. CASE subscribers' = subs
        BY <2>1, <2>3 DEF ValidInv
    <2>4. CASE RemoveClient(c, subs)
        BY <1>1, <2>1, <2>4
    <2> QED
        BY <1>3, <2>2, <2>3, <2>4 DEF Unsubscribe, registry
<1>4. ASSUME NEW c \in Conns, Disconnect(c) \/ SendRaised(c) \/ MalformedMessage(c)
      PROVE  ValidInv'
    BY <1>1, <1>4 DEF Disconnect, SendRaised, MalformedMessage, ValidInv
<1>5. ASSUME UNCHANGED subscribers PROVE ValidInv'
    BY <1>5 DEF ValidInv
<1>6. ASSUME NEW c \in Conns,
             Connect(c) \/ AcceptFails(c) \/ PeerCloses(c) \/ \E t \in Topics : Publish(c, t)
      PROVE  UNCHANGED subscribers
    BY <1>6 DEF Connect, AcceptFails, PeerCloses, Publish, registry
<1>7. ASSUME NEW s \in sends, Deliver(s) \/ Lose(s) \/ Fail(s) PROVE UNCHANGED subscribers
    BY <1>7 DEF Deliver, Lose, Fail, registry
<1>8. CASE UNCHANGED vars
    BY <1>8, <1>5 DEF vars, registry
<1> QED
    BY <1>2, <1>3, <1>4, <1>5, <1>6, <1>7, <1>8 DEF Next

\* The ids of live connections are their own and known.
LEMMA OwnIds ==
    ASSUME BrokerInv
    PROVE  /\ \A c, d \in Conns : Live(c) /\ Live(d) /\ client_id[c] = client_id[d] => c = d
           /\ \A c \in Conns : Live(c) =>
                 /\ client_id[c] \in DOMAIN clients
                 /\ client_id[c] \in DOMAIN websockets /\ websockets[client_id[c]] = c
           /\ \A p \in DOMAIN subscribers : subscribers[p] \subseteq DOMAIN clients
           /\ \A id \in DOMAIN websockets : /\ websockets[id] \in Conns
                                            /\ Live(websockets[id])
                                            /\ client_id[websockets[id]] = id
BY DEF BrokerInv, TypeOK, Registry, RegistryExact, RegisteredIsLive

\* What a step leaves alone of the views of PubSub.
LEMMA SameMembers ==
    ASSUME \A c \in Conns : (pc'[c] = "new" <=> pc[c] = "new") /\ (Live(c)' <=> Live(c))
    PROVE  Membership' = Membership
BY DEF Membership, Member

LEMMA SameSubscriptions ==
    ASSUME UNCHANGED <<client_id, subscribers>>, \A c \in Conns : Live(c)' <=> Live(c)
    PROVE  Subscriptions' = Subscriptions
BY DEF Subscriptions

LEMMA SameCopies ==
    ASSUME \A s : s \in sends' /\ s.n # 0 <=> s \in sends /\ s.n # 0
    PROVE  Copies' = Copies
<1>1. {s \in sends' : s.n # 0} = {s \in sends : s.n # 0}
    OBVIOUS
<1> QED
    BY <1>1, Zenon DEF Copies

\* A step that starts sends changes neither who is connected nor who is new.
LEMMA AwaitMembers ==
    ASSUME TypeOK, NEW c \in Conns, pc[c] = "receive", NEW new, Await(c, new)
    PROVE  \A d \in Conns : (pc'[d] = "new" <=> pc[d] = "new") /\ (Live(d)' <=> Live(d))
BY DEF Await, TypeOK, Live

LEMMA AnswerViews ==
    ASSUME TypeOK, NEW c \in Conns, pc[c] = "receive", NEW wanted, Answer(c, wanted)
    PROVE  /\ \A d \in Conns : (pc'[d] = "new" <=> pc[d] = "new") /\ (Live(d)' <=> Live(d))
           /\ Copies' = Copies
<1> DEFINE new == {[by |-> c, to |-> websockets[id], via |-> NoPattern, n |-> 0] :
                      id \in {i \in {client_id[c]} \cap DOMAIN websockets : wanted}}
<1>1. Await(c, new) /\ sends' = sends \cup new
    BY DEF Answer, Await
<1>2. \A s \in new : s.n = 0
    OBVIOUS
<1>3. \A s : s \in sends' /\ s.n # 0 <=> s \in sends /\ s.n # 0
    <2> HIDE DEF new
    <2> QED
        BY <1>1, <1>2
<1> QED
    BY <1>1, <1>3, AwaitMembers, SameCopies

LEMMA EndMembers ==
    ASSUME TypeOK, NEW s \in sends, Finish(s) \/ Fail(s)
    PROVE  \A d \in Conns : (pc'[d] = "new" <=> pc[d] = "new") /\ (Live(d)' <=> Live(d))
BY DEF Finish, Fail, TypeOK, Live

\* The messages on their way, told apart by receiver, pattern and number: the
\* number tells the sender.
LEMMA EndCopies ==
    ASSUME TypeOK, OrderInv, NEW s \in sends, sends' = sends \ {s}
    PROVE  /\ s.n = 0 => Copies' = Copies
           /\ s.n # 0 => /\ [to |-> s.to, via |-> s.via, n |-> s.n] \in Copies
                         /\ Copies' = Copies \ {[to |-> s.to, via |-> s.via, n |-> s.n]}
<1> DEFINE Copy(r) == [to |-> r.to, via |-> r.via, n |-> r.n]
<1>1. CASE s.n = 0
    <2>1. \A r : r \in sends' /\ r.n # 0 <=> r \in sends /\ r.n # 0
        BY <1>1
    <2> QED
        BY <1>1, <2>1, SameCopies
<1>2. CASE s.n # 0
    <2>1. Copy(s) \in Copies
        BY <1>2 DEF Copies
    <2>2. ASSUME NEW r \in sends, r.n # 0, Copy(r) = Copy(s) PROVE r = s
        <3>1. r.to = s.to /\ r.via = s.via /\ r.n = s.n
            BY <2>2
        <3>2. r.by = s.by
            BY <1>2, <2>2, <3>1 DEF OrderInv
        <3>3. r \in Send /\ s \in Send
            BY DEF TypeOK
        <3> QED
            BY <3>1, <3>2, <3>3 DEF Send
    <2>3. ASSUME NEW m PROVE m \in Copies' <=> m \in Copies \ {Copy(s)}
        <3>1. m \in Copies <=> \E r \in sends : r.n # 0 /\ m = Copy(r)
            BY Zenon DEF Copies
        <3>2. m \in Copies' <=> \E r \in sends' : r.n # 0 /\ m = Copy(r)
            BY Zenon DEF Copies
        <3>3. \A r \in sends : r \in sends' <=> r # s
            OBVIOUS
        <3>4. \A r \in sends' : r \in sends
            OBVIOUS
        <3> HIDE DEF Copy
        <3> QED
            BY <1>2, <2>2, <3>1, <3>2, <3>3, <3>4, Zenon
    <2> QED
        BY <1>2, <2>1, <2>3
<1> QED
    BY <1>1, <1>2

\* PubSub has the rules of TopicMatch.
LEMMA SameRules ==
    /\ \A p : Promise!Valid(p) <=> Valid(p)
    /\ \A p, t : Promise!MatchByRules(p, t) <=> MatchByRules(p, t)
<1>1. Promise!Star = Star /\ Promise!Rest = Rest
    BY DEF Promise!Star, Star, Promise!Rest, Rest
<1>2. \A p : Promise!Valid(p) <=> Valid(p)
    BY <1>1, Zenon DEF Promise!Valid, Valid
<1>3. \A p, t, n : Promise!Agree(p, t, n) <=> Agree(p, t, n)
    BY <1>1, Zenon DEF Promise!Agree, Agree
<1>4. \A p, t : Promise!MatchByRules(p, t) <=> MatchByRules(p, t)
    BY <1>1, <1>3, Zenon DEF Promise!MatchByRules, MatchByRules
<1> QED
    BY <1>2, <1>4

LEMMA InitPromise == Init => Promise!Init
<1> SUFFICES ASSUME Init PROVE Promise!Init
    OBVIOUS
<1>1. Membership = [c \in Conns |-> "new"]
    BY DEF Init, Membership, Member
<1>2. Subscriptions = [c \in Conns |-> {}]
    BY DEF Init, Subscriptions, Live
<1>3. Copies = {}
    BY DEF Init, Copies
<1> QED
    BY <1>1, <1>2, <1>3 DEF Init, Promise!Init

LEMMA ConnectRefines ==
    ASSUME BrokerInv, NEW c \in Conns, Connect(c), ~reused'
    PROVE  Promise!Join(c)
<1>1. NextId \notin DOMAIN clients
    BY DEF Connect
<1>2. /\ \A d \in Conns : d # c =>
            /\ pc'[d] = pc[d] /\ (Live(d)' <=> Live(d)) /\ client_id'[d] = client_id[d]
      /\ pc[c] = "new" /\ ~Live(c) /\ Live(c)' /\ pc'[c] = "receive"
      /\ client_id'[c] = NextId
    BY DEF Connect, BrokerInv, TypeOK, Live
<1>3. Membership[c] = "new" /\ Membership' = [Membership EXCEPT ![c] = "in"]
    BY <1>2 DEF Membership, Member
<1>4. Subscriptions' = Subscriptions
    <2>1. \A p \in DOMAIN subscribers : NextId \notin subscribers[p]
        BY <1>1, OwnIds
    <2>2. subscribers' = subscribers
        BY DEF Connect
    <2> QED
        BY <1>2, <2>1, <2>2 DEF Subscriptions
<1>5. Copies' = Copies /\ UNCHANGED <<closed, log, delivered>>
    BY DEF Connect, Copies
<1> QED
    BY <1>3, <1>4, <1>5 DEF Promise!Join

LEMMA RefusedRefines ==
    ASSUME BrokerInv, NEW c \in Conns, AcceptFails(c) \/ PeerCloses(c)
    PROVE  Promise!Vanish(c)
<1>1. /\ \A d \in Conns : Live(d)' <=> Live(d)
      /\ \A d \in Conns : d # c => pc'[d] = pc[d]
      /\ pc'[c] = IF pc[c] = "new" THEN "refused" ELSE pc[c]
    BY DEF AcceptFails, PeerCloses, BrokerInv, TypeOK, Live
<1>2. ~(Live(c) /\ pc[c] = "new") /\ (pc[c] # "new" => Live(c))
    BY DEF AcceptFails, PeerCloses, Live
<1>3. Membership' = [Membership EXCEPT ![c] = IF @ = "new" THEN "out" ELSE @]
    BY <1>1, <1>2 DEF Membership, Member
<1>4. Subscriptions' = Subscriptions
    BY <1>1, SameSubscriptions DEF AcceptFails, PeerCloses, registry
<1>5. Copies' = Copies /\ UNCHANGED <<log, delivered>>
    BY DEF AcceptFails, PeerCloses, Copies, history
<1>6. closed' = [closed EXCEPT ![c] = TRUE]
    BY DEF AcceptFails, PeerCloses
<1> QED
    BY <1>3, <1>4, <1>5, <1>6 DEF Promise!Vanish

LEMMA LeaveRefines ==
    ASSUME BrokerInv, NEW c \in Conns, Live(c), RemoveClient(c, subscribers)
    PROVE  Promise!Leave(c)
<1>1. client_id[c] \in DOMAIN clients
    BY OwnIds
<1>2. subscribers' = [p \in DOMAIN subscribers |-> subscribers[p] \ {client_id[c]}]
    BY <1>1 DEF RemoveClient
<1>3. /\ client_id' = client_id
      /\ \A d \in Conns : d # c => (Live(d)' <=> Live(d)) /\ pc'[d] = pc[d]
      /\ ~Live(c)' /\ pc'[c] = "done" /\ pc[c] # "new"
    BY DEF RemoveClient, Live, BrokerInv, TypeOK, history
<1>4. Membership[c] = "in" /\ Membership' = [Membership EXCEPT ![c] = "out"]
    BY <1>3 DEF Membership, Member
<1>5. \A d \in Conns : d # c /\ Live(d) => client_id[d] # client_id[c]
    BY OwnIds
<1>6. Subscriptions' = [Subscriptions EXCEPT ![c] = {}]
    <2>1. ASSUME NEW d \in Conns, d # c PROVE Subscriptions'[d] = Subscriptions[d]
        <3>1. CASE ~Live(d)
            BY <1>3, <2>1, <3>1 DEF Subscriptions
        <3>2. CASE Live(d)
            <4>1. /\ DOMAIN subscribers' = DOMAIN subscribers
                  /\ \A p \in DOMAIN subscribers :
                        client_id[d] \in subscribers'[p] <=> client_id[d] \in subscribers[p]
                BY <1>2, <1>5, <2>1, <3>2
            <4> QED
                BY <1>3, <2>1, <3>2, <4>1 DEF Subscriptions
        <3> QED
            BY <3>1, <3>2
    <2>2. Subscriptions'[c] = {}
        BY <1>3 DEF Subscriptions
    <2>3. /\ Subscriptions = [d \in Conns |-> Subscriptions[d]]
          /\ Subscriptions' = [d \in Conns |-> Subscriptions'[d]]
        BY DEF Subscriptions
    <2> QED
        BY <2>1, <2>2, <2>3
<1>7. Copies' = Copies /\ UNCHANGED <<log, delivered>>
    BY DEF RemoveClient, Copies, history
<1>8. closed' = [closed EXCEPT ![c] = TRUE]
    BY DEF RemoveClient
<1> QED
    BY <1>4, <1>6, <1>7, <1>8 DEF Promise!Leave

\* A change of the subscribers of one pattern by one client is a change of its
\* subscriptions only.
LEMMA OnePatternChanges ==
    ASSUME BrokerInv, NEW c \in Conns, Live(c), NEW p \in Patterns, NEW mine \in BOOLEAN,
           client_id' = client_id, \A d \in Conns : Live(d)' <=> Live(d),
           \A q \in DOMAIN subscribers : q \in DOMAIN subscribers',
           \A q \in DOMAIN subscribers' : q \in DOMAIN subscribers \/ q = p,
           \A q \in DOMAIN subscribers : q # p => subscribers'[q] = subscribers[q],
           p \in DOMAIN subscribers' =>
              \A id : id # client_id[c] =>
                 (id \in subscribers'[p] <=> p \in DOMAIN subscribers /\ id \in subscribers[p]),
           mine <=> p \in DOMAIN subscribers' /\ client_id[c] \in subscribers'[p]
    PROVE  Subscriptions' = [Subscriptions EXCEPT ![c] =
                                IF mine THEN @ \cup {p} ELSE @ \ {p}]
<1>1. \A d \in Conns : d # c /\ Live(d) => client_id[d] # client_id[c]
    BY OwnIds
<1>2. ASSUME NEW d \in Conns
      PROVE  Subscriptions'[d] =
                IF d # c THEN Subscriptions[d]
                ELSE IF mine THEN Subscriptions[c] \cup {p} ELSE Subscriptions[c] \ {p}
    <2>1. CASE ~Live(d)
        BY <2>1 DEF Subscriptions
    <2>2. CASE Live(d)
        <3>1. /\ Subscriptions[d] = {q \in DOMAIN subscribers : client_id[d] \in subscribers[q]}
              /\ Subscriptions'[d] =
                    {q \in DOMAIN subscribers' : client_id[d] \in subscribers'[q]}
            BY <2>2 DEF Subscriptions
        <3>2. CASE d # c
            <4>1. ASSUME NEW q PROVE q \in Subscriptions'[d] <=> q \in Subscriptions[d]
                <5>1. CASE q = p
                    BY <1>1, <2>2, <3>1, <3>2, <5>1
                <5>2. CASE q # p
                    BY <3>1, <5>2
                <5> QED
                    BY <5>1, <5>2
            <4> QED
                BY <3>2, <4>1
        <3>3. CASE d = c
            <4>1. ASSUME NEW q
                  PROVE  q \in Subscriptions'[c]
                            <=> IF q = p THEN mine ELSE q \in Subscriptions[c]
                <5>1. CASE q = p
                    BY <3>1, <3>3, <5>1
                <5>2. CASE q # p
                    BY <3>1, <3>3, <5>2
                <5> QED
                    BY <5>1, <5>2
            <4>2. CASE mine
                BY <3>3, <4>1, <4>2
            <4>3. CASE ~mine
                BY <3>3, <4>1, <4>3
            <4> QED
                BY <4>2, <4>3
        <3> QED
            BY <3>2, <3>3
    <2> QED
        BY <2>1, <2>2
<1>3. /\ Subscriptions = [d \in Conns |-> Subscriptions[d]]
      /\ Subscriptions' = [d \in Conns |-> Subscriptions'[d]]
    BY DEF Subscriptions
<1> QED
    BY <1>2, <1>3

LEMMA SubscribeRefines ==
    ASSUME BrokerInv, NEW c \in Conns, NEW p \in Patterns, NEW wanted \in BOOLEAN,
           Subscribe(c, p, wanted)
    PROVE  Promise!Subscribe(c, p) \/ UNCHANGED Promise!vars
<1> DEFINE subs == Subscribed(subscribers, p, client_id[c])
<1>1. TypeOK /\ pc[c] = "receive" /\ Live(c)
    BY DEF Subscribe, BrokerInv, Live
<1>2. client_id[c] \in DOMAIN clients
    BY <1>1, OwnIds
<1>3. CASE UNCHANGED registry
    <2>1. Answer(c, wanted) /\ UNCHANGED <<registry, client_id, closed, history>>
        BY <1>2, <1>3 DEF Subscribe, registry, history
    <2>2. Membership' = Membership /\ Copies' = Copies /\ Subscriptions' = Subscriptions
        BY <1>1, <2>1, AnswerViews, SameMembers, SameSubscriptions DEF registry
    <2> QED
        BY <2>1, <2>2 DEF Promise!vars, history
<1>4. CASE ~UNCHANGED registry
    <2>1. /\ Valid(p) /\ subscribers' = subs /\ Answer(c, wanted)
          /\ UNCHANGED <<websockets, clients, client_id, closed, history>>
        BY <1>2, <1>4 DEF Subscribe
    <2>2. Membership' = Membership /\ Copies' = Copies
        BY <1>1, <2>1, AnswerViews, SameMembers
    <2>3. \A d \in Conns : Live(d)' <=> Live(d)
        BY <1>1, <2>1, AnswerViews
    <2>4. /\ DOMAIN subscribers' = DOMAIN subscribers \cup {p}
          /\ \A q \in DOMAIN subscribers : q # p => subscribers'[q] = subscribers[q]
          /\ subscribers'[p] =
                (IF p \in DOMAIN subscribers THEN subscribers[p] ELSE {}) \cup {client_id[c]}
        BY <2>1 DEF Subscribed, Put
    <2>5. /\ client_id[c] \in subscribers'[p]
          /\ \A id : id # client_id[c] =>
                (id \in subscribers'[p] <=> p \in DOMAIN subscribers /\ id \in subscribers[p])
        BY <2>4
    <2>6. Subscriptions' = [Subscriptions EXCEPT ![c] = IF TRUE THEN @ \cup {p} ELSE @ \ {p}]
        BY <1>1, <2>1, <2>3, <2>4, <2>5, OnePatternChanges
    <2>7. Membership[c] = "in"
        BY <1>1 DEF Membership, Member
    <2> QED
        <3>1. Subscriptions' = [Subscriptions EXCEPT ![c] = @ \cup {p}]
            BY <2>6
        <3>2. UNCHANGED <<Membership, closed, Copies, log, delivered>>
            BY <2>1, <2>2 DEF history
        <3> QED
            BY <2>1, <2>7, <3>1, <3>2, SameRules DEF Promise!Subscribe
<1> QED
    BY <1>3, <1>4

LEMMA UnsubscribeRefines ==
    ASSUME BrokerInv, NEW c \in Conns, NEW p \in Patterns, NEW wanted \in BOOLEAN,
           Unsubscribe(c, p, wanted)
    PROVE  Promise!Unsubscribe(c, p) \/ UNCHANGED Promise!vars
<1>1. TypeOK /\ pc[c] = "receive" /\ Live(c)
    BY DEF Unsubscribe, BrokerInv, Live
<1>2. client_id[c] \in DOMAIN clients
    BY <1>1, OwnIds
<1> DEFINE known == p \in DOMAIN subscribers /\ client_id[c] \in subscribers[p]
<1>3. CASE ~known
    <2>1. Answer(c, wanted) /\ UNCHANGED <<registry, client_id, closed, history>>
        BY <1>3 DEF Unsubscribe
    <2>2. Membership' = Membership /\ Copies' = Copies /\ Subscriptions' = Subscriptions
        BY <1>1, <2>1, AnswerViews, SameMembers, SameSubscriptions DEF registry
    <2> QED
        BY <2>1, <2>2 DEF Promise!vars, history
<1>4. CASE known
    <2>1. /\ subscribers' = [subscribers EXCEPT ![p] = @ \ {client_id[c]}]
          /\ UNCHANGED <<websockets, clients, pc, client_id, closed, sends, history>>
        BY <1>2, <1>4 DEF Unsubscribe
    <2>2. \A d \in Conns : Live(d)' <=> Live(d)
        BY <2>1 DEF Live
    <2>3. Membership' = Membership /\ Copies' = Copies
        BY <2>1, <2>2, SameMembers DEF Copies
    <2>4. /\ DOMAIN subscribers' = DOMAIN subscribers
          /\ \A q \in DOMAIN subscribers : q # p => subscribers'[q] = subscribers[q]
          /\ subscribers'[p] = subscribers[p] \ {client_id[c]}
        BY <1>4, <2>1
    <2>5. /\ client_id[c] \notin subscribers'[p]
          /\ \A id : id # client_id[c] => (id \in subscribers'[p] <=> id \in subscribers[p])
        BY <2>4
    <2>6. Subscriptions' = [Subscriptions EXCEPT ![c] = IF FALSE THEN @ \cup {p} ELSE @ \ {p}]
        BY <1>1, <1>4, <2>1, <2>2, <2>4, <2>5, OnePatternChanges
    <2>7. Membership[c] = "in"
        BY <1>1 DEF Membership, Member
    <2> QED
        BY <2>1, <2>3, <2>6, <2>7 DEF Promise!Unsubscribe, history
<1> QED
    BY <1>3, <1>4

LEMMA PublishRefines ==
    ASSUME BrokerInv, NEW c \in Conns, NEW t \in Topics, Publish(c, t)
    PROVE  Promise!Publish(c, t)
<1> DEFINE new == {[by |-> c, to |-> r[1], via |-> r[2], n |-> Len(log')] : r \in Receivers(t)}
           Wanted == {r \in Conns \X Patterns :
                         r[2] \in Subscriptions[r[1]] /\ Promise!MatchByRules(r[2], t)}
           more == {[to |-> r[1], via |-> r[2], n |-> Len(log')] : r \in Wanted}
<1>1. TypeOK /\ OrderInv /\ pc[c] = "receive" /\ Live(c)
    BY DEF Publish, BrokerInv, Live
<1>2. /\ Await(c, new) /\ sends' = sends \cup new
      /\ log' = Append(log, [from |-> c, topic |-> t])
      /\ UNCHANGED <<registry, client_id, closed, delivered, reused>>
    BY DEF Publish, Await
<1>3. Len(log') # 0
    BY <1>1, <1>2 DEF TypeOK
<1>4. \A d \in Conns : (pc'[d] = "new" <=> pc[d] = "new") /\ (Live(d)' <=> Live(d))
    BY <1>1, <1>2, AwaitMembers
<1>5. Membership' = Membership /\ Subscriptions' = Subscriptions /\ Membership[c] = "in"
    <2>1. Membership' = Membership /\ Subscriptions' = Subscriptions
        BY <1>2, <1>4, SameMembers, SameSubscriptions DEF registry
    <2> QED
        BY <1>1, <2>1 DEF Membership, Member
<1>6. Receivers(t) = Wanted
    <2>1. ASSUME NEW d \in Conns, NEW p \in Patterns
          PROVE  <<d, p>> \in Receivers(t) <=> <<d, p>> \in Wanted
        <3>1. p \in DOMAIN subscribers => (Match(p, t) <=> MatchByRules(p, t))
            BY MatchFollowsRules, SlowMQAssumption DEF BrokerInv, ValidInv
        <3>2. p \in DOMAIN subscribers =>
                 ((\E id \in subscribers[p] \cap DOMAIN websockets : websockets[id] = d)
                     <=> Live(d) /\ client_id[d] \in subscribers[p])
            BY OwnIds
        <3>3. p \in Subscriptions[d]
                 <=> Live(d) /\ p \in DOMAIN subscribers /\ client_id[d] \in subscribers[p]
            BY DEF Subscriptions
        <3>4. <<d, p>> \in Receivers(t)
                 <=> /\ p \in DOMAIN subscribers /\ Match(p, t)
                     /\ \E id \in subscribers[p] \cap DOMAIN websockets : websockets[id] = d
            BY DEF Receivers
        <3>5. <<d, p>> \in Wanted <=> p \in Subscriptions[d] /\ MatchByRules(p, t)
            BY SameRules
        <3> HIDE DEF Wanted
        <3> QED
            BY <3>1, <3>2, <3>3, <3>4, <3>5, Zenon
    <2>2. Receivers(t) \subseteq Conns \X Patterns /\ Wanted \subseteq Conns \X Patterns
        BY DEF Receivers
    <2> HIDE DEF Wanted
    <2> QED
        BY <2>1, <2>2
<1>7. Copies' = Copies \cup more
    <2> DEFINE Copy(s) == [to |-> s.to, via |-> s.via, n |-> s.n]
    <2>1. ASSUME NEW m PROVE m \in Copies' <=> m \in Copies \cup more
        <3>1. m \in Copies <=> \E s \in sends : s.n # 0 /\ m = Copy(s)
            BY Zenon DEF Copies
        <3>2. m \in Copies' <=> \E s \in sends' : s.n # 0 /\ m = Copy(s)
            BY Zenon DEF Copies
        <3>3. m \in more <=> \E s \in new : m = Copy(s)
            <4> DEFINE Made(r) == [by |-> c, to |-> r[1], via |-> r[2], n |-> Len(log')]
            <4>1. \A r : Copy(Made(r)) = [to |-> r[1], via |-> r[2], n |-> Len(log')]
                OBVIOUS
            <4>2. m \in more <=> \E r \in Wanted : m = Copy(Made(r))
                BY <4>1
            <4>3. \A s : s \in new <=> \E r \in Wanted : s = Made(r)
                BY <1>6, Zenon
            <4> HIDE DEF more, new, Wanted, Made, Copy
            <4> QED
                BY <4>2, <4>3, Zenon
        <3>4. \A s \in new : s.n # 0
            BY <1>3
        <3>5. \A s : s \in sends' <=> s \in sends \/ s \in new
            BY <1>2
        <3> HIDE DEF more, new, Copy
        <3> QED
            BY <3>1, <3>2, <3>3, <3>4, <3>5, Zenon
    <2> HIDE DEF more
    <2> QED
        BY <2>1
<1>8. \A m \in Copies : log[m.n].from # c
    <2>1. \A m \in Copies : \E s \in sends : s.n # 0 /\ m.n = s.n
        BY DEF Copies
    <2> QED
        BY <1>1, <2>1 DEF OrderInv
<1>9. UNCHANGED <<Membership, Subscriptions, closed, delivered>>
    BY <1>2, <1>5
<1> QED
    BY <1>2, <1>5, <1>7, <1>8, <1>9, Zenon DEF Promise!Publish

LEMMA EndRefines ==
    ASSUME BrokerInv, NEW s \in sends, Deliver(s) \/ Lose(s) \/ Fail(s)
    PROVE  \/ \E m \in Copies : Promise!Deliver(m) \/ Promise!Drop(m)
           \/ UNCHANGED Promise!vars
<1> DEFINE m == [to |-> s.to, via |-> s.via, n |-> s.n]
<1>1. TypeOK /\ OrderInv
    BY DEF BrokerInv
<1>2. sends' = sends \ {s} /\ (Finish(s) \/ Fail(s))
    BY DEF Deliver, Lose, Fail, Finish
<1>3. \A d \in Conns : (pc'[d] = "new" <=> pc[d] = "new") /\ (Live(d)' <=> Live(d))
    BY <1>1, <1>2, EndMembers
<1>4. UNCHANGED <<registry, client_id, closed, log>>
    BY DEF Deliver, Lose, Fail, history
<1>5. Membership' = Membership /\ Subscriptions' = Subscriptions
    BY <1>3, <1>4, SameMembers, SameSubscriptions DEF registry
<1>6. CASE s.n = 0
    <2>1. Copies' = Copies
        BY <1>1, <1>2, <1>6, EndCopies
    <2>2. delivered' = delivered
        BY <1>6 DEF Deliver, Lose, Fail, history
    <2> QED
        BY <1>4, <1>5, <2>1, <2>2 DEF Promise!vars
<1>7. CASE s.n # 0
    <2>1. m \in Copies /\ Copies' = Copies \ {m}
        BY <1>1, <1>2, <1>7, EndCopies
    <2>2. m.to = s.to /\ m.n = s.n
        OBVIOUS
    <2>3. CASE Deliver(s)
        <3>1. ~closed[m.to] /\ delivered' = [delivered EXCEPT ![m.to] = Append(@, m.n)]
            BY <1>7, <2>2, <2>3 DEF Deliver
        <3> HIDE DEF m
        <3>2. Promise!Deliver(m)
            BY <1>4, <1>5, <2>1, <3>1 DEF Promise!Deliver
        <3> QED
            BY <2>1, <3>2
    <2>4. CASE Lose(s) \/ Fail(s)
        <3>1. closed[m.to] /\ delivered' = delivered
            BY <2>2, <2>4 DEF Lose, Fail, history
        <3> HIDE DEF m
        <3>2. Promise!Drop(m)
            BY <1>4, <1>5, <2>1, <3>1 DEF Promise!Drop
        <3> QED
            BY <2>1, <3>2
    <2> QED
        BY <2>3, <2>4
<1> QED
    BY <1>6, <1>7

LEMMA StepRefines ==
    ASSUME BrokerInv, ~reused', [Next]_vars
    PROVE  [Promise!Next]_(Promise!vars)
<1>1. ASSUME NEW c \in Conns, Connect(c) PROVE Promise!Next
    BY <1>1, ConnectRefines DEF Promise!Next
<1>2. ASSUME NEW c \in Conns, AcceptFails(c) \/ PeerCloses(c) PROVE Promise!Next
    BY <1>2, RefusedRefines DEF Promise!Next
<1>3. ASSUME NEW c \in Conns, Disconnect(c) \/ SendRaised(c) \/ MalformedMessage(c)
      PROVE  Promise!Next
    <2>1. Live(c) /\ RemoveClient(c, subscribers)
        BY <1>3 DEF Disconnect, SendRaised, MalformedMessage, Live
    <2> QED
        BY <2>1, LeaveRefines DEF Promise!Next
<1>4. ASSUME NEW c \in Conns, NEW p \in Patterns, NEW wanted \in BOOLEAN,
             Subscribe(c, p, wanted) \/ Unsubscribe(c, p, wanted)
      PROVE  Promise!Next \/ UNCHANGED Promise!vars
    BY <1>4, SubscribeRefines, UnsubscribeRefines DEF Promise!Next
<1>5. ASSUME NEW c \in Conns, NEW t \in Topics, Publish(c, t) PROVE Promise!Next
    BY <1>5, PublishRefines DEF Promise!Next
<1>6. ASSUME NEW s \in sends, Deliver(s) \/ Lose(s) \/ Fail(s)
      PROVE  Promise!Next \/ UNCHANGED Promise!vars
    BY <1>6, EndRefines DEF Promise!Next
<1>7. CASE UNCHANGED vars
    <2>1. Membership' = Membership /\ Subscriptions' = Subscriptions /\ Copies' = Copies
        BY <1>7 DEF vars, registry, Membership, Member, Subscriptions, Copies, Live
    <2> QED
        BY <1>7, <2>1 DEF vars, history, Promise!vars
<1> QED
    BY <1>1, <1>2, <1>3, <1>4, <1>5, <1>6, <1>7 DEF Next

\* An id that was given out twice stays so.
LEMMA StaysReused == TypeOK /\ reused /\ [Next]_vars => reused'
<1> SUFFICES ASSUME TypeOK, reused, [Next]_vars PROVE reused'
    OBVIOUS
<1>1. ASSUME NEW c \in Conns,
             \/ Connect(c) \/ AcceptFails(c) \/ PeerCloses(c)
             \/ Disconnect(c) \/ SendRaised(c) \/ MalformedMessage(c)
      PROVE  reused'
    BY <1>1 DEF Connect, AcceptFails, PeerCloses, Disconnect, SendRaised, MalformedMessage,
                RemoveClient, history
<1>2. ASSUME NEW c \in Conns, NEW p \in Patterns, NEW wanted \in BOOLEAN,
             Subscribe(c, p, wanted) \/ Unsubscribe(c, p, wanted)
      PROVE  reused'
    BY <1>2 DEF Subscribe, Unsubscribe, RemoveClient, history
<1>3. ASSUME NEW c \in Conns, NEW t \in Topics, Publish(c, t) PROVE reused'
    BY <1>3 DEF Publish
<1>4. ASSUME NEW s \in sends, Deliver(s) \/ Lose(s) \/ Fail(s) PROVE reused'
    BY <1>4 DEF Deliver, Lose, Fail, history
<1>5. CASE UNCHANGED vars
    BY <1>5 DEF vars, history
<1> QED
    BY <1>1, <1>2, <1>3, <1>4, <1>5 DEF Next

\* Whoever comes and goes, and whenever: until an id has been given out twice, each
\* step of the broker is one that PubSub allows, for any number of connections,
\* patterns and messages.  All that goes wrong between connections needs an
\* index of len(self.clients) that is in use (sd_slowmq.py, add_client()).
THEOREM RefinementUntilReused == Spec => ImplementsUntilReused
<1> DEFINE Inv == TypeOK /\ Registry /\ OrderInv /\ ValidInv
<1>1. Init => Inv /\ Promise!Init
    BY InitType, InitRegistry, InitOrder, InitValid, InitPromise
<1>2. Inv /\ [Next]_vars => Inv'
    BY StepType, StepRegistry, StepOrder, StepValid
<1>3. Inv /\ [Next]_vars => [~reused' => [Promise!Next]_(Promise!vars)]_vars
    <2> SUFFICES ASSUME Inv, [Next]_vars, ~reused' PROVE [Promise!Next]_(Promise!vars)
        OBVIOUS
    <2>1. BrokerInv
        BY StaysReused DEF BrokerInv
    <2> QED
        BY <2>1, StepRefines
<1> QED
    BY <1>1, <1>2, <1>3, PTL DEF Spec, ImplementsUntilReused

\* Without a late join no id is given out twice, and the broker implements PubSub:
\* what ids, dictionaries, tasks and failing sends do together is to deliver each
\* message to the subscribers of its moment.
THEOREM Refinement ==
    ASSUME ~LateJoin PROVE Spec => ImplementsPubSub
<1>1. TypeOK /\ Dense /\ [Next]_vars => Dense'
    BY StepDense
<1>2. Spec => []~reused
    <2>1. Dense => ~reused
        BY DEF Dense
    <2> QED
        BY <1>1, <2>1, InitType, StepType, InitDense, PTL DEF Spec
<1>3. [~reused' => [Promise!Next]_(Promise!vars)]_vars /\ (~reused)'
        => [Promise!Next]_(Promise!vars)
    <2>1. UNCHANGED vars => UNCHANGED Promise!vars
        BY DEF vars, registry, history, Promise!vars, Membership, Member, Subscriptions, Copies, Live
    <2> QED
        BY <2>1
<1> QED
    BY <1>2, <1>3, RefinementUntilReused, PTL
       DEF ImplementsUntilReused, ImplementsPubSub, Promise!Spec
=============================================================================
