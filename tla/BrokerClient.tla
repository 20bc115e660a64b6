---------------------------- MODULE BrokerClient ----------------------------
(***************************************************************************)
(* The clients of the message brokers that a script or a mesh subscribes   *)
(* with (lib/slowpy/slowpy/control/control_Async{SlowMQ, Redis, RabbitMQ,  *)
(* NATS, MQTT}.py).  They keep the same kind of state: whether they take   *)
(* themselves to be connected, and whether they take their subscription to *)
(* be made; and they differ in who finds out that the connection is gone   *)
(* and what is then made again.  One client is modelled, of any kind, with *)
(* one subscriber, whose aio_get() is called over and over, and possibly a *)
(* publisher beside it.                                                    *)
(*                                                                         *)
(* The libraries below the clients are external: those of Redis and NATS   *)
(* reconnect by themselves and repeat the subscriptions they know of, the  *)
(* others raise.  A publisher of RabbitMQ uses the exchange of the         *)
(* subscriber.  Retry intervals are left out: a retry comes some time.     *)
(***************************************************************************)
EXTENDS Naturals

CONSTANT MaxDrops     \* how often the connection is lost

ASSUME BrokerAssumption == MaxDrops \in Nat

BrokerKind == {"slowmq", "redis", "rabbitmq", "nats", "mqtt"}

VARIABLES bkKind, bkPublishes,
          bkUp,         \* the broker can be reached
          bkAlive,      \* the connection there is, is one
          bkConnected,  \* the client takes itself to be connected
          bkMade,       \* ... and its subscription to be made
          bkHeard,      \* messages reach the subscriber
          bkReceiver,   \* MQTT: the receiver task runs
          bkOpened,     \* RabbitMQ: what was made on the connection, but for the queue
          bkDrops,
          bkRefused     \* a subscription failed while the connection held

bkVars == <<bkKind, bkPublishes, bkUp, bkAlive, bkConnected, bkMade, bkHeard, bkReceiver,
            bkOpened, bkDrops, bkRefused>>
bkFixed == <<bkKind, bkPublishes, bkUp, bkDrops>>

BrokerTypeOK ==
  /\ bkKind \in BrokerKind
  /\ {bkPublishes, bkUp, bkAlive, bkConnected, bkMade, bkHeard, bkReceiver, bkRefused} \subseteq BOOLEAN
  /\ bkOpened \in {{}, {"channel"}, {"channel", "exchange"}}
  /\ bkDrops \in 0 .. MaxDrops

BrokerInit ==
  /\ bkKind \in BrokerKind /\ bkPublishes \in BOOLEAN
  /\ bkUp \in BOOLEAN
  /\ bkAlive = FALSE /\ bkConnected = FALSE /\ bkMade = FALSE /\ bkHeard = FALSE
  /\ bkReceiver = FALSE /\ bkOpened = {} /\ bkDrops = 0 /\ bkRefused = FALSE

\* The connection is lost, or the broker stops.
LinkLost ==
  /\ bkUp /\ bkDrops < MaxDrops
  /\ bkDrops' = bkDrops + 1
  /\ bkUp' \in BOOLEAN
  /\ bkAlive' = FALSE /\ bkHeard' = FALSE
  /\ UNCHANGED <<bkKind, bkPublishes, bkConnected, bkMade, bkReceiver, bkOpened, bkRefused>>

LinkBack ==
  /\ ~bkUp /\ bkUp' = TRUE
  /\ UNCHANGED <<bkKind, bkPublishes, bkAlive, bkConnected, bkMade, bkHeard, bkReceiver,
                 bkOpened, bkDrops, bkRefused>>

\* What a client has to set, in the order of the fields.
Become(alive, connected, made, heard) ==
  /\ bkAlive' = alive /\ bkConnected' = connected /\ bkMade' = made /\ bkHeard' = heard
  /\ UNCHANGED bkFixed

Keep == UNCHANGED <<bkReceiver, bkOpened, bkRefused>>

(***************************************************************************)
(* SlowMQ: a web socket for each subscriber.                               *)
(***************************************************************************)
\* _subscribe(): when the request cannot be sent, is not answered in time or
\* is answered by an error, the socket is given up and the next call makes
\* another.  connected is what says that the subscription is made.
SlowMQSubscribe ==
  /\ bkKind = "slowmq" /\ ~bkMade /\ bkUp
  /\ Become(TRUE, TRUE, TRUE, TRUE)
  /\ Keep

SlowMQSubscribeFails ==
  /\ bkKind = "slowmq" /\ ~bkMade /\ bkUp
  /\ Become(TRUE, FALSE, FALSE, FALSE)
  /\ Keep

\* A reply that is no JSON leaves the client connected, whatever the broker did.
SlowMQReplyUnread ==
  /\ bkKind = "slowmq" /\ ~bkMade /\ bkUp
  /\ \E heard \in BOOLEAN : Become(TRUE, TRUE, TRUE, heard) /\ bkRefused' = ~heard
  /\ UNCHANGED <<bkReceiver, bkOpened>>

\* Mutant: an exception of recv() does not mark the socket as lost.
MutSlowMQGetFails ==
  /\ bkKind = "slowmq" /\ bkMade /\ ~bkAlive
  /\ Become(FALSE, TRUE, TRUE, FALSE)
  /\ bkRefused' = FALSE
  /\ UNCHANGED <<bkReceiver, bkOpened>>

\* aio_get(): an exception of recv().
SlowMQGetFails ==
  /\ bkKind = "slowmq" /\ bkMade /\ ~bkAlive
  /\ Become(FALSE, FALSE, FALSE, FALSE)
  /\ bkRefused' = FALSE
  /\ UNCHANGED <<bkReceiver, bkOpened>>

(***************************************************************************)
(* Redis: a pubsub object for each subscriber.                             *)
(***************************************************************************)
RedisOpen ==
  /\ bkKind = "redis" /\ ~bkConnected /\ bkUp
  /\ Become(TRUE, TRUE, bkMade, FALSE)
  /\ Keep

\* The pubsub object is kept before psubscribe() is tried, and not tried again.
RedisSubscribe ==
  /\ bkKind = "redis" /\ bkConnected /\ ~bkMade
  /\ \/ /\ bkUp
        /\ Become(TRUE, TRUE, TRUE, TRUE)
        /\ UNCHANGED bkRefused
     \/ /\ Become(bkAlive, TRUE, TRUE, FALSE)
        /\ bkRefused' = TRUE
  /\ UNCHANGED <<bkReceiver, bkOpened>>

\* pubsub.connect() makes the connection again, with what was subscribed.
RedisGet ==
  /\ bkKind = "redis" /\ bkMade /\ ~bkAlive /\ bkUp
  /\ Become(TRUE, TRUE, TRUE, ~bkRefused)
  /\ Keep

(***************************************************************************)
(* RabbitMQ: connection, channel, exchange and queue, made when needed.    *)
(***************************************************************************)
\* _construct() of the connection, called by the subscriber and the publisher.
RabbitConnect ==
  /\ bkKind = "rabbitmq" /\ ~bkConnected /\ bkUp
  /\ Become(TRUE, TRUE, FALSE, FALSE)
  /\ Keep

\* ... and of the channel, then of the exchange.  What fails here leaves all as it
\* is for the next call: also the connection, when it is one no more.
RabbitOpens(what, on) ==
  /\ bkKind = "rabbitmq" /\ bkConnected /\ bkAlive
  /\ bkOpened = on /\ bkOpened' = on \cup {what}
  /\ Become(TRUE, TRUE, bkMade, bkHeard)
  /\ UNCHANGED <<bkReceiver, bkRefused>>

RabbitChannel == RabbitOpens("channel", {})
RabbitExchange == RabbitOpens("exchange", {"channel"})

\* The queue is declared though there is no exchange, and kept before it is bound
\* to it; a failure to bind it is raised, and not met again.
RabbitDeclareQueue ==
  /\ bkKind = "rabbitmq" /\ "channel" \in bkOpened /\ ~bkMade /\ bkAlive
  /\ \/ "exchange" \in bkOpened /\ Become(TRUE, TRUE, TRUE, TRUE) /\ UNCHANGED bkRefused
     \/ Become(TRUE, TRUE, TRUE, FALSE) /\ bkRefused' = TRUE
  /\ UNCHANGED <<bkReceiver, bkOpened>>

\* queue.get() or publish() fails: aio_close() of the connection, and of all
\* that was made on it.  A publisher without an exchange does not publish.
RabbitCloses ==
  /\ bkKind = "rabbitmq" /\ ~bkAlive
  /\ (bkPublishes /\ "exchange" \in bkOpened) \/ bkMade
  /\ Become(FALSE, FALSE, FALSE, FALSE)
  /\ bkOpened' = {} /\ bkRefused' = FALSE
  /\ UNCHANGED bkReceiver

(***************************************************************************)
(* NATS: the client of the library, and a handler that fills a queue.      *)
(***************************************************************************)
NatsOpen ==
  /\ bkKind = "nats" /\ ~bkConnected /\ bkUp
  /\ Become(TRUE, TRUE, FALSE, FALSE)
  /\ Keep

\* _register(); a failure leaves it to the next call.
NatsRegister ==
  /\ bkKind = "nats" /\ bkConnected /\ ~bkMade /\ bkAlive
  /\ Become(TRUE, TRUE, TRUE, TRUE)
  /\ Keep

NatsLibraryReconnects ==
  /\ bkKind = "nats" /\ bkConnected /\ ~bkAlive /\ bkUp
  /\ Become(TRUE, TRUE, bkMade, bkMade)
  /\ Keep

(***************************************************************************)
(* MQTT: a client, and a receiver task that fills the queues.              *)
(***************************************************************************)
\* aio_open(), called by a subscriber that is not registered and by every
\* publish.  It is connected before it repeats the subscriptions of the last
\* connection, and starts the receiver after that.
MqttOpen ==
  /\ bkKind = "mqtt" /\ ~bkConnected /\ bkUp
  /\ ~bkMade \/ bkPublishes
  /\ \/ Become(TRUE, TRUE, bkMade, bkMade) /\ bkReceiver' = TRUE /\ UNCHANGED bkRefused
     \/ bkMade /\ Become(TRUE, TRUE, TRUE, FALSE) /\ bkRefused' = TRUE /\ UNCHANGED bkReceiver
  /\ UNCHANGED bkOpened

\* _subscribe(); a failure is raised and leaves it to the next call.
MqttSubscribe ==
  /\ bkKind = "mqtt" /\ bkConnected /\ ~bkMade /\ bkAlive
  /\ Become(TRUE, TRUE, TRUE, TRUE)
  /\ Keep

\* An exception in the receiver, or in a publish: aio_close().
MqttCloses ==
  /\ bkKind = "mqtt" /\ bkConnected /\ ~bkAlive
  /\ bkReceiver \/ bkPublishes
  /\ Become(FALSE, FALSE, bkMade, FALSE)
  /\ bkReceiver' = FALSE /\ bkRefused' = FALSE
  /\ UNCHANGED bkOpened

ClientStep ==
  \/ SlowMQSubscribe \/ SlowMQGetFails
  \/ RedisOpen \/ RedisSubscribe \/ RedisGet
  \/ RabbitConnect \/ RabbitChannel \/ RabbitExchange \/ RabbitDeclareQueue \/ RabbitCloses
  \/ NatsOpen \/ NatsRegister \/ NatsLibraryReconnects
  \/ MqttOpen \/ MqttSubscribe \/ MqttCloses

BrokerNext ==
  ClientStep \/ SlowMQSubscribeFails \/ SlowMQReplyUnread \/ LinkLost \/ LinkBack

\* The broker comes back, the subscriber and the publisher are used over and
\* over, SlowMQ does not refuse a subscription for ever, nor RabbitMQ a channel
\* over a connection that is one.
BrokerFair ==
  /\ WF_bkVars(LinkBack)
  /\ WF_bkVars(ClientStep)

BrokerSpec == BrokerInit /\ [][BrokerNext]_bkVars /\ BrokerFair

(***************************************************************************)
(* Properties                                                              *)
(***************************************************************************)
\* A client that takes itself to be connected and its subscription to be made,
\* over a connection that is one, hears what is published, unless a subscription
\* was refused; and nothing is heard but over a connection that is one, by a
\* client that takes the subscription to be made.
SubscribedHears ==
  /\ bkConnected /\ bkMade /\ bkAlive => bkHeard \/ bkRefused
  /\ bkHeard => bkAlive /\ bkMade

\* A client of RabbitMQ holds a connection that is one no more, and nobody is
\* left to close it: it was lost before the queue was made, and the publisher,
\* if there is one, has no exchange.  Each call then fails to open a channel or
\* to declare what comes next, and no call connects again.
Stranded ==
  /\ bkKind = "rabbitmq" /\ bkConnected /\ ~bkAlive /\ ~bkMade
  /\ ~(bkPublishes /\ "exchange" \in bkOpened)

\* No step of a client of RabbitMQ strands it: only a connection that is lost
\* while it makes what it needs on it does.
StrandedByLoss == [][Stranded' => Stranded \/ LinkLost]_bkVars

\* A subscriber that has lost its connection hears again once the broker is
\* back, with every kind of broker, unless its subscription was refused and
\* left half made; but one of MQTT needs somebody to publish with its client,
\* and one of RabbitMQ must not be stranded.
SubscriberHeals ==
  /\ []SubscribedHears
  /\ <>[](\/ bkHeard \/ bkRefused
          \/ bkKind = "mqtt" /\ ~bkPublishes /\ bkDrops > 0
          \/ Stranded)
=============================================================================
