------------------------------- MODULE PubSub -------------------------------
(***************************************************************************)
(* What a topic broker promises to its clients, without ids, dictionaries  *)
(* or tasks.  A client that is connected when a message is published gets  *)
(* it once for each of its own subscriptions that matches, unless it goes  *)
(* away first; nobody else gets it; and a client's next message does not   *)
(* go out before the copies of its last one are dealt with.                *)
(***************************************************************************)
EXTENDS Naturals, Sequences, TopicMatch

CONSTANTS Conns, Patterns, Topics

VARIABLES member,     \* "new", "in" or "out"
          subs,       \* the subscriptions of each client
          gone,       \* has the peer gone away?
          inflight,   \* the copies on their way
          log,        \* the published messages
          delivered   \* what each client got, as indices of log

vars == <<member, subs, gone, inflight, log, delivered>>

Init ==
    /\ member = [c \in Conns |-> "new"]
    /\ subs = [c \in Conns |-> {}]
    /\ gone = [c \in Conns |-> FALSE]
    /\ inflight = {}
    /\ log = <<>>
    /\ delivered = [c \in Conns |-> <<>>]

Join(c) ==
    /\ member[c] = "new"
    /\ member' = [member EXCEPT ![c] = "in"]
    /\ UNCHANGED <<subs, gone, inflight, log, delivered>>

\* Refused, or gone away while connected.
Vanish(c) ==
    /\ gone' = [gone EXCEPT ![c] = TRUE]
    /\ member' = [member EXCEPT ![c] = IF @ = "new" THEN "out" ELSE @]
    /\ UNCHANGED <<subs, inflight, log, delivered>>

\* Leaving takes every subscription of the client along, and no other.
Leave(c) ==
    /\ member[c] = "in"
    /\ member' = [member EXCEPT ![c] = "out"]
    /\ subs' = [subs EXCEPT ![c] = {}]
    /\ gone' = [gone EXCEPT ![c] = TRUE]
    /\ UNCHANGED <<inflight, log, delivered>>

Subscribe(c, p) ==
    /\ member[c] = "in" /\ Valid(p)
    /\ subs' = [subs EXCEPT ![c] = @ \cup {p}]
    /\ UNCHANGED <<member, gone, inflight, log, delivered>>

Unsubscribe(c, p) ==
    /\ member[c] = "in"
    /\ subs' = [subs EXCEPT ![c] = @ \ {p}]
    /\ UNCHANGED <<member, gone, inflight, log, delivered>>

Publish(c, topic) ==
    /\ member[c] = "in"
    /\ \A m \in inflight : log[m.n].from # c
    /\ log' = Append(log, [from |-> c, topic |-> topic])
    /\ inflight' = inflight \cup
          {[to |-> r[1], via |-> r[2], n |-> Len(log')] :
              r \in {r \in Conns \X Patterns :
                        r[2] \in subs[r[1]] /\ MatchByRules(r[2], topic)}}
    /\ UNCHANGED <<member, subs, gone, delivered>>

Deliver(m) ==
    /\ m \in inflight /\ ~gone[m.to]
    /\ inflight' = inflight \ {m}
    /\ delivered' = [delivered EXCEPT ![m.to] = Append(@, m.n)]
    /\ UNCHANGED <<member, subs, gone, log>>

\* Only a client that is gone misses a message.
Drop(m) ==
    /\ m \in inflight /\ gone[m.to]
    /\ inflight' = inflight \ {m}
    /\ UNCHANGED <<member, subs, gone, log, delivered>>

Next ==
    \/ \E c \in Conns :
        \/ Join(c) \/ Vanish(c) \/ Leave(c)
        \/ \E p \in Patterns : Subscribe(c, p) \/ Unsubscribe(c, p)
        \/ \E t \in Topics : Publish(c, t)
    \/ \E m \in inflight : Deliver(m) \/ Drop(m)

Spec == Init /\ [][Next]_vars
=============================================================================
