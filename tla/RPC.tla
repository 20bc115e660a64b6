-------------------------------- MODULE RPC --------------------------------
(***************************************************************************)
(* What remote calls over the mesh promise, without queues, correlation    *)
(* ids or messages.  A call reaches a mesh of the name it asks for at most *)
(* once, and a mesh executes one call at a time.  What a call returns are  *)
(* answers to itself, from executions that are over, one for each mesh; a  *)
(* call that asks for one answer returns one at most.                      *)
(***************************************************************************)
CONSTANTS Meshes, Calls, Callees, Many, None

VARIABLES state,     \* "new", "open" or "closed"
          runs,      \* the meshes that have executed a call, or do
          busy,      \* what each mesh executes
          got        \* what each call has got: whose answer, from which mesh

vars == <<state, runs, busy, got>>

Init ==
    /\ state = [c \in Calls |-> "new"]
    /\ runs = [c \in Calls |-> {}]
    /\ busy = [m \in Meshes |-> None]
    /\ got = [c \in Calls |-> {}]

Open(c) ==
    /\ state[c] = "new"
    /\ state' = [state EXCEPT ![c] = "open"]
    /\ UNCHANGED <<runs, busy, got>>

\* A call that was given up may be executed all the same.
Begin(c, m) ==
    /\ state[c] # "new" /\ m \in Callees[c] \ runs[c]
    /\ busy[m] = None
    /\ runs' = [runs EXCEPT ![c] = @ \cup {m}]
    /\ busy' = [busy EXCEPT ![m] = c]
    /\ UNCHANGED <<state, got>>

End(m) ==
    /\ busy[m] # None
    /\ busy' = [busy EXCEPT ![m] = None]
    /\ UNCHANGED <<state, runs, got>>

\* An answer, and the end of the call if it asks for one only.
Answer(c, m) ==
    /\ state[c] = "open"
    /\ m \in runs[c] /\ busy[m] # c /\ <<c, m>> \notin got[c]
    /\ got' = [got EXCEPT ![c] = @ \cup {<<c, m>>}]
    /\ state' = [state EXCEPT ![c] = IF c \in Many THEN "open" ELSE "closed"]
    /\ UNCHANGED <<runs, busy>>

GiveUp(c) ==
    /\ state[c] = "open"
    /\ state' = [state EXCEPT ![c] = "closed"]
    /\ UNCHANGED <<runs, busy, got>>

\* A function may be told to stop together with the calls it waits for.
Interrupt(m, cs) ==
    /\ busy[m] # None
    /\ busy' = [busy EXCEPT ![m] = None]
    /\ \A c \in cs : state[c] = "open"
    /\ state' = [c \in Calls |-> IF c \in cs THEN "closed" ELSE state[c]]
    /\ UNCHANGED <<runs, got>>

Next ==
    \/ \E c \in Calls : Open(c) \/ GiveUp(c)
    \/ \E c \in Calls, m \in Meshes : Begin(c, m) \/ Answer(c, m)
    \/ \E m \in Meshes : End(m) \/ \E cs \in SUBSET Calls : Interrupt(m, cs)

Spec == Init /\ [][Next]_vars
=============================================================================
