------------------------- MODULE TaskCommand_proofs -------------------------
(***************************************************************************)
(* What TaskCommand guarantees for any number of commands and stops.       *)
(*                                                                         *)
(* 1. The state has its type: in particular, every stop() that ends makes  *)
(*    one new set, so cur stays in Gens.                                   *)
(* 2. However commands and stops overlap, a command joins only threads     *)
(*    that have ended, so it never waits for a function (JoinInv).         *)
(* 3. Up to the first stop(), commands that overlap in any way never make  *)
(*    the module forget a reentrant thread that runs (PurgeInv).           *)
(* 4. As long as clients wait for each other and no join times out, the    *)
(*    task is single-threaded, every running thread is known, and no       *)
(*    exception comes from the bookkeeping (SerialInv).                    *)
(***************************************************************************)
EXTENDS TaskCommand, FiniteSetTheorems, TLAPS

-----------------------------------------------------------------------------
(* Type correctness.                                                       *)

Done == {s \in Stops : spc[s] = "done"}

\* cur counts the stops that have ended.
CountInv == cur = Cardinality(Done)

\* One more stop has ended: its new set is one of Gens.
LEMMA OneMoreDone ==
    ASSUME TypeOK, CountInv, NEW s \in Stops, spc[s] # "done",
           spc' = [spc EXCEPT ![s] = "done"], cur' = cur + 1
    PROVE  cur' \in Gens /\ CountInv'
<1>1. Done' = Done \cup {s} /\ s \notin Done
    BY DEF Done, TypeOK
<1>2. IsFiniteSet(Stops) /\ Done' \subseteq Stops /\ Done \subseteq Stops
    BY TaskCommandAssumption DEF Done
<1>3. IsFiniteSet(Done) /\ IsFiniteSet(Done')
    BY <1>2, FS_Subset
<1>4. Cardinality(Done') = Cardinality(Done) + 1
    BY <1>1, <1>3, FS_AddElement
<1>5. Cardinality(Done') <= Cardinality(Stops) /\ Cardinality(Done') \in Nat
    BY <1>2, <1>3, FS_Subset, FS_CardinalityType
<1>6. Cardinality(Stops) \in Nat /\ Cardinality(Done) \in Nat
    BY <1>2, <1>3, FS_CardinalityType
<1> QED
    BY <1>4, <1>5, <1>6 DEF CountInv, Gens

\* No stop ends.
LEMMA SameDone ==
    ASSUME TypeOK, CountInv, cur' = cur,
           \/ spc' = spc
           \/ \E s \in Stops : /\ spc[s] # "done"
                               /\ spc' = [spc EXCEPT ![s] = spc'[s]]
                               /\ spc'[s] # "done"
    PROVE  CountInv'
<1>1. Done' = Done
    BY DEF Done, TypeOK
<1> QED
    BY <1>1 DEF CountInv

\* A command's function is launched.
LEMMA LaunchType ==
    ASSUME TypeOK, NEW r \in Reqs, NEW known \in SUBSET Reentrant,
           Launch(r, known), UNCHANGED <<cur, stopper>>,
           orderly' \in BOOLEAN
    PROVE  TypeOK'
<1>0. /\ r \in Awaited => r \notin Plain /\ r \notin Reentrant
      /\ r \in Plain => r \notin Awaited
      /\ r \in Reentrant => r \notin Awaited
    BY TaskCommandAssumption
<1>1. CASE r \in Awaited
    <2>1. thread[r] = "none"
        BY <1>1 DEF TypeOK
    <2>2. /\ pc' = [pc EXCEPT ![r] = "running"] /\ thread' = thread
          /\ command_thread' = command_thread
          /\ sets' = [sets EXCEPT ![cur] = known]
        BY <1>0, <1>1 DEF Launch, Answered
    <2> QED
        BY <1>1, <2>1, <2>2 DEF TypeOK, Launch, Active, stopper
<1>2. CASE r \in Plain \/ r \in Reentrant
    <2>1. /\ pc' = [pc EXCEPT ![r] = "accepted"]
          /\ thread' = [thread EXCEPT ![r] = "alive"]
          /\ command_thread' \in {command_thread, r} /\ (r \notin Plain => command_thread' = command_thread)
          /\ \E new \in SUBSET Reentrant : sets' = [sets EXCEPT ![cur] = new]
        <3>1. known \cup {r} \in SUBSET Reentrant \/ r \notin Reentrant
            OBVIOUS
        <3> QED
            BY <1>0, <1>2, <3>1 DEF Launch, Answered
    <2>2. command_thread' \in Plain \cup {None}
        BY <2>1 DEF TypeOK
    <2> QED
        BY <1>0, <1>2, <2>1, <2>2 DEF TypeOK, Launch, Active, stopper
<1> QED
    BY <1>1, <1>2 DEF Reqs

\* The purge goes on, or ends in a launch.
LEMMA PurgeType ==
    ASSUME TypeOK, NEW r \in Reqs, pc[r] \in {"new"} \cup Active,
           NEW list \in SUBSET Reentrant, NEW known \in SUBSET Reentrant,
           Purge(r, list, known), UNCHANGED <<cur, stopper>>,
           orderly' \in BOOLEAN
    PROVE  TypeOK'
<1>1. CASE Launch(r, known)
    BY <1>1, LaunchType
<1>2. CASE ~Launch(r, known)
    <2>1. PICK t \in list, passed \in SUBSET list :
            /\ todo' = [todo EXCEPT ![r] = list \ ({t} \cup passed)]
            /\ joining' = [joining EXCEPT ![r] = t]
            /\ pc' = [pc EXCEPT ![r] = "purging"]
            /\ sets' = [sets EXCEPT ![cur] = known]
            /\ UNCHANGED <<command_thread, thread>>
        BY <1>2 DEF Purge
    <2>2. t \in Reqs
        BY DEF Reqs
    <2>3. thread[r] = "none"
        BY DEF TypeOK, Active
    <2> QED
        BY <2>1, <2>2, <2>3 DEF TypeOK, Active, stopper
<1> QED
    BY <1>1, <1>2

\* A step of the iteration of stop().
LEMMA IterateType ==
    ASSUME TypeOK, CountInv, NEW s \in Stops, spc[s] # "done", NEW g \in Gens,
           NEW old \in SUBSET Reentrant, NEW seen \in SUBSET Reentrant,
           Iterate(s, g, old, seen), UNCHANGED <<thread, handler>>,
           command_thread' \in {command_thread, None},
           orderly' \in BOOLEAN
    PROVE  TypeOK' /\ CountInv'
<1>1. CASE spc' = [spc EXCEPT ![s] = "crashed"] /\ UNCHANGED <<sets, cur, of, was, visited, sjoin>>
    <2>1. CountInv'
        <3>1. spc'[s] = "crashed"
            BY <1>1 DEF TypeOK
        <3> QED
            BY <1>1, <3>1, SameDone
    <2> QED
        BY <1>1, <2>1 DEF TypeOK, handler
<1>2. CASE \E t \in sets[g] \ seen :
            /\ spc' = [spc EXCEPT ![s] = "set"]
            /\ sjoin' = [sjoin EXCEPT ![s] = t]
            /\ visited' = [visited EXCEPT ![s] = seen \cup {t}]
            /\ of' = [of EXCEPT ![s] = g]
            /\ was' = [was EXCEPT ![s] = old]
            /\ UNCHANGED <<sets, cur>>
    <2>1. PICK t \in sets[g] \ seen :
            /\ spc' = [spc EXCEPT ![s] = "set"]
            /\ sjoin' = [sjoin EXCEPT ![s] = t]
            /\ visited' = [visited EXCEPT ![s] = seen \cup {t}]
            /\ of' = [of EXCEPT ![s] = g]
            /\ was' = [was EXCEPT ![s] = old]
            /\ UNCHANGED <<sets, cur>>
        BY <1>2
    <2>2. t \in Reentrant /\ t \in Reqs /\ seen \cup {t} \in SUBSET Reentrant
        BY DEF TypeOK, Reqs
    <2>3. CountInv'
        <3>1. spc'[s] = "set"
            BY <2>1 DEF TypeOK
        <3> QED
            BY <2>1, <3>1, SameDone
    <2> QED
        BY <2>1, <2>2, <2>3 DEF TypeOK, handler
<1>3. CASE /\ spc' = [spc EXCEPT ![s] = "done"] /\ cur' = cur + 1
           /\ UNCHANGED <<sets, of, was, visited, sjoin>>
    <2>1. cur' \in Gens /\ CountInv'
        BY <1>3, OneMoreDone
    <2> QED
        BY <1>3, <2>1 DEF TypeOK, handler
<1> QED
    BY <1>1, <1>2, <1>3 DEF Iterate

\* A stop() comes to its first join, or to its end.
LEMMA GoesOnType ==
    ASSUME TypeOK, CountInv, NEW s \in Stops, spc[s] # "done", StopGoesOn(s), orderly' \in BOOLEAN
    PROVE  TypeOK' /\ CountInv'
<1>0. sets[cur] \in SUBSET Reentrant /\ cur \in Gens /\ {} \in SUBSET Reentrant
    BY DEF TypeOK
<1>1. CASE command_thread = None
    BY <1>0, <1>1, IterateType DEF StopGoesOn
<1>2. CASE command_thread # None
    <2>1. /\ spc' = [spc EXCEPT ![s] = "command"]
          /\ sjoin' = [sjoin EXCEPT ![s] = command_thread]
          /\ UNCHANGED <<sets, cur, of, was, visited, command_thread, thread, handler>>
        BY <1>2 DEF StopGoesOn
    <2>2. spc'[s] = "command" /\ command_thread \in Reqs
        BY <1>2, <2>1 DEF TypeOK, Reqs
    <2>3. CountInv'
        BY <2>1, <2>2, SameDone
    <2> QED
        BY <2>1, <2>2, <2>3 DEF TypeOK, handler
<1> QED
    BY <1>1, <1>2

LEMMA InitType == Init => TypeOK /\ CountInv
<1> SUFFICES ASSUME Init PROVE TypeOK /\ CountInv
    OBVIOUS
<1>1. Done = {}
    BY DEF Init, Done
<1>2. Cardinality({}) = 0 /\ 0 \in Gens
    BY TaskCommandAssumption, FS_EmptySet, FS_CardinalityType DEF Gens
<1> QED
    BY <1>1, <1>2 DEF Init, TypeOK, CountInv, Active

LEMMA StepOrderly == TypeOK /\ [Next]_vars => orderly' \in BOOLEAN
    BY DEF TypeOK, Next, vars, Receive, ComesIn, Joined, Purged, AwaitedEnds, ThreadEnds,
           StopBegins, StopWaited, StopGoesOn, StopJoinedCommand, StopJoinedReentrant, JoinReturns

LEMMA StepType == TypeOK /\ CountInv /\ [Next]_vars => TypeOK' /\ CountInv'
<1> SUFFICES ASSUME TypeOK, CountInv, [Next]_vars PROVE TypeOK' /\ CountInv'
    OBVIOUS
<1> orderly' \in BOOLEAN
    BY StepOrderly
<1>0. sets[cur] \in SUBSET Reentrant
    BY DEF TypeOK
<1>1. ASSUME NEW r \in Reqs, Receive(r) PROVE TypeOK' /\ CountInv'
    <2>1. CASE Purge(r, sets[cur], sets[cur])
        BY <1>0, <1>1, <2>1, PurgeType, SameDone DEF Receive, stopper
    <2>2. CASE ~Purge(r, sets[cur], sets[cur])
        <3>1. /\ r \in Plain
              /\ \/ pc' = [pc EXCEPT ![r] = "refused"] /\ UNCHANGED joining
                 \/ /\ pc' = [pc EXCEPT ![r] = "joining"]
                    /\ joining' = [joining EXCEPT ![r] = command_thread]
                    /\ command_thread # None
              /\ UNCHANGED <<command_thread, sets, cur, thread, todo, stopper>>
              /\ pc[r] = "new"
            BY <1>1, <2>2 DEF Receive, Answered
        <3>2. command_thread \in Reqs \cup {None}
            BY DEF TypeOK, Reqs
        <3> QED
            BY <3>1, <3>2, SameDone DEF TypeOK, Active, stopper
    <2> QED
        BY <2>1, <2>2
<1>2. ASSUME NEW r \in Reqs, Joined(r) PROVE TypeOK' /\ CountInv'
    BY <1>0, <1>2, PurgeType, SameDone DEF Joined, Active, stopper
<1>3. ASSUME NEW r \in Reqs, Purged(r) PROVE TypeOK' /\ CountInv'
    <2>1. CASE joining[r] \in sets[cur]
        <3>1. todo[r] \in SUBSET Reentrant /\ sets[cur] \ {joining[r]} \in SUBSET Reentrant
            BY DEF TypeOK
        <3> QED
            BY <1>3, <2>1, <3>1, PurgeType, SameDone DEF Purged, Active, stopper
    <2>2. CASE joining[r] \notin sets[cur]
        BY <1>3, <2>2, SameDone DEF Purged, Answered, TypeOK, Active, stopper
    <2> QED
        BY <2>1, <2>2
<1>4. ASSUME NEW r \in Reqs, AwaitedEnds(r) PROVE TypeOK' /\ CountInv'
    BY <1>4, SameDone DEF AwaitedEnds, Answered, TypeOK, Active, stopper
<1>5. ASSUME NEW r \in Reqs, ThreadEnds(r) PROVE TypeOK' /\ CountInv'
    BY <1>5, SameDone DEF ThreadEnds, TypeOK, handler, stopper
<1>6. ASSUME NEW s \in Stops, StopBegins(s) \/ StopWaited(s) PROVE TypeOK' /\ CountInv'
    <2>1. CASE StopGoesOn(s)
        <3>1. spc[s] # "done"
            BY <1>6 DEF StopBegins, StopWaited
        <3> QED
            BY <2>1, <3>1, GoesOnType
    <2>2. CASE ~StopGoesOn(s)
        <3>1. /\ \/ spc' = [spc EXCEPT ![s] = "waiting"] /\ of' = [of EXCEPT ![s] = cur]
                 \/ spc' = [spc EXCEPT ![s] = "crashed"] /\ UNCHANGED of
              /\ spc[s] # "done"
              /\ UNCHANGED <<sets, cur, was, visited, sjoin, command_thread, thread, handler>>
            BY <1>6, <2>2 DEF StopBegins, StopWaited
        <3>2. spc'[s] \in {"waiting", "crashed"} /\ cur \in Gens
            BY <3>1 DEF TypeOK
        <3>3. CountInv'
            BY <3>1, <3>2, SameDone
        <3> QED
            BY <3>1, <3>2, <3>3 DEF TypeOK, handler
    <2> QED
        BY <2>1, <2>2
<1>7. ASSUME NEW s \in Stops, StopJoinedCommand(s) PROVE TypeOK' /\ CountInv'
    <2>1. CASE command_thread # None
        <3>1. cur \in Gens /\ {} \in SUBSET Reentrant /\ spc[s] # "done"
            BY <1>7 DEF TypeOK, StopJoinedCommand
        <3> QED
            BY <1>0, <1>7, <2>1, <3>1, IterateType DEF StopJoinedCommand
    <2>2. CASE command_thread = None
        <3>1. /\ spc' = [spc EXCEPT ![s] = "crashed"] /\ spc[s] = "command"
              /\ UNCHANGED <<sets, cur, of, was, visited, sjoin, command_thread, thread, handler>>
            BY <1>7, <2>2 DEF StopJoinedCommand
        <3>2. spc'[s] = "crashed"
            BY <3>1 DEF TypeOK
        <3> QED
            BY <3>1, <3>2, SameDone DEF TypeOK, handler
    <2> QED
        BY <2>1, <2>2
<1>8. ASSUME NEW s \in Stops, StopJoinedReentrant(s) PROVE TypeOK' /\ CountInv'
    <2>1. /\ of[s] \in Gens /\ was[s] \in SUBSET Reentrant
          /\ visited[s] \in SUBSET Reentrant /\ spc[s] # "done"
        BY <1>8 DEF TypeOK, StopJoinedReentrant
    <2> QED
        BY <1>8, <2>1, IterateType DEF StopJoinedReentrant
<1>9. CASE UNCHANGED vars
    BY <1>9, SameDone DEF TypeOK, vars, handler, stopper
<1> QED
    BY <1>1, <1>2, <1>3, <1>4, <1>5, <1>6, <1>7, <1>8, <1>9 DEF Next

\* The state of the module has its type, whatever commands and stops do.
THEOREM TypeCorrect == Spec => []TypeOK
<1>1. Init => TypeOK /\ CountInv
    BY InitType
<1>2. TypeOK /\ CountInv /\ [Next]_vars => (TypeOK /\ CountInv)'
    BY StepType
<1> QED
    BY <1>1, <1>2, PTL DEF Spec

-----------------------------------------------------------------------------
(* What commands join, in any use.                                         *)

Began(t) == t \in Reqs /\ thread[t] # "none"

\* Whatever a handler is joining has ended; and whatever is recorded, or still
\* on the list of a purge, has begun, so that it does not come to life again.
JoinInv ==
    /\ \A r \in Reqs : pc[r] \in {"joining", "purging"} =>
        joining[r] \in Reqs /\ thread[joining[r]] = "dead"
    /\ \A r \in Reqs : \A t \in todo[r] : Began(t)
    /\ \A g \in Gens : \A t \in sets[g] : Began(t)
    /\ command_thread # None => Began(command_thread)

\* A thread that has ended stays so, and one that has begun has begun.
LEMMA LaunchThreads ==
    ASSUME TypeOK, NEW r \in Reqs, pc[r] \in {"new"} \cup Active, NEW known, Launch(r, known)
    PROVE  /\ \A t \in Reqs : thread[t] = "dead" => thread'[t] = "dead"
           /\ \A t \in Reqs : thread[t] # "none" => thread'[t] # "none"
<1>1. thread[r] = "none"
    BY DEF TypeOK, Active
<1>2. thread' = thread \/ thread' = [thread EXCEPT ![r] = "alive"]
    BY DEF Launch
<1> QED
    BY <1>1, <1>2 DEF TypeOK

\* A launch records only the thread it starts.
LEMMA LaunchKeepsJoinInv ==
    ASSUME TypeOK, JoinInv, NEW r \in Reqs, pc[r] \in {"new"} \cup Active,
           NEW known \in SUBSET sets[cur], Launch(r, known), cur' = cur
    PROVE  JoinInv'
<1>0. /\ \A t \in Reqs : thread[t] = "dead" => thread'[t] = "dead"
      /\ \A t \in Reqs : thread[t] # "none" => thread'[t] # "none"
    BY LaunchThreads
<1>1. /\ todo' = [todo EXCEPT ![r] = {}]
      /\ joining' = [joining EXCEPT ![r] = None]
      /\ pc' \in {[pc EXCEPT ![r] = "running"], [pc EXCEPT ![r] = "accepted"]}
    BY DEF Launch, Answered
<1>2. /\ sets' = [sets EXCEPT ![cur] = known] \/ sets' = [sets EXCEPT ![cur] = known \cup {r}]
      /\ sets' = [sets EXCEPT ![cur] = known \cup {r}] => r \in known \/ thread'[r] = "alive"
      /\ command_thread' = command_thread \/ (command_thread' = r /\ thread'[r] = "alive")
    <2>1. CASE r \in Awaited /\ r \notin Plain /\ r \notin Reentrant
        <3>1. command_thread' = command_thread /\ sets' = [sets EXCEPT ![cur] = known]
            BY <2>1 DEF Launch
        <3>2. r \notin known
            BY <2>1 DEF TypeOK
        <3>3. sets' # [sets EXCEPT ![cur] = known \cup {r}]
            BY <3>1, <3>2 DEF TypeOK
        <3> QED
            BY <3>1, <3>3
    <2>2. CASE r \in Plain /\ r \notin Awaited /\ r \notin Reentrant
        BY <2>2 DEF Launch, TypeOK
    <2>3. CASE r \in Reentrant /\ r \notin Awaited /\ r \notin Plain
        BY <2>3 DEF Launch, TypeOK
    <2> QED
        BY <2>1, <2>2, <2>3, TaskCommandAssumption DEF Reqs
<1>3. \A q \in Reqs : pc'[q] \in {"joining", "purging"} =>
        joining'[q] \in Reqs /\ thread'[joining'[q]] = "dead"
    BY <1>0, <1>1 DEF JoinInv, TypeOK
<1>4. \A q \in Reqs : \A t \in todo'[q] : Began(t)'
    BY <1>0, <1>1 DEF JoinInv, TypeOK, Began
<1>5. ASSUME NEW g \in Gens, NEW t \in sets'[g] PROVE Began(t)'
    <2>1. t \in sets[g] \/ (t = r /\ thread'[r] = "alive")
        BY <1>2 DEF TypeOK
    <2> QED
        BY <1>0, <2>1 DEF JoinInv, Began
<1>6. command_thread' # None => Began(command_thread)'
    BY <1>0, <1>2 DEF JoinInv, Began
<1> QED
    BY <1>3, <1>4, <1>5, <1>6 DEF JoinInv

\* A purge joins what it has found dead.
LEMMA PurgeKeepsJoinInv ==
    ASSUME TypeOK, JoinInv, NEW r \in Reqs, pc[r] \in {"new"} \cup Active,
           NEW list, \A t \in list : Began(t), NEW known \in SUBSET sets[cur],
           Purge(r, list, known), cur' = cur
    PROVE  JoinInv'
<1>1. CASE Launch(r, known)
    BY <1>1, LaunchKeepsJoinInv
<1>2. CASE ~Launch(r, known)
    <2>1. PICK t \in list, passed \in SUBSET list :
            /\ ~Alive(t)
            /\ todo' = [todo EXCEPT ![r] = list \ ({t} \cup passed)]
            /\ joining' = [joining EXCEPT ![r] = t]
            /\ pc' = [pc EXCEPT ![r] = "purging"]
            /\ sets' = [sets EXCEPT ![cur] = known]
            /\ UNCHANGED <<command_thread, thread>>
        BY <1>2 DEF Purge
    <2>2. thread[t] = "dead" /\ t \in Reqs
        <3>1. t \in Reqs /\ t # None /\ thread[t] # "none"
            BY TaskCommandAssumption DEF Began
        <3> QED
            BY <2>1, <3>1 DEF TypeOK, Alive
    <2>3. \A q \in Reqs : todo'[q] \subseteq list \/ todo'[q] = todo[q]
        BY <2>1 DEF TypeOK
    <2>4. \A q \in Reqs : pc'[q] \in {"joining", "purging"} =>
            joining'[q] \in Reqs /\ thread'[joining'[q]] = "dead"
        BY <2>1, <2>2 DEF JoinInv, TypeOK
    <2>5. \A q \in Reqs : \A u \in todo'[q] : Began(u)'
        BY <2>1, <2>3 DEF JoinInv, Began
    <2>6. \A g \in Gens : sets'[g] \subseteq sets[g]
        BY <2>1 DEF TypeOK
    <2> QED
        BY <2>1, <2>4, <2>5, <2>6 DEF JoinInv, Began
<1> QED
    BY <1>1, <1>2

\* The steps of commands, threads and stops keep it.
LEMMA StepJoinInv == TypeOK /\ JoinInv /\ [Next]_vars => JoinInv'
<1> SUFFICES ASSUME TypeOK, JoinInv, [Next]_vars PROVE JoinInv'
    OBVIOUS
<1>0. \A t \in sets[cur] : Began(t)
    BY DEF TypeOK, JoinInv
<1>1. ASSUME NEW r \in Reqs, Receive(r) PROVE JoinInv'
    <2>1. CASE Purge(r, sets[cur], sets[cur])
        BY <1>0, <1>1, <2>1, PurgeKeepsJoinInv DEF Receive
    <2>2. CASE pc' = [pc EXCEPT ![r] = "refused"]
               /\ UNCHANGED <<command_thread, sets, thread, todo, joining>>
        BY <2>2 DEF JoinInv, Began, TypeOK
    <2>3. CASE /\ command_thread # None /\ ~Alive(command_thread)
               /\ pc' = [pc EXCEPT ![r] = "joining"]
               /\ joining' = [joining EXCEPT ![r] = command_thread]
               /\ UNCHANGED <<command_thread, sets, thread, todo>>
        <3>1. command_thread \in Reqs /\ thread[command_thread] = "dead"
            BY <2>3 DEF JoinInv, Began, Alive, TypeOK
        <3> QED
            BY <2>3, <3>1 DEF JoinInv, Began, TypeOK
    <2> QED
        BY <1>1, <2>1, <2>2, <2>3 DEF Receive, Answered
<1>2. ASSUME NEW r \in Reqs, Joined(r) PROVE JoinInv'
    BY <1>0, <1>2, PurgeKeepsJoinInv DEF Joined, Active
<1>3. ASSUME NEW r \in Reqs, Purged(r) PROVE JoinInv'
    <2>1. CASE joining[r] \in sets[cur]
        <3>1. /\ pc[r] \in {"new"} \cup Active /\ \A t \in todo[r] : Began(t)
              /\ sets[cur] \ {joining[r]} \in SUBSET sets[cur]
            BY <1>3 DEF Purged, JoinInv, Active
        <3>2. Purge(r, todo[r], sets[cur] \ {joining[r]}) /\ cur' = cur
            BY <1>3, <2>1 DEF Purged
        <3> QED
            BY <3>1, <3>2, PurgeKeepsJoinInv
    <2>2. CASE joining[r] \notin sets[cur]
        <3>1. /\ pc' = [pc EXCEPT ![r] = "crashed"]
              /\ UNCHANGED <<command_thread, sets, cur, thread, todo, joining>>
            BY <1>3, <2>2 DEF Purged, Answered
        <3> QED
            BY <3>1 DEF JoinInv, Began, TypeOK
    <2> QED
        BY <2>1, <2>2
<1>4. ASSUME NEW r \in Reqs, AwaitedEnds(r) PROVE JoinInv'
    <2>1. /\ pc' = [pc EXCEPT ![r] = "accepted"]
          /\ UNCHANGED <<command_thread, sets, cur, thread, todo, joining>>
        BY <1>4 DEF AwaitedEnds, Answered
    <2> QED
        BY <2>1 DEF JoinInv, Began, TypeOK
<1>5. ASSUME NEW r \in Reqs, ThreadEnds(r) PROVE JoinInv'
    <2>1. /\ thread' = [thread EXCEPT ![r] = "dead"]
          /\ UNCHANGED <<command_thread, sets, cur, pc, todo, joining>>
        BY <1>5 DEF ThreadEnds, handler
    <2>2. \A q \in Reqs : /\ thread[q] = "dead" => thread'[q] = "dead"
                          /\ thread[q] # "none" => thread'[q] # "none"
        BY <2>1 DEF TypeOK
    <2>3. \A q \in Reqs : pc[q] \in {"joining", "purging"} =>
            joining[q] \in Reqs /\ thread'[joining[q]] = "dead"
        BY <2>2 DEF JoinInv
    <2> QED
        BY <2>1, <2>2, <2>3 DEF JoinInv, Began
<1>6. ASSUME NEW s \in Stops, StopBegins(s) \/ StopWaited(s) \/ StopJoinedCommand(s) \/ StopJoinedReentrant(s)
      PROVE  JoinInv'
    <2>1. /\ UNCHANGED <<thread, pc, todo, joining, sets>>
          /\ command_thread' \in {command_thread, None}
        BY <1>6 DEF StopBegins, StopWaited, StopGoesOn, StopJoinedCommand, StopJoinedReentrant, Iterate, handler
    <2> QED
        BY <2>1 DEF JoinInv, Began
<1>7. CASE UNCHANGED vars
    BY <1>7 DEF JoinInv, Began, vars, handler
<1> QED
    BY <1>1, <1>2, <1>3, <1>4, <1>5, <1>6, <1>7 DEF Next

\* However commands and stops overlap, and however slow the functions are: a
\* command joins ended threads only, so that no join of it takes time
\* (sd_taskmodule.py, process_task_command()).
THEOREM CommandsJoinTheEnded == Spec => []JoinsTheEnded
<1>1. Init => TypeOK /\ CountInv /\ JoinInv
    BY InitType DEF Init, JoinInv
<1>2. TypeOK /\ CountInv /\ JoinInv /\ [Next]_vars => (TypeOK /\ CountInv /\ JoinInv)'
    BY StepType, StepJoinInv
<1>3. JoinInv => JoinsTheEnded
    BY TaskCommandAssumption DEF JoinInv, JoinsTheEnded, Alive
<1> QED
    BY <1>1, <1>2, <1>3, PTL DEF Spec

-----------------------------------------------------------------------------
(* Commands that overlap, without a stop().                                *)

\* A purge removes dead threads only: what a handler is joining has ended, and
\* no element of its list, which may be out of date, has yet to start.
PurgeInv ==
    /\ \A r \in Reqs :
        pc[r] = "purging" => joining[r] \in Reqs /\ thread[joining[r]] = "dead"
    /\ \A r \in Reqs : \A t \in todo[r] : thread[t] # "none"
    /\ \A t \in sets[cur] : thread[t] # "none"
    /\ ReentrantRecorded

LEMMA LaunchKeepsPurgeInv ==
    ASSUME TypeOK, PurgeInv, NEW r \in Reqs, pc[r] \in {"new"} \cup Active,
           NEW known \in SUBSET sets[cur],
           \A t \in sets[cur] \ known : thread[t] = "dead",
           Launch(r, known), cur' = cur
    PROVE  PurgeInv'
<1>0. thread[r] = "none" /\ Reentrant \subseteq Reqs
    BY DEF TypeOK, Active, Reqs
<1>1. /\ todo' = [todo EXCEPT ![r] = {}]
      /\ joining' = [joining EXCEPT ![r] = None]
      /\ pc' \in {[pc EXCEPT ![r] = "running"], [pc EXCEPT ![r] = "accepted"]}
      /\ thread' = thread \/ thread' = [thread EXCEPT ![r] = "alive"]
    BY DEF Launch, Answered
<1>2. /\ sets'[cur] = known \/ (sets'[cur] = known \cup {r} /\ r \in Reentrant)
      /\ thread'[r] = "alive" /\ r \in Reentrant => r \in sets'[cur]
      /\ r \in sets'[cur] => thread'[r] = "alive"
    <2>1. CASE r \in Reentrant /\ r \notin Awaited /\ r \notin Plain
        BY <1>0, <2>1 DEF Launch, TypeOK
    <2>2. CASE r \notin Reentrant
        <3>1. sets'[cur] = known /\ r \notin known
            BY <2>2 DEF Launch, TypeOK
        <3> QED
            BY <2>2, <3>1
    <2> QED
        BY <2>1, <2>2, TaskCommandAssumption DEF Reqs
<1>3. \A q \in Reqs : pc'[q] = "purging" =>
        /\ q # r /\ pc[q] = "purging" /\ joining'[q] = joining[q]
    BY <1>1 DEF TypeOK
<1>4. \A q \in Reqs : pc'[q] = "purging" =>
        joining'[q] \in Reqs /\ thread'[joining'[q]] = "dead"
    BY <1>0, <1>1, <1>3 DEF PurgeInv, TypeOK
<1>5. \A q \in Reqs : \A t \in todo'[q] : thread'[t] # "none"
    <2> TAKE q \in Reqs
    <2> TAKE t \in todo'[q]
    <2>1. q # r /\ t \in todo[q] /\ t \in Reqs /\ thread[t] # "none"
        BY <1>0, <1>1 DEF PurgeInv, TypeOK
    <2> QED
        BY <1>0, <1>1, <2>1 DEF TypeOK
<1>6. \A t \in sets'[cur] : thread'[t] # "none"
    <2> TAKE t \in sets'[cur]
    <2>1. CASE t = r
        BY <1>2, <2>1
    <2>2. CASE t # r
        <3>1. t \in sets[cur] /\ thread[t] # "none" /\ t \in Reqs
            BY <1>0, <1>2, <2>2 DEF PurgeInv, TypeOK
        <3> QED
            BY <1>1, <2>2, <3>1 DEF TypeOK
    <2> QED
        BY <2>1, <2>2
<1>7. \A t \in Reentrant : thread'[t] = "alive" => t \in sets'[cur]
    <2> TAKE t \in Reentrant
    <2>1. CASE t = r
        BY <1>2, <2>1
    <2>2. CASE t # r
        <3>1. thread'[t] = thread[t] /\ t \in Reqs
            BY <1>0, <1>1, <2>2 DEF TypeOK
        <3>2. thread[t] = "alive" => t \in known
            <4>1. thread[t] = "alive" /\ t # None => t \in sets[cur]
                BY DEF PurgeInv, ReentrantRecorded, Alive
            <4>2. t # None
                BY <3>1, TaskCommandAssumption
            <4> QED
                BY <4>1, <4>2
        <3> QED
            BY <1>2, <2>2, <3>1, <3>2
    <2> QED
        BY <2>1, <2>2
<1> QED
    BY <1>4, <1>5, <1>6, <1>7 DEF PurgeInv, ReentrantRecorded, Alive

LEMMA PurgeKeepsPurgeInv ==
    ASSUME TypeOK, PurgeInv, NEW r \in Reqs, pc[r] \in {"new"} \cup Active,
           NEW list \in SUBSET Reentrant, \A t \in list : thread[t] # "none",
           NEW known \in SUBSET sets[cur],
           \A t \in sets[cur] \ known : thread[t] = "dead",
           Purge(r, list, known), cur' = cur
    PROVE  PurgeInv'
<1>1. CASE Launch(r, known)
    BY <1>1, LaunchKeepsPurgeInv
<1>2. CASE ~Launch(r, known)
    <2>1. PICK t \in list, passed \in SUBSET list :
            /\ ~Alive(t)
            /\ todo' = [todo EXCEPT ![r] = list \ ({t} \cup passed)]
            /\ joining' = [joining EXCEPT ![r] = t]
            /\ pc' = [pc EXCEPT ![r] = "purging"]
            /\ sets' = [sets EXCEPT ![cur] = known]
            /\ UNCHANGED <<command_thread, thread>>
        BY <1>2 DEF Purge
    <2>2. thread[t] = "dead" /\ t \in Reqs
        <3>1. t \in Reqs /\ t # None
            BY TaskCommandAssumption DEF Reqs
        <3> QED
            BY <2>1, <3>1 DEF TypeOK, Alive
    <2>3. sets'[cur] = known /\ \A q \in Reqs : todo'[q] \subseteq list \/ todo'[q] = todo[q]
        BY <2>1 DEF TypeOK
    <2>4. \A q \in Reqs : pc'[q] = "purging" =>
            joining'[q] \in Reqs /\ thread'[joining'[q]] = "dead"
        BY <2>1, <2>2 DEF PurgeInv, TypeOK
    <2>5. \A q \in Reqs : \A u \in todo'[q] : thread'[u] # "none"
        BY <2>1, <2>3 DEF PurgeInv
    <2>6. \A u \in sets'[cur] : thread'[u] # "none"
        BY <2>1, <2>3 DEF PurgeInv
    <2>7. \A u \in Reentrant : u # None /\ thread'[u] = "alive" => u \in sets'[cur]
        BY <2>1, <2>3 DEF PurgeInv, ReentrantRecorded, Alive
    <2> QED
        BY <2>1, <2>4, <2>5, <2>6, <2>7 DEF PurgeInv, ReentrantRecorded, Alive
<1> QED
    BY <1>1, <1>2

LEMMA StepPurgeInv ==
    ASSUME NoStopYet', TypeOK, PurgeInv, [Next]_vars
    PROVE  PurgeInv'
<1>0. /\ sets[cur] \in SUBSET Reentrant /\ Reentrant \subseteq Reqs
      /\ \A r \in Reqs : todo[r] \in SUBSET Reentrant
    BY DEF TypeOK, Reqs
<1>1. ASSUME NEW r \in Reqs, Receive(r) PROVE PurgeInv'
    <2>1. CASE Purge(r, sets[cur], sets[cur])
        BY <1>0, <1>1, <2>1, PurgeKeepsPurgeInv DEF Receive, PurgeInv
    <2>2. CASE ~Purge(r, sets[cur], sets[cur])
        <3>1. /\ \A q \in Reqs : pc'[q] = "purging" => pc[q] = "purging" /\ joining'[q] = joining[q]
              /\ UNCHANGED <<sets, cur, thread, todo>>
            BY <1>1, <2>2 DEF Receive, Answered, TypeOK
        <3> QED
            BY <3>1 DEF PurgeInv, ReentrantRecorded, Alive
    <2> QED
        BY <2>1, <2>2
<1>2. ASSUME NEW r \in Reqs, Joined(r) PROVE PurgeInv'
    BY <1>0, <1>2, PurgeKeepsPurgeInv DEF Joined, Active, PurgeInv
<1>3. ASSUME NEW r \in Reqs, Purged(r) PROVE PurgeInv'
    <2>1. CASE joining[r] \in sets[cur]
        <3>1. /\ pc[r] \in {"new"} \cup Active
              /\ todo[r] \in SUBSET Reentrant
              /\ \A t \in todo[r] : thread[t] # "none"
              /\ sets[cur] \ {joining[r]} \in SUBSET sets[cur]
              /\ \A t \in sets[cur] \ (sets[cur] \ {joining[r]}) : thread[t] = "dead"
            BY <1>0, <1>3 DEF Purged, PurgeInv, Active
        <3>2. Purge(r, todo[r], sets[cur] \ {joining[r]}) /\ cur' = cur
            BY <1>3, <2>1 DEF Purged
        <3> QED
            BY <3>1, <3>2, PurgeKeepsPurgeInv
    <2>2. CASE joining[r] \notin sets[cur]
        <3>1. /\ pc' = [pc EXCEPT ![r] = "crashed"]
              /\ UNCHANGED <<sets, cur, thread, todo, joining>>
            BY <1>3, <2>2 DEF Purged, Answered
        <3> QED
            BY <3>1 DEF PurgeInv, ReentrantRecorded, Alive, TypeOK
    <2> QED
        BY <2>1, <2>2
<1>4. ASSUME NEW r \in Reqs, AwaitedEnds(r) PROVE PurgeInv'
    <2>1. /\ pc' = [pc EXCEPT ![r] = "accepted"]
          /\ UNCHANGED <<sets, cur, thread, todo, joining>>
        BY <1>4 DEF AwaitedEnds, Answered
    <2> QED
        BY <2>1 DEF PurgeInv, ReentrantRecorded, Alive, TypeOK
<1>5. ASSUME NEW r \in Reqs, ThreadEnds(r) PROVE PurgeInv'
    <2>1. /\ thread' = [thread EXCEPT ![r] = "dead"]
          /\ UNCHANGED <<sets, cur, pc, todo, joining>>
        BY <1>5 DEF ThreadEnds, handler
    <2>2. \A t : thread'[t] = "alive" => t = r \/ thread[t] = "alive"
        BY <2>1 DEF TypeOK
    <2>3. \A q \in Reqs : /\ thread[q] = "dead" => thread'[q] = "dead"
                          /\ thread[q] # "none" => thread'[q] # "none"
                          /\ thread'[q] = "alive" => thread[q] = "alive"
        BY <2>1 DEF TypeOK
    <2>4. \A q \in Reqs : pc[q] = "purging" =>
            joining[q] \in Reqs /\ thread'[joining[q]] = "dead"
        BY <2>3 DEF PurgeInv
    <2> QED
        BY <1>0, <2>1, <2>3, <2>4 DEF PurgeInv, ReentrantRecorded, Alive
<1>6. ASSUME NEW s \in Stops, StopBegins(s) \/ StopWaited(s) \/ StopJoinedCommand(s) \/ StopJoinedReentrant(s)
      PROVE  FALSE
    <2>1. spc'[s] # "new"
        BY <1>6 DEF StopBegins, StopWaited, StopGoesOn, StopJoinedCommand, StopJoinedReentrant, Iterate, TypeOK
    <2> QED
        BY <2>1 DEF NoStopYet
<1>7. CASE UNCHANGED vars
    BY <1>7 DEF PurgeInv, ReentrantRecorded, Alive, vars, handler
<1> QED
    BY <1>1, <1>2, <1>3, <1>4, <1>5, <1>6, <1>7 DEF Next

\* No step takes a stop back.
LEMMA StepNoStopYet == TypeOK /\ [Next]_vars /\ NoStopYet' => NoStopYet
<1> SUFFICES ASSUME TypeOK, [Next]_vars, NoStopYet', NEW s \in Stops PROVE spc[s] = "new"
    BY DEF NoStopYet
<1>1. \/ spc' = spc
      \/ \E u \in Stops : StopBegins(u) \/ StopWaited(u) \/ StopJoinedCommand(u) \/ StopJoinedReentrant(u)
    BY DEF Next, vars, Receive, Joined, Purged, AwaitedEnds, ThreadEnds, stopper
<1>2. ASSUME NEW u \in Stops, StopBegins(u) \/ StopWaited(u) \/ StopJoinedCommand(u) \/ StopJoinedReentrant(u)
      PROVE  spc'[u] # "new"
    BY <1>2 DEF StopBegins, StopWaited, StopGoesOn, StopJoinedCommand, StopJoinedReentrant, Iterate, TypeOK
<1> QED
    BY <1>1, <1>2 DEF NoStopYet

\* Up to the first stop, a running reentrant thread is never forgotten, however
\* many commands purge the set at the same time.
THEOREM ReentrantAlwaysKnown == Spec => []ReentrantIsKnown
<1>1. Init => PurgeInv
    <2> SUFFICES ASSUME Init PROVE PurgeInv
        OBVIOUS
    <2>1. sets[cur] = {} /\ \A r \in Reqs : pc[r] = "new" /\ todo[r] = {} /\ thread[r] = "none"
        BY TaskCommandAssumption, FS_EmptySet, FS_CardinalityType DEF Init, Gens
    <2> QED
        BY <2>1 DEF PurgeInv, ReentrantRecorded, Alive, Reqs
<1>2. TypeOK /\ (NoStopYet => PurgeInv) /\ [Next]_vars => (NoStopYet => PurgeInv)'
    BY StepPurgeInv, StepNoStopYet
<1>3. (NoStopYet => PurgeInv) => ReentrantIsKnown
    BY DEF PurgeInv, ReentrantIsKnown
<1>4. Spec => []TypeOK
    BY TypeCorrect
<1> QED
    BY <1>1, <1>2, <1>3, <1>4, PTL DEF Spec

-----------------------------------------------------------------------------
(* Clients that wait for each other, threads that end in time.             *)

Busy(r) == pc[r] \in Active
Stopping(s) == spc[s] \in {"waiting", "command", "set"}

\* Nobody but one handler or one stop() is under way.
OneAtATime ==
    /\ \A q, r \in Reqs : Busy(q) /\ Busy(r) => q = r
    /\ \A s, u \in Stops : Stopping(s) /\ Stopping(u) => s = u
    /\ \A r \in Reqs, s \in Stops : ~(Busy(r) /\ Stopping(s))

\* What is recorded has been started, and a set yet to be made is empty.
RecordedStarted ==
    /\ command_thread # None => thread[command_thread] # "none"
    /\ \A t \in sets[cur] : thread[t] # "none"
    /\ \A g \in Gens : g > cur => sets[g] = {}

\* A handler that has passed the check launches into a task that is free, and
\* its view of the set is not out of date.
HandlerInv ==
    \A r \in Reqs :
        /\ pc[r] = "joining" =>
            r \in Plain /\ joining[r] = command_thread /\ ~Alive(command_thread)
        /\ pc[r] = "purging" =>
            /\ joining[r] \in sets[cur] /\ ~Alive(joining[r])
            /\ todo[r] \subseteq sets[cur] \ {joining[r]}
            /\ r \in Plain => ~Alive(command_thread)

\* No other stop() ends while one waits; it iterates over the set in use, which
\* does not change, and what it
\* has joined has ended.
StopperInv ==
    \A s \in Stops :
        /\ spc[s] = "waiting" => of[s] = cur
        /\ spc[s] = "command" => command_thread # None /\ sjoin[s] = command_thread
        /\ spc[s] = "set" =>
            /\ of[s] = cur /\ was[s] = sets[cur] /\ command_thread = None
            /\ sjoin[s] \in visited[s] /\ visited[s] \subseteq sets[cur]
            /\ \A t \in visited[s] \ {sjoin[s]} : ~Alive(t)

SerialInv ==
    /\ OneAtATime
    /\ RecordedStarted
    /\ HandlerInv
    /\ StopperInv
    /\ RunningIsKnown
    /\ NothingCrashes

\* r is the one under way.
Alone(r) == (\A q \in Reqs : Busy(q) => q = r) /\ \A s \in Stops : ~Stopping(s)

LEMMA SerialLaunch ==
    ASSUME TypeOK, SerialInv, NEW r \in Reqs, Alone(r), thread[r] = "none",
           NEW known \in SUBSET sets[cur], \A t \in sets[cur] \ known : ~Alive(t),
           r \in Plain => ~Alive(command_thread),
           Launch(r, known), UNCHANGED <<cur, stopper>>
    PROVE  SerialInv'
<1>0. /\ Reentrant \subseteq Reqs /\ Plain \subseteq Reqs /\ None \notin Reqs
      /\ cur \in Gens /\ sets[cur] \in SUBSET Reentrant
      /\ command_thread \in Plain \cup {None}
    BY TaskCommandAssumption DEF TypeOK, Reqs
<1>1. /\ pc' \in {[pc EXCEPT ![r] = "running"], [pc EXCEPT ![r] = "accepted"]}
      /\ thread' = thread \/ thread' = [thread EXCEPT ![r] = "alive"]
      /\ UNCHANGED <<spc, of, was, visited, sjoin>>
    BY DEF Launch, Answered, stopper
<1>2. \/ /\ r \in Awaited /\ r \notin Plain /\ r \notin Reentrant
         /\ sets' = [sets EXCEPT ![cur] = known]
         /\ UNCHANGED <<command_thread, thread>>
      \/ /\ r \in Plain /\ r \notin Reentrant
         /\ thread' = [thread EXCEPT ![r] = "alive"] /\ command_thread' = r
         /\ sets' = [sets EXCEPT ![cur] = known]
      \/ /\ r \in Reentrant /\ r \notin Plain
         /\ thread' = [thread EXCEPT ![r] = "alive"]
         /\ sets' = [sets EXCEPT ![cur] = known \cup {r}]
         /\ UNCHANGED command_thread
    BY TaskCommandAssumption DEF Launch
<1>3. \A q \in Reqs : Busy(q)' => q = r /\ pc'[q] = "running"
    BY <1>1 DEF Busy, Alone, TypeOK, Active
<1>4. \A s \in Stops : ~Stopping(s)'
    BY <1>1 DEF Stopping, Alone
<1>5. OneAtATime'
    BY <1>3, <1>4 DEF OneAtATime
<1>6. HandlerInv'
    <2>1. \A q \in Reqs : pc'[q] \notin {"joining", "purging"}
        BY <1>3 DEF Busy, Active
    <2> QED
        BY <2>1 DEF HandlerInv
<1>7. StopperInv'
    BY <1>4 DEF StopperInv, Stopping
<1>8. \A q \in Reqs : q # r => thread'[q] = thread[q]
    BY <1>1 DEF TypeOK
<1>9. RecordedStarted'
    <2>1. command_thread' # None => thread'[command_thread'] # "none"
        <3>1. CASE command_thread' = r
            BY <1>0, <1>2, <3>1 DEF TypeOK, RecordedStarted, SerialInv
        <3>2. CASE command_thread' # r
            BY <1>0, <1>2, <1>8, <3>2 DEF RecordedStarted, SerialInv
        <3> QED
            BY <3>1, <3>2
    <2>2. \A t \in sets'[cur'] : thread'[t] # "none"
        <3> TAKE t \in sets'[cur']
        <3>1. CASE t = r
            BY <1>0, <1>2, <3>1 DEF TypeOK, RecordedStarted, SerialInv
        <3>2. CASE t # r
            BY <1>0, <1>2, <1>8, <3>2 DEF TypeOK, RecordedStarted, SerialInv
        <3> QED
            BY <3>1, <3>2
    <2>3. \A g \in Gens : g > cur' => sets'[g] = {}
        <3> TAKE g \in Gens
        <3> HAVE g > cur'
        <3>1. cur \in Int /\ g \in Int /\ cur' = cur
            BY <1>0 DEF Gens
        <3>2. g # cur
            BY <3>1
        <3>3. sets[g] = {}
            BY <3>1 DEF RecordedStarted, SerialInv
        <3>4. \E new : sets' = [sets EXCEPT ![cur] = new]
            BY <1>2
        <3> QED
            BY <3>2, <3>3, <3>4 DEF TypeOK
    <2> QED
        BY <2>1, <2>2, <2>3 DEF RecordedStarted
<1>10. RunningIsKnown'
    <2> SUFFICES ASSUME NEW q \in Reqs, Alive(q)'
                 PROVE  IF q \in Plain THEN command_thread' = q ELSE q \in sets'[cur']
        BY DEF RunningIsKnown
    <2>1. CASE q = r
        <3>1. r \notin Awaited \/ r \in Plain \/ r \in Reentrant
            BY <1>2, <2>1 DEF Alive
        <3>2. thread'[r] = "alive"
            BY <2>1 DEF Alive
        <3> QED
            BY <1>0, <1>2, <2>1, <3>2 DEF TypeOK
    <2>2. CASE q # r
        <3>1. Alive(q)
            BY <1>8, <2>2 DEF Alive
        <3>2. IF q \in Plain THEN command_thread = q ELSE q \in sets[cur]
            BY <3>1 DEF SerialInv, RunningIsKnown
        <3>3. q \notin Plain => q \in known
            BY <3>1, <3>2
        <3>4. q \in Plain => r \notin Plain
            BY <3>1, <3>2
        <3> QED
            BY <1>0, <1>2, <3>2, <3>3, <3>4 DEF TypeOK
    <2> QED
        BY <2>1, <2>2
<1>11. NothingCrashes'
    BY <1>1 DEF NothingCrashes, SerialInv, TypeOK
<1> QED
    BY <1>5, <1>6, <1>7, <1>9, <1>10, <1>11 DEF SerialInv

LEMMA SerialPurge ==
    ASSUME TypeOK, SerialInv, NEW r \in Reqs, Alone(r), thread[r] = "none",
           pc[r] \in {"new"} \cup Active,
           NEW known \in SUBSET sets[cur], \A t \in sets[cur] \ known : ~Alive(t),
           NEW list \in SUBSET known, r \in Plain => ~Alive(command_thread),
           Purge(r, list, known), UNCHANGED <<cur, stopper>>
    PROVE  SerialInv'
<1>1. CASE Launch(r, known)
    BY <1>1, SerialLaunch
<1>2. CASE ~Launch(r, known)
    <2>1. PICK t \in list, passed \in SUBSET list :
            /\ ~Alive(t)
            /\ todo' = [todo EXCEPT ![r] = list \ ({t} \cup passed)]
            /\ joining' = [joining EXCEPT ![r] = t]
            /\ pc' = [pc EXCEPT ![r] = "purging"]
            /\ sets' = [sets EXCEPT ![cur] = known]
            /\ UNCHANGED <<command_thread, thread>>
        BY <1>2 DEF Purge
    <2>2. UNCHANGED <<spc, of, was, visited, sjoin>> /\ cur \in Gens /\ sets'[cur] = known
        BY <2>1 DEF TypeOK, stopper
    <2>3. \A q \in Reqs : Busy(q)' => q = r /\ pc'[q] = "purging"
        BY <2>1 DEF Busy, Alone, TypeOK, Active
    <2>4. \A s \in Stops : ~Stopping(s)'
        BY <2>2 DEF Stopping, Alone
    <2>5. OneAtATime'
        BY <2>3, <2>4 DEF OneAtATime
    <2>6. HandlerInv'
        <3>1. \A q \in Reqs : pc'[q] \in {"joining", "purging"} => q = r /\ pc'[q] = "purging"
            BY <2>3 DEF Busy, Active
        <3>2. /\ joining'[r] = t /\ todo'[r] = list \ ({t} \cup passed)
            BY <2>1 DEF TypeOK
        <3> QED
            BY <2>1, <2>2, <3>1, <3>2 DEF HandlerInv, Alive
    <2>7. StopperInv'
        BY <2>4 DEF StopperInv, Stopping
    <2>8. RecordedStarted'
        BY <2>1, <2>2 DEF RecordedStarted, SerialInv, TypeOK, Gens
    <2>9. RunningIsKnown'
        BY <2>1, <2>2 DEF RunningIsKnown, SerialInv, Alive
    <2>10. NothingCrashes'
        BY <2>1, <2>2 DEF NothingCrashes, SerialInv, TypeOK
    <2> QED
        BY <2>5, <2>6, <2>7, <2>8, <2>9, <2>10 DEF SerialInv
<1> QED
    BY <1>1, <1>2

\* A step of the iteration, by a stop() that is the only one under way and has
\* seen to the command thread; what it joined has ended.
LEMMA SerialIterate ==
    ASSUME TypeOK, CountInv, SerialInv, NEW s \in Stops, spc[s] \notin {"done", "crashed"},
           \A r \in Reqs : ~Busy(r), \A u \in Stops : Stopping(u) => u = s,
           NEW seen \in SUBSET sets[cur], \A t \in seen : ~Alive(t),
           ~Alive(command_thread), command_thread' = None,
           Iterate(s, cur, sets[cur], seen), UNCHANGED <<thread, handler>>
    PROVE  SerialInv'
<1>0. /\ UNCHANGED <<thread, pc, todo, joining>> /\ sets' = sets /\ cur \in Gens
      /\ \A t : Alive(t)' <=> Alive(t)
      /\ Plain \subseteq Reqs /\ None \notin Reqs
    BY TaskCommandAssumption DEF Iterate, handler, TypeOK, Alive, Reqs
<1>1. \A r \in Reqs : ~Busy(r)'
    BY <1>0 DEF Busy
<1>2. HandlerInv'
    BY <1>1 DEF HandlerInv, Busy, Active
<1>3. \A r \in Reqs : Alive(r) => r \notin Plain /\ r \in sets[cur]
    BY DEF SerialInv, RunningIsKnown
<1>4. CASE \E t \in sets[cur] \ seen :
            /\ spc' = [spc EXCEPT ![s] = "set"]
            /\ sjoin' = [sjoin EXCEPT ![s] = t]
            /\ visited' = [visited EXCEPT ![s] = seen \cup {t}]
            /\ of' = [of EXCEPT ![s] = cur]
            /\ was' = [was EXCEPT ![s] = sets[cur]]
            /\ UNCHANGED <<sets, cur>>
    <2>1. PICK t \in sets[cur] \ seen :
            /\ spc' = [spc EXCEPT ![s] = "set"]
            /\ sjoin' = [sjoin EXCEPT ![s] = t]
            /\ visited' = [visited EXCEPT ![s] = seen \cup {t}]
            /\ of' = [of EXCEPT ![s] = cur]
            /\ was' = [was EXCEPT ![s] = sets[cur]]
            /\ UNCHANGED <<sets, cur>>
        BY <1>4
    <2>2. \A u \in Stops : Stopping(u)' => u = s /\ spc'[u] = "set"
        BY <2>1 DEF Stopping, TypeOK
    <2>3. OneAtATime'
        BY <1>1, <2>2 DEF OneAtATime
    <2>4. StopperInv'
        <3>1. \A u \in Stops : spc'[u] \in {"waiting", "command", "set"} => u = s /\ spc'[u] = "set"
            BY <2>2 DEF Stopping
        <3>2. /\ sjoin'[s] = t /\ visited'[s] = seen \cup {t} /\ of'[s] = cur
              /\ was'[s] = sets[cur] /\ sets' = sets /\ cur' = cur
            BY <2>1 DEF TypeOK
        <3> QED
            BY <1>0, <3>1, <3>2 DEF StopperInv
    <2>5. RecordedStarted'
        BY <1>0, <2>1 DEF RecordedStarted, SerialInv
    <2>6. RunningIsKnown'
        BY <1>0, <1>3, <2>1 DEF RunningIsKnown
    <2>7. NothingCrashes'
        BY <1>0, <2>1 DEF NothingCrashes, SerialInv, TypeOK
    <2> QED
        BY <1>2, <2>3, <2>4, <2>5, <2>6, <2>7 DEF SerialInv
<1>5. CASE /\ sets[cur] \subseteq seen
           /\ spc' = [spc EXCEPT ![s] = "done"] /\ cur' = cur + 1
           /\ UNCHANGED <<sets, of, was, visited, sjoin>>
    <2>1. \A u \in Stops : ~Stopping(u)'
        BY <1>5 DEF Stopping, TypeOK
    <2>2. OneAtATime' /\ StopperInv'
        BY <1>1, <2>1 DEF OneAtATime, StopperInv, Stopping
    <2>3. \A r \in Reqs : ~Alive(r)
        BY <1>3, <1>5
    <2>4. RunningIsKnown'
        BY <1>0, <2>3 DEF RunningIsKnown
    <2>5. cur \in Nat /\ cur' \in Gens /\ sets'[cur'] = {}
        <3>1. cur' \in Gens
            BY <1>5, OneMoreDone
        <3> QED
            BY <1>0, <1>5, <3>1 DEF RecordedStarted, SerialInv, Gens
    <2>6. RecordedStarted'
        BY <1>0, <1>5, <2>5 DEF RecordedStarted, SerialInv, Gens
    <2>7. NothingCrashes'
        BY <1>0, <1>5 DEF NothingCrashes, SerialInv, TypeOK
    <2> QED
        BY <1>2, <2>2, <2>4, <2>6, <2>7 DEF SerialInv
<1> QED
    BY <1>4, <1>5 DEF Iterate

\* The only stop() under way comes to its first join, or to its end.
LEMMA SerialGoesOn ==
    ASSUME TypeOK, CountInv, SerialInv, NEW s \in Stops, spc[s] \in {"new", "waiting"},
           \A r \in Reqs : ~Busy(r), \A u \in Stops : Stopping(u) => u = s,
           StopGoesOn(s)
    PROVE  SerialInv'
<1>0. OneAtATime /\ RecordedStarted /\ HandlerInv /\ StopperInv /\ RunningIsKnown /\ NothingCrashes
    BY DEF SerialInv
<1>1. CASE command_thread = None
    <2>1. /\ ~Alive(command_thread) /\ command_thread' = None
          /\ Iterate(s, cur, sets[cur], {}) /\ UNCHANGED <<thread, handler>>
        BY <1>1 DEF StopGoesOn, Alive
    <2> QED
        BY <2>1, SerialIterate
<1>2. CASE command_thread # None
    <2>1. /\ spc' = [spc EXCEPT ![s] = "command"]
          /\ sjoin' = [sjoin EXCEPT ![s] = command_thread]
          /\ UNCHANGED <<sets, cur, of, was, visited, command_thread, thread, pc, todo, joining>>
        BY <1>2 DEF StopGoesOn, handler
    <2>2. \A u \in Stops : spc'[u] \in {"waiting", "command", "set"} => u = s /\ spc'[u] = "command"
        BY <2>1 DEF Stopping, TypeOK
    <2>3. OneAtATime'
        BY <2>1, <2>2 DEF OneAtATime, Stopping, Busy
    <2>4. sjoin'[s] = command_thread
        BY <2>1 DEF TypeOK
    <2>5. StopperInv'
        BY <1>2, <2>1, <2>2, <2>4 DEF StopperInv
    <2>6. HandlerInv' /\ RecordedStarted' /\ RunningIsKnown'
        BY <1>0, <2>1 DEF HandlerInv, RecordedStarted, RunningIsKnown, Alive
    <2>7. NothingCrashes'
        BY <1>0, <2>1 DEF NothingCrashes, TypeOK
    <2> QED
        BY <2>3, <2>5, <2>6, <2>7 DEF SerialInv
<1> QED
    BY <1>1, <1>2

LEMMA StepSerialInv ==
    ASSUME orderly', TypeOK, CountInv, SerialInv, [Next]_vars
    PROVE  SerialInv'
<1>0. /\ sets[cur] \in SUBSET Reentrant /\ Reentrant \subseteq Reqs
      /\ Plain \subseteq Reqs /\ None \notin Reqs
      /\ command_thread \in Plain \cup {None}
      /\ OneAtATime /\ RecordedStarted /\ HandlerInv /\ StopperInv /\ RunningIsKnown /\ NothingCrashes
    BY TaskCommandAssumption DEF TypeOK, Reqs, SerialInv
<1>1. ASSUME ComesIn
      PROVE  /\ \A r \in Reqs : Alone(r)
             /\ \A r \in Reqs : ~Busy(r)
             /\ \A s \in Stops : ~Stopping(s)
    BY <1>1 DEF ComesIn, UnderWay, Alone, Busy, Stopping
<1>2. ASSUME NEW r \in Reqs, Busy(r) PROVE Alone(r) /\ thread[r] = "none"
    BY <1>0, <1>2 DEF OneAtATime, Alone, TypeOK, Busy, Active
<1>3. ASSUME NEW r \in Reqs, Receive(r) PROVE SerialInv'
    <2>1. Alone(r) /\ thread[r] = "none"
        BY <1>1, <1>3 DEF Receive, TypeOK
    <2>2. CASE Purge(r, sets[cur], sets[cur])
        <3>1. CASE r \in Plain => ~Alive(command_thread)
            BY <1>3, <2>1, <2>2, <3>1, SerialPurge DEF Receive
        <3>2. CASE r \in Plain /\ Alive(command_thread)
            <4>1. pc' = [pc EXCEPT ![r] = "refused"]
                  /\ UNCHANGED <<command_thread, sets, cur, thread, todo, joining, spc, of, was, visited, sjoin>>
                BY <1>3, <3>2 DEF Receive, Answered, Alive, stopper
            <4>2. pc' # [pc EXCEPT ![r] = "refused"]
                BY <2>2 DEF Purge, Launch, Answered, TypeOK
            <4> QED
                BY <4>1, <4>2
        <3> QED
            BY <3>1, <3>2
    <2>3. CASE ~Purge(r, sets[cur], sets[cur])
        <3>1. /\ \/ pc' = [pc EXCEPT ![r] = "refused"] /\ joining' = joining
                 \/ /\ pc' = [pc EXCEPT ![r] = "joining"]
                    /\ joining' = [joining EXCEPT ![r] = command_thread]
                    /\ ~Alive(command_thread)
              /\ r \in Plain
              /\ UNCHANGED <<command_thread, sets, cur, thread, todo, spc, of, was, visited, sjoin>>
            BY <1>3, <2>3 DEF Receive, Answered, stopper
        <3>2. \A q \in Reqs : Busy(q)' => q = r /\ pc'[r] = "joining"
            BY <2>1, <3>1 DEF Busy, Alone, TypeOK, Active
        <3>3. \A s \in Stops : ~Stopping(s)'
            BY <2>1, <3>1 DEF Alone, Stopping
        <3>4. OneAtATime' /\ StopperInv'
            BY <3>2, <3>3 DEF OneAtATime, StopperInv, Stopping
        <3>5. HandlerInv'
            <4>1. \A q \in Reqs : pc'[q] \in {"joining", "purging"} => q = r /\ pc'[r] = "joining"
                BY <3>2 DEF Busy, Active
            <4>2. pc'[r] = "joining" => joining'[r] = command_thread /\ ~Alive(command_thread)
                BY <3>1 DEF TypeOK
            <4> QED
                BY <3>1, <4>1, <4>2 DEF HandlerInv, Alive
        <3>6. RecordedStarted' /\ RunningIsKnown'
            BY <1>0, <3>1 DEF RecordedStarted, RunningIsKnown, Alive
        <3>7. NothingCrashes'
            BY <1>0, <3>1 DEF NothingCrashes, TypeOK
        <3> QED
            BY <3>4, <3>5, <3>6, <3>7 DEF SerialInv
    <2> QED
        BY <2>2, <2>3
<1>4. ASSUME NEW r \in Reqs, Joined(r) PROVE SerialInv'
    <2>1. Alone(r) /\ thread[r] = "none" /\ ~Alive(command_thread)
        BY <1>0, <1>2, <1>4 DEF Joined, HandlerInv, Busy, Active
    <2> QED
        BY <1>4, <2>1, SerialPurge DEF Joined, Active
<1>5. ASSUME NEW r \in Reqs, Purged(r) PROVE SerialInv'
    <2>1. /\ Alone(r) /\ thread[r] = "none"
          /\ joining[r] \in sets[cur] /\ ~Alive(joining[r])
          /\ todo[r] \subseteq sets[cur] \ {joining[r]}
          /\ r \in Plain => ~Alive(command_thread)
        BY <1>0, <1>2, <1>5 DEF Purged, HandlerInv, Busy, Active
    <2>2. /\ Purge(r, todo[r], sets[cur] \ {joining[r]})
          /\ UNCHANGED <<cur, stopper>> /\ pc[r] \in {"new"} \cup Active
        BY <1>5, <2>1 DEF Purged, Active
    <2>3. \A t \in sets[cur] \ (sets[cur] \ {joining[r]}) : ~Alive(t)
        BY <2>1
    <2> QED
        BY <2>1, <2>2, <2>3, SerialPurge
<1>6. ASSUME NEW r \in Reqs, AwaitedEnds(r) PROVE SerialInv'
    <2>1. /\ pc' = [pc EXCEPT ![r] = "accepted"]
          /\ UNCHANGED <<command_thread, sets, cur, thread, todo, joining, spc, of, was, visited, sjoin>>
        BY <1>6 DEF AwaitedEnds, Answered, stopper
    <2>2. /\ \A q \in Reqs : Busy(q)' => Busy(q)
          /\ \A q \in Reqs : pc'[q] \in {"joining", "purging", "crashed"} => pc'[q] = pc[q]
        BY <2>1 DEF Busy, TypeOK, Active
    <2>3. OneAtATime' /\ HandlerInv'
        BY <1>0, <2>1, <2>2 DEF OneAtATime, HandlerInv, Stopping, Alive
    <2>4. RecordedStarted' /\ StopperInv' /\ RunningIsKnown' /\ NothingCrashes'
        BY <1>0, <2>1, <2>2 DEF RecordedStarted, StopperInv, RunningIsKnown, NothingCrashes, Alive
    <2> QED
        BY <2>3, <2>4 DEF SerialInv
<1>7. ASSUME NEW r \in Reqs, ThreadEnds(r) PROVE SerialInv'
    <2>1. /\ thread' = [thread EXCEPT ![r] = "dead"]
          /\ UNCHANGED <<command_thread, sets, cur, pc, todo, joining, spc, of, was, visited, sjoin>>
        BY <1>7 DEF ThreadEnds, handler, stopper
    <2>2. \A q \in Reqs : /\ thread'[q] = "alive" => thread[q] = "alive"
                          /\ thread[q] # "none" => thread'[q] # "none"
        BY <2>1 DEF TypeOK
    <2>3. \A q \in Reqs \cup {None} : Alive(q)' => Alive(q)
        BY <2>2 DEF Alive
    <2>4. OneAtATime' /\ NothingCrashes'
        BY <1>0, <2>1 DEF OneAtATime, Busy, Stopping, NothingCrashes
    <2>5. RecordedStarted'
        BY <1>0, <2>1, <2>2 DEF RecordedStarted
    <2>6. HandlerInv'
        BY <1>0, <2>1, <2>3 DEF HandlerInv
    <2>7. StopperInv'
        BY <1>0, <2>1, <2>3 DEF StopperInv, TypeOK
    <2>8. RunningIsKnown'
        BY <1>0, <2>1, <2>3 DEF RunningIsKnown
    <2> QED
        BY <2>4, <2>5, <2>6, <2>7, <2>8 DEF SerialInv
<1>8. ASSUME NEW s \in Stops, StopBegins(s) PROVE SerialInv'
    <2>1. (\A r \in Reqs : ~Busy(r)) /\ (\A u \in Stops : ~Stopping(u)) /\ spc[s] = "new"
        BY <1>1, <1>8 DEF StopBegins
    <2>2. CASE StopGoesOn(s)
        BY <2>1, <2>2, SerialGoesOn
    <2>3. CASE ~StopGoesOn(s)
        <3>1. /\ spc' = [spc EXCEPT ![s] = "waiting"]
              /\ of' = [of EXCEPT ![s] = cur]
              /\ UNCHANGED <<sets, cur, was, visited, sjoin, command_thread, thread, pc, todo, joining>>
            BY <1>8, <2>3 DEF StopBegins, handler
        <3>2. \A u \in Stops : spc'[u] \in {"waiting", "command", "set"} => u = s /\ spc'[u] = "waiting"
            BY <2>1, <3>1 DEF Stopping, TypeOK
        <3>3. OneAtATime'
            BY <2>1, <3>1, <3>2 DEF OneAtATime, Stopping, Busy
        <3>4. of'[s] = cur
            BY <3>1 DEF TypeOK
        <3>5. StopperInv'
            BY <3>1, <3>2, <3>4 DEF StopperInv
        <3>6. HandlerInv' /\ RecordedStarted' /\ RunningIsKnown'
            BY <1>0, <3>1 DEF HandlerInv, RecordedStarted, RunningIsKnown, Alive
        <3>7. NothingCrashes'
            BY <1>0, <3>1 DEF NothingCrashes, TypeOK
        <3> QED
            BY <3>3, <3>5, <3>6, <3>7 DEF SerialInv
    <2> QED
        BY <2>2, <2>3
<1>9. ASSUME NEW s \in Stops, Stopping(s) PROVE (\A r \in Reqs : ~Busy(r)) /\ \A u \in Stops : Stopping(u) => u = s
    BY <1>0, <1>9 DEF OneAtATime
<1>13. ASSUME NEW s \in Stops, StopWaited(s) PROVE SerialInv'
    <2>1. StopGoesOn(s) /\ Stopping(s) /\ spc[s] = "waiting"
        BY <1>0, <1>13 DEF StopWaited, StopperInv, Stopping
    <2> QED
        BY <1>9, <2>1, SerialGoesOn
<1>10. ASSUME NEW s \in Stops, StopJoinedCommand(s) PROVE SerialInv'
    <2>1. command_thread # None /\ sjoin[s] = command_thread
        BY <1>0, <1>10 DEF StopJoinedCommand, StopperInv
    <2>2. /\ ~Alive(command_thread) /\ command_thread' = None /\ Stopping(s)
          /\ Iterate(s, cur, sets[cur], {}) /\ UNCHANGED <<thread, handler>>
        BY <1>10, <2>1 DEF StopJoinedCommand, JoinReturns, Stopping
    <2> QED
        BY <1>9, <2>2, SerialIterate DEF Stopping
<1>11. ASSUME NEW s \in Stops, StopJoinedReentrant(s) PROVE SerialInv'
    <2>1. /\ of[s] = cur /\ was[s] = sets[cur] /\ command_thread = None
          /\ visited[s] \subseteq sets[cur]
          /\ \A t \in visited[s] \ {sjoin[s]} : ~Alive(t)
        BY <1>0, <1>11 DEF StopJoinedReentrant, StopperInv
    <2>2. /\ ~Alive(sjoin[s]) /\ Stopping(s)
          /\ Iterate(s, cur, sets[cur], visited[s])
          /\ UNCHANGED <<thread, handler>> /\ command_thread' = None
        BY <1>11, <2>1 DEF StopJoinedReentrant, JoinReturns, Stopping
    <2>3. ~Alive(command_thread) /\ \A t \in visited[s] : ~Alive(t)
        BY <2>1, <2>2 DEF Alive
    <2> QED
        BY <1>9, <2>1, <2>2, <2>3, SerialIterate DEF Stopping
<1>12. CASE UNCHANGED vars
    <2>1. UNCHANGED <<command_thread, sets, cur, thread, pc, todo, joining, spc, of, was, visited, sjoin>>
        BY <1>12 DEF vars, handler, stopper
    <2>2. OneAtATime' /\ RecordedStarted' /\ HandlerInv'
        BY <1>0, <2>1 DEF OneAtATime, RecordedStarted, HandlerInv, Busy, Stopping, Alive
    <2>3. StopperInv' /\ RunningIsKnown' /\ NothingCrashes'
        BY <1>0, <2>1 DEF StopperInv, RunningIsKnown, NothingCrashes, Alive
    <2> QED
        BY <2>2, <2>3 DEF SerialInv
<1> QED
    BY <1>3, <1>4, <1>5, <1>6, <1>7, <1>8, <1>10, <1>11, <1>12, <1>13 DEF Next

LEMMA InitSerialInv == Init => SerialInv
<1> SUFFICES ASSUME Init PROVE SerialInv
    OBVIOUS
<1>1. /\ sets[cur] = {} /\ command_thread = None /\ \A g \in Gens : sets[g] = {}
      /\ \A r \in Reqs : pc[r] = "new" /\ thread[r] = "none"
      /\ \A s \in Stops : spc[s] = "new"
    BY TaskCommandAssumption, FS_EmptySet, FS_CardinalityType DEF Init, Gens
<1>2. OneAtATime /\ RecordedStarted /\ HandlerInv
    BY <1>1 DEF OneAtATime, RecordedStarted, HandlerInv, Busy, Stopping, Active
<1>3. StopperInv /\ RunningIsKnown /\ NothingCrashes
    BY <1>1 DEF StopperInv, RunningIsKnown, NothingCrashes, Alive
<1> QED
    BY <1>2, <1>3 DEF SerialInv

\* The disorder does not end.
LEMMA StepDisorder == [Next]_vars /\ orderly' => orderly
    BY DEF Next, vars, Receive, ComesIn, Joined, Purged, AwaitedEnds, ThreadEnds,
           StopBegins, StopWaited, StopGoesOn, StopJoinedCommand, StopJoinedReentrant, JoinReturns

\* The inductive invariant of an orderly use of the task.
LEMMA OrderlyInvariant == Spec => [](orderly => SerialInv)
<1>1. Init => TypeOK /\ CountInv /\ (orderly => SerialInv)
    BY InitType, InitSerialInv
<1>2. TypeOK /\ CountInv /\ (orderly => SerialInv) /\ [Next]_vars
        => (TypeOK /\ CountInv /\ (orderly => SerialInv))'
    BY StepType, StepSerialInv, StepDisorder
<1> QED
    BY <1>1, <1>2, PTL DEF Spec

\* As long as clients wait for each answer and every thread ends within the
\* timeout of stop(), every running thread is one the module knows of.
THEOREM RunningKnownWhenOrderly == Spec => []RunningIsKnownIfOrderly
<1>1. Spec => [](orderly => SerialInv)
    BY OrderlyInvariant
<1>2. (orderly => SerialInv) => RunningIsKnownIfOrderly
    BY DEF SerialInv, RunningIsKnownIfOrderly
<1> QED
    BY <1>1, <1>2, PTL

\* ... and so the task is single-threaded but for its reentrant commands.
THEOREM OnePlainCommandWhenOrderly == Spec => []OnePlainCommandIfOrderly
<1>1. Spec => [](orderly => SerialInv)
    BY OrderlyInvariant
<1>2. (orderly => SerialInv) => OnePlainCommandIfOrderly
    BY DEF SerialInv, RunningIsKnown, OnePlainCommandIfOrderly, OnePlainCommand, RunningPlain, Reqs
<1> QED
    BY <1>1, <1>2, PTL

\* ... and neither a command nor a stop() ends in an exception of the module's
\* own bookkeeping.
THEOREM NothingCrashesWhenOrderly == Spec => []NothingCrashesIfOrderly
<1>1. Spec => [](orderly => SerialInv)
    BY OrderlyInvariant
<1>2. (orderly => SerialInv) => NothingCrashesIfOrderly
    BY DEF SerialInv, NothingCrashesIfOrderly
<1> QED
    BY <1>1, <1>2, PTL
=============================================================================
