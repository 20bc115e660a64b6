---------------------------- MODULE CurrentData ----------------------------
(***************************************************************************)
(* Current data: values that tasks publish and that browsers and other     *)
(* programs emit (app/server/sd_mesh.py, app/server/sd_taskmodule.py,      *)
(* lib/slowpy/slowpy/control/system.py).  POST /api/emit runs the handlers *)
(* of /api/consume one after the other: the mesh component caches the      *)
(* values, the task component sets the variables of these names; then the  *)
(* message goes to the attached browsers.                                  *)
(*                                                                         *)
(* A task publishes from a thread and an event loop of its own, so that    *)
(* its steps come anywhere between those of the server.  Each emission is  *)
(* made once; a value is told by the emission that brought it.             *)
(***************************************************************************)
EXTENDS FiniteSets

CONSTANTS Variable,       \* exported by tasks, under these names
          Emission, Viewer,
          Initial         \* the value of a variable before any emission

VARIABLES cdValue,        \* the value of each variable
          cdCache,        \* current_data_cache: values, as a partial function
          cdEmission,     \* where each is, its sender, its message, what is left of it
          cdViewers,      \* attached
          cdShown,        \* what each viewer shows of each variable
          cdSet,          \* the last emission of others than its task for a variable
          cdOrderly       \* those for one variable did not overlap, nor fail

cdVars == <<cdValue, cdCache, cdEmission, cdViewers, cdShown, cdSet, cdOrderly>>

Content == Emission \cup {Initial}
NoMessage == {}

\* A message: a set of pairs, one for each of its variables.
Pairs(names, x) == {<<n, x>> : n \in names}
NamesOf(m) == {p[1] : p \in m}

CurrentDataTypeOK ==
  /\ cdValue \in [Variable -> Content] /\ cdSet \in [Variable -> Content]
  /\ cdCache \subseteq Variable \X Content
  /\ cdEmission \in [Emission -> [at : {"new", "read", "set", "send", "done"},
                                  own : SUBSET Variable,
                                  message : SUBSET (Variable \X Content), todo : SUBSET Variable]]
  /\ cdViewers \subseteq Viewer /\ cdShown \in [Viewer -> [Variable -> Content]]
  /\ cdOrderly \in BOOLEAN

CurrentDataInit ==
  /\ cdValue = [n \in Variable |-> Initial] /\ cdSet = cdValue
  /\ cdCache = {} /\ cdViewers = {} /\ cdOrderly = TRUE
  /\ cdShown = [w \in Viewer |-> cdValue]
  /\ cdEmission = [e \in Emission |->
       [at |-> "new", own |-> {}, message |-> NoMessage, todo |-> {}]]

\* Every value of a message takes the place of what is cached, however old it is.
Cached(m) == {p \in cdCache : p[1] \notin NamesOf(m)} \cup m

\* aio_publish(): the value of the variable is read ...
PublishRead(e, n) ==
  /\ cdEmission[e].at = "new"
  /\ cdEmission' = [cdEmission EXCEPT
       ![e] = [at |-> "read", own |-> {n}, message |-> {<<n, cdValue[n]>>}, todo |-> {n}]]
  /\ UNCHANGED <<cdValue, cdCache, cdViewers, cdShown, cdSet, cdOrderly>>

\* ... and emitted, with the name of the sender.
PublishEmit(e) ==
  /\ cdEmission[e].at = "read"
  /\ cdCache' = Cached(cdEmission[e].message)
  /\ cdEmission' = [cdEmission EXCEPT ![e].at = "set"]
  /\ UNCHANGED <<cdValue, cdViewers, cdShown, cdSet, cdOrderly>>

\* Others set the variables, some of them; without a time it is not cached.
EmitOthers(e, names, timed) ==
  /\ cdEmission[e].at = "new" /\ names # {}
  /\ cdEmission' = [cdEmission EXCEPT
       ![e] = [at |-> "set", own |-> {}, message |-> Pairs(names, e), todo |-> names]]
  /\ cdCache' = IF timed THEN Cached(Pairs(names, e)) ELSE cdCache
  /\ cdSet' = [n \in Variable |-> IF n \in names THEN e ELSE cdSet[n]]
  /\ cdOrderly' = (cdOrderly /\ \A d \in Emission :
       cdEmission[d].own = {} => cdEmission[d].todo \cap names = {})
  /\ UNCHANGED <<cdValue, cdViewers, cdShown>>

\* Mutant: the sender of a message is not looked at.
MutLeftToSet(e) == cdEmission[e].todo

\* The task component passes over what comes from the variable itself.
LeftToSet(e) == cdEmission[e].todo \ cdEmission[e].own

\* One turn of set_variable(): the variable takes its value after some time.
SetVariable(e, n) ==
  /\ cdEmission[e].at = "set" /\ n \in LeftToSet(e)
  /\ cdEmission' = [cdEmission EXCEPT ![e].todo = @ \ {n}]
  /\ \E p \in cdEmission[e].message : p[1] = n /\ cdValue' = [cdValue EXCEPT ![n] = p[2]]
  /\ UNCHANGED <<cdCache, cdViewers, cdShown, cdSet, cdOrderly>>

\* aio_set() raises: it is logged.
SetVariableFails(e, n) ==
  /\ cdEmission[e].at = "set" /\ n \in LeftToSet(e)
  /\ cdEmission' = [cdEmission EXCEPT ![e].todo = @ \ {n}]
  /\ cdOrderly' = FALSE
  /\ UNCHANGED <<cdValue, cdCache, cdViewers, cdShown, cdSet>>

Consumed(e) ==
  /\ cdEmission[e].at = "set" /\ LeftToSet(e) = {}
  /\ cdEmission' = [cdEmission EXCEPT ![e] = [@ EXCEPT !.at = "send", !.todo = {}]]
  /\ UNCHANGED <<cdValue, cdCache, cdViewers, cdShown, cdSet, cdOrderly>>

\* The message to all that are attached.  When the set of them changes under
\* the thread of a task that goes through it, nobody gets the message.
Broadcast(e) ==
  /\ cdEmission[e].at = "send"
  /\ cdEmission' = [cdEmission EXCEPT ![e].at = "done"]
  /\ \/ cdShown' = [w \in Viewer |-> [n \in Variable |->
            IF w \in cdViewers /\ n \in NamesOf(cdEmission[e].message)
            THEN (CHOOSE p \in cdEmission[e].message : p[1] = n)[2]
            ELSE cdShown[w][n]]]
     \/ cdEmission[e].own # {} /\ UNCHANGED cdShown
  /\ UNCHANGED <<cdValue, cdCache, cdViewers, cdSet, cdOrderly>>

\* attach(): accepted, and later closed or failed.
Attach(w) ==
  /\ w \notin cdViewers /\ cdViewers' = cdViewers \cup {w}
  /\ UNCHANGED <<cdValue, cdCache, cdEmission, cdShown, cdSet, cdOrderly>>

Detach(w) ==
  /\ w \in cdViewers /\ cdViewers' = cdViewers \ {w}
  /\ UNCHANGED <<cdValue, cdCache, cdEmission, cdShown, cdSet, cdOrderly>>

CurrentDataNext ==
  \/ \E e \in Emission, n \in Variable :
       PublishRead(e, n) \/ SetVariable(e, n) \/ SetVariableFails(e, n)
  \/ \E e \in Emission : PublishEmit(e) \/ Consumed(e) \/ Broadcast(e)
  \/ \E e \in Emission, names \in SUBSET Variable, timed \in BOOLEAN : EmitOthers(e, names, timed)
  \/ \E w \in Viewer : Attach(w) \/ Detach(w)

CurrentDataSpec == CurrentDataInit /\ [][CurrentDataNext]_cdVars

(***************************************************************************)
(* Properties                                                              *)
(***************************************************************************)
\* A variable that has been set keeps its value, however many publications of
\* its older value are under way meanwhile: once nobody is setting it, it has
\* the value of the last emission for it, as long as these do not overlap.
\* (The cache and the browsers may be left with the older value.)
SetValueStays ==
  \A n \in Variable :
    (cdOrderly /\ \A e \in Emission : cdEmission[e].own = {} => n \notin cdEmission[e].todo)
      => cdValue[n] = cdSet[n]
=============================================================================
