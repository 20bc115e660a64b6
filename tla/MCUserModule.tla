---------------------------- MODULE MCUserModule ----------------------------
(***************************************************************************)
(* Model checking UserModule.                                              *)
(***************************************************************************)
EXTENDS UserModule

CONSTANTS u1, u2, s1, s2, c1

\* A script that is async throughout, one without a _run() for the main event
\* loop, a sync _run() beside an async _halt(), and a _loop() alone.
AsyncScript == [run |-> "async", halt |-> "async", loop |-> TRUE, async |-> TRUE, main |-> FALSE]
MainScript  == [run |-> "none", halt |-> "sync", loop |-> TRUE, async |-> FALSE, main |-> TRUE]
MixedScript == [run |-> "sync", halt |-> "async", loop |-> FALSE, async |-> FALSE, main |-> FALSE]
LoopScript  == [run |-> "none", halt |-> "none", loop |-> TRUE, async |-> FALSE, main |-> FALSE]

AsyncOrMain == {AsyncScript, MainScript}
OnlyMixed   == {MixedScript}
OnlyLoop    == {LoopScript}
=============================================================================
