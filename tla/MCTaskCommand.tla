--------------------------- MODULE MCTaskCommand ---------------------------
(***************************************************************************)
(* Model checking TaskCommand.                                             *)
(***************************************************************************)
EXTENDS TaskCommand

CONSTANTS p1, p2, p3, r1, r2, a1, s1, s2
=============================================================================
