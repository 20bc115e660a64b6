----------------------------- MODULE MCMeshRPC -----------------------------
(***************************************************************************)
(* Model checking MeshRPC.                                                 *)
(***************************************************************************)
EXTENDS MeshRPC, TLC

CONSTANTS a, b, c1, c2

\* Two meshes of one name.  a calls that name for all the replies; when it
\* executes the call itself, the function calls the name in its turn, for one
\* reply, and so waits for b, and for itself.
Both      == {a, b}
Two       == {c1, c2}
CalledBy  == c1 :> a @@ c2 :> a
CalledIn  == c1 :> None @@ c2 :> c1
OneName   == [c \in Two |-> Both]
FirstMany == {c1}
OnlyA     == {a}
=============================================================================
