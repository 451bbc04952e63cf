---------------------------- MODULE MCUringContext ----------------------------
(* UringContext for TLC. *)
EXTENDS UringContext, TLC

Symmetric == Permutations(Ops)

==============================================================================
