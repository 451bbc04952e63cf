---------------------------- MODULE MCIocpContext -----------------------------
(* IocpContext for TLC. *)
EXTENDS IocpContext, TLC

Symmetric == Permutations(Ops)

==============================================================================
