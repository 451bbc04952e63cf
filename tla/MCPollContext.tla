---------------------------- MODULE MCPollContext ----------------------------
(* PollContext for TLC. *)
EXTENDS PollContext, TLC

Symmetric == Permutations(Ops) \cup Permutations(Tokens)

==============================================================================
