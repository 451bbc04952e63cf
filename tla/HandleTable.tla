----------------------------- MODULE HandleTable -----------------------------
(***************************************************************************)
(* What the users of detail/container.hpp rely on (poll_context and        *)
(* iocp_context keep their sockets in one): a partial map from ids to      *)
(* records.  Inserting binds some id that was unbound and touches no other *)
(* binding; erasing unbinds one id.                                        *)
(***************************************************************************)
CONSTANT Handles, TableIds
VARIABLE table

TableInit == table = [id \in {} |-> id]

Bind(id, r) ==
  /\ id \notin DOMAIN table
  /\ table' = [k \in DOMAIN table \cup {id} |-> IF k = id THEN r ELSE table[k]]

Unbind(id) ==
  /\ id \in DOMAIN table
  /\ table' = [k \in DOMAIN table \ {id} |-> table[k]]

TableNext ==
  \/ \E id \in TableIds, r \in Handles : Bind(id, r)
  \/ \E id \in TableIds : Unbind(id)

TableSpec == TableInit /\ [][TableNext]_table

==============================================================================
