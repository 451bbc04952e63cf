------------------------------ MODULE AsyncOps -------------------------------
(***************************************************************************)
(* What every asynchronous operation of the library promises its receiver: *)
(* once started it is completed at most once, with a value, an error or    *)
(* set_stopped, and with set_stopped only after a stop was requested from  *)
(* the token in the receiver's environment.                                *)
(***************************************************************************)
CONSTANTS Ops, Tokens
VARIABLES status,      \* per operation: idle, pending or the signal it sent
          tokenOf,     \* per started operation: the receiver's stop token
          stopped      \* tokens whose source has requested stop

Outcomes == {"value", "error", "stopped"}

AsyncInit ==
  /\ status = [o \in Ops |-> "idle"]
  /\ stopped = {}

Submit(o) ==
  /\ status[o] = "idle"
  /\ \E s \in Outcomes \cup {"pending"} :
       /\ s = "stopped" => tokenOf'[o] \in stopped
       /\ status' = [status EXCEPT ![o] = s]
  /\ \A p \in Ops \ {o} : tokenOf'[p] = tokenOf[p]
  /\ UNCHANGED stopped

Resolve(o) ==
  /\ status[o] = "pending"
  /\ \E s \in Outcomes :
       /\ s = "stopped" => tokenOf[o] \in stopped
       /\ status' = [status EXCEPT ![o] = s]
  /\ UNCHANGED <<tokenOf, stopped>>

RequestStop(t) ==
  /\ stopped' = stopped \cup {t}
  /\ UNCHANGED <<status, tokenOf>>

AsyncNext ==
  \/ \E o \in Ops : Submit(o) \/ Resolve(o)
  \/ \E t \in Tokens : RequestStop(t)

AsyncSpec == AsyncInit /\ [][AsyncNext]_<<status, tokenOf, stopped>>

==============================================================================
