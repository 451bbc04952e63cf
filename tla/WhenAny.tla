------------------------------ MODULE WhenAny ------------------------------
(* The when_any algorithm of the examples: N operations run under one stop   *)
(* source, the first to complete decides the result and asks the others to   *)
(* stop, the last one to arrive delivers the result and thereby destroys the *)
(* state.  The children may complete on different threads, so each access to *)
(* an atomic counter is a step; a child that completes inside request_stop() *)
(* or inside its own start() is one of these interleavings.                  *)
EXTENDS Naturals

CONSTANTS
  N,        \* sizeof...(Sender)
  Timers,   \* the children behind into_error
  None

Children == 1..N
Signals == {"value", "error", "stopped"}

ASSUME ChildrenAssumption == N \in Nat \ {0} /\ Timers \subseteq Children
ASSUME NoneAssumption == None \notin Children \union ((Children \union {None}) \X Signals)

VARIABLES
  at,            \* how far each child is
  got,           \* the signal a child completes with
  next,          \* the child the fold in start() starts next
  done_count, ready_count, source, value, error,
  outcome,       \* the signal given to the receiver of when_any, or None
  first          \* history: the child that completed first, and its signal

vars == <<at, got, next, done_count, ready_count, source, value, error, outcome, first>>
shared == <<done_count, ready_count, source, value, error, outcome, first>>

Arrived == {"notify", "gone"}
Completed == {"stop", "store", "ready"} \union Arrived

Init ==
  /\ at = [i \in Children |-> "idle"]
  /\ got = [i \in Children |-> None]
  /\ next = 1
  /\ done_count = 0
  /\ ready_count = 0
  /\ source = FALSE
  /\ value = None
  /\ error = None
  /\ outcome = None
  /\ first = None

(* into_error turns a value into an error and passes the rest on.            *)
IntoError(s) == IF s = "value" THEN "error" ELSE s

Adapted(i, s) == IF i \in Timers THEN IntoError(s) ELSE s

(* The fold starts the children in order, on one thread.                     *)
Start(i) ==
  /\ next = i
  /\ next' = i + 1
  /\ at' = [at EXCEPT ![i] = "running"]
  /\ UNCHANGED <<got, shared>>

(* Fault: done_count is compared after the increment.                        *)
WinsLate == done_count = 1

(* complete(): the increment decides whether the child is the first.         *)
Wins == done_count = 0

Complete(i, s) ==
  /\ at[i] = "running"
  /\ got' = [got EXCEPT ![i] = Adapted(i, s)]
  /\ done_count' = done_count + 1
  /\ at' = [at EXCEPT ![i] = IF Wins THEN "stop" ELSE "ready"]
  /\ first' = IF first = None THEN <<i, Adapted(i, s)>> ELSE first
  /\ UNCHANGED <<next, ready_count, source, value, error, outcome>>

(* Fault: the first one to complete does not ask the others to stop.         *)
ForgetStop(i) ==
  /\ at[i] = "stop"
  /\ at' = [at EXCEPT ![i] = IF got[i] = "stopped" THEN "ready" ELSE "store"]
  /\ UNCHANGED <<got, next, shared>>

(* Only set_value and set_error look at what complete() returns.             *)
RequestStop(i) ==
  /\ at[i] = "stop"
  /\ source' = TRUE
  /\ at' = [at EXCEPT ![i] = IF got[i] = "stopped" THEN "ready" ELSE "store"]
  /\ UNCHANGED <<got, next, done_count, ready_count, value, error, outcome, first>>

Store(i) ==
  /\ at[i] = "store"
  /\ value' = IF got[i] = "value" THEN i ELSE value
  /\ error' = IF got[i] = "error" THEN i ELSE error
  /\ at' = [at EXCEPT ![i] = "ready"]
  /\ UNCHANGED <<got, next, done_count, ready_count, source, outcome, first>>

(* Fault: the last one is told by the count of completions, not of arrivals. *)
LastByDone == done_count = N

(* ready(): the increment tells the last child to arrive.                    *)
IsLast == ready_count + 1 = N

Ready(i) ==
  /\ at[i] = "ready"
  /\ ready_count' = ready_count + 1
  /\ at' = [at EXCEPT ![i] = IF IsLast THEN "notify" ELSE "gone"]
  /\ UNCHANGED <<got, next, done_count, source, value, error, outcome, first>>

Result ==
  IF error # None THEN <<error, "error">>
  ELSE IF value # None THEN <<value, "value">>
  ELSE <<None, "stopped">>

NotifyDone(i) ==
  /\ at[i] = "notify"
  /\ at' = [at EXCEPT ![i] = "gone"]
  /\ outcome' = Result
  /\ UNCHANGED <<got, next, done_count, ready_count, source, value, error, first>>

Receiver(i) == RequestStop(i) \/ Store(i) \/ Ready(i) \/ NotifyDone(i)

Next ==
  \E i \in Children :
    \/ Start(i)
    \/ \E s \in Signals : Complete(i, s)
    \/ Receiver(i)

Spec == Init /\ [][Next]_vars

(* The fold and a receiver that was called run on; a child is only known to  *)
(* complete once it was asked to stop.                                       *)
Answers(i) == source /\ \E s \in Signals : Complete(i, s)

FairSpec ==
  /\ Spec
  /\ \A i \in Children : WF_vars(Start(i)) /\ WF_vars(Receiver(i)) /\ WF_vars(Answers(i))

-----------------------------------------------------------------------------
TypeOK ==
  /\ at \in [Children -> {"idle", "running"} \union Completed]
  /\ got \in [Children -> Signals \union {None}]
  /\ next \in 1..(N + 1)
  /\ done_count \in Nat /\ ready_count \in Nat
  /\ source \in BOOLEAN
  /\ value \in Children \union {None} /\ error \in Children \union {None}
  /\ outcome \in {None, <<None, "stopped">>} \union (Children \X Signals)
  /\ first \in {None} \union (Children \X Signals)

(* The completion of when_any destroys its state: by then every child has    *)
(* been started and has left its receiver, none is about to store a result   *)
(* or to count itself, and the completion is not given twice.                *)
NoUseAfterCompletion ==
  /\ outcome # None => next = N + 1 /\ \A i \in Children : at[i] = "gone"
  /\ \A i, j \in Children : at[i] = "notify" /\ j # i => at[j] = "gone"

(* The first completion, by value or error, is the result, whatever the      *)
(* order in which the threads reach the counters and the stored results.     *)
Finished == {i \in Children : at[i] \in Completed}

Promise == INSTANCE FirstWins WITH finished <- Finished, stopping <- source

ImplementsFirstWins == Promise!Spec

(* Once a child has completed, the result is delivered: the others are asked *)
(* to stop and the last of them notices that it is the last.                 *)
FirstLeadsToOutcome == (first # None) ~> (outcome # None)
=============================================================================
