----------------------------- MODULE FirstWins -----------------------------
(* What when_any promises to its user: every child completes once, the first *)
(* completion decides, the others are asked to stop only after it, and the   *)
(* decision is delivered once, when no child is left.                        *)
CONSTANTS Children, Signals, None

VARIABLES
  finished,   \* the children that have completed
  first,      \* the first of them and its signal, or None
  stopping,   \* the children have been asked to stop
  outcome     \* what the receiver of when_any got, or None

vars == <<finished, first, stopping, outcome>>

Init ==
  /\ finished = {}
  /\ first = None
  /\ stopping = FALSE
  /\ outcome = None

Complete(i, s) ==
  /\ i \notin finished
  /\ finished' = finished \union {i}
  /\ first' = IF first = None THEN <<i, s>> ELSE first
  /\ UNCHANGED <<stopping, outcome>>

Stop ==
  /\ first # None
  /\ stopping' = TRUE
  /\ UNCHANGED <<finished, first, outcome>>

(* A stopped child has no result: the receiver is told "stopped" only.       *)
Deliver ==
  /\ finished = Children
  /\ stopping
  /\ outcome = None
  /\ outcome' = IF first[2] = "stopped" THEN <<None, "stopped">> ELSE first
  /\ UNCHANGED <<finished, first, stopping>>

Next == (\E i \in Children, s \in Signals : Complete(i, s)) \/ Stop \/ Deliver

Spec == Init /\ [][Next]_vars
=============================================================================
