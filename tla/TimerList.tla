------------------------------ MODULE TimerList ------------------------------
(***************************************************************************)
(* detail/sorted_list.hpp seen as the sequence of its nodes from the head. *)
(* `value' is the function the Value argument of the template computes     *)
(* (the deadline, for the timers of a context).  Module SortedList shows   *)
(* that the pointer manipulations implement these operators.               *)
(***************************************************************************)
EXTENDS Integers, Sequences

(* value_or(v) *)
ValueOr(list, value, v) == IF list = << >> THEN v ELSE value[list[1]]

(* Where the loop of insert() stops: behind the longest prefix whose       *)
(* values compare less than the new node's, so before its equals.          *)
InsertPosition(list, value, node) ==
  CHOOSE i \in 1 .. Len(list) + 1 :
    /\ \A j \in 1 .. i - 1 : value[list[j]] < value[node]
    /\ i <= Len(list) => ~(value[list[i]] < value[node])

(* insert(node) *)
InsertTimer(list, value, node) ==
  LET i == InsertPosition(list, value, node)
  IN  [k \in 1 .. Len(list) + 1 |->
         IF k < i THEN list[k] ELSE IF k = i THEN node ELSE list[k - 1]]

(* pop_front() returns the head, the list keeps the rest. *)
PopTimer(list) == Tail(list)

OnList(list, node) == \E i \in 1 .. Len(list) : list[i] = node

(* erase(node): unlinks the node; a node that is not on the list leaves it *)
(* alone.                                                                  *)
EraseTimer(list, node) ==
  IF OnList(list, node)
  THEN LET i == CHOOSE i \in 1 .. Len(list) : list[i] = node
       IN  [k \in 1 .. Len(list) - 1 |-> IF k < i THEN list[k] ELSE list[k + 1]]
  ELSE list

Ordered(list, value) ==
  \A i, j \in 1 .. Len(list) : i < j => value[list[i]] <= value[list[j]]

==============================================================================
