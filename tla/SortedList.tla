----------------------------- MODULE SortedList ------------------------------
(***************************************************************************)
(* detail/sorted_list.hpp at the level of its pointers: `head' and the     *)
(* `next' member of each node.  The loops of insert() and erase() move     *)
(* `it', a pointer to a next_t: &head or the address of a node's `next'.   *)
(* The calls come one after the other, in any order, with the nodes the    *)
(* contexts pass: insert() gets a node that is not on the list.            *)
(***************************************************************************)
EXTENDS TimerList, FiniteSets

CONSTANTS Nodes, Values, Null, HeadRef

ASSUME NodesAssumption ==
  /\ IsFiniteSet(Nodes) /\ Null \notin Nodes /\ HeadRef \notin Nodes
  /\ Values \subseteq Nat

VARIABLES head, next,         \* the list
          value,              \* what Value(node) returns
          pc,                 \* ready, or the function being executed
          node, it            \* its argument and its local variable

links == <<head, next>>
listVars == <<head, next, value, pc, node, it>>

ListInit ==
  /\ head = Null /\ next = [n \in Nodes |-> Null]
  /\ value \in [Nodes -> Values]
  /\ pc = "ready" /\ node = Null /\ it = HeadRef

(* *it *)
Target == IF it = HeadRef THEN head ELSE next[it]

(* *it = n *)
Store(n) ==
  IF it = HeadRef
  THEN head' = n /\ UNCHANGED next
  ELSE next' = [next EXCEPT ![it] = n] /\ UNCHANGED head

(* The node at position k, followed from the head. *)
NodeAt[k \in 1 .. Cardinality(Nodes) + 1] ==
  IF k = 1 THEN head
  ELSE IF NodeAt[k - 1] = Null THEN Null ELSE next[NodeAt[k - 1]]

(* The nodes from the head to the null pointer. *)
Linked ==
  [k \in 1 .. Cardinality({k \in 1 .. Cardinality(Nodes) : NodeAt[k] # Null}) |-> NodeAt[k]]

------------------------------------------------------------------------------

(* pop_front(), called on a list that is not empty *)
PopFront ==
  /\ pc = "ready" /\ head # Null
  /\ head' = next[head]
  /\ UNCHANGED <<next, value, pc, node, it>>

Call(f, n) ==
  /\ pc = "ready"
  /\ pc' = f /\ node' = n /\ it' = HeadRef
  /\ UNCHANGED <<links, value>>

CallInsert(n) == ~OnList(Linked, n) /\ Call("insert", n)
CallErase(n) == Call("erase", n)

Return == pc' = "ready" /\ node' = Null /\ it' = HeadRef /\ UNCHANGED value

(* Faults of the comparison: reversed, and behind the equals. *)
InsertReversed == Target # Null /\ value[node] < value[Target]
InsertBehindEquals == Target # Null /\ value[Target] <= value[node]

(* The condition of insert()'s loop: null, or comp(value, value) is false. *)
InsertGoesOn == Target # Null /\ value[Target] < value[node]

(* `it' moves to the next pointer of the node it points to. *)
InsertAdvance ==
  /\ pc = "insert" /\ InsertGoesOn
  /\ it' = Target
  /\ UNCHANGED <<links, value, pc, node>>

(* node->next = *it; *it = node: `it' is &head or the `next' of a node on  *)
(* the list, so the two assignments are to different pointers.             *)
InsertLink ==
  /\ pc = "insert" /\ ~InsertGoesOn
  /\ IF it = HeadRef
     THEN head' = node /\ next' = [next EXCEPT ![node] = Target]
     ELSE next' = [next EXCEPT ![node] = Target, ![it] = node] /\ UNCHANGED head
  /\ Return

(* The condition of erase()'s loop. *)
EraseGoesOn == Target # node /\ Target # Null

(* Fault: the loop does not move on. *)
EraseStays ==
  /\ pc = "erase" /\ EraseGoesOn
  /\ UNCHANGED listVars

EraseAdvance ==
  /\ pc = "erase" /\ EraseGoesOn
  /\ it' = Target
  /\ UNCHANGED <<links, value, pc, node>>

(* *it = node->next when the node was found, otherwise nothing.  The       *)
(* node's own `next' keeps its value.                                      *)
EraseUnlink ==
  /\ pc = "erase" /\ ~EraseGoesOn
  /\ IF Target = node THEN Store(next[node]) ELSE UNCHANGED links
  /\ Return

ListNext ==
  \/ PopFront
  \/ \E n \in Nodes : CallInsert(n) \/ CallErase(n)
  \/ InsertAdvance \/ InsertLink
  \/ EraseAdvance \/ EraseUnlink

ListSpec == ListInit /\ [][ListNext]_listVars

(* A call that has begun is executed. *)
ListFairSpec ==
  ListSpec /\ WF_listVars(InsertAdvance \/ InsertLink \/ EraseAdvance \/ EraseUnlink)

------------------------------------------------------------------------------

(* head, next and the locals are null or nodes. *)
ListTypeOK ==
  /\ head \in Nodes \cup {Null} /\ next \in [Nodes -> Nodes \cup {Null}]
  /\ value \in [Nodes -> Values]
  /\ pc \in {"ready", "insert", "erase"}
  /\ node \in Nodes \cup {Null} /\ it \in Nodes \cup {HeadRef}

(* The list stays acyclic and sorted, although erased and popped nodes     *)
(* keep their stale `next' and are inserted again later.                   *)
WellFormed == NodeAt[Cardinality(Nodes) + 1] = Null /\ Ordered(Linked, value)

(* Every change of the list is the sequence operation TimerList gives for  *)
(* the call in progress, and takes effect in one step.                     *)
ImplementsTimerList ==
  [][/\ pc = "ready" =>
          IF pc' = "ready" THEN Linked # << >> /\ Linked' = PopTimer(Linked)
          ELSE Linked' = Linked
     /\ pc = "insert" =>
          Linked' = IF pc' = "ready" THEN InsertTimer(Linked, value, node) ELSE Linked
     /\ pc = "erase" =>
          Linked' = IF pc' = "ready" THEN EraseTimer(Linked, node) ELSE Linked]_listVars

(* The loops end: every call returns. *)
CallsReturn == (pc # "ready") ~> (pc = "ready")

==============================================================================
