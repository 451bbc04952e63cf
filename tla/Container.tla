------------------------------ MODULE Container ------------------------------
(***************************************************************************)
(* detail/container.hpp: the slot map that turns native handles into       *)
(* socket_ids.  A container is a value with the two data members of the    *)
(* class: `records', a vector whose elements are variants, and `free'.     *)
(* Alternative 1 of the variant is a live record, alternative 0 the index  *)
(* of the next free slot; the free list ends at records.size().  Socket    *)
(* ids are the 0-based indices of the C++ code, the sequence is 1-based.   *)
(***************************************************************************)
EXTENDS Integers, Sequences, FiniteSets

CONSTANT Handles        \* native handles; a record is its handle (`blocking' never changes)

Live(r) == [index |-> 1, rec |-> r]
Dead(k) == [index |-> 0, next |-> k]
Slots == [index : {1}, rec : Handles] \cup [index : {0}, next : Nat]

Containers == [records : Seq(Slots), free : Nat]

EmptyContainer == [records |-> << >>, free |-> 0]

Size(c) == Len(c.records)
Ids(c) == 0 .. Size(c) - 1

(* this->records[id].index() == 1u, the condition operator[] asserts *)
IsLive(c, id) == id \in Ids(c) /\ c.records[id + 1].index = 1
LiveIds(c) == {id \in Ids(c) : c.records[id + 1].index = 1}
DeadIds(c) == Ids(c) \ LiveIds(c)

(* operator[](id) *)
Lookup(c, id) == c.records[id + 1].rec

(* The id insert() returns: the head of the free list in both branches. *)
InsertId(c) == c.free

(* Faults of insert(): `free' advanced by one instead of along the list,    *)
(* left alone when a slot is reused, and never advanced.                    *)
InsertNextSlot(c, r) ==
  IF c.free = Size(c)
  THEN [records |-> Append(c.records, Live(r)), free |-> c.free + 1]
  ELSE [records |-> [c.records EXCEPT ![c.free + 1] = Live(r)], free |-> c.free + 1]

InsertKeepsFree(c, r) ==
  IF c.free = Size(c)
  THEN [records |-> Append(c.records, Live(r)), free |-> c.free + 1]
  ELSE [c EXCEPT !.records[c.free + 1] = Live(r)]

InsertForgetsFree(c, r) ==
  IF c.free = Size(c)
  THEN [c EXCEPT !.records = Append(@, Live(r))]
  ELSE [c EXCEPT !.records[c.free + 1] = Live(r)]

(* insert(r): grow the vector when the free list is empty, otherwise take  *)
(* the first free slot and advance `free' to its successor.                *)
Insert(c, r) ==
  IF c.free = Size(c)
  THEN [records |-> Append(c.records, Live(r)), free |-> c.free + 1]
  ELSE [records |-> [c.records EXCEPT ![c.free + 1] = Live(r)],
        free    |-> c.records[c.free + 1].next]

(* erase(id): push the slot on the front of the free list. *)
Erase(c, id) ==
  [records |-> [c.records EXCEPT ![id + 1] = Dead(c.free)], free |-> id]

(* `chain' lists the free list of c from its head: every dead slot occurs   *)
(* once, `free' is the first of them, each points to the one after it and   *)
(* the last points one past the end of the vector.                          *)
IsFreeChain(c, chain) ==
  LET n == Cardinality(DeadIds(c))
  IN  /\ chain \in [1 .. n -> DeadIds(c)]
      /\ \A i, j \in 1 .. n : chain[i] = chain[j] => i = j
      /\ \A id \in DeadIds(c) : \E i \in 1 .. n : chain[i] = id
      /\ c.free = IF n = 0 THEN Size(c) ELSE chain[1]
      /\ \A i \in 1 .. n : c.records[chain[i] + 1].next =
                             IF i = n THEN Size(c) ELSE chain[i + 1]

FreeListSound(c) ==
  \E chain \in [1 .. Cardinality(DeadIds(c)) -> DeadIds(c)] : IsFreeChain(c, chain)

==============================================================================
