----------------------------- MODULE SocketTable -----------------------------
(***************************************************************************)
(* The life of one container under the two operations the contexts perform *)
(* on it: make_socket() inserts, release() looks the record up and erases  *)
(* it.  The sequence of calls is arbitrary; the look-up in release() makes *)
(* a live id its precondition (the assert of operator[]).                  *)
(***************************************************************************)
EXTENDS Container

CONSTANT MaxLive        \* bound: sockets open at the same time

ASSUME MaxLiveAssumption == MaxLive \in Nat

VARIABLE sockets        \* the container d_sockets

Init == sockets = EmptyContainer

(* make_socket(fd), through container::insert *)
MakeSocket(r) ==
  /\ \E id \in 0 .. MaxLive - 1 : ~IsLive(sockets, id)
  /\ sockets' = Insert(sockets, r)

(* release(id), through container::operator[] and container::erase *)
Release(id) ==
  /\ IsLive(sockets, id)
  /\ sockets' = Erase(sockets, id)

Next ==
  \/ \E r \in Handles : MakeSocket(r)
  \/ \E id \in Ids(sockets) : Release(id)

Spec == Init /\ [][Next]_sockets

------------------------------------------------------------------------------

(* The data members keep their types: every slot is a record or an index.  *)
TypeOK == sockets \in Containers

(* No slot is leaked and none is handed out twice: the free list threaded  *)
(* through the dead slots by insert() and erase() visits each of them      *)
(* exactly once and ends one past the vector, whatever the order of calls. *)
FreeListComplete == FreeListSound(sockets)

(* Ids are recycled before the vector grows: make_socket() only appends    *)
(* when every slot is live, so the table is no larger than the largest     *)
(* number of sockets that were open together.                              *)
GrowsOnlyWhenFull ==
  [][Size(sockets') > Size(sockets) => DeadIds(sockets) = {}]_sockets

(* The partial map the table stands for. *)
Bindings == [id \in LiveIds(sockets) |-> Lookup(sockets, id)]

Abstract == INSTANCE HandleTable WITH table <- Bindings, TableIds <- 0 .. MaxLive - 1

(* The table is a partial map: insert() never returns an id in use and     *)
(* neither operation changes the record of another socket.                 *)
ImplementsTable == Abstract!TableSpec

==============================================================================
