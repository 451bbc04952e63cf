------------------------------- MODULE Sockets -------------------------------
(***************************************************************************)
(* The objects that own socket ids: basic_socket with its derived          *)
(* basic_stream_socket, and basic_socket_acceptor.  They share the socket  *)
(* table of one context; an id stands for a record and a native handle,    *)
(* which only release() gives back.                                        *)
(***************************************************************************)
EXTENDS SocketTable

CONSTANT Objects        \* the places objects are constructed in

Invalid == -1           \* socket_id::invalid
Unborn == [kind |-> "none", id |-> Invalid]
Streams == [kind : {"stream"}, id : Int]
Acceptors == [kind : {"acceptor"}, id : Int]

VARIABLES
  objects,    \* what lives in each place
  open,       \* the native handles the process has open
  orphans     \* history: the ids whose owner failed in its constructor or replaced its id

objectVars == <<sockets, objects, open, orphans>>

SocketsInit ==
  /\ Init
  /\ objects = [o \in Objects |-> Unborn]
  /\ open = {}
  /\ orphans = {}

IsOpen(o) == objects[o].id # Invalid
Free(o) == objects[o].kind = "none"

(* ::socket() or ::accept(), and the record for what it returns.  The       *)
(* system does not hand out a handle that is still open.                    *)
NewSocket ==
  \E fd \in Handles \ open :
    /\ MakeSocket(fd)
    /\ open' = open \cup {fd}

(* release(): the record goes first, then the handle it held.               *)
ReleaseSocket(id) ==
  /\ Release(id)
  /\ open' = open \ {Lookup(sockets, id)}

ConstructStream(o) ==
  /\ Free(o)
  /\ NewSocket
  /\ objects' = [objects EXCEPT ![o] = [kind |-> "stream", id |-> InsertId(sockets)]]
  /\ UNCHANGED orphans

ConstructAcceptor(o) ==
  /\ Free(o)
  /\ NewSocket
  /\ objects' = [objects EXCEPT ![o] = [kind |-> "acceptor", id |-> InsertId(sockets)]]
  /\ UNCHANGED orphans

(* ::socket() fails and the constructor throws before there is anything.    *)
ConstructFails(o) ==
  /\ Free(o)
  /\ UNCHANGED objectVars

(* set_option(), bind() or listen() throws out of the constructor: there is *)
(* no object to be destroyed, the socket made by open() stays.              *)
AcceptorThrows(o) ==
  /\ Free(o)
  /\ NewSocket
  /\ orphans' = orphans \cup {InsertId(sockets)}
  /\ UNCHANGED objects

(* The constructor a completed accept uses for the socket it was given.     *)
Accept(a, o) ==
  /\ objects[a].kind = "acceptor" /\ IsOpen(a)
  /\ ConstructStream(o)

Abandoned(o) == IF IsOpen(o) THEN {objects[o].id} ELSE {}

(* open(): an acceptor that is open gets the error but also the new socket. *)
Open(o) ==
  /\ objects[o].kind = "acceptor"
  /\ NewSocket
  /\ objects' = [objects EXCEPT ![o].id = InsertId(sockets)]
  /\ orphans' = orphans \cup Abandoned(o)

OpenFails(o) ==
  /\ objects[o].kind = "acceptor"
  /\ objects' = [objects EXCEPT ![o].id = Invalid]
  /\ orphans' = orphans \cup Abandoned(o)
  /\ UNCHANGED <<sockets, open>>

(* Fault: a move leaves the id in both.                                     *)
MovedFromKeeps(obj) == obj
MovedFrom(obj) == [obj EXCEPT !.id = Invalid]

Move(from, to) ==
  /\ ~Free(from) /\ Free(to)
  /\ objects' = [objects EXCEPT ![to] = objects[from], ![from] = MovedFrom(objects[from])]
  /\ UNCHANGED <<sockets, open, orphans>>

Closed(obj) == [obj EXCEPT !.id = Invalid]

Close(o) ==
  /\ objects[o].kind = "acceptor"
  /\ IsOpen(o)
  /\ ReleaseSocket(objects[o].id)
  /\ objects' = [objects EXCEPT ![o] = Closed(objects[o])]
  /\ UNCHANGED orphans

Destroy(o) ==
  /\ ~Free(o)
  /\ \/ IsOpen(o) /\ ReleaseSocket(objects[o].id)
     \/ ~IsOpen(o) /\ UNCHANGED <<sockets, open>>
  /\ objects' = [objects EXCEPT ![o] = Unborn]
  /\ UNCHANGED orphans

SocketsNext ==
  \E o \in Objects :
    \/ ConstructStream(o)
    \/ ConstructAcceptor(o)
    \/ ConstructFails(o)
    \/ AcceptorThrows(o)
    \/ Open(o)
    \/ OpenFails(o)
    \/ Close(o)
    \/ Destroy(o)
    \/ \E a \in Objects : Accept(a, o)
    \/ \E p \in Objects : Move(o, p)

SocketsSpec == SocketsInit /\ [][SocketsNext]_objectVars

------------------------------------------------------------------------------

ObjectRecords == {Unborn} \cup Streams \cup Acceptors

ObjectTypes ==
  /\ objects \in [Objects -> ObjectRecords]
  /\ open \subseteq Handles
  /\ orphans \subseteq Nat

HeldIds == {objects[o].id : o \in {p \in Objects : IsOpen(p)}}

UniqueOwner == \A o, p \in Objects : IsOpen(o) /\ objects[o].id = objects[p].id => o = p

(* A live id belongs to an object or was abandoned, not both.              *)
IdsAccounted ==
  /\ HeldIds \cap orphans = {}
  /\ HeldIds \cup orphans = LiveIds(sockets)

(* The live records have different handles, those the process has open.    *)
HandlesMatch ==
  /\ open = {Lookup(sockets, id) : id \in LiveIds(sockets)}
  /\ \A i, j \in LiveIds(sockets) : Lookup(sockets, i) = Lookup(sockets, j) => i = j

(* Whatever sequence of constructions, moves, closes, failures and         *)
(* destructions: an id has one owner, it names a live record until that    *)
(* owner gives it up (so release() never meets the assert of operator[]),  *)
(* no handle is leaked or closed twice, and a record without an owner is   *)
(* one whose owner failed in its constructor or was opened a second time.  *)
OneOwnerPerSocket == UniqueOwner /\ IdsAccounted /\ HandlesMatch

==============================================================================
