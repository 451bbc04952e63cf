-------------------------- MODULE StructureProofs ---------------------------
(***************************************************************************)
(* The theorems about the two data structures of the contexts.  About the  *)
(* socket table, for every set of handles and every bound on the number of *)
(* sockets, and on top of it about Sockets: the objects use the table as   *)
(* its users must, and own what they hold, for every set of handles and of *)
(* objects.  About the list of timers, for any nodes and any values: the   *)
(* pointer loops of sorted_list implement the operations on sequences that *)
(* the contexts use.                                                       *)
(***************************************************************************)
EXTENDS Sockets, SortedList, DataLemmas

------------------------------------------------------------------------------
(* The table *)

(* The inductive invariant: besides the free list it bounds the vector, so *)
(* that the ids handed out are below MaxLive.                              *)
IInv == TypeOK /\ FreeListComplete /\ Size(sockets) <= MaxLive

LEMMA InitIInv == Init => IInv
<1> SUFFICES ASSUME Init PROVE IInv
  OBVIOUS
<1>1. sockets = EmptyContainer /\ sockets.records = << >> /\ sockets.free = 0
  BY DEF Init, EmptyContainer
<1>2. TypeOK /\ Size(sockets) = 0
  BY <1>1 DEF TypeOK, Containers, Size, EmptyContainer
<1>3. DeadIds(sockets) = {} /\ Cardinality(DeadIds(sockets)) = 0
  BY <1>2, FS_EmptySet DEF DeadIds, Ids
<1> DEFINE none == [i \in 1 .. 0 |-> 0]
<1>4. none \in [1 .. 0 -> DeadIds(sockets)]
  BY <1>3
<1>5. IsFreeChain(sockets, none)
  BY <1>1, <1>2, <1>3, <1>4 DEF IsFreeChain
<1>6. FreeListComplete
  BY <1>3, <1>4, <1>5 DEF FreeListComplete, FreeListSound
<1> QED BY <1>2, <1>6, MaxLiveAssumption DEF IInv

(* make_socket() runs into its bound before the vector does. *)
LEMMA MakeSocketSize ==
  ASSUME IInv, NEW r \in Handles, MakeSocket(r)
  PROVE  Size(sockets') <= MaxLive /\ InsertId(sockets) \in 0 .. MaxLive - 1
<1> USE MaxLiveAssumption DEF IInv, TypeOK, FreeListComplete
<1>1. Size(sockets) \in Nat /\ sockets' = Insert(sockets, r) /\ sockets.free \in Nat
  BY DeadIdsFinite DEF MakeSocket, Containers
<1>2. CASE DeadIds(sockets) = {}
  <2>1. PICK id \in 0 .. MaxLive - 1 : ~IsLive(sockets, id)
    BY DEF MakeSocket
  <2>2. id \notin Ids(sockets)
    BY <1>2, <2>1 DEF IsLive, DeadIds, LiveIds
  <2>3. Size(sockets) + 1 <= MaxLive
    BY <1>1, <2>1, <2>2 DEF Ids
  <2>4. sockets.free = Size(sockets) /\ Size(sockets') = Size(sockets) + 1
    BY <1>1, <1>2, FreeHead, InsertEffect
  <2> QED BY <1>1, <2>3, <2>4 DEF InsertId
<1>3. CASE DeadIds(sockets) # {}
  <2>1. sockets.free \in Ids(sockets) /\ Size(sockets') = Size(sockets)
    BY <1>1, <1>3, FreeHead, InsertEffect DEF DeadIds
  <2> QED BY <1>1, <2>1 DEF InsertId, Ids
<1> QED BY <1>2, <1>3

LEMMA NextIInv == IInv /\ [Next]_sockets => IInv'
<1> SUFFICES ASSUME IInv, [Next]_sockets PROVE IInv'
  OBVIOUS
<1>1. ASSUME NEW r \in Handles, MakeSocket(r) PROVE IInv'
  <2>1. sockets' = Insert(sockets, r) /\ Size(sockets') <= MaxLive
    BY <1>1, MakeSocketSize DEF MakeSocket
  <2>2. sockets' \in Containers
    BY <1>1, <2>1, InsertEffect DEF IInv, TypeOK, FreeListComplete
  <2>3. FreeListSound(sockets')
    BY <1>1, <2>1, InsertKeepsFreeList DEF IInv, TypeOK, FreeListComplete
  <2> QED BY <2>1, <2>2, <2>3 DEF IInv, TypeOK, FreeListComplete
<1>2. ASSUME NEW id \in Ids(sockets), Release(id) PROVE IInv'
  <2>1. id \in LiveIds(sockets) /\ sockets' = Erase(sockets, id)
    BY <1>2 DEF Release, IsLive, LiveIds
  <2>2. sockets' \in Containers /\ Size(sockets') <= MaxLive
    BY <2>1, EraseEffect DEF IInv, TypeOK
  <2>3. FreeListSound(sockets')
    BY <2>1, EraseKeepsFreeList DEF IInv, TypeOK, FreeListComplete
  <2> QED BY <2>2, <2>3 DEF IInv, TypeOK, FreeListComplete
<1>3. CASE UNCHANGED sockets
  BY <1>3 DEF IInv, TypeOK, FreeListComplete
<1> QED BY <1>1, <1>2, <1>3 DEF Next

(* container.hpp: the data members keep their types. *)
THEOREM TypeCorrect == Spec => []TypeOK
<1>1. IInv => TypeOK
  BY DEF IInv
<1> QED BY <1>1, InitIInv, NextIInv, PTL DEF Spec

(* container.hpp insert()/erase(): the free list visits every dead slot    *)
(* exactly once and ends at the size of the vector.                        *)
THEOREM FreeListCorrect == Spec => []FreeListComplete
<1>1. IInv => FreeListComplete
  BY DEF IInv
<1> QED BY <1>1, InitIInv, NextIInv, PTL DEF Spec

(* container.hpp insert(): the vector grows only when every slot is live.  *)
THEOREM GrowthCorrect == Spec => GrowsOnlyWhenFull
<1>1. IInv /\ [Next]_sockets =>
        [Size(sockets') > Size(sockets) => DeadIds(sockets) = {}]_sockets
  <2> SUFFICES ASSUME IInv, Next
               PROVE  Size(sockets') > Size(sockets) => DeadIds(sockets) = {}
    OBVIOUS
  <2> USE DEF IInv, TypeOK, FreeListComplete
  <2>1. Size(sockets) \in Nat
    BY DeadIdsFinite
  <2>2. ASSUME NEW r \in Handles, MakeSocket(r)
        PROVE  Size(sockets') > Size(sockets) => DeadIds(sockets) = {}
    BY <2>1, <2>2, InsertEffect DEF MakeSocket
  <2>3. ASSUME NEW id \in Ids(sockets), Release(id)
        PROVE  Size(sockets') = Size(sockets)
    BY <2>3, EraseEffect DEF Release, IsLive, LiveIds
  <2> QED BY <2>1, <2>2, <2>3 DEF Next
<1> QED BY <1>1, InitIInv, NextIInv, PTL DEF Spec, GrowsOnlyWhenFull

(* container.hpp implements a partial map: an id in use is never returned  *)
(* by insert(), and no operation disturbs the record of another id.        *)
THEOREM TableCorrect == Spec => ImplementsTable
<1>1. Init => Abstract!TableInit
  <2> SUFFICES ASSUME Init PROVE Bindings = [id \in {} |-> id]
    BY DEF Abstract!TableInit
  <2>1. LiveIds(sockets) = {}
    BY DEF Init, EmptyContainer, LiveIds, Ids, Size
  <2> QED BY <2>1 DEF Bindings
<1>2. IInv /\ [Next]_sockets => [Abstract!TableNext]_Bindings
  <2> SUFFICES ASSUME IInv, [Next]_sockets PROVE [Abstract!TableNext]_Bindings
    OBVIOUS
  <2>1. ASSUME NEW r \in Handles, MakeSocket(r) PROVE Abstract!TableNext
    <3> DEFINE id == InsertId(sockets)
    <3>1. id \in 0 .. MaxLive - 1 /\ sockets' = Insert(sockets, r)
      BY <2>1, MakeSocketSize DEF MakeSocket
    <3>2. /\ id \notin LiveIds(sockets)
          /\ LiveIds(sockets') = LiveIds(sockets) \cup {id}
          /\ sockets'.records[id + 1] = Live(r)
          /\ \A k \in Ids(sockets) : k # id => sockets'.records[k + 1] = sockets.records[k + 1]
      BY <2>1, <3>1, InsertEffect DEF IInv, TypeOK, FreeListComplete
    <3> HIDE DEF id
    <3>3. Lookup(sockets', id) = r
      BY <3>2 DEF Lookup, Live
    <3>4. \A k \in LiveIds(sockets) : Lookup(sockets', k) = Lookup(sockets, k)
      BY <3>2 DEF Lookup, LiveIds
    <3>5. Abstract!Bind(id, r)
      BY <3>2, <3>3, <3>4 DEF Abstract!Bind, Bindings
    <3> QED BY <3>1, <3>5 DEF Abstract!TableNext
  <2>2. ASSUME NEW id \in Ids(sockets), Release(id) PROVE Abstract!TableNext
    <3>1. id \in LiveIds(sockets) /\ sockets' = Erase(sockets, id)
      BY <2>2 DEF Release, IsLive, LiveIds
    <3>2. /\ LiveIds(sockets') = LiveIds(sockets) \ {id}
          /\ \A k \in Ids(sockets) : k # id => sockets'.records[k + 1] = sockets.records[k + 1]
      BY <3>1, EraseEffect DEF IInv, TypeOK
    <3>3. \A k \in LiveIds(sockets) \ {id} : Lookup(sockets', k) = Lookup(sockets, k)
      BY <3>2 DEF Lookup, LiveIds
    <3>4. Abstract!Unbind(id)
      BY <3>1, <3>2, <3>3 DEF Abstract!Unbind, Bindings
    <3>5. id \in 0 .. MaxLive - 1
      BY DeadIdsFinite, MaxLiveAssumption DEF IInv, TypeOK, Ids
    <3> QED BY <3>4, <3>5 DEF Abstract!TableNext
  <2>3. CASE UNCHANGED sockets
    BY <2>3 DEF Bindings
  <2> QED BY <2>1, <2>2, <2>3 DEF Next
<1> QED BY <1>1, <1>2, InitIInv, NextIInv, PTL DEF Spec, ImplementsTable, Abstract!TableSpec

------------------------------------------------------------------------------
(* The objects *)

(* The objects call the table only as SocketTable allows. *)
LEMMA StepsOfTable == [SocketsNext]_objectVars => [Next]_sockets
<1> SUFFICES ASSUME [SocketsNext]_objectVars PROVE [Next]_sockets
  OBVIOUS
<1>1. NewSocket => Next
  BY DEF NewSocket, Next
<1>2. ASSUME NEW id, ReleaseSocket(id) PROVE Next
  <2>1. Release(id) /\ id \in Ids(sockets)
    BY <1>2 DEF ReleaseSocket, Release, IsLive
  <2> QED BY <2>1 DEF Next
<1>3. ASSUME NEW o \in Objects,
             \/ ConstructStream(o) \/ ConstructAcceptor(o) \/ AcceptorThrows(o) \/ Open(o)
             \/ \E a \in Objects : Accept(a, o)
      PROVE  Next
  BY <1>1, <1>3 DEF ConstructStream, ConstructAcceptor, AcceptorThrows, Open, Accept
<1>4. ASSUME NEW o \in Objects, Close(o) \/ Destroy(o) PROVE [Next]_sockets
  BY <1>2, <1>4 DEF Close, Destroy
<1>5. ASSUME NEW o \in Objects,
             ConstructFails(o) \/ OpenFails(o) \/ \E p \in Objects : Move(o, p)
      PROVE  sockets' = sockets
  BY <1>5 DEF ConstructFails, OpenFails, Move, objectVars
<1>6. CASE UNCHANGED objectVars
  BY <1>6 DEF objectVars
<1> QED BY <1>3, <1>4, <1>5, <1>6 DEF SocketsNext

(* basic_socket.hpp, basic_socket_acceptor.hpp: what the objects do to the *)
(* container is a behaviour of SocketTable.                                *)
THEOREM ObjectsUseTable == SocketsSpec => Spec
<1>1. SocketsInit => Init
  BY DEF SocketsInit
<1> QED BY <1>1, StepsOfTable, PTL DEF SocketsSpec, Spec

(* Hence the free list stays complete under any program of sockets and     *)
(* acceptors.                                                              *)
THEOREM ObjectsKeepFreeList == SocketsSpec => []FreeListComplete
  BY ObjectsUseTable, FreeListCorrect, PTL

(* And every program of sockets and acceptors sees a partial map.          *)
THEOREM ObjectsSeeTable == SocketsSpec => ImplementsTable
  BY ObjectsUseTable, TableCorrect, PTL

------------------------------------------------------------------------------

SInv == IInv /\ ObjectTypes /\ OneOwnerPerSocket

LEMMA InitSInv == SocketsInit => SInv
<1> SUFFICES ASSUME SocketsInit PROVE SInv
  OBVIOUS
<1>1. IInv
  BY InitIInv DEF SocketsInit
<1>2. LiveIds(sockets) = {}
  BY DEF SocketsInit, Init, EmptyContainer, LiveIds, Ids, Size
<1>3. \A o \in Objects : ~IsOpen(o)
  BY DEF SocketsInit, IsOpen, Unborn, Invalid
<1>4. HeldIds = {}
  BY <1>3 DEF HeldIds
<1>5. ObjectTypes
  BY DEF SocketsInit, ObjectTypes, ObjectRecords
<1>6. OneOwnerPerSocket
  BY <1>2, <1>3, <1>4 DEF SocketsInit, OneOwnerPerSocket, UniqueOwner, IdsAccounted, HandlesMatch
<1> QED BY <1>1, <1>5, <1>6 DEF SInv

(* make_socket() with a handle that was not open. *)
LEMMA NewSocketEffect ==
  ASSUME SInv, NewSocket
  PROVE  /\ InsertId(sockets) \in Nat \ LiveIds(sockets)
         /\ LiveIds(sockets') = LiveIds(sockets) \cup {InsertId(sockets)}
         /\ HandlesMatch' /\ open' \subseteq Handles
<1> DEFINE id == InsertId(sockets)
<1>1. PICK fd \in Handles \ open : MakeSocket(fd) /\ open' = open \cup {fd}
  BY DEF NewSocket
<1>2. id \in Nat /\ sockets' = Insert(sockets, fd)
  BY <1>1, MakeSocketSize, MaxLiveAssumption DEF MakeSocket, SInv
<1>3. /\ id \notin LiveIds(sockets)
      /\ LiveIds(sockets') = LiveIds(sockets) \cup {id}
      /\ sockets'.records[id + 1] = Live(fd)
      /\ \A k \in Ids(sockets) : k # id => sockets'.records[k + 1] = sockets.records[k + 1]
  BY <1>1, <1>2, InsertEffect DEF SInv, IInv, TypeOK, FreeListComplete
<1> HIDE DEF id
<1>4. Lookup(sockets', id) = fd
  BY <1>3 DEF Lookup, Live
<1>5. \A k \in LiveIds(sockets) : Lookup(sockets', k) = Lookup(sockets, k)
  BY <1>3 DEF Lookup, LiveIds
<1>6. HandlesMatch
  BY DEF SInv, OneOwnerPerSocket
<1>7. open' = {Lookup(sockets', k) : k \in LiveIds(sockets')}
  BY <1>1, <1>3, <1>4, <1>5, <1>6 DEF HandlesMatch
<1>8. ASSUME NEW i \in LiveIds(sockets'), NEW j \in LiveIds(sockets'),
             Lookup(sockets', i) = Lookup(sockets', j)
      PROVE  i = j
  <2>1. \A k \in LiveIds(sockets) : Lookup(sockets', k) # fd
    BY <1>1, <1>5, <1>6 DEF HandlesMatch
  <2> QED BY <1>3, <1>4, <1>5, <1>6, <1>8, <2>1 DEF HandlesMatch
<1>9. open' \subseteq Handles
  BY <1>1 DEF SInv, ObjectTypes
<1> QED BY <1>2, <1>3, <1>7, <1>8, <1>9 DEF HandlesMatch, id

(* release() closes the handle of the record it has erased. *)
LEMMA ReleaseSocketEffect ==
  ASSUME SInv, NEW id, ReleaseSocket(id)
  PROVE  /\ id \in LiveIds(sockets)
         /\ LiveIds(sockets') = LiveIds(sockets) \ {id}
         /\ HandlesMatch' /\ open' \subseteq Handles
<1>1. /\ id \in LiveIds(sockets) /\ sockets' = Erase(sockets, id)
      /\ open' = open \ {Lookup(sockets, id)}
  BY DEF ReleaseSocket, Release, IsLive, LiveIds
<1>2. /\ LiveIds(sockets') = LiveIds(sockets) \ {id}
      /\ \A k \in Ids(sockets) : k # id => sockets'.records[k + 1] = sockets.records[k + 1]
  BY <1>1, EraseEffect DEF SInv, IInv, TypeOK
<1>3. \A k \in LiveIds(sockets) \ {id} : Lookup(sockets', k) = Lookup(sockets, k)
  BY <1>2 DEF Lookup, LiveIds
<1>4. HandlesMatch
  BY DEF SInv, OneOwnerPerSocket
<1>5. open' = {Lookup(sockets', k) : k \in LiveIds(sockets')}
  BY <1>1, <1>2, <1>3, <1>4 DEF HandlesMatch
<1>6. HandlesMatch'
  BY <1>2, <1>3, <1>4, <1>5 DEF HandlesMatch
<1>7. open' \subseteq Handles
  BY <1>1 DEF SInv, ObjectTypes
<1> QED BY <1>1, <1>2, <1>6, <1>7

(* One object takes an id nobody holds, or gives its id up. *)
LEMMA OneObjectChanges ==
  ASSUME SInv, NEW o \in Objects, NEW new \in ObjectRecords,
         objects' = [objects EXCEPT ![o] = new], new.id \notin HeldIds
  PROVE  /\ objects' \in [Objects -> ObjectRecords]
         /\ UniqueOwner'
         /\ HeldIds' = (HeldIds \ {objects[o].id}) \cup ({new.id} \ {Invalid})
<1>1. /\ objects \in [Objects -> ObjectRecords] /\ UniqueOwner
      /\ objects'[o] = new
      /\ \A p \in Objects \ {o} : objects'[p] = objects[p]
  BY DEF SInv, ObjectTypes, OneOwnerPerSocket
<1>2. objects' \in [Objects -> ObjectRecords]
  BY <1>1
<1>3. UniqueOwner'
  BY <1>1 DEF UniqueOwner, IsOpen, HeldIds
<1>4. HeldIds' = (HeldIds \ {objects[o].id}) \cup ({new.id} \ {Invalid})
  <2>1. \A x : x \in HeldIds' <=> \E p \in Objects : x = objects'[p].id /\ x # Invalid
    BY DEF HeldIds, IsOpen
  <2>2. \A x : x \in HeldIds <=> \E p \in Objects : x = objects[p].id /\ x # Invalid
    BY DEF HeldIds, IsOpen
  <2>3. ASSUME NEW p \in Objects \ {o}, objects[p].id # Invalid
        PROVE  objects[p].id # objects[o].id
    BY <1>1, <2>3 DEF UniqueOwner, IsOpen
  <2> QED BY <1>1, <2>1, <2>2, <2>3
<1> QED BY <1>2, <1>3, <1>4

(* A new socket for one object; what the object held before is abandoned.  *)
LEMMA ObjectTakesSocket ==
  ASSUME SInv, NEW o \in Objects, NEW new \in ObjectRecords, NewSocket,
         objects' = [objects EXCEPT ![o] = new], new.id = InsertId(sockets),
         orphans' = orphans \cup Abandoned(o)
  PROVE  ObjectTypes' /\ OneOwnerPerSocket'
<1>1. /\ new.id \in Nat /\ new.id \notin LiveIds(sockets)
      /\ LiveIds(sockets') = LiveIds(sockets) \cup {new.id}
      /\ HandlesMatch' /\ open' \subseteq Handles
  BY NewSocketEffect
<1>2. HeldIds \cap orphans = {} /\ HeldIds \cup orphans = LiveIds(sockets) /\ orphans \subseteq Nat
  BY DEF SInv, OneOwnerPerSocket, IdsAccounted, ObjectTypes
<1>3. /\ objects' \in [Objects -> ObjectRecords] /\ UniqueOwner'
      /\ HeldIds' = (HeldIds \ {objects[o].id}) \cup ({new.id} \ {Invalid})
  <2>1. new.id \notin HeldIds
    BY <1>1, <1>2
  <2> QED BY <2>1, OneObjectChanges, Zenon
<1>4. Abandoned(o) = HeldIds \cap {objects[o].id} /\ new.id # Invalid
  BY <1>1 DEF Abandoned, HeldIds, IsOpen, Invalid
<1>5. Abandoned(o) \subseteq Nat
  BY <1>2, <1>4 DEF LiveIds, Ids
<1>6. IdsAccounted'
  BY <1>1, <1>2, <1>3, <1>4 DEF IdsAccounted
<1> QED BY <1>1, <1>2, <1>3, <1>5, <1>6 DEF ObjectTypes, OneOwnerPerSocket

(* An object without a socket is made, or gives its socket back.           *)
LEMMA ObjectReleases ==
  ASSUME SInv, NEW o \in Objects, NEW new \in ObjectRecords, new.id = Invalid,
         objects' = [objects EXCEPT ![o] = new], UNCHANGED orphans,
         \/ IsOpen(o) /\ ReleaseSocket(objects[o].id)
         \/ ~IsOpen(o) /\ UNCHANGED <<sockets, open>>
  PROVE  ObjectTypes' /\ OneOwnerPerSocket'
<1>1. /\ HeldIds \cap orphans = {} /\ HeldIds \cup orphans = LiveIds(sockets)
      /\ orphans \subseteq Nat /\ open \subseteq Handles /\ HandlesMatch
  BY DEF SInv, OneOwnerPerSocket, IdsAccounted, ObjectTypes
<1>2. Invalid \notin HeldIds
  BY DEF HeldIds, IsOpen
<1>3. /\ objects' \in [Objects -> ObjectRecords] /\ UniqueOwner'
      /\ HeldIds' = HeldIds \ {objects[o].id}
  <2>1. new.id \notin HeldIds /\ {new.id} \ {Invalid} = {}
    BY <1>2
  <2>2. /\ objects' \in [Objects -> ObjectRecords] /\ UniqueOwner'
        /\ HeldIds' = (HeldIds \ {objects[o].id}) \cup ({new.id} \ {Invalid})
    BY <2>1, OneObjectChanges, Zenon
  <2> QED BY <2>1, <2>2
<1>4. CASE IsOpen(o) /\ ReleaseSocket(objects[o].id)
  <2>1. /\ LiveIds(sockets') = LiveIds(sockets) \ {objects[o].id}
        /\ HandlesMatch' /\ open' \subseteq Handles
    BY <1>4, ReleaseSocketEffect
  <2>2. objects[o].id \in HeldIds
    BY <1>4 DEF HeldIds
  <2>3. IdsAccounted'
    BY <1>1, <1>3, <2>1, <2>2 DEF IdsAccounted
  <2> QED BY <1>1, <1>3, <2>1, <2>3 DEF ObjectTypes, OneOwnerPerSocket
<1>5. CASE ~IsOpen(o) /\ UNCHANGED <<sockets, open>>
  <2>1. HeldIds' = HeldIds
    BY <1>2, <1>3, <1>5 DEF IsOpen
  <2>2. IdsAccounted' /\ HandlesMatch'
    BY <1>1, <1>5, <2>1 DEF IdsAccounted, HandlesMatch
  <2> QED BY <1>1, <1>3, <1>5, <2>2 DEF ObjectTypes, OneOwnerPerSocket
<1> QED BY <1>4, <1>5

(* The constructor of an acceptor throws after its socket was made.        *)
LEMMA ThrowAbandons ==
  ASSUME SInv, NEW o \in Objects, AcceptorThrows(o)
  PROVE  ObjectTypes' /\ OneOwnerPerSocket'
<1>1. /\ InsertId(sockets) \in Nat \ LiveIds(sockets)
      /\ LiveIds(sockets') = LiveIds(sockets) \cup {InsertId(sockets)}
      /\ HandlesMatch' /\ open' \subseteq Handles
  BY NewSocketEffect DEF AcceptorThrows
<1>2. /\ objects' = objects /\ orphans' = orphans \cup {InsertId(sockets)}
      /\ HeldIds' = HeldIds /\ UniqueOwner'
  BY DEF AcceptorThrows, HeldIds, UniqueOwner, IsOpen, SInv, OneOwnerPerSocket
<1>3. IdsAccounted'
  BY <1>1, <1>2 DEF IdsAccounted, SInv, OneOwnerPerSocket
<1> QED BY <1>1, <1>2, <1>3 DEF SInv, ObjectTypes, OneOwnerPerSocket

(* open() fails: what the acceptor held is abandoned.                      *)
LEMMA FailureAbandons ==
  ASSUME SInv, NEW o \in Objects, OpenFails(o)
  PROVE  ObjectTypes' /\ OneOwnerPerSocket'
<1> DEFINE new == [objects[o] EXCEPT !.id = Invalid]
<1>1. /\ HeldIds \cap orphans = {} /\ HeldIds \cup orphans = LiveIds(sockets)
      /\ orphans \subseteq Nat /\ open \subseteq Handles /\ HandlesMatch
      /\ objects \in [Objects -> ObjectRecords]
  BY DEF SInv, OneOwnerPerSocket, IdsAccounted, ObjectTypes
<1>2. /\ objects' = [objects EXCEPT ![o] = new] /\ UNCHANGED <<sockets, open>>
      /\ orphans' = orphans \cup Abandoned(o) /\ objects[o].kind = "acceptor"
  BY DEF OpenFails
<1>3. new \in ObjectRecords /\ new.id = Invalid
  BY <1>1, <1>2 DEF ObjectRecords, Unborn, Streams, Acceptors, Invalid
<1>4. Invalid \notin HeldIds /\ Abandoned(o) = HeldIds \cap {objects[o].id}
  BY DEF HeldIds, IsOpen, Abandoned
<1> HIDE DEF new
<1>5. /\ objects' \in [Objects -> ObjectRecords] /\ UniqueOwner'
      /\ HeldIds' = HeldIds \ {objects[o].id}
  BY <1>2, <1>3, <1>4, OneObjectChanges
<1>6. Abandoned(o) \subseteq Nat
  BY <1>1, <1>4 DEF LiveIds, Ids
<1>7. IdsAccounted' /\ HandlesMatch'
  BY <1>1, <1>2, <1>4, <1>5 DEF IdsAccounted, HandlesMatch
<1> QED BY <1>1, <1>2, <1>5, <1>6, <1>7 DEF ObjectTypes, OneOwnerPerSocket

(* The move constructors: the id changes its place.                        *)
LEMMA MoveKeepsOwner ==
  ASSUME SInv, NEW from \in Objects, NEW to \in Objects, Move(from, to)
  PROVE  ObjectTypes' /\ OneOwnerPerSocket'
<1>1. /\ objects \in [Objects -> ObjectRecords] /\ UniqueOwner /\ IdsAccounted /\ HandlesMatch
      /\ orphans \subseteq Nat /\ open \subseteq Handles
  BY DEF SInv, OneOwnerPerSocket, ObjectTypes
<1>2. /\ UNCHANGED <<sockets, open, orphans>> /\ from # to
      /\ objects[to] = Unborn
      /\ objects' = [objects EXCEPT ![to] = objects[from], ![from] = MovedFrom(objects[from])]
  BY <1>1 DEF Move, Free, ObjectRecords, Streams, Acceptors
<1>3. MovedFrom(objects[from]) \in ObjectRecords /\ MovedFrom(objects[from]).id = Invalid
  <2>1. objects[from] \in ObjectRecords
    BY <1>1
  <2> QED BY <2>1 DEF MovedFrom, ObjectRecords, Unborn, Streams, Acceptors, Invalid
<1>4. /\ objects'[to] = objects[from] /\ objects'[from].id = Invalid
      /\ \A p \in Objects \ {from, to} : objects'[p] = objects[p]
      /\ objects' \in [Objects -> ObjectRecords]
  BY <1>1, <1>2, <1>3
<1>5. UniqueOwner'
  BY <1>1, <1>2, <1>4 DEF UniqueOwner, IsOpen
<1>6. HeldIds' = HeldIds
  <2>1. \A x : x \in HeldIds' <=> \E p \in Objects : x = objects'[p].id /\ x # Invalid
    BY DEF HeldIds, IsOpen
  <2>2. \A x : x \in HeldIds <=> \E p \in Objects : x = objects[p].id /\ x # Invalid
    BY DEF HeldIds, IsOpen
  <2>3. objects[to].id = Invalid /\ objects'[to].id = objects[from].id
    BY <1>2, <1>4 DEF Unborn
  <2>4. ASSUME NEW x, x # Invalid
        PROVE  (\E p \in Objects : x = objects'[p].id) <=> (\E p \in Objects : x = objects[p].id)
    BY <1>2, <1>4, <2>3, <2>4
  <2> QED BY ZenonT(60), <2>1, <2>2, <2>4
<1>7. IdsAccounted' /\ HandlesMatch'
  BY <1>1, <1>2, <1>6 DEF IdsAccounted, HandlesMatch
<1> QED BY <1>1, <1>2, <1>4, <1>5, <1>7 DEF ObjectTypes, OneOwnerPerSocket

LEMMA NextSInv == SInv /\ [SocketsNext]_objectVars => SInv'
<1> SUFFICES ASSUME SInv, [SocketsNext]_objectVars PROVE ObjectTypes' /\ OneOwnerPerSocket'
  BY StepsOfTable, NextIInv DEF SInv
<1>1. InsertId(sockets) \in Int \/ ~NewSocket
  BY NewSocketEffect
<1>2. ASSUME NEW o \in Objects, ConstructStream(o) PROVE ObjectTypes' /\ OneOwnerPerSocket'
  <2> DEFINE new == [kind |-> "stream", id |-> InsertId(sockets)]
  <2>1. NewSocket /\ objects' = [objects EXCEPT ![o] = new] /\ orphans' = orphans
    BY <1>2 DEF ConstructStream
  <2>2. new \in ObjectRecords
    BY <1>1, <2>1 DEF ObjectRecords, Streams
  <2>3. Abandoned(o) = {}
    BY <1>2 DEF ConstructStream, Free, Abandoned, IsOpen, SInv, ObjectTypes, ObjectRecords,
                Unborn, Streams, Acceptors
  <2> QED BY <2>1, <2>2, <2>3, ObjectTakesSocket
<1>3. ASSUME NEW o \in Objects, ConstructAcceptor(o) PROVE ObjectTypes' /\ OneOwnerPerSocket'
  <2> DEFINE new == [kind |-> "acceptor", id |-> InsertId(sockets)]
  <2>1. NewSocket /\ objects' = [objects EXCEPT ![o] = new] /\ orphans' = orphans
    BY <1>3 DEF ConstructAcceptor
  <2>2. new \in ObjectRecords
    BY <1>1, <2>1 DEF ObjectRecords, Acceptors
  <2>3. Abandoned(o) = {}
    BY <1>3 DEF ConstructAcceptor, Free, Abandoned, IsOpen, SInv, ObjectTypes, ObjectRecords,
                Unborn, Streams, Acceptors
  <2> QED BY <2>1, <2>2, <2>3, ObjectTakesSocket
<1>4. ASSUME NEW o \in Objects, Open(o) PROVE ObjectTypes' /\ OneOwnerPerSocket'
  <2> DEFINE new == [objects[o] EXCEPT !.id = InsertId(sockets)]
  <2>1. /\ NewSocket /\ objects' = [objects EXCEPT ![o] = new]
        /\ orphans' = orphans \cup Abandoned(o) /\ objects[o].kind = "acceptor"
    BY <1>4 DEF Open
  <2>2. objects[o] \in ObjectRecords
    BY DEF SInv, ObjectTypes
  <2>3. new \in ObjectRecords /\ new.id = InsertId(sockets)
    BY <1>1, <2>1, <2>2 DEF ObjectRecords, Unborn, Streams, Acceptors
  <2> QED BY <2>1, <2>3, ObjectTakesSocket
<1>5. ASSUME NEW o \in Objects, Close(o) PROVE ObjectTypes' /\ OneOwnerPerSocket'
  <2>1. objects[o] \in ObjectRecords /\ objects[o].kind = "acceptor"
    BY <1>5 DEF SInv, ObjectTypes, Close
  <2>2. Closed(objects[o]) \in ObjectRecords /\ Closed(objects[o]).id = Invalid
    BY <2>1 DEF Closed, ObjectRecords, Unborn, Streams, Acceptors, Invalid
  <2> QED BY <1>5, <2>2, ObjectReleases DEF Close
<1>6. ASSUME NEW o \in Objects, Destroy(o) PROVE ObjectTypes' /\ OneOwnerPerSocket'
  <2>1. Unborn \in ObjectRecords /\ Unborn.id = Invalid
    BY DEF ObjectRecords, Unborn
  <2> QED BY <1>6, <2>1, ObjectReleases DEF Destroy
<1>7. CASE UNCHANGED objectVars
  BY <1>7 DEF objectVars, SInv, ObjectTypes, OneOwnerPerSocket, UniqueOwner, IdsAccounted,
              HandlesMatch, HeldIds, IsOpen
<1>8. ASSUME NEW o \in Objects, NEW a \in Objects, Accept(a, o)
      PROVE  ObjectTypes' /\ OneOwnerPerSocket'
  BY <1>2, <1>8 DEF Accept
<1> QED BY <1>2, <1>3, <1>4, <1>5, <1>6, <1>7, <1>8, ThrowAbandons, FailureAbandons, MoveKeepsOwner
        DEF SocketsNext, ConstructFails

(* basic_socket.hpp, basic_stream_socket.hpp, basic_socket_acceptor.hpp:   *)
(* every id has one owner and every open handle one live record, whatever  *)
(* is constructed, moved, opened, closed and destroyed, and whatever fails.*)
THEOREM OwnershipCorrect == SocketsSpec => []OneOwnerPerSocket
<1>1. SInv => OneOwnerPerSocket
  BY DEF SInv
<1> QED BY <1>1, InitSInv, NextSInv, PTL DEF SocketsSpec

-----------------------------------------------------------------------------
(* The sorted list                                                           *)
(*                                                                           *)
(* The invariant has the sequence as a witness: a list of nodes without      *)
(* duplicates that the pointers link, in order, of which the loop of a       *)
(* call has passed the first k.                                              *)

(* The pointers link the nodes of list, in this order, and no others.        *)
Links(list) ==
  /\ list \in Seq(Nodes) /\ NoDuplicates(list)
  /\ head = IF list = << >> THEN Null ELSE list[1]
  /\ \A k \in 1 .. Len(list) : next[list[k]] = IF k = Len(list) THEN Null ELSE list[k + 1]

(* The loop of the call in progress has passed k nodes, for good reasons.    *)
Passed(list, k) ==
  /\ it = IF k = 0 THEN HeadRef ELSE list[k]
  /\ node \in Nodes
  /\ pc = "insert" => ~OnList(list, node) /\ \A j \in 1 .. k : value[list[j]] < value[node]
  /\ pc = "erase" => \A j \in 1 .. k : list[j] # node

ListInv(list) ==
  /\ Links(list)
  /\ Ordered(list, value)
  /\ pc # "ready" => \E k \in 0 .. Len(list) : Passed(list, k)

(* The inductive invariant. *)
SortedInv == ListTypeOK /\ \E list : ListInv(list)

LEMMA ValuesType ==
  ASSUME ListTypeOK
  PROVE  value \in [Nodes -> Int]
<1>1. value \in [Nodes -> Values]
  BY DEF ListTypeOK
<1>2. \A v \in Values : v \in Int
  BY NodesAssumption
<1>3. \A n \in Nodes : value[n] \in Int
  BY <1>1, <1>2
<1> QED BY <1>1, <1>3

(* A list without duplicates is not longer than there are nodes.             *)
LEMMA LinksFit ==
  ASSUME NEW list, Links(list)
  PROVE  Len(list) \in Nat /\ Cardinality(Nodes) \in Nat /\ Len(list) <= Cardinality(Nodes)
<1>1. list \in [1 .. Len(list) -> Nodes] /\ Len(list) \in Nat
  <2>1. list \in Seq(Nodes)
    BY SMTT(30) DEF Links
  <2> QED BY <2>1
<1>2. list \in Injection(1 .. Len(list), Nodes)
  BY <1>1 DEF Links, NoDuplicates, Injection, IsInjective
<1>3. Cardinality(1 .. Len(list)) <= Cardinality(Nodes)
  BY <1>2, NodesAssumption, FS_Injection
<1>4. Cardinality(1 .. Len(list)) = Len(list)
  <2>1. PICK n \in Nat : n = Len(list)
    BY <1>1
  <2>2. Cardinality(1 .. n) = n
    BY FS_Interval
  <2> QED BY ZenonT(60), <2>1, <2>2
<1>5. Cardinality(Nodes) \in Nat
  BY NodesAssumption, FS_CardinalityType
<1> QED BY <1>1, <1>3, <1>4, <1>5

(* What the property calls the list is the list.  The function that follows  *)
(* the pointers exists, because the nodes of the list followed by null       *)
(* pointers are one, and a first position where two such functions differed  *)
(* would not be the first.                                                   *)
LEMMA LinkedIsList ==
  ASSUME ListTypeOK, NEW list, Links(list)
  PROVE  Linked = list /\ NodeAt[Cardinality(Nodes) + 1] = Null
<1> DEFINE N == Cardinality(Nodes) + 1
           Follow(f) == [k \in 1 .. N |-> IF k = 1 THEN head
                                          ELSE IF f[k - 1] = Null THEN Null ELSE next[f[k - 1]]]
           g == [k \in 1 .. N |-> IF k <= Len(list) THEN list[k] ELSE Null]
<1>1. /\ Len(list) \in Nat /\ N \in Nat /\ Len(list) < N
      /\ \A k \in 1 .. Len(list) : list[k] \in Nodes /\ list[k] # Null
  BY LinksFit, NodesAssumption DEF Links
<1>2. g = Follow(g)
  <2>1. ASSUME NEW k \in 1 .. N
        PROVE  g[k] = IF k = 1 THEN head ELSE IF g[k - 1] = Null THEN Null ELSE next[g[k - 1]]
    <3>1. CASE k = 1
      BY <1>1, <3>1 DEF Links
    <3>2. CASE k # 1 /\ k - 1 <= Len(list)
      <4>1. k - 1 \in 1 .. Len(list) /\ k - 1 \in 1 .. N
        BY <1>1, <3>2
      <4>2. g[k - 1] = list[k - 1] /\ g[k - 1] # Null
        BY <1>1, <4>1
      <4>3. next[list[k - 1]] = IF k - 1 = Len(list) THEN Null ELSE list[(k - 1) + 1]
        BY <4>1 DEF Links
      <4>4. g[k] = IF k - 1 = Len(list) THEN Null ELSE list[k]
        BY <1>1, <3>2
      <4> QED BY <1>1, <3>2, <4>2, <4>3, <4>4
    <3>3. CASE k # 1 /\ ~(k - 1 <= Len(list))
      <4>1. g[k - 1] = Null /\ g[k] = Null
        BY <1>1, <3>3
      <4> QED BY <3>3, <4>1
    <3> QED BY <3>1, <3>2, <3>3
  <2>2. DOMAIN g = 1 .. N
    OBVIOUS
  <2>3. g = [k \in 1 .. N |-> g[k]]
    OBVIOUS
  <2>4. [k \in 1 .. N |-> g[k]] = Follow(g)
    <3> HIDE DEF g, N
    <3> QED BY <2>1
  <2> QED BY <2>3, <2>4
<1>3. NodeAt = Follow(NodeAt)
  <2> HIDE DEF g
  <2>1. NodeAt = CHOOSE f : f = Follow(f)
    BY DEF NodeAt
  <2> HIDE DEF Follow
  <2> QED BY <1>2, <2>1
<1>4. \A k \in 1 .. N : NodeAt[k] = g[k]
  <2> DEFINE C == {k \in 1 .. N : NodeAt[k] # g[k]}
  <2> HIDE DEF g
  <2> SUFFICES ASSUME C # {} PROVE FALSE
    OBVIOUS
  <2>1. C \in SUBSET Nat
    BY <1>1
  <2>2. PICK k \in C : \A m \in C : k <= m
    <3> HIDE DEF C
    <3> QED BY <2>1, LeastElement
  <2>4. k \in 1 .. N /\ NodeAt[k] # g[k] /\ k \in Int
    OBVIOUS
  <2>3. k = 1 \/ NodeAt[k - 1] = g[k - 1]
    <3>1. ~(k <= k - 1)
      BY <2>4
    <3>2. k - 1 \notin C
      BY <2>2, <3>1
    <3>3. k # 1 => k - 1 \in 1 .. N
      BY <1>1, <2>4
    <3> QED BY <3>2, <3>3
  <2> HIDE DEF N, C
  <2>5. NodeAt[k] = IF k = 1 THEN head ELSE IF NodeAt[k - 1] = Null THEN Null ELSE next[NodeAt[k - 1]]
    BY <1>3, <2>4
  <2>6. g[k] = IF k = 1 THEN head ELSE IF g[k - 1] = Null THEN Null ELSE next[g[k - 1]]
    BY <1>2, <2>4
  <2> QED BY <2>3, <2>4, <2>5, <2>6
<1>5. \A k \in 1 .. N : NodeAt[k] = IF k <= Len(list) THEN list[k] ELSE Null
  BY <1>4
<1>6. Linked = list
  <2>1. \A k \in 1 .. Cardinality(Nodes) : NodeAt[k] # Null <=> k <= Len(list)
    <3> HIDE DEF g
    <3>1. ASSUME NEW k \in 1 .. Cardinality(Nodes) PROVE NodeAt[k] # Null <=> k <= Len(list)
      <4>1. k \in 1 .. N /\ k \in Int /\ 1 <= k
        BY <1>1, LinksFit
      <4>2. NodeAt[k] = IF k <= Len(list) THEN list[k] ELSE Null
        BY <1>5, <4>1
      <4>3. k <= Len(list) => k \in 1 .. Len(list)
        BY <1>1, <4>1
      <4> QED BY <1>1, <4>2, <4>3
    <3> QED BY <3>1
  <2>2. {k \in 1 .. Cardinality(Nodes) : NodeAt[k] # Null} = 1 .. Len(list)
    <3>1. \A k \in 1 .. Len(list) : k \in 1 .. Cardinality(Nodes)
      BY <1>1, LinksFit
    <3>2. \A k \in 1 .. Cardinality(Nodes) : k <= Len(list) => k \in 1 .. Len(list)
      BY <1>1
    <3>3. \A k \in 1 .. Len(list) : k <= Len(list)
      BY <1>1
    <3> QED BY <2>1, <3>1, <3>2, <3>3
  <2>3. Cardinality(1 .. Len(list)) = Len(list)
    <3>1. PICK n \in Nat : n = Len(list)
      BY <1>1
    <3>2. Cardinality(1 .. n) = n
      BY FS_Interval
    <3> QED BY <3>1, <3>2
  <2>4. Linked = [k \in 1 .. Len(list) |-> NodeAt[k]]
    BY <2>2, <2>3 DEF Linked
  <2>5. \A k \in 1 .. Len(list) : NodeAt[k] = list[k]
    <3>1. \A k \in 1 .. Len(list) : k \in 1 .. N /\ k <= Len(list)
      BY <1>1
    <3> QED BY <1>5, <3>1
  <2>6. list = [k \in 1 .. Len(list) |-> list[k]]
    <3>1. list \in Seq(Nodes)
      BY DEF Links
    <3> QED BY <3>1
  <2> QED BY <2>4, <2>5, <2>6
<1>7. NodeAt[N] = Null
  <2>1. N \in 1 .. N /\ ~(N <= Len(list))
    BY <1>1
  <2> QED BY <1>5, <2>1
<1> QED BY <1>6, <1>7

(* The same in the next state.                                               *)
LEMMA LinkedIsListNext == (ListTypeOK => \A list : Links(list) => Linked = list)'
<1>1. ListTypeOK => \A list : Links(list) => Linked = list
  BY LinkedIsList
<1> QED BY <1>1, PTL

(* What the pointers of a list of nodes say.                                 *)
LEMMA LinksFacts ==
  ASSUME NEW list, Links(list)
  PROVE  /\ list \in Seq(Nodes) /\ Len(list) \in Nat
         /\ \A k \in 1 .. Len(list) : list[k] \in Nodes /\ list[k] # Null /\ list[k] # HeadRef
         /\ list = << >> <=> Len(list) = 0
         /\ Len(list) = 0 => head = Null
         /\ Len(list) # 0 => head = list[1]
         /\ \A k, m \in 1 .. Len(list) : list[k] = list[m] => k = m
<1>1. list \in Seq(Nodes)
  BY DEF Links
<1>2. Len(list) \in Nat /\ (list = << >> <=> Len(list) = 0)
  BY <1>1
<1>3. \A k \in 1 .. Len(list) : list[k] \in Nodes
  BY <1>1
<1>4. Null \notin Nodes /\ HeadRef \notin Nodes
  BY NodesAssumption
<1> QED BY <1>1, <1>2, <1>3, <1>4 DEF Links, NoDuplicates

(* Links is what has to be shown of a position when the new list is known    *)
(* to be a list of nodes.                                                    *)
LEMMA LinksNext ==
  ASSUME NEW M \in Seq(Nodes), NoDuplicates(M),
         Len(M) = 0 => head' = Null, Len(M) # 0 => head' = M[1],
         \A k \in 1 .. Len(M) : /\ k = Len(M) => next'[M[k]] = Null
                                /\ k # Len(M) => next'[M[k]] = M[k + 1]
  PROVE  Links(M)'
<1>1. M = << >> <=> Len(M) = 0
  OBVIOUS
<1> QED BY <1>1 DEF Links, NoDuplicates

(* A loop that has passed k nodes looks at the next one.                     *)
LEMMA TargetIs ==
  ASSUME NEW list, Links(list), NEW k \in 0 .. Len(list), Passed(list, k)
  PROVE  /\ k = Len(list) => Target = Null
         /\ k # Len(list) => k + 1 \in 1 .. Len(list) /\ Target = list[k + 1]
         /\ k = 0 => it = HeadRef
         /\ k # 0 => k \in 1 .. Len(list) /\ it = list[k] /\ it # HeadRef
<1>1. Len(list) \in Nat /\ k \in Int
  BY LinksFacts
<1>2. CASE k = 0
  <2>1. it = HeadRef /\ Target = head
    BY <1>2 DEF Passed, Target
  <2> QED BY <1>1, <1>2, <2>1, LinksFacts
<1>3. CASE k # 0
  <2>1. k \in 1 .. Len(list) /\ it = list[k]
    BY <1>1, <1>3 DEF Passed
  <2>2. it # HeadRef /\ Target = next[list[k]]
    BY <2>1, LinksFacts DEF Target
  <2>3. next[list[k]] = IF k = Len(list) THEN Null ELSE list[k + 1]
    BY <2>1 DEF Links
  <2>4. k # Len(list) => k + 1 \in 1 .. Len(list)
    BY <1>1, <2>1
  <2> QED BY <1>3, <2>1, <2>2, <2>3, <2>4
<1> QED BY <1>2, <1>3

------------------------------------------------------------------------------
(* The functions *)

(* pop_front() leaves the list without its first node.                       *)
LEMMA PopFrontStep ==
  ASSUME ListTypeOK, NEW list, ListInv(list), PopFront
  PROVE  list # << >> /\ ListInv(Tail(list))'
<1>1. /\ list \in Seq(Nodes) /\ Len(list) \in Nat /\ Links(list) /\ Ordered(list, value)
      /\ list = << >> <=> Len(list) = 0
  BY LinksFacts DEF ListInv
<1>2. Len(list) # 0 /\ list # << >> /\ head = list[1]
  BY <1>1, LinksFacts DEF PopFront
<1>3. PICK M : M = Tail(list)
  OBVIOUS
<1>4. M \in Seq(Nodes) /\ NoDuplicates(M) /\ Ordered(M, value)
  BY <1>1, <1>2, <1>3, TailEffect DEF Links
<1>5. Len(M) = Len(list) - 1 /\ \A k \in 1 .. Len(M) : M[k] = list[k + 1]
  BY <1>1, <1>2, <1>3
<1>6. /\ \A k \in 1 .. Len(list) : k = Len(list) => next[list[k]] = Null
      /\ \A k \in 1 .. Len(list) : k # Len(list) => next[list[k]] = list[k + 1]
  BY <1>1 DEF Links
<1>7. UNCHANGED <<next, value, pc, node, it>> /\ head' = next[list[1]] /\ pc = "ready"
  BY <1>2 DEF PopFront
<1>8. Len(M) = 0 => head' = Null
  BY <1>1, <1>2, <1>5, <1>6, <1>7
<1>9. Len(M) # 0 => head' = M[1]
  <2>1. Len(M) # 0 => 1 \in 1 .. Len(M) /\ 1 \in 1 .. Len(list) /\ 1 # Len(list)
    BY <1>1, <1>2, <1>5
  <2> QED BY <1>5, <1>6, <1>7, <2>1
<1>10. ASSUME NEW k \in 1 .. Len(M)
       PROVE  /\ k = Len(M) => next'[M[k]] = Null
              /\ k # Len(M) => next'[M[k]] = M[k + 1]
  <2>1. k + 1 \in 1 .. Len(list) /\ (k = Len(M) <=> k + 1 = Len(list))
    BY <1>1, <1>2, <1>5
  <2>2. k # Len(M) => k + 1 \in 1 .. Len(M)
    BY <1>1, <1>2, <1>5
  <2> QED BY <1>5, <1>6, <1>7, <2>1, <2>2
<1>11. Links(M)'
  BY <1>4, <1>8, <1>9, <1>10, LinksNext
<1>12. ListInv(M)'
  BY <1>4, <1>7, <1>11 DEF ListInv, Ordered
<1> QED BY <1>2, <1>3, <1>12

(* A call begins at the head, with nothing passed.                           *)
LEMMA CallStep ==
  ASSUME ListTypeOK, NEW list, ListInv(list), NEW n \in Nodes, CallInsert(n) \/ CallErase(n)
  PROVE  ListInv(list)'
<1>1. Links(list) /\ Ordered(list, value) /\ Len(list) \in Nat
  BY LinksFacts DEF ListInv
<1>2. Linked = list
  BY <1>1, LinkedIsList
<1>3. /\ UNCHANGED <<head, next, value>>
      /\ node' = n /\ it' = HeadRef /\ pc' \in {"insert", "erase"}
      /\ pc' = "insert" => ~OnList(list, n)
  BY <1>2 DEF CallInsert, CallErase, Call, links
<1>4. Passed(list, 0)'
  BY <1>3 DEF Passed, OnList
<1>5. Links(list)' /\ Ordered(list, value)'
  BY <1>1, <1>3 DEF Links, Ordered
<1> QED BY <1>1, <1>4, <1>5 DEF ListInv

(* The loops pass one node.                                                  *)
LEMMA AdvanceStep ==
  ASSUME ListTypeOK, NEW list, ListInv(list), InsertAdvance \/ EraseAdvance
  PROVE  ListInv(list)' /\ pc' = pc /\ pc \in {"insert", "erase"}
<1>1. Links(list) /\ Ordered(list, value) /\ Len(list) \in Nat
  BY LinksFacts DEF ListInv
<1>2. /\ UNCHANGED <<head, next, value, pc, node>> /\ it' = Target /\ Target # Null
      /\ pc \in {"insert", "erase"}
      /\ pc = "insert" => value[Target] < value[node]
      /\ pc = "erase" => Target # node
  BY DEF InsertAdvance, EraseAdvance, InsertGoesOn, EraseGoesOn, links
<1>3. PICK k \in 0 .. Len(list) : Passed(list, k)
  BY <1>2 DEF ListInv
<1>4. k + 1 \in 1 .. Len(list) /\ Target = list[k + 1]
  BY <1>1, <1>2, <1>3, TargetIs
<1>5. \A j \in 1 .. k + 1 : j \in 1 .. k \/ j = k + 1
  BY <1>1
<1>6. k + 1 \in 0 .. Len(list) /\ k + 1 # 0
  BY <1>1, <1>4
<1>7. Passed(list, k + 1)'
  BY <1>2, <1>3, <1>4, <1>5, <1>6 DEF Passed, OnList
<1>8. Links(list)' /\ Ordered(list, value)'
  BY <1>1, <1>2 DEF Links, Ordered
<1> QED BY <1>2, <1>6, <1>7, <1>8 DEF ListInv

(* The loop of insert() stops at the place InsertTimer puts the node.        *)
LEMMA StopsAtPosition ==
  ASSUME ListTypeOK, NEW list, Links(list), pc = "insert", ~InsertGoesOn,
         NEW k \in 0 .. Len(list), Passed(list, k)
  PROVE  InsertPosition(list, value, node) = k + 1
<1>1. list \in Seq(Nodes) /\ Len(list) \in Nat /\ node \in Nodes
  BY LinksFacts DEF Passed
<1>2. PICK q : q = InsertPosition(list, value, node)
  OBVIOUS
<1>3. /\ q \in 1 .. Len(list) + 1
      /\ \A j \in 1 .. q - 1 : value[list[j]] < value[node]
      /\ q <= Len(list) => ~(value[list[q]] < value[node])
  BY <1>1, <1>2, ValuesType, InsertPositionExists
<1>4. ASSUME q <= k PROVE FALSE
  <2>1. q \in 1 .. k /\ q <= Len(list)
    BY <1>1, <1>3, <1>4
  <2> QED BY <1>3, <2>1 DEF Passed
<1>5. ASSUME k + 1 < q PROVE FALSE
  <2>1. k # Len(list) /\ k + 1 \in 1 .. q - 1
    BY <1>1, <1>3, <1>5
  <2>2. k + 1 \in 1 .. Len(list) /\ Target = list[k + 1]
    BY <2>1, TargetIs
  <2>3. Target # Null /\ value[Target] < value[node]
    BY <1>3, <2>1, <2>2, LinksFacts
  <2> QED BY <2>3 DEF InsertGoesOn
<1>6. q \in Int /\ k \in Int
  BY <1>1, <1>3
<1> QED BY <1>2, <1>4, <1>5, <1>6

LEMMA InsertLinkStep ==
  ASSUME ListTypeOK, NEW list, ListInv(list), InsertLink
  PROVE  /\ pc = "insert" /\ pc' = "ready"
         /\ \E M : M = InsertTimer(list, value, node) /\ ListInv(M)'
<1>1. /\ list \in Seq(Nodes) /\ Len(list) \in Nat /\ Links(list) /\ Ordered(list, value)
      /\ NoDuplicates(list)
  BY LinksFacts DEF ListInv, Links
<1>2. /\ pc = "insert" /\ ~InsertGoesOn /\ pc' = "ready" /\ value' = value
      /\ it = HeadRef => head' = node /\ next' = [next EXCEPT ![node] = Target]
      /\ it # HeadRef => head' = head /\ next' = [next EXCEPT ![node] = Target, ![it] = node]
  BY DEF InsertLink, Return
<1>3. PICK k \in 0 .. Len(list) : Passed(list, k)
  BY <1>2 DEF ListInv
<1>4. PICK p : p = k + 1
  OBVIOUS
<1>5. p \in 1 .. Len(list) + 1 /\ k = p - 1 /\ k \in Int /\ p \in Int
  BY <1>1, <1>4
<1>6. node \in Nodes /\ ~OnList(list, node)
  BY <1>2, <1>3 DEF Passed
<1>7. PICK M : M = InsertTimer(list, value, node)
  OBVIOUS
<1>8. M = [j \in 1 .. Len(list) + 1 |->
             IF j < p THEN list[j] ELSE IF j = p THEN node ELSE list[j - 1]]
  BY <1>2, <1>3, <1>4, <1>7, <1>1, StopsAtPosition DEF InsertTimer
<1>9. /\ M \in Seq(Nodes) /\ Len(M) = Len(list) + 1
      /\ \A j \in 1 .. Len(list) : j < p => M[j] = list[j]
      /\ M[p] = node
      /\ \A j \in 1 .. Len(list) : p <= j => M[j + 1] = list[j]
  BY <1>1, <1>5, <1>6, <1>8, PutAt
<1>10. NoDuplicates(M) /\ Ordered(M, value)
  BY <1>1, <1>6, <1>7, ValuesType, InsertTimerEffect, InsertTimerOrdered
<1>11. next \in [Nodes -> Nodes \cup {Null}]
  BY DEF ListTypeOK
<1>12. /\ p = Len(list) + 1 => Target = Null
       /\ p # Len(list) + 1 => p \in 1 .. Len(list) /\ Target = list[p]
       /\ p = 1 => it = HeadRef
       /\ p # 1 => p - 1 \in 1 .. Len(list) /\ it = list[p - 1] /\ it # HeadRef
  BY <1>1, <1>3, <1>5, TargetIs
<1>13. \A j \in 1 .. Len(list) : list[j] \in Nodes /\ list[j] # node
  BY <1>1, <1>6 DEF OnList
<1>14. next'[node] = Target
  <2>1. p # 1 => it # node
    BY <1>12, <1>13
  <2>2. CASE p = 1
    BY <1>2, <1>6, <1>11, <1>12, <2>2
  <2>3. CASE p # 1
    BY <1>2, <1>6, <1>11, <1>12, <2>1, <2>3
  <2> QED BY <2>2, <2>3
<1>15. p # 1 => next'[list[p - 1]] = node /\ head' = head
  BY <1>2, <1>11, <1>12, <1>13
<1>16. \A j \in 1 .. Len(list) : j # p - 1 => next'[list[j]] = next[list[j]]
  <2> SUFFICES ASSUME NEW j \in 1 .. Len(list), j # p - 1
               PROVE  next'[list[j]] = next[list[j]]
    OBVIOUS
  <2>1. list[j] \in Nodes /\ list[j] # node
    BY <1>13
  <2>2. CASE p = 1
    BY <1>2, <1>11, <1>12, <2>1, <2>2
  <2>3. CASE p # 1
    <3>1. list[j] # list[p - 1]
      BY <1>1, <1>12, <2>3, LinksFacts
    <3> QED BY <1>2, <1>11, <1>12, <2>1, <2>3, <3>1
  <2> QED BY <2>2, <2>3
<1>17. \A j \in 1 .. Len(list) : /\ j = Len(list) => next[list[j]] = Null
                                 /\ j # Len(list) => next[list[j]] = list[j + 1]
  BY <1>1 DEF Links
<1>18. Len(M) # 0 /\ head' = M[1]
  <2>1. CASE p = 1
    BY <1>1, <1>2, <1>9, <1>12, <2>1
  <2>2. CASE p # 1
    <3>1. Len(list) # 0 /\ 1 \in 1 .. Len(list) /\ 1 < p
      BY <1>1, <1>5, <2>2
    <3> QED BY <1>1, <1>9, <1>15, <2>2, <3>1, LinksFacts
  <2> QED BY <1>1, <1>9, <2>1, <2>2
<1>19. ASSUME NEW j \in 1 .. Len(M)
       PROVE  /\ j = Len(M) => next'[M[j]] = Null
              /\ j # Len(M) => next'[M[j]] = M[j + 1]
  <2>1. CASE j \in 1 .. Len(list) /\ j < p
    <3>1. M[j] = list[j] /\ j # Len(M) /\ j \in Int
      BY <1>1, <1>9, <2>1
    <3>2. CASE j = p - 1
      BY <1>5, <1>9, <1>15, <2>1, <3>1, <3>2
    <3>3. CASE j # p - 1
      <4>1. j + 1 \in 1 .. Len(list) /\ j + 1 < p /\ j # Len(list)
        BY <1>1, <1>5, <2>1, <3>1, <3>3
      <4> QED BY <1>9, <1>16, <1>17, <2>1, <3>1, <3>3, <4>1
    <3> QED BY <3>2, <3>3
  <2>2. CASE j = p
    <3>1. (p = Len(M) <=> p = Len(list) + 1) /\ (p \in 1 .. Len(list) => M[p + 1] = list[p])
      BY <1>5, <1>9
    <3> QED BY <1>9, <1>12, <1>14, <2>2, <3>1
  <2>3. CASE j - 1 \in 1 .. Len(list) /\ p <= j - 1 /\ (j - 1) + 1 = j
    <3>1. M[j] = list[j - 1] /\ j - 1 # p - 1
      BY <1>5, <1>9, <2>3
    <3>2. j - 1 = Len(list) <=> j = Len(M)
      BY <1>1, <1>9, <2>3
    <3>3. j - 1 # Len(list) => j \in 1 .. Len(list) /\ p <= j
      BY <1>1, <1>5, <2>3
    <3>4. j - 1 # Len(list) => M[j + 1] = list[j]
      BY <1>9, <3>3
    <3> QED BY <1>16, <1>17, <2>3, <3>1, <3>2, <3>4
  <2> QED BY <1>1, <1>5, <1>9, <2>1, <2>2, <2>3, PutAtCases
<1>20. Links(M)'
  BY <1>9, <1>10, <1>18, <1>19, LinksNext
<1>21. ListInv(M)'
  BY <1>2, <1>10, <1>20 DEF ListInv, Ordered
<1> QED BY <1>2, <1>7, <1>21

(* The loop of erase() stops at the node, or at the end of a list that does  *)
(* not have it.                                                              *)
LEMMA EraseUnlinkStep ==
  ASSUME ListTypeOK, NEW list, ListInv(list), EraseUnlink
  PROVE  /\ pc = "erase" /\ pc' = "ready"
         /\ \E M : M = EraseTimer(list, node) /\ ListInv(M)'
<1>1. /\ list \in Seq(Nodes) /\ Len(list) \in Nat /\ Links(list) /\ Ordered(list, value)
      /\ NoDuplicates(list)
  BY LinksFacts DEF ListInv, Links
<1>2. /\ pc = "erase" /\ pc' = "ready" /\ value' = value
      /\ Target = node \/ Target = Null
      /\ Target = node => Store(next[node])
      /\ Target # node => UNCHANGED <<head, next>>
  BY DEF EraseUnlink, EraseGoesOn, Return, links
<1>3. PICK k \in 0 .. Len(list) : Passed(list, k)
  BY <1>2 DEF ListInv
<1>4. node \in Nodes /\ node # Null /\ \A j \in 1 .. k : list[j] # node
  BY <1>2, <1>3, NodesAssumption DEF Passed
<1>5. CASE Target # node
  <2>1. k = Len(list)
    BY <1>2, <1>3, <1>5, <1>1, TargetIs, LinksFacts
  <2>2. ~OnList(list, node) /\ EraseTimer(list, node) = list
    BY <1>4, <2>1 DEF OnList, EraseTimer
  <2>3. ListInv(list)'
    BY <1>1, <1>2, <1>5 DEF ListInv, Links, Ordered
  <2> QED BY <1>2, <2>2, <2>3
<1>6. CASE Target = node
  <2>1. PICK p : p = k + 1
    OBVIOUS
  <2>2. k # Len(list)
    BY <1>1, <1>3, <1>4, <1>6, TargetIs
  <2>3. /\ p \in 1 .. Len(list) /\ list[p] = node /\ p \in Int /\ k = p - 1
        /\ p = 1 => it = HeadRef
        /\ p # 1 => p - 1 \in 1 .. Len(list) /\ it = list[p - 1] /\ it # HeadRef
    BY <1>1, <1>3, <1>6, <2>1, <2>2, TargetIs
  <2>4. /\ p = 1 => head' = next[node] /\ next' = next
        /\ p # 1 => head' = head /\ next' = [next EXCEPT ![it] = next[node]]
    BY <1>2, <1>6, <2>3 DEF Store
  <2>5. \A i, j \in 1 .. Len(list) : list[i] = list[j] => i = j
    BY <1>1, LinksFacts
  <2>6. OnList(list, node) /\ (CHOOSE i \in 1 .. Len(list) : list[i] = node) = p
    BY <2>3, <2>5 DEF OnList
  <2>7. PICK M : M = EraseTimer(list, node)
    OBVIOUS
  <2>8. M = [j \in 1 .. Len(list) - 1 |-> IF j < p THEN list[j] ELSE list[j + 1]]
    BY <2>6, <2>7 DEF EraseTimer
  <2>9. M \in Seq(Nodes) /\ NoDuplicates(M) /\ Ordered(M, value)
    BY <1>1, <1>4, <2>6, <2>7, ValuesType, EraseTimerEffect
  <2>10. Len(M) = Len(list) - 1
    BY <1>1, <2>3, <2>8
  <2>11. \A j \in 1 .. Len(M) : M[j] = IF j < p THEN list[j] ELSE list[j + 1]
    BY <1>1, <2>8, <2>10
  <2>12. next \in [Nodes -> Nodes \cup {Null}]
    BY DEF ListTypeOK
  <2>13. \A j \in 1 .. Len(list) : /\ j = Len(list) => next[list[j]] = Null
                                   /\ j # Len(list) => next[list[j]] = list[j + 1]
    BY <1>1 DEF Links
  <2>14. \A j \in 1 .. Len(list) : list[j] \in Nodes
    BY <1>1, LinksFacts
  <2>15. p # 1 => next'[list[p - 1]] = next[node]
    BY <2>3, <2>4, <2>12, <2>14
  <2>16. \A j \in 1 .. Len(list) : j # p - 1 => next'[list[j]] = next[list[j]]
    <3> SUFFICES ASSUME NEW j \in 1 .. Len(list), j # p - 1
                 PROVE  next'[list[j]] = next[list[j]]
      OBVIOUS
    <3>1. p # 1 => list[j] # it
      BY <2>3, <2>5
    <3> QED BY <2>4, <2>12, <2>14, <3>1
  <2>17. Len(M) = 0 => head' = Null
    <3>1. p \in 1 .. Len(list)
      BY <2>3
    <3>2. Len(M) = 0 => p = 1 /\ p = Len(list)
      <4>1. PICK n \in Nat : n = Len(list)
        BY <1>1
      <4>2. p \in 1 .. n /\ Len(M) = n - 1
        BY <2>10, <3>1, <4>1
      <4>3. n - 1 = 0 => p = 1 /\ p = n
        BY <4>2
      <4> QED BY <4>1, <4>2, <4>3
    <3> QED BY <2>3, <2>4, <2>13, <3>2
  <2>18. Len(M) # 0 => head' = M[1]
    <3>1. Len(M) # 0 => 1 \in 1 .. Len(M) /\ 1 \in 1 .. Len(list) /\ 1 # Len(list)
      BY <1>1, <2>3, <2>10
    <3>2. CASE p = 1
      <4>1. head' = next[node] /\ node = list[1]
        BY <2>3, <2>4, <3>2
      <4>2. Len(M) # 0 => M[1] = list[1 + 1]
        BY <2>11, <3>1, <3>2
      <4> QED BY <2>13, <3>1, <4>1, <4>2
    <3>3. CASE p # 1
      <4>1. 1 < p /\ head = list[1]
        BY <1>1, <2>3, <3>3, LinksFacts
      <4> QED BY <2>4, <2>11, <3>1, <3>3, <4>1
    <3> QED BY <3>2, <3>3
  <2>19. ASSUME NEW j \in 1 .. Len(M)
         PROVE  /\ j = Len(M) => next'[M[j]] = Null
                /\ j # Len(M) => next'[M[j]] = M[j + 1]
    <3>1. j \in 1 .. Len(list) /\ j + 1 \in 1 .. Len(list) /\ j \in Int
      BY <1>1, <2>10
    <3>2. j # Len(M) => j + 1 \in 1 .. Len(M)
      BY <1>1, <2>10
    <3>3. j = Len(M) <=> j + 1 = Len(list)
      BY <1>1, <2>10
    <3>4. CASE j < p - 1
      <4>1. M[j] = list[j] /\ j # Len(M) /\ M[j + 1] = list[j + 1] /\ j # Len(list)
        BY <1>1, <2>3, <2>10, <2>11, <3>1, <3>2, <3>4
      <4> QED BY <2>13, <2>16, <3>1, <3>4, <4>1
    <3>5. CASE j = p - 1
      <4>1. M[j] = list[p - 1] /\ p # 1 /\ (j # Len(M) => M[j + 1] = list[p + 1])
        BY <2>3, <2>11, <3>1, <3>2, <3>5
      <4>2. j = Len(M) <=> p = Len(list)
        BY <2>3, <3>3, <3>5
      <4> QED BY <2>3, <2>13, <2>15, <4>1, <4>2
    <3>6. CASE ~(j < p - 1) /\ j # p - 1
      <4>1. M[j] = list[j + 1] /\ j + 1 # p - 1 /\ (j # Len(M) => M[j + 1] = list[(j + 1) + 1])
        BY <2>3, <2>11, <3>1, <3>2, <3>6
      <4> QED BY <2>13, <2>16, <3>1, <3>3, <4>1
    <3> QED BY <3>4, <3>5, <3>6
  <2>20. Links(M)'
    BY <2>9, <2>17, <2>18, <2>19, LinksNext
  <2>21. ListInv(M)'
    BY <1>2, <2>9, <2>20 DEF ListInv, Ordered
  <2> QED BY <1>2, <2>7, <2>21
<1> QED BY <1>5, <1>6

------------------------------------------------------------------------------
(* The theorems *)

LEMMA InitSortedInv == ListInit => SortedInv
<1> SUFFICES ASSUME ListInit PROVE SortedInv
  OBVIOUS
<1>1. << >> \in Seq(Nodes) /\ Len(<< >>) = 0
  OBVIOUS
<1>2. ListInv(<< >>)
  BY <1>1 DEF ListInit, ListInv, Links, NoDuplicates, Ordered
<1>3. ListTypeOK
  BY DEF ListInit, ListTypeOK
<1> QED BY <1>2, <1>3 DEF SortedInv

LEMMA NextListTypeOK == SortedInv /\ [ListNext]_listVars => ListTypeOK'
<1> SUFFICES ASSUME SortedInv, ListTypeOK, [ListNext]_listVars PROVE ListTypeOK'
  BY DEF SortedInv
<1>1. /\ head \in Nodes \cup {Null} /\ next \in [Nodes -> Nodes \cup {Null}]
      /\ it \in Nodes \cup {HeadRef} /\ node \in Nodes \cup {Null}
  BY DEF ListTypeOK
<1>2. Target \in Nodes \cup {Null}
  BY <1>1 DEF Target
<1>3. CASE PopFront
  BY <1>1, <1>3 DEF PopFront, ListTypeOK
<1>4. ASSUME NEW n \in Nodes, CallInsert(n) \/ CallErase(n) PROVE ListTypeOK'
  BY <1>4 DEF CallInsert, CallErase, Call, links, ListTypeOK
<1>5. CASE InsertAdvance \/ EraseAdvance
  BY <1>2, <1>5 DEF InsertAdvance, EraseAdvance, InsertGoesOn, EraseGoesOn, links, ListTypeOK
<1>6. CASE InsertLink
  BY <1>1, <1>2, <1>6 DEF InsertLink, Return, ListTypeOK
<1>7. CASE EraseUnlink
  <2>1. node \in Nodes
    BY <1>7 DEF EraseUnlink, SortedInv, ListInv, Passed
  <2>2. next[node] \in Nodes \cup {Null}
    BY <1>1, <2>1
  <2> QED BY <1>1, <1>7, <2>2 DEF EraseUnlink, Store, links, Return, ListTypeOK
<1>8. CASE UNCHANGED listVars
  BY <1>8 DEF listVars, ListTypeOK
<1> QED BY <1>3, <1>4, <1>5, <1>6, <1>7, <1>8 DEF ListNext

(* What every step does to the list that is linked.                          *)
ListStep(list, M) ==
  /\ pc = "ready" => IF pc' = "ready" THEN list # << >> /\ M = PopTimer(list) ELSE M = list
  /\ pc = "insert" => M = IF pc' = "ready" THEN InsertTimer(list, value, node) ELSE list
  /\ pc = "erase" => M = IF pc' = "ready" THEN EraseTimer(list, node) ELSE list

LEMMA NextListInv ==
  ASSUME ListTypeOK, NEW list, ListInv(list), ListNext
  PROVE  \E M : ListInv(M)' /\ ListStep(list, M)
<1>1. CASE PopFront
  <2>1. pc = "ready" /\ pc' = "ready"
    BY <1>1 DEF PopFront
  <2>2. list # << >> /\ ListInv(Tail(list))'
    BY <1>1, PopFrontStep
  <2>3. PICK M : M = Tail(list)
    OBVIOUS
  <2>4. ListInv(M)'
    BY <2>2, <2>3
  <2> QED BY <2>1, <2>2, <2>3, <2>4 DEF ListStep, PopTimer
<1>2. ASSUME NEW n \in Nodes, CallInsert(n) \/ CallErase(n)
      PROVE  \E M : ListInv(M)' /\ ListStep(list, M)
  <2>1. pc = "ready" /\ pc' # "ready"
    BY <1>2 DEF CallInsert, CallErase, Call
  <2> QED BY <1>2, <2>1, CallStep DEF ListStep
<1>3. CASE InsertAdvance \/ EraseAdvance
  <2>1. ListInv(list)' /\ pc' = pc /\ pc \in {"insert", "erase"}
    BY <1>3, AdvanceStep
  <2> QED BY <2>1 DEF ListStep
<1>4. CASE InsertLink
  <2>1. PICK M : M = InsertTimer(list, value, node) /\ ListInv(M)'
    BY <1>4, InsertLinkStep
  <2>2. pc = "insert" /\ pc' = "ready"
    BY <1>4, InsertLinkStep
  <2> QED BY <2>1, <2>2 DEF ListStep
<1>5. CASE EraseUnlink
  <2>1. PICK M : M = EraseTimer(list, node) /\ ListInv(M)'
    BY <1>5, EraseUnlinkStep
  <2>2. pc = "erase" /\ pc' = "ready"
    BY <1>5, EraseUnlinkStep
  <2> QED BY <2>1, <2>2 DEF ListStep
<1> QED BY <1>1, <1>2, <1>3, <1>4, <1>5 DEF ListNext

LEMMA NextSortedInv == SortedInv /\ [ListNext]_listVars => SortedInv'
<1> SUFFICES ASSUME SortedInv, [ListNext]_listVars PROVE SortedInv'
  OBVIOUS
<1>1. PICK list : ListInv(list)
  BY DEF SortedInv
<1>2. ListTypeOK'
  BY NextListTypeOK DEF SortedInv
<1>3. CASE ListNext
  BY <1>1, <1>2, <1>3, NextListInv DEF SortedInv
<1>4. CASE UNCHANGED listVars
  BY <1>1, <1>2, <1>4 DEF SortedInv, ListInv, Links, Passed, listVars
<1> QED BY <1>3, <1>4

LEMMA SortedInvHolds == ListSpec => []SortedInv
BY InitSortedInv, NextSortedInv, PTL DEF ListSpec

(* The list stays well formed: following the pointers from the head ends at  *)
(* a null pointer after at most as many nodes as there are, and the nodes    *)
(* are in order.                                                             *)
THEOREM WellFormedCorrect == ListSpec => []WellFormed
<1>1. SortedInv => WellFormed
  <2> SUFFICES ASSUME ListTypeOK, NEW list, ListInv(list) PROVE WellFormed
    BY DEF SortedInv
  <2> QED BY LinkedIsList DEF ListInv, WellFormed
<1> QED BY <1>1, SortedInvHolds, PTL

(* insert(), erase() and pop_front() do to the list what TimerList says.     *)
THEOREM ListCorrect == ListSpec => ImplementsTimerList
<1>1. ASSUME SortedInv, SortedInv', [ListNext]_listVars
      PROVE  [/\ pc = "ready" =>
                   IF pc' = "ready" THEN Linked # << >> /\ Linked' = PopTimer(Linked)
                   ELSE Linked' = Linked
              /\ pc = "insert" =>
                   Linked' = IF pc' = "ready" THEN InsertTimer(Linked, value, node) ELSE Linked
              /\ pc = "erase" =>
                   Linked' = IF pc' = "ready" THEN EraseTimer(Linked, node) ELSE Linked]_listVars
  <2> SUFFICES ASSUME ListNext
               PROVE  /\ pc = "ready" =>
                           IF pc' = "ready" THEN Linked # << >> /\ Linked' = PopTimer(Linked)
                           ELSE Linked' = Linked
                      /\ pc = "insert" =>
                           Linked' = IF pc' = "ready" THEN InsertTimer(Linked, value, node) ELSE Linked
                      /\ pc = "erase" =>
                           Linked' = IF pc' = "ready" THEN EraseTimer(Linked, node) ELSE Linked
    BY <1>1
  <2>1. PICK list : ListInv(list)
    BY <1>1 DEF SortedInv
  <2>2. PICK M : ListInv(M)' /\ ListStep(list, M)
    BY <1>1, <2>1, NextListInv DEF SortedInv
  <2>3. Linked = list
    BY <1>1, <2>1, LinkedIsList DEF SortedInv, ListInv
  <2>4. Links(M)' /\ ListTypeOK'
    BY <1>1, <2>2 DEF SortedInv, ListInv
  <2>5. Linked' = M
    BY <2>4, LinkedIsListNext
  <2> QED BY <2>2, <2>3, <2>5 DEF ListStep
<1>2. SortedInv /\ SortedInv' /\ [ListNext]_listVars =>
        [/\ pc = "ready" =>
              IF pc' = "ready" THEN Linked # << >> /\ Linked' = PopTimer(Linked)
              ELSE Linked' = Linked
         /\ pc = "insert" =>
              Linked' = IF pc' = "ready" THEN InsertTimer(Linked, value, node) ELSE Linked
         /\ pc = "erase" =>
              Linked' = IF pc' = "ready" THEN EraseTimer(Linked, node) ELSE Linked]_listVars
  BY <1>1
<1> QED BY <1>2, SortedInvHolds, PTL DEF ListSpec, ImplementsTimerList

=============================================================================
