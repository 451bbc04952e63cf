----------------------------- MODULE DataLemmas ------------------------------
(***************************************************************************)
(* What the two containers of the library do, as lemmas the proofs about   *)
(* the contexts and the programs rest on: container::insert() and erase()  *)
(* on the slots and the free list, and the operations of sorted_list, of   *)
(* the task stack and of the vectors of a context on lists seen as         *)
(* sequences: who is on the list afterwards, that nobody is on it twice,   *)
(* and that timers stay ordered.                                           *)
(***************************************************************************)
EXTENDS Container, TimerList, FiniteSetTheorems, TLAPS

------------------------------------------------------------------------------
(* Containers *)

(* The dead slots of a container are finitely many, no more than its size. *)
LEMMA DeadIdsFinite ==
  ASSUME NEW c \in Containers
  PROVE  /\ IsFiniteSet(DeadIds(c))
         /\ Cardinality(DeadIds(c)) \in Nat
         /\ Size(c) \in Nat
<1>1. Size(c) \in Nat
  BY DEF Containers, Size
<1>2. DeadIds(c) \in SUBSET (0 .. Size(c) - 1)
  BY DEF DeadIds, Ids
<1>3. IsFiniteSet(0 .. Size(c) - 1)
  BY <1>1, FS_Interval
<1>4. IsFiniteSet(DeadIds(c))
  BY <1>2, <1>3, FS_Subset
<1> QED BY <1>1, <1>4, FS_CardinalityType

(* A slot is live or dead by the alternative its variant holds. *)
LEMMA SlotCases ==
  ASSUME NEW c \in Containers, NEW id \in Ids(c)
  PROVE  /\ c.records[id + 1] \in Slots
         /\ c.records[id + 1].index \in {0, 1}
         /\ id \in LiveIds(c) <=> c.records[id + 1].index = 1
         /\ id \in DeadIds(c) <=> c.records[id + 1].index = 0
         /\ id \in LiveIds(c) => /\ c.records[id + 1].rec \in Handles
                                 /\ c.records[id + 1] = Live(c.records[id + 1].rec)
         /\ id \in DeadIds(c) => /\ c.records[id + 1].next \in Nat
                                 /\ c.records[id + 1] = Dead(c.records[id + 1].next)
<1>1. /\ c.records \in Seq(Slots) /\ Size(c) \in Nat /\ id + 1 \in 1 .. Len(c.records)
  BY DEF Containers, Ids, Size
<1>2. c.records[id + 1] \in Slots
  BY <1>1
<1> QED BY <1>2 DEF Slots, LiveIds, DeadIds, Live, Dead

(* erase() makes its slot the new head of the free list. *)
LEMMA EraseEffect ==
  ASSUME NEW c \in Containers, NEW id \in LiveIds(c)
  PROVE  /\ Erase(c, id) \in Containers
         /\ Size(Erase(c, id)) = Size(c)
         /\ DeadIds(Erase(c, id)) = DeadIds(c) \cup {id}
         /\ LiveIds(Erase(c, id)) = LiveIds(c) \ {id}
         /\ id \notin DeadIds(c)
         /\ \A k \in Ids(c) : k # id => Erase(c, id).records[k + 1] = c.records[k + 1]
         /\ Erase(c, id).records[id + 1] = Dead(c.free)
         /\ Erase(c, id).free = id
<1> DEFINE e == Erase(c, id)
<1>1. /\ c.records \in Seq(Slots) /\ Size(c) \in Nat /\ id \in Ids(c) /\ c.free \in Nat
  BY DEF Containers, LiveIds, Size
<1>2. id + 1 \in 1 .. Len(c.records) /\ Dead(c.free) \in Slots
  BY <1>1 DEF Ids, Size, Dead, Slots
<1>3. /\ e.records \in Seq(Slots) /\ Len(e.records) = Len(c.records)
      /\ e.records[id + 1] = Dead(c.free)
      /\ \A k \in Ids(c) : k # id => e.records[k + 1] = c.records[k + 1]
  BY <1>1, <1>2 DEF Erase, Ids, Size
<1>4. e \in Containers /\ Size(e) = Size(c) /\ e.free = id
  BY <1>1, <1>3 DEF Erase, Containers, Size, Ids
<1>5. Ids(e) = Ids(c)
  BY <1>4 DEF Ids
<1>6. LiveIds(e) = LiveIds(c) \ {id}
  BY <1>3, <1>5 DEF LiveIds, Dead
<1>7. DeadIds(e) = DeadIds(c) \cup {id} /\ id \notin DeadIds(c)
  BY <1>1, <1>5, <1>6 DEF DeadIds
<1> QED BY <1>3, <1>4, <1>6, <1>7

LEMMA EraseKeepsFreeList ==
  ASSUME NEW c \in Containers, FreeListSound(c), NEW id \in LiveIds(c)
  PROVE  FreeListSound(Erase(c, id))
<1> DEFINE e == Erase(c, id)
           n == Cardinality(DeadIds(c))
<1>1. PICK chain : chain \in [1 .. n -> DeadIds(c)] /\ IsFreeChain(c, chain)
  BY DEF FreeListSound
<1>2. n \in Nat /\ Size(c) \in Nat
  BY DeadIdsFinite
<1>3. Cardinality(DeadIds(e)) = n + 1
  BY DeadIdsFinite, EraseEffect, FS_AddElement
<1> DEFINE new == [i \in 1 .. n + 1 |-> IF i = 1 THEN id ELSE chain[i - 1]]
<1> HIDE DEF e, n
<1>4. new \in [1 .. n + 1 -> DeadIds(e)]
  BY <1>1, <1>2, EraseEffect DEF e
<1>5. /\ \A i, j \in 1 .. n : chain[i] = chain[j] => i = j
      /\ \A k \in DeadIds(c) : \E i \in 1 .. n : chain[i] = k
      /\ c.free = IF n = 0 THEN Size(c) ELSE chain[1]
      /\ \A i \in 1 .. n : c.records[chain[i] + 1].next =
                             IF i = n THEN Size(c) ELSE chain[i + 1]
  BY <1>1 DEF IsFreeChain, n
<1>6. \A i, j \in 1 .. n + 1 : new[i] = new[j] => i = j
  <2> TAKE i \in 1 .. n + 1, j \in 1 .. n + 1
  <2>1. \A m \in 1 .. n + 1 : m # 1 => m - 1 \in 1 .. n /\ new[m] = chain[m - 1] /\ new[m] # id
    BY <1>1, <1>2, EraseEffect
  <2> QED BY <1>2, <1>5, <2>1
<1>7. \A k \in DeadIds(e) : \E i \in 1 .. n + 1 : new[i] = k
  <2> TAKE k \in DeadIds(e)
  <2>1. CASE k = id
    BY <2>1, <1>2
  <2>2. CASE k # id
    <3>1. k \in DeadIds(c)
      BY <2>2, EraseEffect DEF e
    <3>2. PICK i \in 1 .. n : chain[i] = k
      BY <1>5, <3>1
    <3>3. i + 1 \in 1 .. n + 1 /\ new[i + 1] = k
      BY <1>2, <3>2
    <3> QED BY <3>3
  <2> QED BY <2>1, <2>2
<1>8. e.free = new[1] /\ Size(e) = Size(c)
  BY <1>2, EraseEffect DEF e
<1>9. \A i \in 1 .. n + 1 : e.records[new[i] + 1].next =
                              IF i = n + 1 THEN Size(e) ELSE new[i + 1]
  <2> TAKE i \in 1 .. n + 1
  <2>1. CASE i = 1
    <3>1. new[1] = id
      BY <1>2
    <3>2. e.records[id + 1] = Dead(c.free)
      BY EraseEffect DEF e
    <3>3. e.records[id + 1].next = c.free
      BY <3>2 DEF Dead
    <3>4. n # 0 => new[2] = chain[1]
      BY <1>2
    <3> QED BY <2>1, <3>1, <3>3, <3>4, <1>2, <1>5, <1>8
  <2>2. CASE i # 1
    <3>1. i - 1 \in 1 .. n /\ new[i] = chain[i - 1] /\ new[i] \in DeadIds(c)
      BY <2>2, <1>1, <1>2
    <3>2. new[i] \in Ids(c) /\ new[i] # id
      BY <3>1, EraseEffect DEF DeadIds
    <3>3. e.records[new[i] + 1] = c.records[new[i] + 1]
      BY <3>2, EraseEffect DEF e
    <3>4. c.records[chain[i - 1] + 1].next = IF i - 1 = n THEN Size(c) ELSE chain[i]
      BY <3>1, <1>2, <1>5
    <3> QED BY <2>2, <3>1, <3>3, <3>4, <1>2, <1>8
  <2> QED BY <2>1, <2>2
<1>10. IsFreeChain(e, new)
  <2> HIDE DEF new
  <2> DEFINE m == n + 1
  <2>1. m = Cardinality(DeadIds(e)) /\ m # 0
    BY <1>2, <1>3 DEF e
  <2> HIDE DEF m
  <2>2. /\ new \in [1 .. m -> DeadIds(e)]
        /\ \A i, j \in 1 .. m : new[i] = new[j] => i = j
        /\ \A k \in DeadIds(e) : \E i \in 1 .. m : new[i] = k
        /\ e.free = IF m = 0 THEN Size(e) ELSE new[1]
        /\ \A i \in 1 .. m : e.records[new[i] + 1].next =
                               IF i = m THEN Size(e) ELSE new[i + 1]
    BY <1>4, <1>6, <1>7, <1>8, <1>9, <2>1 DEF m
  <2> QED BY <2>1, <2>2 DEF IsFreeChain
<1> QED BY <1>3, <1>4, <1>10 DEF FreeListSound, e

(* `free' is the size of the vector exactly when no slot is dead, and the  *)
(* index of a dead slot otherwise.                                         *)
LEMMA FreeHead ==
  ASSUME NEW c \in Containers, FreeListSound(c)
  PROVE  /\ DeadIds(c) = {} => c.free = Size(c)
         /\ DeadIds(c) # {} => c.free \in DeadIds(c) /\ c.free # Size(c)
<1> DEFINE n == Cardinality(DeadIds(c))
<1>1. PICK chain : chain \in [1 .. n -> DeadIds(c)] /\ IsFreeChain(c, chain)
  BY DEF FreeListSound
<1>2. n \in Nat /\ Size(c) \in Nat /\ (DeadIds(c) = {} <=> n = 0)
  BY DeadIdsFinite, FS_EmptySet
<1>3. c.free = IF n = 0 THEN Size(c) ELSE chain[1]
  BY <1>1 DEF IsFreeChain
<1>4. n # 0 => chain[1] \in DeadIds(c)
  BY <1>1, <1>2
<1>5. \A id \in DeadIds(c) : id # Size(c)
  BY <1>2 DEF DeadIds, Ids
<1> HIDE DEF n
<1> QED BY <1>2, <1>3, <1>4, <1>5

(* insert() binds the id it returns, which was not live, and leaves every  *)
(* other slot alone.                                                       *)
LEMMA InsertEffect ==
  ASSUME NEW c \in Containers, FreeListSound(c), NEW r \in Handles
  PROVE  /\ Insert(c, r) \in Containers
         /\ Size(Insert(c, r)) = IF DeadIds(c) = {} THEN Size(c) + 1 ELSE Size(c)
         /\ InsertId(c) \notin LiveIds(c)
         /\ LiveIds(Insert(c, r)) = LiveIds(c) \cup {InsertId(c)}
         /\ DeadIds(Insert(c, r)) = DeadIds(c) \ {InsertId(c)}
         /\ Insert(c, r).records[InsertId(c) + 1] = Live(r)
         /\ \A k \in Ids(c) : k # InsertId(c) => Insert(c, r).records[k + 1] = c.records[k + 1]
<1> DEFINE e == Insert(c, r)
<1>1. /\ c.records \in Seq(Slots) /\ Size(c) \in Nat /\ c.free \in Nat /\ Len(c.records) = Size(c)
  BY DEF Containers, Size
<1>2. Live(r) \in Slots /\ Live(r).index = 1
  BY DEF Live, Slots
<1>3. CASE DeadIds(c) = {}
  <2>1. c.free = Size(c)
    BY <1>3, FreeHead
  <2>2. e = [records |-> Append(c.records, Live(r)), free |-> c.free + 1]
    BY <2>1 DEF Insert
  <2>3. /\ e.records \in Seq(Slots) /\ Len(e.records) = Size(c) + 1
        /\ e.records[c.free + 1] = Live(r)
        /\ \A k \in Ids(c) : e.records[k + 1] = c.records[k + 1]
    BY <1>1, <1>2, <2>1, <2>2 DEF Ids
  <2>4. e \in Containers /\ Size(e) = Size(c) + 1 /\ Ids(e) = Ids(c) \cup {c.free} /\ c.free \notin Ids(c)
    BY <1>1, <2>1, <2>2, <2>3 DEF Containers, Size, Ids
  <2>5. LiveIds(e) = LiveIds(c) \cup {c.free}
    BY <1>2, <2>3, <2>4 DEF LiveIds
  <2>6. DeadIds(e) = {} /\ c.free \notin LiveIds(c)
    BY <1>3, <2>4, <2>5 DEF DeadIds, LiveIds
  <2> QED BY <1>3, <2>3, <2>4, <2>5, <2>6 DEF InsertId
<1>4. CASE DeadIds(c) # {}
  <2>1. c.free \in DeadIds(c) /\ c.free # Size(c) /\ c.free \in Ids(c) /\ c.free \notin LiveIds(c)
    BY <1>4, FreeHead DEF DeadIds
  <2>2. e = [records |-> [c.records EXCEPT ![c.free + 1] = Live(r)],
             free    |-> c.records[c.free + 1].next]
    BY <2>1 DEF Insert
  <2>3. c.records[c.free + 1].next \in Nat
    BY <2>1, SlotCases
  <2>4. c.free + 1 \in 1 .. Len(c.records)
    BY <1>1, <2>1 DEF Ids
  <2>5. /\ e.records \in Seq(Slots) /\ Len(e.records) = Size(c)
        /\ e.records[c.free + 1] = Live(r)
        /\ \A k \in Ids(c) : k # c.free => e.records[k + 1] = c.records[k + 1]
    BY <1>1, <1>2, <2>2, <2>4 DEF Ids
  <2>6. e \in Containers /\ Size(e) = Size(c) /\ Ids(e) = Ids(c)
    BY <1>1, <2>2, <2>3, <2>5 DEF Containers, Size, Ids
  <2>7. LiveIds(e) = LiveIds(c) \cup {c.free}
    BY <1>2, <2>1, <2>5, <2>6 DEF LiveIds
  <2>8. DeadIds(e) = DeadIds(c) \ {c.free}
    BY <2>1, <2>6, <2>7 DEF DeadIds
  <2> QED BY <1>4, <2>1, <2>5, <2>6, <2>7, <2>8 DEF InsertId
<1> QED BY <1>3, <1>4

LEMMA InsertKeepsFreeList ==
  ASSUME NEW c \in Containers, FreeListSound(c), NEW r \in Handles
  PROVE  FreeListSound(Insert(c, r))
<1> DEFINE e == Insert(c, r)
           n == Cardinality(DeadIds(c))
<1>1. PICK chain : chain \in [1 .. n -> DeadIds(c)] /\ IsFreeChain(c, chain)
  BY DEF FreeListSound
<1>2. n \in Nat /\ Size(c) \in Nat /\ (DeadIds(c) = {} <=> n = 0)
  BY DeadIdsFinite, FS_EmptySet
<1>3. /\ \A i, j \in 1 .. n : chain[i] = chain[j] => i = j
      /\ \A k \in DeadIds(c) : \E i \in 1 .. n : chain[i] = k
      /\ c.free = IF n = 0 THEN Size(c) ELSE chain[1]
      /\ \A i \in 1 .. n : c.records[chain[i] + 1].next =
                             IF i = n THEN Size(c) ELSE chain[i + 1]
  BY <1>1 DEF IsFreeChain
<1>4. Cardinality(DeadIds(e)) = IF n = 0 THEN 0 ELSE n - 1
  <2>1. CASE n = 0
    <3>1. DeadIds(e) = {}
      BY <2>1, <1>2, InsertEffect
    <3> QED BY <2>1, <3>1, FS_EmptySet
  <2>2. CASE n # 0
    <3>1. c.free \in DeadIds(c)
      BY <2>2, <1>2, FreeHead
    <3>2. Cardinality(DeadIds(c) \ {c.free}) = Cardinality(DeadIds(c)) - 1
      BY <3>1, DeadIdsFinite, FS_RemoveElement
    <3> QED BY <2>2, <3>2, InsertEffect DEF InsertId
  <2> QED BY <2>1, <2>2
<1>5. CASE n = 0
  <2>1. DeadIds(e) = {} /\ Cardinality(DeadIds(e)) = 0
    BY <1>2, <1>4, <1>5, InsertEffect
  <2>2. e.free = Size(e)
    <3>1. DeadIds(c) = {} /\ c.free = Size(c)
      BY <1>2, <1>5, FreeHead
    <3>2. e.free = c.free + 1
      BY <3>1 DEF Insert
    <3> QED BY <3>1, <3>2, InsertEffect
  <2> DEFINE none == [i \in 1 .. 0 |-> 0]
  <2>3. none \in [1 .. 0 -> DeadIds(e)]
    BY <2>1
  <2>4. IsFreeChain(e, none)
    BY <2>1, <2>2, <2>3 DEF IsFreeChain
  <2> QED BY <2>1, <2>3, <2>4 DEF FreeListSound
<1>6. CASE n # 0
  <2> DEFINE m == n - 1
             new == [i \in 1 .. m |-> chain[i + 1]]
  <2>1. m \in Nat /\ n = m + 1 /\ m = Cardinality(DeadIds(e))
    BY <1>2, <1>4, <1>6
  <2>2. /\ c.free = chain[1] /\ c.free \in DeadIds(c)
        /\ DeadIds(e) = DeadIds(c) \ {c.free} /\ Size(e) = Size(c)
        /\ \A k \in Ids(c) : k # c.free => e.records[k + 1] = c.records[k + 1]
    BY <1>2, <1>3, <1>6, FreeHead, InsertEffect DEF InsertId
  <2>3. e.free = c.records[chain[1] + 1].next
    <3>1. c.free # Size(c)
      BY <1>2, <1>6, FreeHead
    <3> QED BY <2>2, <3>1 DEF Insert
  <2> HIDE DEF e, n, m
  <2>4. \A i \in 1 .. m : /\ i + 1 \in 1 .. n /\ new[i] = chain[i + 1]
                          /\ new[i] \in DeadIds(c) /\ new[i] # c.free
    <3> TAKE i \in 1 .. m
    <3>1. i \in Int /\ 1 \in 1 .. n /\ i + 1 \in 1 .. n /\ i + 1 # 1
      BY <2>1
    <3>2. new[i] = chain[i + 1]
      OBVIOUS
    <3>3. chain[i + 1] \in DeadIds(c)
      BY <1>1, <3>1
    <3>4. chain[i + 1] # chain[1]
      BY <1>3, <3>1
    <3> QED BY <2>2, <3>1, <3>2, <3>3, <3>4
  <2>5. new \in [1 .. m -> DeadIds(e)]
    BY <2>2, <2>4
  <2>6. \A i, j \in 1 .. m : new[i] = new[j] => i = j
    BY <1>3, <2>1, <2>4
  <2>7. \A k \in DeadIds(e) : \E i \in 1 .. m : new[i] = k
    <3> TAKE k \in DeadIds(e)
    <3>1. PICK i \in 1 .. n : chain[i] = k
      BY <1>3, <2>2
    <3>2. i # 1
      BY <2>2, <3>1
    <3>3. i - 1 \in 1 .. m /\ new[i - 1] = k
      BY <2>1, <3>1, <3>2
    <3> QED BY <3>3
  <2>8. e.free = IF m = 0 THEN Size(e) ELSE new[1]
    <3>1. c.records[chain[1] + 1].next = IF 1 = n THEN Size(c) ELSE chain[2]
      BY <1>3, <2>1
    <3>2. m # 0 => new[1] = chain[2]
      BY <2>1
    <3> QED BY <2>1, <2>2, <2>3, <3>1, <3>2
  <2>9. \A i \in 1 .. m : e.records[new[i] + 1].next =
                            IF i = m THEN Size(e) ELSE new[i + 1]
    <3> TAKE i \in 1 .. m
    <3>1. e.records[new[i] + 1] = c.records[chain[i + 1] + 1]
      BY <2>2, <2>4 DEF DeadIds
    <3>2. c.records[chain[i + 1] + 1].next = IF i + 1 = n THEN Size(c) ELSE chain[i + 2]
      BY <1>3, <2>1, <2>4
    <3>3. i # m => new[i + 1] = chain[i + 2]
      BY <2>1
    <3> QED BY <2>1, <2>2, <3>1, <3>2, <3>3
  <2> HIDE DEF new
  <2>10. IsFreeChain(e, new)
    BY <2>1, <2>5, <2>6, <2>7, <2>8, <2>9 DEF IsFreeChain
  <2> QED BY <2>1, <2>5, <2>10 DEF FreeListSound, e
<1> QED BY <1>5, <1>6

------------------------------------------------------------------------------
(* Lists *)

NoDuplicates(list) == \A i, j \in 1 .. Len(list) : list[i] = list[j] => i = j

(* A nonempty set of naturals has a least element: the intervals 0 .. m    *)
(* for its elements m are finite sets, and strict inclusion of finite sets *)
(* is well-founded.                                                        *)
LEMMA LeastElement ==
  ASSUME NEW C \in SUBSET Nat, C # {}
  PROVE  \E i \in C : \A m \in C : i <= m
<1> DEFINE T == {0 .. m : m \in C}
           R == StrictSubsetOrdering(Nat)
<1>1. T \subseteq FiniteSubsetsOf(Nat)
  <2>1. \A m \in C : 0 .. m \in SUBSET Nat /\ IsFiniteSet(0 .. m)
    BY FS_Interval
  <2> QED BY <2>1 DEF FiniteSubsetsOf
<1>2. T # {}
  OBVIOUS
<1>3. IsWellFoundedOn(R, FiniteSubsetsOf(Nat))
  BY FS_StrictSubsetOrderingWellFounded
<1>4. PICK x \in T : \A y \in T : ~(<<y, x>> \in R)
  <2> HIDE DEF T, R
  <2> QED BY <1>1, <1>2, <1>3, WFMin
<1>5. PICK i \in C : x = 0 .. i
  OBVIOUS
<1>6. ASSUME NEW m \in C, m < i PROVE FALSE
  <2>1. <<0 .. m, 0 .. i>> \in R
    BY <1>5, <1>6 DEF StrictSubsetOrdering
  <2> QED BY <1>4, <1>5, <2>1
<1> QED BY <1>6

(* The loop of insert() stops somewhere on the list or at its end, and     *)
(* everything before that place compares less than the new node.           *)
LEMMA InsertPositionExists ==
  ASSUME NEW S, NEW list \in Seq(S), NEW value \in [S -> Int], NEW node \in S
  PROVE  /\ InsertPosition(list, value, node) \in 1 .. Len(list) + 1
         /\ \A j \in 1 .. InsertPosition(list, value, node) - 1 : value[list[j]] < value[node]
         /\ InsertPosition(list, value, node) <= Len(list) =>
              ~(value[list[InsertPosition(list, value, node)]] < value[node])
<1> DEFINE Stops(k) == k <= Len(list) => ~(value[list[k]] < value[node])
           C == {k \in 1 .. Len(list) + 1 : Stops(k)}
<1>1. Len(list) \in Nat
  OBVIOUS
<1>2. C \in SUBSET Nat /\ C # {}
  <2>1. Len(list) + 1 \in C
    BY <1>1
  <2> QED BY <1>1, <2>1
<1>3. PICK i \in C : \A m \in C : i <= m
  <2> HIDE DEF C
  <2> QED BY <1>2, LeastElement
<1>4. i \in 1 .. Len(list) + 1 /\ Stops(i)
  BY <1>3
<1>5. \A j \in 1 .. i - 1 : value[list[j]] < value[node]
  <2> TAKE j \in 1 .. i - 1
  <2>1. j \in 1 .. Len(list) /\ j \in 1 .. Len(list) + 1 /\ ~(i <= j)
    BY <1>1, <1>4
  <2>2. j \notin C
    BY <1>3, <2>1
  <2> QED BY <2>1, <2>2
<1>6. \E k \in 1 .. Len(list) + 1 :
         /\ \A j \in 1 .. k - 1 : value[list[j]] < value[node]
         /\ k <= Len(list) => ~(value[list[k]] < value[node])
  BY <1>4, <1>5
<1> QED BY <1>6 DEF InsertPosition

(* A sequence with one element put in at position p. *)
LEMMA PutAt ==
  ASSUME NEW S, NEW list \in Seq(S), NEW p \in 1 .. Len(list) + 1, NEW node \in S, NEW new,
         new = [k \in 1 .. Len(list) + 1 |->
                  IF k < p THEN list[k] ELSE IF k = p THEN node ELSE list[k - 1]]
  PROVE  /\ new \in Seq(S) /\ Len(new) = Len(list) + 1 /\ Len(list) \in Nat
         /\ \A k \in 1 .. Len(list) : k < p => new[k] = list[k]
         /\ new[p] = node
         /\ \A k \in 1 .. Len(list) : p <= k => new[k + 1] = list[k]
<1>1. new \in Seq(S) /\ Len(new) = Len(list) + 1 /\ Len(list) \in Nat
  OBVIOUS
<1>2. \A k \in 1 .. Len(list) + 1 :
         new[k] = IF k < p THEN list[k] ELSE IF k = p THEN node ELSE list[k - 1]
  OBVIOUS
<1>3. \A k \in 1 .. Len(list) : k < p => new[k] = list[k]
  BY <1>1, <1>2
<1>4. new[p] = node
  BY <1>1, <1>2
<1>5. ASSUME NEW k \in 1 .. Len(list), p <= k PROVE new[k + 1] = list[k]
  <2>1. k + 1 \in 1 .. Len(list) + 1 /\ ~(k + 1 < p) /\ ~(k + 1 = p) /\ (k + 1) - 1 = k
    BY <1>1, <1>5
  <2>2. new[k + 1] = list[(k + 1) - 1]
    BY <1>2, <2>1
  <2> QED BY <2>1, <2>2
<1> QED BY <1>1, <1>3, <1>4, <1>5

(* Every position of the longer sequence comes from one of the three. *)
LEMMA PutAtCases ==
  ASSUME NEW n \in Nat, NEW p \in 1 .. n + 1, NEW k \in 1 .. n + 1
  PROVE  \/ k \in 1 .. n /\ k < p
         \/ k = p
         \/ k - 1 \in 1 .. n /\ p <= k - 1 /\ (k - 1) + 1 = k
OBVIOUS

(* insert() adds the node and loses nothing. *)
LEMMA InsertTimerEffect ==
  ASSUME NEW S, NEW list \in Seq(S), NEW value \in [S -> Int], NEW node \in S,
         NoDuplicates(list), ~OnList(list, node)
  PROVE  /\ InsertTimer(list, value, node) \in Seq(S)
         /\ NoDuplicates(InsertTimer(list, value, node))
         /\ \A o : OnList(InsertTimer(list, value, node), o) <=> OnList(list, o) \/ o = node
<1>1. PICK p : p = InsertPosition(list, value, node)
  OBVIOUS
<1>2. PICK new : new = InsertTimer(list, value, node)
  OBVIOUS
<1>3. p \in 1 .. Len(list) + 1
  BY <1>1, InsertPositionExists
<1>4. new = [k \in 1 .. Len(list) + 1 |->
               IF k < p THEN list[k] ELSE IF k = p THEN node ELSE list[k - 1]]
  BY <1>1, <1>2 DEF InsertTimer
<1>5. /\ new \in Seq(S) /\ Len(new) = Len(list) + 1 /\ Len(list) \in Nat
      /\ \A k \in 1 .. Len(list) : k < p => new[k] = list[k]
      /\ new[p] = node
      /\ \A k \in 1 .. Len(list) : p <= k => new[k + 1] = list[k]
  BY <1>3, <1>4, PutAt
<1>6. \A k \in 1 .. Len(new) : \/ k \in 1 .. Len(list) /\ k < p /\ new[k] = list[k]
                               \/ k = p /\ new[k] = node
                               \/ k - 1 \in 1 .. Len(list) /\ p <= k - 1 /\ new[k] = list[k - 1]
  <2> TAKE k \in 1 .. Len(new)
  <2>1. k \in 1 .. Len(list) + 1
    BY <1>5
  <2>2. CASE k \in 1 .. Len(list) /\ k < p
    BY <1>5, <2>2
  <2>3. CASE k = p
    BY <1>5, <2>3
  <2>4. CASE k - 1 \in 1 .. Len(list) /\ p <= k - 1 /\ (k - 1) + 1 = k
    <3>1. new[(k - 1) + 1] = list[k - 1]
      BY <1>5, <2>4
    <3> QED BY <2>4, <3>1
  <2> QED BY <1>3, <1>5, <2>1, <2>2, <2>3, <2>4, PutAtCases
<1>7. NoDuplicates(new)
  <2> SUFFICES ASSUME NEW i \in 1 .. Len(new), NEW j \in 1 .. Len(new), new[i] = new[j]
               PROVE  i = j
    BY DEF NoDuplicates
  <2>1. \A k \in 1 .. Len(list) : list[k] # node
    BY DEF OnList
  <2>2. \A k, m \in 1 .. Len(list) : list[k] = list[m] => k = m
    BY DEF NoDuplicates
  <2>3. i \in Int /\ j \in Int /\ p \in Int
    BY <1>3, <1>5
  <2>4. CASE i \in 1 .. Len(list) /\ i < p /\ new[i] = list[i]
    <3>1. CASE j \in 1 .. Len(list) /\ j < p /\ new[j] = list[j]
      BY <2>2, <2>4, <3>1
    <3>2. CASE j = p /\ new[j] = node
      BY <2>1, <2>4, <3>2
    <3>3. CASE j - 1 \in 1 .. Len(list) /\ p <= j - 1 /\ new[j] = list[j - 1]
      <4>1. i = j - 1
        BY <2>2, <2>4, <3>3
      <4> QED BY <2>3, <2>4, <3>3, <4>1
    <3> QED BY <1>6, <3>1, <3>2, <3>3
  <2>5. CASE i = p /\ new[i] = node
    <3>1. CASE j \in 1 .. Len(list) /\ j < p /\ new[j] = list[j]
      BY <2>1, <2>5, <3>1
    <3>2. CASE j = p /\ new[j] = node
      BY <2>5, <3>2
    <3>3. CASE j - 1 \in 1 .. Len(list) /\ p <= j - 1 /\ new[j] = list[j - 1]
      BY <2>1, <2>5, <3>3
    <3> QED BY <1>6, <3>1, <3>2, <3>3
  <2>6. CASE i - 1 \in 1 .. Len(list) /\ p <= i - 1 /\ new[i] = list[i - 1]
    <3>1. CASE j \in 1 .. Len(list) /\ j < p /\ new[j] = list[j]
      <4>1. j = i - 1
        BY <2>2, <2>6, <3>1
      <4> QED BY <2>3, <2>6, <3>1, <4>1
    <3>2. CASE j = p /\ new[j] = node
      BY <2>1, <2>6, <3>2
    <3>3. CASE j - 1 \in 1 .. Len(list) /\ p <= j - 1 /\ new[j] = list[j - 1]
      <4>1. i - 1 = j - 1
        BY <2>2, <2>6, <3>3
      <4> QED BY <2>3, <4>1
    <3> QED BY <1>6, <3>1, <3>2, <3>3
  <2> QED BY <1>6, <2>4, <2>5, <2>6
<1>8. ASSUME NEW o, OnList(new, o) PROVE OnList(list, o) \/ o = node
  BY <1>6, <1>8 DEF OnList
<1>9. ASSUME NEW o, OnList(list, o) PROVE OnList(new, o)
  <2>1. PICK k \in 1 .. Len(list) : list[k] = o
    BY <1>9 DEF OnList
  <2>2. CASE k < p
    <3>1. k \in 1 .. Len(new) /\ new[k] = o
      BY <1>5, <2>1, <2>2
    <3> QED BY <3>1 DEF OnList
  <2>3. CASE p <= k
    <3>1. k + 1 \in 1 .. Len(new) /\ new[k + 1] = o
      BY <1>5, <2>1, <2>3
    <3> QED BY <3>1 DEF OnList
  <2> QED BY <1>3, <2>2, <2>3
<1>10. OnList(new, node)
  <2>1. p \in 1 .. Len(new)
    BY <1>3, <1>5
  <2> QED BY <1>5, <2>1 DEF OnList
<1> QED BY <1>2, <1>5, <1>7, <1>8, <1>9, <1>10

(* insert() keeps an ordered list ordered. *)
LEMMA InsertTimerOrdered ==
  ASSUME NEW S, NEW list \in Seq(S), NEW value \in [S -> Int], NEW node \in S,
         Ordered(list, value)
  PROVE  Ordered(InsertTimer(list, value, node), value)
<1>1. PICK p : p = InsertPosition(list, value, node)
  OBVIOUS
<1>2. PICK new : new = InsertTimer(list, value, node)
  OBVIOUS
<1>3. /\ p \in 1 .. Len(list) + 1
      /\ \A j \in 1 .. p - 1 : value[list[j]] < value[node]
      /\ p <= Len(list) => ~(value[list[p]] < value[node])
  BY <1>1, InsertPositionExists
<1>4. new = [k \in 1 .. Len(list) + 1 |->
               IF k < p THEN list[k] ELSE IF k = p THEN node ELSE list[k - 1]]
  BY <1>1, <1>2 DEF InsertTimer
<1>5. /\ new \in Seq(S) /\ Len(new) = Len(list) + 1 /\ Len(list) \in Nat
      /\ \A k \in 1 .. Len(list) : k < p => new[k] = list[k]
      /\ new[p] = node
      /\ \A k \in 1 .. Len(list) : p <= k => new[k + 1] = list[k]
  BY <1>3, <1>4, PutAt
<1>6. /\ value[node] \in Int
      /\ \A k \in 1 .. Len(list) : value[list[k]] \in Int
      /\ \A k, m \in 1 .. Len(list) : k < m => value[list[k]] <= value[list[m]]
  BY DEF Ordered
<1>7. \A k \in 1 .. Len(list) : k < p => value[list[k]] <= value[node]
  BY <1>3, <1>5, <1>6
<1>8. \A k \in 1 .. Len(list) : p <= k => value[node] <= value[list[k]]
  <2> TAKE k \in 1 .. Len(list)
  <2> HAVE p <= k
  <2>0. p \in 1 .. Len(list) /\ p <= Len(list)
    BY <1>3, <1>5
  <2>1. value[node] <= value[list[p]]
    <3>1. ~(value[list[p]] < value[node]) /\ value[list[p]] \in Int /\ value[node] \in Int
      BY <1>3, <1>6, <2>0
    <3> QED BY <3>1
  <2>2. value[list[p]] <= value[list[k]]
    <3>1. CASE p = k
      BY <1>6, <3>1
    <3>2. CASE p < k
      BY <1>6, <2>0, <3>2
    <3> QED BY <2>0, <3>1, <3>2
  <2>3. value[node] \in Int /\ value[list[p]] \in Int /\ value[list[k]] \in Int
    BY <1>6, <2>0
  <2> QED BY <2>1, <2>2, <2>3
<1> SUFFICES ASSUME NEW i \in 1 .. Len(new), NEW j \in 1 .. Len(new), i < j
             PROVE  value[new[i]] <= value[new[j]]
  BY <1>2 DEF Ordered
<1>9. i \in 1 .. Len(list) + 1 /\ j \in 1 .. Len(list) + 1
  BY <1>5
<1>10. CASE j \in 1 .. Len(list) /\ j < p
  <2>1. i \in 1 .. Len(list) /\ i < p
    BY <1>3, <1>10
  <2> QED BY <1>5, <1>6, <1>10, <2>1
<1>11. CASE j = p
  <2>1. i \in 1 .. Len(list) /\ i < p
    BY <1>3, <1>5, <1>9, <1>11
  <2> QED BY <1>5, <1>7, <1>11, <2>1
<1>12. CASE j - 1 \in 1 .. Len(list) /\ p <= j - 1 /\ (j - 1) + 1 = j
  <2>1. new[j] = list[j - 1]
    <3>1. new[(j - 1) + 1] = list[j - 1]
      BY <1>5, <1>12
    <3> QED BY <1>12, <3>1
  <2>2. CASE i \in 1 .. Len(list) /\ i < p
    <3>0. new[i] = list[i]
      BY <1>5, <2>2
    <3>1. i < j - 1
      BY <1>3, <1>5, <1>9, <1>12, <2>2
    <3> QED BY <1>6, <1>12, <2>1, <2>2, <3>0, <3>1
  <2>3. CASE i = p
    BY <1>5, <1>8, <1>12, <2>1, <2>3
  <2>4. CASE i - 1 \in 1 .. Len(list) /\ p <= i - 1 /\ (i - 1) + 1 = i
    <3>1. new[(i - 1) + 1] = list[i - 1]
      BY <1>5, <2>4
    <3>2. i - 1 < j - 1
      BY <1>9
    <3> QED BY <1>6, <1>12, <2>1, <2>4, <3>1, <3>2
  <2> QED BY SMTT(30), <1>3, <1>5, <1>9, <2>2, <2>3, <2>4, PutAtCases
<1> QED BY <1>3, <1>5, <1>9, <1>10, <1>11, <1>12, PutAtCases

(* erase() takes the node away, wherever it is, and nothing else. *)
LEMMA EraseTimerEffect ==
  ASSUME NEW S, NEW list \in Seq(S), NEW value \in [S -> Int], NEW node \in S,
         NoDuplicates(list), OnList(list, node)
  PROVE  /\ EraseTimer(list, node) \in Seq(S)
         /\ NoDuplicates(EraseTimer(list, node))
         /\ \A o : OnList(EraseTimer(list, node), o) <=> OnList(list, o) /\ o # node
         /\ Ordered(list, value) => Ordered(EraseTimer(list, node), value)
<1>1. PICK p : p = CHOOSE i \in 1 .. Len(list) : list[i] = node
  OBVIOUS
<1>2. PICK new : new = EraseTimer(list, node)
  OBVIOUS
<1>3. p \in 1 .. Len(list) /\ list[p] = node
  BY <1>1 DEF OnList
<1>4. new = [k \in 1 .. Len(list) - 1 |-> IF k < p THEN list[k] ELSE list[k + 1]]
  BY <1>1, <1>2 DEF EraseTimer
<1>5. Len(list) \in Nat /\ Len(list) - 1 \in Nat /\ p \in Int /\ p <= Len(list)
  BY <1>3
<1>6. new \in Seq(S) /\ Len(new) = Len(list) - 1
  <2>1. \A k \in 1 .. Len(list) - 1 : k \in 1 .. Len(list) /\ k + 1 \in 1 .. Len(list)
    BY <1>5
  <2>2. \A k \in 1 .. Len(list) - 1 : list[k] \in S /\ list[k + 1] \in S
    BY <2>1
  <2> QED BY <1>4, <1>5, <2>2
<1>7. \A k \in 1 .. Len(new) :
         /\ k \in 1 .. Len(list) /\ k + 1 \in 1 .. Len(list)
         /\ k < p => new[k] = list[k]
         /\ ~(k < p) => new[k] = list[k + 1]
  BY <1>4, <1>5, <1>6
<1>8. \A k, m \in 1 .. Len(list) : list[k] = list[m] => k = m
  BY DEF NoDuplicates
<1>9. NoDuplicates(new)
  <2> SUFFICES ASSUME NEW i \in 1 .. Len(new), NEW j \in 1 .. Len(new), new[i] = new[j]
               PROVE  i = j
    BY DEF NoDuplicates
  <2>1. CASE i < p /\ j < p
    BY <1>7, <1>8, <2>1
  <2>2. CASE i < p /\ ~(j < p)
    <3>1. i = j + 1
      BY <1>7, <1>8, <2>2
    <3> QED BY <1>5, <2>2, <3>1
  <2>3. CASE ~(i < p) /\ j < p
    <3>1. i + 1 = j
      BY <1>7, <1>8, <2>3
    <3> QED BY <1>5, <2>3, <3>1
  <2>4. CASE ~(i < p) /\ ~(j < p)
    <3>1. i + 1 = j + 1
      BY <1>7, <1>8, <2>4
    <3> QED BY <3>1
  <2> QED BY <2>1, <2>2, <2>3, <2>4
<1>10. ASSUME NEW o, OnList(new, o) PROVE OnList(list, o) /\ o # node
  <2>1. PICK k \in 1 .. Len(new) : new[k] = o
    BY <1>10 DEF OnList
  <2>2. CASE k < p
    <3>1. o = list[k] /\ k # p
      BY <1>5, <1>7, <2>1, <2>2
    <3> QED BY <1>3, <1>7, <1>8, <3>1 DEF OnList
  <2>3. CASE ~(k < p)
    <3>1. o = list[k + 1] /\ k + 1 # p
      BY <1>5, <1>7, <2>1, <2>3
    <3> QED BY <1>3, <1>7, <1>8, <3>1 DEF OnList
  <2> QED BY <2>2, <2>3
<1>11. ASSUME NEW o, OnList(list, o), o # node PROVE OnList(new, o)
  <2>1. PICK k \in 1 .. Len(list) : list[k] = o
    BY <1>11 DEF OnList
  <2>2. k # p
    BY <1>3, <1>11, <2>1
  <2>3. CASE k < p
    <3>1. k \in 1 .. Len(new) /\ new[k] = o
      BY SMTT(30), <1>5, <1>6, <1>7, <2>1, <2>3
    <3> QED BY <3>1 DEF OnList
  <2>4. CASE p < k
    <3>1. k - 1 \in 1 .. Len(new) /\ ~(k - 1 < p) /\ (k - 1) + 1 = k
      BY <1>3, <1>5, <1>6, <2>4
    <3>2. new[k - 1] = o
      BY <1>7, <2>1, <3>1
    <3> QED BY <3>1, <3>2 DEF OnList
  <2> QED BY <1>5, <2>2, <2>3, <2>4
<1>12. ASSUME Ordered(list, value) PROVE Ordered(new, value)
  <2> SUFFICES ASSUME NEW i \in 1 .. Len(new), NEW j \in 1 .. Len(new), i < j
               PROVE  value[new[i]] <= value[new[j]]
    BY DEF Ordered
  <2>1. \A k, m \in 1 .. Len(list) : k < m => value[list[k]] <= value[list[m]]
    BY <1>12 DEF Ordered
  <2>2. CASE j < p
    <3>1. i < p
      BY <1>5, <2>2
    <3> QED BY <1>7, <2>1, <2>2, <3>1
  <2>3. CASE i < p /\ ~(j < p)
    <3>1. i < j + 1
      OBVIOUS
    <3> QED BY <1>7, <2>1, <2>3, <3>1
  <2>4. CASE ~(i < p) /\ ~(j < p)
    <3>1. i + 1 < j + 1
      OBVIOUS
    <3> QED BY <1>7, <2>1, <2>4, <3>1
  <2> QED BY <1>5, <2>2, <2>3, <2>4
<1> QED BY <1>2, <1>6, <1>9, <1>10, <1>11, <1>12

(* pop_front(), and popping the stack of tasks. *)
LEMMA TailEffect ==
  ASSUME NEW S, NEW list \in Seq(S), list # << >>, NoDuplicates(list)
  PROVE  /\ list[1] \in S /\ OnList(list, list[1])
         /\ Tail(list) \in Seq(S)
         /\ NoDuplicates(Tail(list))
         /\ \A o : OnList(Tail(list), o) <=> OnList(list, o) /\ o # list[1]
         /\ \A value : Ordered(list, value) => Ordered(Tail(list), value)
<1>1. Len(list) \in Nat /\ Len(list) # 0 /\ 1 \in 1 .. Len(list)
  OBVIOUS
<1>2. Tail(list) \in Seq(S) /\ Len(Tail(list)) = Len(list) - 1
  OBVIOUS
<1>3. PICK new : new = Tail(list)
  OBVIOUS
<1>4. \A k \in 1 .. Len(new) : k + 1 \in 1 .. Len(list) /\ new[k] = list[k + 1] /\ k + 1 # 1
  BY <1>1, <1>2, <1>3
<1>5. \A k, m \in 1 .. Len(list) : list[k] = list[m] => k = m
  BY DEF NoDuplicates
<1>6. NoDuplicates(new)
  <2> SUFFICES ASSUME NEW i \in 1 .. Len(new), NEW j \in 1 .. Len(new), new[i] = new[j]
               PROVE  i = j
    BY DEF NoDuplicates
  <2>1. i + 1 = j + 1
    BY <1>4, <1>5
  <2> QED BY <2>1
<1>7. ASSUME NEW o, OnList(new, o) PROVE OnList(list, o) /\ o # list[1]
  BY <1>1, <1>4, <1>5, <1>7 DEF OnList
<1>8. ASSUME NEW o, OnList(list, o), o # list[1] PROVE OnList(new, o)
  <2>1. PICK k \in 1 .. Len(list) : list[k] = o
    BY <1>8 DEF OnList
  <2>2. k - 1 \in 1 .. Len(new) /\ (k - 1) + 1 = k
    BY <1>1, <1>2, <1>3, <1>8, <2>1
  <2>3. new[k - 1] = o
    BY <1>4, <2>1, <2>2
  <2> QED BY <2>2, <2>3 DEF OnList
<1>9. ASSUME NEW value, Ordered(list, value) PROVE Ordered(new, value)
  <2> SUFFICES ASSUME NEW i \in 1 .. Len(new), NEW j \in 1 .. Len(new), i < j
               PROVE  value[new[i]] <= value[new[j]]
    BY DEF Ordered
  <2>1. i + 1 < j + 1
    OBVIOUS
  <2> QED BY <1>4, <1>9, <2>1 DEF Ordered
<1>10. list[1] \in S /\ OnList(list, list[1])
  BY <1>1 DEF OnList
<1> QED BY <1>2, <1>3, <1>6, <1>7, <1>8, <1>9, <1>10

(* emplace_back() *)
LEMMA AppendEffect ==
  ASSUME NEW S, NEW list \in Seq(S), NEW node \in S, NoDuplicates(list), ~OnList(list, node)
  PROVE  /\ Append(list, node) \in Seq(S)
         /\ NoDuplicates(Append(list, node))
         /\ \A o : OnList(Append(list, node), o) <=> OnList(list, o) \/ o = node
<1>1. PICK new : new = Append(list, node)
  OBVIOUS
<1>2. /\ Len(list) \in Nat /\ new \in Seq(S) /\ Len(new) = Len(list) + 1
      /\ Len(list) + 1 \in 1 .. Len(new)
      /\ new[Len(list) + 1] = node
      /\ \A k \in 1 .. Len(list) : k \in 1 .. Len(new) /\ new[k] = list[k]
  BY <1>1
<1>3. \A k \in 1 .. Len(new) : k \in 1 .. Len(list) \/ k = Len(list) + 1
  BY <1>2
<1>4. \A k \in 1 .. Len(list) : list[k] # node
  BY DEF OnList
<1>5. NoDuplicates(new)
  <2> SUFFICES ASSUME NEW i \in 1 .. Len(new), NEW j \in 1 .. Len(new), new[i] = new[j]
               PROVE  i = j
    BY DEF NoDuplicates
  <2> QED BY <1>2, <1>3, <1>4 DEF NoDuplicates
<1>6. \A o : OnList(new, o) <=> OnList(list, o) \/ o = node
  BY <1>2, <1>3 DEF OnList
<1> QED BY <1>1, <1>2, <1>5, <1>6

(* Pushing on the stack of tasks. *)
LEMMA PushEffect ==
  ASSUME NEW S, NEW list \in Seq(S), NEW node \in S, NoDuplicates(list), ~OnList(list, node)
  PROVE  /\ <<node>> \o list \in Seq(S)
         /\ NoDuplicates(<<node>> \o list)
         /\ \A o : OnList(<<node>> \o list, o) <=> OnList(list, o) \/ o = node
<1>1. PICK new : new = <<node>> \o list
  OBVIOUS
<1>2. Len(list) \in Nat /\ new \in Seq(S) /\ Len(new) = Len(list) + 1
  BY <1>1
<1>3. 1 \in 1 .. Len(new) /\ new[1] = node
  BY <1>1, <1>2
<1>4. \A k \in 1 .. Len(list) : k + 1 \in 1 .. Len(new) /\ new[k + 1] = list[k]
  BY <1>1, <1>2
<1>5. \A k \in 1 .. Len(new) : k = 1 \/ (k - 1 \in 1 .. Len(list) /\ (k - 1) + 1 = k)
  BY <1>2
<1>6. \A k \in 1 .. Len(new) : \/ k = 1 /\ new[k] = node
                               \/ k - 1 \in 1 .. Len(list) /\ new[k] = list[k - 1]
  BY <1>3, <1>4, <1>5
<1>7. \A k \in 1 .. Len(list) : list[k] # node
  BY DEF OnList
<1>8. NoDuplicates(new)
  <2> SUFFICES ASSUME NEW i \in 1 .. Len(new), NEW j \in 1 .. Len(new), new[i] = new[j]
               PROVE  i = j
    BY DEF NoDuplicates
  <2>1. CASE i = 1
    BY <1>3, <1>6, <1>7, <2>1
  <2>2. CASE i - 1 \in 1 .. Len(list) /\ new[i] = list[i - 1]
    <3>1. CASE j = 1
      BY <1>3, <1>7, <2>2, <3>1
    <3>2. CASE j - 1 \in 1 .. Len(list) /\ new[j] = list[j - 1]
      <4>1. i - 1 = j - 1
        BY <2>2, <3>2 DEF NoDuplicates
      <4> QED BY <4>1
    <3> QED BY <1>6, <3>1, <3>2
  <2> QED BY <1>6, <2>1, <2>2
<1>9. \A o : OnList(new, o) => OnList(list, o) \/ o = node
  BY <1>6 DEF OnList
<1>10. \A o : OnList(list, o) \/ o = node => OnList(new, o)
  BY <1>3, <1>4 DEF OnList
<1> QED BY <1>1, <1>2, <1>8, <1>9, <1>10

(* Counting the elements of a set that has at most one. *)
LEMMA CountAtMostOne ==
  ASSUME NEW S, \A i, j \in S : i = j
  PROVE  Cardinality(S) = IF S = {} THEN 0 ELSE 1
<1>1. CASE S = {}
  BY <1>1, FS_EmptySet
<1>2. CASE S # {}
  <2>1. PICK i : S = {i}
    BY <1>2
  <2> QED BY <1>2, <2>1, FS_Singleton
<1> QED BY <1>1, <1>2

==============================================================================
