--------------------------- MODULE WhenAnyProofs ---------------------------
(* when_any delivers the first completion, once, when no child is left: for  *)
(* every number of children and every order in which their threads run.      *)
EXTENDS WhenAny, FiniteSetTheorems, TLAPS

ArrivedSet == {i \in Children : at[i] \in Arrived}

(* The children are started in order and only a started one is anywhere.     *)
IdleOnes == \A i \in Children : at[i] = "idle" <=> i >= next

(* done_count tells whether there is a first one; it alone stops and stores. *)
FirstOne ==
  /\ first = None <=> done_count = 0
  /\ first = None => \A i \in Children : at[i] \notin Completed
  /\ first # None => /\ at[first[1]] \in Completed
                     /\ got[first[1]] = first[2]
  /\ \A i \in Children : at[i] \in {"stop", "store"} => first # None /\ i = first[1]
  /\ \A i \in Children : at[i] = "store" => got[i] # "stopped"
  /\ \A i \in Children : at[i] \in Completed => got[i] \in Signals

(* The others are asked to stop when the first one has got past that step.   *)
StopAsked == source <=> (first # None /\ at[first[1]] # "stop")

(* What is stored is what the first one brought, once it has stored it.      *)
Stored ==
  IF first # None /\ at[first[1]] \in {"ready"} \union Arrived
  THEN /\ value = IF first[2] = "value" THEN first[1] ELSE None
       /\ error = IF first[2] = "error" THEN first[1] ELSE None
  ELSE value = None /\ error = None

(* ready_count counts the arrivals; the last to arrive sees all the others.  *)
Arrivals ==
  /\ ready_count = Cardinality(ArrivedSet)
  /\ \A i, j \in Children : at[i] = "notify" => at[j] \in Arrived /\ (j # i => at[j] = "gone")
  /\ outcome # None => \A i \in Children : at[i] = "gone"

IInv == TypeOK /\ IdleOnes /\ FirstOne /\ StopAsked /\ Stored /\ Arrivals

LEMMA ArrivedFinite == ArrivedSet \subseteq Children /\ IsFiniteSet(ArrivedSet) /\ Cardinality(Children) = N
  <1>1. IsFiniteSet(Children) /\ Cardinality(Children) = N
    BY FS_Interval, ChildrenAssumption DEF Children
  <1>2. ArrivedSet \subseteq Children
    BY DEF ArrivedSet
  <1>3. IsFiniteSet(ArrivedSet)
    BY <1>1, <1>2, FS_Subset
  <1> QED BY <1>1, <1>2, <1>3

(* One more arrival is one more in the count; the N-th completes the set.    *)
LEMMA OneMoreArrives ==
  ASSUME NEW i \in Children, i \notin ArrivedSet, ready_count = Cardinality(ArrivedSet)
  PROVE  /\ ready_count + 1 = Cardinality(ArrivedSet \union {i})
         /\ ready_count + 1 = N => ArrivedSet \union {i} = Children
  <1>1. Cardinality(ArrivedSet \union {i}) = ready_count + 1
    BY ArrivedFinite, FS_AddElement
  <1>2. ArrivedSet \union {i} \in SUBSET Children
    BY ArrivedFinite
  <1>3. IsFiniteSet(Children)
    BY FS_Interval, ChildrenAssumption DEF Children
  <1>4. Cardinality(Children) = Cardinality(ArrivedSet \union {i}) => Children = ArrivedSet \union {i}
    BY <1>2, <1>3, FS_Subset
  <1> QED BY <1>1, <1>4, ArrivedFinite

LEMMA InitInv == Init => IInv
  <1> SUFFICES ASSUME Init PROVE IInv
    OBVIOUS
  <1>1. TypeOK
    <2>1. 1 \in 1..(N + 1)
      BY ChildrenAssumption
    <2> QED BY <2>1 DEF Init, TypeOK
  <1>2. ArrivedSet = {}
    BY DEF Init, ArrivedSet, Arrived
  <1>3. Arrivals
    BY <1>2, FS_EmptySet DEF Init, Arrivals, Arrived
  <1>4. IdleOnes /\ FirstOne /\ StopAsked /\ Stored
    BY DEF Init, IdleOnes, FirstOne, StopAsked, Stored, Children, Completed, Arrived
  <1> QED BY <1>1, <1>3, <1>4 DEF IInv

(* The steps that neither count nor uncount an arrival keep Arrivals.        *)
LEMMA ArrivalsKept ==
  ASSUME Arrivals, TypeOK, NEW i \in Children, at[i] \notin Arrived,
         NEW w \in {"running", "stop", "store", "ready"}, at' = [at EXCEPT ![i] = w],
         UNCHANGED <<ready_count, outcome>>
  PROVE  Arrivals'
  <1>1. ArrivedSet' = ArrivedSet
    BY DEF ArrivedSet, Arrived, TypeOK
  <1>2. outcome = None
    BY DEF Arrivals, Arrived
  <1>3. \A k \in Children : at[k] # "notify"
    BY DEF Arrivals
  <1> QED BY <1>1, <1>2, <1>3 DEF Arrivals, Arrived, TypeOK

LEMMA StepInv == IInv /\ [Next]_vars => IInv'
  <1> SUFFICES ASSUME IInv, [Next]_vars PROVE IInv'
    OBVIOUS
  <1> USE DEF IInv
  <1>1. ASSUME NEW i \in Children, Start(i) PROVE IInv'
    <2>1. at[i] = "idle" /\ i \in Nat /\ N \in Nat /\ i <= N
      BY <1>1, ChildrenAssumption DEF Start, IdleOnes, Children
    <2>2. TypeOK'
      BY <1>1, <2>1 DEF Start, TypeOK, shared, Children
    <2>3. IdleOnes'
      BY <1>1, <2>1 DEF Start, IdleOnes, TypeOK, Children
    <2>4. Arrivals'
      BY <1>1, <2>1, ArrivalsKept DEF Start, shared, Arrived
    <2>5. FirstOne' /\ StopAsked' /\ Stored'
      BY <1>1, <2>1 DEF Start, shared, FirstOne, StopAsked, Stored, TypeOK, Completed, Arrived
    <2> QED BY <2>2, <2>3, <2>4, <2>5
  <1>2. ASSUME NEW i \in Children, NEW s \in Signals, Complete(i, s) PROVE IInv'
    <2>1. Adapted(i, s) \in Signals /\ <<i, Adapted(i, s)>> # None
      BY NoneAssumption DEF Adapted, IntoError, Signals
    <2>2. TypeOK'
      BY <1>2, <2>1 DEF Complete, TypeOK, Completed
    <2>3. IdleOnes'
      BY <1>2 DEF Complete, IdleOnes, TypeOK, Wins
    <2>4. Arrivals'
      BY <1>2, ArrivalsKept DEF Complete, Arrived
    <2>5. CASE first = None
      <3>1. Wins /\ first' = <<i, Adapted(i, s)>> /\ at' = [at EXCEPT ![i] = "stop"]
        BY <1>2, <2>5 DEF Complete, Wins, FirstOne
      <3>2. FirstOne'
        BY <1>2, <2>1, <2>5, <3>1 DEF Complete, FirstOne, TypeOK, Completed, Arrived
      <3>3. StopAsked' /\ Stored'
        BY <1>2, <2>1, <2>5, <3>1 DEF Complete, StopAsked, Stored, TypeOK, Arrived
      <3> QED BY <2>2, <2>3, <2>4, <3>2, <3>3
    <2>6. CASE first # None
      <3>1. ~Wins /\ first' = first /\ at' = [at EXCEPT ![i] = "ready"] /\ i # first[1]
        BY <1>2, <2>6 DEF Complete, Wins, FirstOne, Completed, Arrived
      <3>2. FirstOne'
        BY <1>2, <2>1, <2>6, <3>1 DEF Complete, FirstOne, TypeOK, Completed, Arrived
      <3>3. StopAsked' /\ Stored'
        BY <1>2, <2>6, <3>1 DEF Complete, StopAsked, Stored, TypeOK, Arrived
      <3> QED BY <2>2, <2>3, <2>4, <3>2, <3>3
    <2> QED BY <2>5, <2>6
  <1>3. ASSUME NEW i \in Children, RequestStop(i) PROVE IInv'
    <2>1. TypeOK'
      BY <1>3 DEF RequestStop, TypeOK, Completed
    <2>2. IdleOnes'
      BY <1>3 DEF RequestStop, IdleOnes, TypeOK
    <2>3. Arrivals'
      BY <1>3, ArrivalsKept DEF RequestStop, Arrived
    <2>4. first # None /\ i = first[1]
      BY <1>3 DEF RequestStop, FirstOne
    <2>5. FirstOne'
      BY <1>3, <2>4 DEF RequestStop, FirstOne, TypeOK, Completed, Arrived
    <2>6. StopAsked' /\ Stored'
      BY <1>3, <2>4 DEF RequestStop, StopAsked, Stored, FirstOne, TypeOK, Arrived
    <2> QED BY <2>1, <2>2, <2>3, <2>5, <2>6
  <1>4. ASSUME NEW i \in Children, Store(i) PROVE IInv'
    <2>1. TypeOK'
      BY <1>4 DEF Store, TypeOK, Completed
    <2>2. IdleOnes'
      BY <1>4 DEF Store, IdleOnes, TypeOK
    <2>3. Arrivals'
      BY <1>4, ArrivalsKept DEF Store, Arrived
    <2>4. first # None /\ i = first[1] /\ got[i] = first[2] /\ got[i] \in {"value", "error"}
      BY <1>4 DEF Store, FirstOne, Signals, Completed
    <2>5. FirstOne' /\ StopAsked'
      BY <1>4, <2>4 DEF Store, FirstOne, StopAsked, TypeOK, Completed, Arrived
    <2>6. Stored'
      BY <1>4, <2>4 DEF Store, Stored, TypeOK, Arrived
    <2> QED BY <2>1, <2>2, <2>3, <2>5, <2>6
  <1>5. ASSUME NEW i \in Children, Ready(i) PROVE IInv'
    <2>1. TypeOK' /\ IdleOnes'
      BY <1>5 DEF Ready, TypeOK, IdleOnes, Completed, Arrived
    <2>2. ArrivedSet' = ArrivedSet \union {i} /\ i \notin ArrivedSet
      BY <1>5 DEF Ready, ArrivedSet, Arrived, TypeOK
    <2>3. /\ ready_count' = Cardinality(ArrivedSet')
          /\ IsLast => ArrivedSet' = Children
      BY <1>5, <2>2, OneMoreArrives DEF Ready, Arrivals, IsLast
    <2>4. outcome = None /\ \A k \in Children : at[k] # "notify"
      BY <1>5 DEF Ready, Arrivals, Arrived
    <2>5. Arrivals'
      BY <1>5, <2>3, <2>4 DEF Ready, Arrivals, ArrivedSet, Arrived, TypeOK
    <2>6. FirstOne' /\ StopAsked' /\ Stored'
      BY <1>5 DEF Ready, FirstOne, StopAsked, Stored, TypeOK, Completed, Arrived
    <2> QED BY <2>1, <2>5, <2>6
  <1>6. ASSUME NEW i \in Children, NotifyDone(i) PROVE IInv'
    <2>1. Result \in {<<None, "stopped">>} \union (Children \X Signals)
      BY DEF Result, TypeOK, Signals
    <2>2. TypeOK' /\ IdleOnes'
      BY <1>6, <2>1 DEF NotifyDone, TypeOK, IdleOnes, Completed, Arrived
    <2>3. ArrivedSet' = ArrivedSet
      BY <1>6 DEF NotifyDone, ArrivedSet, Arrived, TypeOK
    <2>4. Arrivals'
      BY <1>6, <2>3 DEF NotifyDone, Arrivals, Arrived, TypeOK
    <2>5. FirstOne' /\ StopAsked' /\ Stored'
      BY <1>6 DEF NotifyDone, FirstOne, StopAsked, Stored, TypeOK, Completed, Arrived
    <2> QED BY <2>2, <2>4, <2>5
  <1>7. CASE UNCHANGED vars
    BY <1>7 DEF vars, TypeOK, IdleOnes, FirstOne, StopAsked, Stored, Arrivals, ArrivedSet
  <1> QED BY <1>1, <1>2, <1>3, <1>4, <1>5, <1>6, <1>7 DEF Next, Receiver

LEMMA InvHolds == Spec => []IInv
  <1> QED BY InitInv, StepInv, PTL DEF Spec

(* When the result is delivered, and when_any's state thereby destroyed,     *)
(* every child has been started and has left its receiver for good.          *)
THEOREM NothingUsesTheState == Spec => []NoUseAfterCompletion
  <1>1. IInv => NoUseAfterCompletion
    <2> SUFFICES ASSUME IInv PROVE NoUseAfterCompletion
      OBVIOUS
    <2>1. ASSUME outcome # None PROVE next = N + 1
      <3>1. N \in Children /\ at[N] # "idle"
        BY <2>1, ChildrenAssumption DEF IInv, Arrivals, Children
      <3> QED BY <3>1, ChildrenAssumption DEF IInv, IdleOnes, TypeOK, Children
    <2> QED BY <2>1 DEF IInv, Arrivals, NoUseAfterCompletion
  <1> QED BY <1>1, InvHolds, PTL

(* The result is the first completion and is delivered once, after the last. *)
THEOREM FirstCompletionWins == Spec => ImplementsFirstWins
  <1>1. Init => Promise!Init
    BY DEF Init, Promise!Init, Finished, Completed, Arrived
  <1>2. ASSUME IInv, [Next]_vars PROVE [Promise!Next]_(Promise!vars)
    <2> USE DEF Promise!vars, Promise!Next, Finished
    <2>1. ASSUME NEW i \in Children, NEW s \in Signals, Complete(i, s)
          PROVE  Promise!Complete(i, Adapted(i, s)) /\ Adapted(i, s) \in Signals
      BY <1>2, <2>1 DEF Complete, Promise!Complete, IInv, TypeOK, Completed, Arrived, Adapted, IntoError, Signals
    <2>2. ASSUME NEW i \in Children, RequestStop(i) PROVE Promise!Stop
      <3>1. Finished' = Finished
        BY <1>2, <2>2 DEF RequestStop, IInv, TypeOK, Completed, Arrived
      <3> QED BY <1>2, <2>2, <3>1 DEF RequestStop, Promise!Stop, IInv, FirstOne
    <2>3. ASSUME NEW i \in Children, NotifyDone(i) PROVE Promise!Deliver
      <3>1. Finished' = Finished /\ Finished = Children
        BY <1>2, <2>3 DEF NotifyDone, IInv, TypeOK, Arrivals, Completed, Arrived
      <3>2. first # None /\ first \in Children \X Signals /\ source
        BY <1>2, <2>3 DEF NotifyDone, IInv, TypeOK, FirstOne, StopAsked, Arrivals, Completed, Arrived
      <3>3. at[first[1]] \in Arrived /\ outcome = None
        BY <1>2, <2>3, <3>2 DEF NotifyDone, IInv, Arrivals
      <3>4. Result = IF first[2] = "stopped" THEN <<None, "stopped">> ELSE first
        BY <1>2, <3>2, <3>3, NoneAssumption DEF Result, IInv, Stored, Signals
      <3> QED BY <2>3, <3>1, <3>2, <3>3, <3>4 DEF NotifyDone, Promise!Deliver
    <2>4. ASSUME NEW i \in Children, Start(i) \/ Store(i) \/ Ready(i)
          PROVE  UNCHANGED <<Finished, first, source, outcome>>
      <3>1. at[i] \in Completed <=> at'[i] \in Completed
        BY <1>2, <2>4 DEF Start, Store, Ready, IInv, TypeOK, IdleOnes, Completed, Arrived
      <3>2. \A j \in Children : j # i => at'[j] = at[j]
        BY <1>2, <2>4 DEF Start, Store, Ready, IInv, TypeOK
      <3> QED BY <2>4, <3>1, <3>2 DEF Start, Store, Ready, shared
    <2>5. CASE UNCHANGED vars
      BY <2>5 DEF vars
    <2> QED BY <1>2, <2>1, <2>2, <2>3, <2>4, <2>5 DEF Next, Receiver
  <1> QED BY <1>1, <1>2, InvHolds, PTL DEF Spec, ImplementsFirstWins, Promise!Spec
=============================================================================
