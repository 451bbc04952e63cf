-------------------------- MODULE PollContextProofs --------------------------
(***************************************************************************)
(* The safety properties of the poll context, for any number of operations,*)
(* tokens, sockets and deadlines.                                          *)
(*                                                                         *)
(* The invariant of the loop is inductive only together with what the      *)
(* count, the callback and the completions of each operation can be while  *)
(* it is on a list and afterwards: OpInv, below.                           *)
(***************************************************************************)
EXTENDS PollContext, DataLemmas

InFlight == [count |-> 1, armed |-> TRUE, signals |-> << >>]
Done(n, sig) == [count |-> n, armed |-> FALSE, signals |-> <<sig>>]

(* The states of the sender_state of an operation of kind k.               *)
Phases(k) ==
  IF k = "none" THEN {FreshState}
  ELSE IF k = "task" THEN {FreshState, Done(0, "value")}
  ELSE {InFlight} \cup {Done(0, sig) : sig \in Signals}
       \cup (IF k \in {"connect", "timer"} THEN {Done(-1, "value")} ELSE {})

OpInv(o) ==
  /\ sender[o] \in Phases(op[o].kind)
  \* It is on the list of its kind only, and not after its completion ...
  /\ OnList(d_outstanding, o) => op[o].kind \in PolledKinds \cup {"connect"}
  /\ OnList(d_timeouts, o) => op[o].kind = "timer"
  /\ OnList(d_tasks, o) => op[o].kind = "task"
  /\ Queued(o) => sender[o].signals = << >>
  \* ... and until then, unless its work would have blocked.
  /\ op[o].kind # "none" /\ sender[o].signals = << >> =>
       Queued(o) \/ (Spurious /\ op[o].kind # "task")
  \* Only callbacks still registered with a stopped token are invoked.
  /\ o \in stopping => sender[o].armed /\ op[o].token \in stop

(* The inductive invariant. *)
IInv ==
  /\ TypeOK
  /\ FreeListSound(d_sockets)
  /\ VectorsParallel
  /\ NoDuplicates(d_outstanding) /\ NoDuplicates(d_timeouts) /\ NoDuplicates(d_tasks)
  /\ \A o \in Ops : OpInv(o)
  /\ pc = "poll" => stopping = {}
  /\ TimersOrdered

(* What steps do to the operations: one is started, or one that was on a   *)
(* list is given its only completion.                                      *)
StartsOne ==
  /\ stop' = stop
  /\ \E o \in Ops, r \in OpRecords : \E s \in Phases(r.kind) :
       /\ op[o].kind = "none" /\ r.kind # "none"
       /\ op' = [op EXCEPT ![o] = r] /\ sender' = [sender EXCEPT ![o] = s]
       /\ s.signals \in {<< >>, <<"value">>, <<"error">>}

CompletesOne ==
  /\ stop' = stop /\ op' = op
  /\ \E o \in Ops, sig \in Signals :
       /\ Pending(o)
       /\ sender' = [sender EXCEPT ![o] = Done(0, sig)]
       /\ sig = "stopped" => op[o].token \in stop

------------------------------------------------------------------------------
(* Lemmas about the operators of the model *)

(* What each call on a sender_state does to it.                            *)
LEMMA Transitions ==
  /\ Started(FreshState) = InFlight
  /\ Complete(InFlight) = Done(0, "value")
  /\ Error(InFlight) = Done(0, "error")
  /\ Error(Started(FreshState)) = Done(0, "error")
  /\ CompletedInSubmit(FreshState) = Done(-1, "value")
  /\ Cancelled(InFlight) = Done(0, "stopped")
<1>1. Started(FreshState) = InFlight
  <2>1. FreshState.count + 1 = 1 /\ FreshState.signals = << >>
    BY DEF FreshState
  <2> QED BY <2>1, Zenon DEF Started, InFlight
<1>2. ASSUME NEW sig PROVE Finish(InFlight, sig) = Done(0, sig)
  <2>1. InFlight.count - 1 = 0 /\ Append(InFlight.signals, sig) = <<sig>>
    BY DEF InFlight
  <2> QED BY <2>1, Zenon DEF Finish, Done
<1>3. Finish(Done(0, "value"), "value") = Done(-1, "value")
  <2>1. /\ Done(0, "value").count - 1 = -1 /\ -1 # 0
        /\ Done(0, "value").signals = <<"value">> /\ Done(0, "value").armed = FALSE
    BY DEF Done
  <2> QED BY <2>1, Zenon DEF Finish, Done
<1>4. Cancelled(InFlight) = Done(0, "stopped")
  <2> DEFINE Two == [count |-> 2, armed |-> FALSE, signals |-> << >>]
             One == [count |-> 1, armed |-> FALSE, signals |-> << >>]
  <2>1. CallbackEntered(InFlight) = Two
    <3>1. InFlight.count + 1 = 2 /\ InFlight.signals = << >>
      BY DEF InFlight
    <3> QED BY <3>1, Zenon DEF CallbackEntered
  <2>2. Cancel(Two) = One
    <3>1. Two.count - 1 = 1 /\ 1 # 0 /\ Two.signals = << >> /\ Two.armed = FALSE
      OBVIOUS
    <3> QED BY <3>1, Zenon DEF Cancel
  <2>3. Cancel(One) = Done(0, "stopped")
    <3>1. One.count - 1 = 0 /\ Append(One.signals, "stopped") = <<"stopped">> /\ One.armed = FALSE
      OBVIOUS
    <3> QED BY <3>1, Zenon DEF Cancel, Done
  <2> QED BY <2>1, <2>2, <2>3 DEF Cancelled, CallbackComplete
<1> QED BY <1>1, <1>2, <1>3, <1>4 DEF Complete, Error, CompletedInSubmit

(* The states the sender_state of an operation can be in, by what is known *)
(* of the operation.                                                       *)
LEMMA PhaseFacts ==
  ASSUME NEW k \in AllKinds \cup {"none"}, NEW s \in Phases(k)
  PROVE  /\ s \in SenderStates
         /\ s.armed => s = InFlight /\ k \in SenderKinds
         /\ s.signals = << >> /\ k \in SenderKinds => s = InFlight
         /\ s.signals = << >> /\ k \in {"none", "task"} => s = FreshState
         /\ s.signals # << >> => s.count \in {0, -1} /\ Len(s.signals) = 1 /\ ~s.armed
         /\ s.count = -1 => k \in {"connect", "timer"} /\ s.signals = <<"value">>
<1>1. InFlight \in SenderStates /\ InFlight.signals = << >> /\ InFlight.count = 1
  BY DEF InFlight, SenderStates
<1>2. FreshState \in SenderStates /\ FreshState.signals = << >> /\ FreshState.count = 0
      /\ ~FreshState.armed
  BY DEF FreshState, SenderStates
<1>3. ASSUME NEW n \in {0, -1}, NEW sig \in Signals
      PROVE  /\ Done(n, sig) \in SenderStates /\ Done(n, sig).signals = <<sig>>
             /\ Done(n, sig).signals # << >> /\ Len(Done(n, sig).signals) = 1
             /\ Done(n, sig).count = n /\ ~Done(n, sig).armed
  BY <1>3 DEF Done, SenderStates, Signals
<1>4. "value" \in Signals
  BY DEF Signals
<1>5. CASE s = InFlight
  <2>1. k \in SenderKinds
    <3>1. InFlight # FreshState
      BY <1>1, <1>2
    <3>2. InFlight # Done(0, "value")
      BY <1>1, <1>3, <1>4
    <3> QED BY <1>5, <3>1, <3>2 DEF Phases, AllKinds
  <2> QED BY <1>1, <1>5, <2>1 DEF SenderKinds, PolledKinds
<1>6. CASE s = FreshState
  <2>1. k \in {"none", "task"}
    <3>1. FreshState # InFlight
      BY <1>1, <1>2
    <3>2. \A sig \in Signals : FreshState # Done(0, sig) /\ FreshState # Done(-1, sig)
      BY <1>2, <1>3
    <3> QED BY <1>4, <1>6, <3>1, <3>2 DEF Phases
  <2> QED BY <1>2, <1>6, <2>1 DEF SenderKinds, PolledKinds
<1>7. CASE \E sig \in Signals : s = Done(0, sig)
  BY <1>3, <1>7
<1>8. CASE s = Done(-1, "value") /\ k \in {"connect", "timer"}
  BY <1>3, <1>4, <1>8
<1> QED BY <1>4, <1>5, <1>6, <1>7, <1>8 DEF Phases

(* remove_outstanding(i) takes away what is at i and keeps the rest; the   *)
(* last element may move.                                                  *)
LEMMA RemoveEffect ==
  ASSUME NEW S, NEW list \in Seq(S), NEW i \in 1 .. Len(list)
  PROVE  /\ RemoveOutstanding(list, i) \in Seq(S)
         /\ Len(RemoveOutstanding(list, i)) = Len(list) - 1
         /\ \A k \in 1 .. Len(list) - 1 :
              RemoveOutstanding(list, i)[k] = IF k = i THEN list[Len(list)] ELSE list[k]
<1>1. Len(list) \in Nat /\ Len(list) - 1 \in Nat /\ Len(list) \in 1 .. Len(list)
  OBVIOUS
<1>2. \A k \in 1 .. Len(list) - 1 : k \in 1 .. Len(list)
  BY <1>1
<1>3. \A k \in 1 .. Len(list) - 1 : (IF k = i THEN list[Len(list)] ELSE list[k]) \in S
  BY <1>1, <1>2
<1> QED BY <1>1, <1>3 DEF RemoveOutstanding

LEMMA RemoveMembers ==
  ASSUME NEW S, NEW list \in Seq(S), NEW i \in 1 .. Len(list), NoDuplicates(list)
  PROVE  /\ NoDuplicates(RemoveOutstanding(list, i))
         /\ \A o : OnList(RemoveOutstanding(list, i), o) <=> OnList(list, o) /\ o # list[i]
<1>1. PICK new : new = RemoveOutstanding(list, i)
  OBVIOUS
<1>2. PICK n : n = Len(list)
  OBVIOUS
<1>3. n \in Nat /\ n \in 1 .. n /\ i \in 1 .. n /\ Len(new) = n - 1
  <2>1. Len(new) = Len(list) - 1
    BY <1>1, RemoveEffect
  <2> QED BY <1>2, <2>1
<1>4. \A k \in 1 .. n - 1 : k \in 1 .. n /\ k # n
  BY <1>3
<1>5. \A k \in 1 .. n - 1 : new[k] = IF k = i THEN list[n] ELSE list[k]
  BY <1>1, <1>2, RemoveEffect
<1>6. \A k, m \in 1 .. n : list[k] = list[m] => k = m
  BY <1>2 DEF NoDuplicates
<1>7. NoDuplicates(new)
  <2> SUFFICES ASSUME NEW k \in 1 .. n - 1, NEW m \in 1 .. n - 1, new[k] = new[m]
               PROVE  k = m
    BY <1>3 DEF NoDuplicates
  <2>1. k \in 1 .. n /\ m \in 1 .. n /\ k # n /\ m # n
    BY <1>4
  <2>2. CASE k = i /\ m = i
    BY <2>2
  <2>3. CASE k = i /\ m # i
    BY <1>3, <1>5, <1>6, <2>1, <2>3
  <2>4. CASE k # i /\ m = i
    BY <1>3, <1>5, <1>6, <2>1, <2>4
  <2>5. CASE k # i /\ m # i
    BY <1>5, <1>6, <2>1, <2>5
  <2> QED BY <2>2, <2>3, <2>4, <2>5
<1>8. ASSUME NEW o, OnList(new, o) PROVE OnList(list, o) /\ o # list[i]
  <2>1. PICK k \in 1 .. n - 1 : new[k] = o
    BY <1>3, <1>8 DEF OnList
  <2>2. PICK m \in 1 .. n : o = list[m] /\ m # i
    <3>1. CASE k = i
      BY <1>3, <1>4, <1>5, <2>1, <3>1
    <3>2. CASE k # i
      BY <1>4, <1>5, <2>1, <3>2
    <3> QED BY <3>1, <3>2
  <2> QED BY <1>2, <1>3, <1>6, <2>2 DEF OnList
<1>9. ASSUME NEW o, OnList(list, o), o # list[i] PROVE OnList(new, o)
  <2>1. PICK k \in 1 .. n : list[k] = o
    BY <1>2, <1>9 DEF OnList
  <2>2. k # i
    BY <1>9, <2>1
  <2>3. CASE k = n
    <3>1. i \in 1 .. n - 1
      BY <1>3, <2>2, <2>3
    <3>2. new[i] = o
      BY <1>5, <2>1, <2>3, <3>1
    <3> QED BY <1>3, <3>1, <3>2 DEF OnList
  <2>4. CASE k # n
    <3>1. k \in 1 .. n - 1
      BY <1>3, <2>4
    <3>2. new[k] = o
      BY <1>5, <2>1, <2>2, <3>1
    <3> QED BY <1>3, <3>1, <3>2 DEF OnList
  <2> QED BY <2>3, <2>4
<1> QED BY <1>1, <1>7, <1>8, <1>9

(* Removing the same position from both vectors leaves them describing the *)
(* same operations.                                                        *)
LEMMA RemoveParallel ==
  ASSUME TypeOK, VectorsParallel, NEW i \in 1 .. Len(d_outstanding),
         op' = op,
         d_poll' = RemoveOutstanding(d_poll, i),
         d_outstanding' = RemoveOutstanding(d_outstanding, i)
  PROVE  VectorsParallel' /\ d_poll' \in Seq(PollFds)
<1>1. PICK n : n = Len(d_poll)
  OBVIOUS
<1>2. d_poll \in Seq(PollFds) /\ d_outstanding \in Seq(Ops) /\ n = Len(d_outstanding)
      /\ \A k \in 1 .. n : d_poll[k].events = op[d_outstanding[k]].events
  BY <1>1 DEF TypeOK, VectorsParallel
<1>3. /\ n \in Nat /\ n \in 1 .. n /\ i \in 1 .. n /\ i \in 1 .. Len(d_poll)
      /\ \A k \in 1 .. n - 1 : k \in 1 .. n
  BY <1>1, <1>2
<1>4. /\ d_poll' \in Seq(PollFds) /\ Len(d_poll') = n - 1
      /\ \A k \in 1 .. n - 1 : d_poll'[k] = IF k = i THEN d_poll[n] ELSE d_poll[k]
  <2>1. /\ RemoveOutstanding(d_poll, i) \in Seq(PollFds)
        /\ Len(RemoveOutstanding(d_poll, i)) = Len(d_poll) - 1
        /\ \A k \in 1 .. Len(d_poll) - 1 :
             RemoveOutstanding(d_poll, i)[k] = IF k = i THEN d_poll[Len(d_poll)] ELSE d_poll[k]
    BY ZenonT(60), <1>2, <1>3, RemoveEffect
  <2> QED BY <1>1, <2>1
<1>5. /\ Len(d_outstanding') = n - 1
      /\ \A k \in 1 .. n - 1 :
           d_outstanding'[k] = IF k = i THEN d_outstanding[n] ELSE d_outstanding[k]
  BY ZenonT(60), <1>2, <1>3, RemoveEffect
<1>6. ASSUME NEW k \in 1 .. n - 1 PROVE d_poll'[k].events = op'[d_outstanding'[k]].events
  <2>1. CASE k = i
    BY SMTT(30), <1>2, <1>3, <1>4, <1>5, <2>1
  <2>2. CASE k # i
    BY <1>2, <1>3, <1>4, <1>5, <2>2
  <2> QED BY <2>1, <2>2
<1> QED BY <1>4, <1>5, <1>6 DEF VectorsParallel

(* The descriptor socket(2) and accept(2) return. *)
LEMMA NewFdFree ==
  ASSUME FreeFds # {}
  PROVE  NewFd \in FreeFds /\ NewFd \in Handles
<1>1. FreeFds \in SUBSET Nat
  BY ConstantsAssumption DEF FreeFds
<1>2. \E fd \in FreeFds : \A g \in FreeFds : fd <= g
  BY <1>1, LeastElement
<1> QED BY <1>2 DEF NewFd, FreeFds

(* The argument of poll(2). *)
LEMMA SleepTicksType ==
  ASSUME TypeOK, NEW t \in Int
  PROVE  SleepTicks(t) \in Int /\ SleepTicks(t) >= -1
<1>1. \A d \in Int : ToMilliseconds(d) \in Int
  BY ConstantsAssumption DEF ToMilliseconds
<1>2. ValueOr(d_timeouts, Deadline, t) \in Int
  <2>1. CASE d_timeouts = << >>
    BY <2>1 DEF ValueOr
  <2>2. CASE d_timeouts # << >>
    <3>1. d_timeouts[1] \in Ops
      BY <2>2 DEF TypeOK
    <3>2. op[d_timeouts[1]].deadline \in 0 .. MaxClock
      BY <3>1 DEF TypeOK, OpRecords
    <3> QED BY <2>2, <3>1, <3>2, ConstantsAssumption DEF ValueOr, Deadline
  <2> QED BY <2>1, <2>2
<1>3. PICK timeout \in Int : SleepTicks(t) = IF timeout < 0 THEN -1 ELSE timeout * TicksPerMs
  BY <1>1, <1>2 DEF SleepTicks
<1>4. TicksPerMs \in Nat
  BY ConstantsAssumption
<1>5. timeout >= 0 => timeout * TicksPerMs \in Int /\ timeout * TicksPerMs >= 0
  BY <1>4
<1> QED BY <1>3, <1>5

LEMMA LookupType ==
  ASSUME TypeOK, NEW id, IsLive(d_sockets, id)
  PROVE  id \in LiveIds(d_sockets) /\ id \in Nat /\ Lookup(d_sockets, id) \in Handles
<1>1. id \in Ids(d_sockets) /\ id \in LiveIds(d_sockets)
  BY DEF IsLive, LiveIds
<1>2. id \in Nat
  BY <1>1 DEF Ids
<1>3. Lookup(d_sockets, id) \in Handles
  BY <1>1, SlotCases DEF TypeOK, Lookup
<1> QED BY <1>1, <1>2, <1>3

------------------------------------------------------------------------------
(* How the invariant of the operations is kept *)

(* A step that concerns one operation. *)
LEMMA OneOperation ==
  ASSUME NEW o \in Ops,
         \A x \in Ops : OpInv(x),
         stop' = stop,
         \A x \in Ops \ {o} :
           /\ op'[x] = op[x] /\ sender'[x] = sender[x]
           /\ OnList(d_outstanding', x) <=> OnList(d_outstanding, x)
           /\ OnList(d_timeouts', x) <=> OnList(d_timeouts, x)
           /\ OnList(d_tasks', x) <=> OnList(d_tasks, x)
           /\ x \in stopping' => x \in stopping,
         OpInv(o)'
  PROVE  \A x \in Ops : OpInv(x)'
<1> SUFFICES ASSUME NEW x \in Ops \ {o} PROVE OpInv(x)'
  OBVIOUS
<1>1. OpInv(x)
  OBVIOUS
<1> QED BY <1>1 DEF OpInv, Queued, Cancellable

(* The step that completes an operation takes it off its list.             *)
LEMMA Completes ==
  ASSUME TypeOK, NEW o \in Ops, NEW sig \in Signals,
         \A x \in Ops : OpInv(x),
         op[o].kind \in SenderKinds \/ (op[o].kind = "task" /\ sig = "value"),
         op' = op, stop' = stop,
         sender' = [sender EXCEPT ![o] = Done(0, sig)],
         \A x \in stopping' : x \in stopping /\ x # o,
         \A x : OnList(d_outstanding', x) <=> OnList(d_outstanding, x) /\ x # o,
         \A x : OnList(d_timeouts', x) <=> OnList(d_timeouts, x) /\ x # o,
         \A x : OnList(d_tasks', x) <=> OnList(d_tasks, x) /\ x # o
  PROVE  (\A x \in Ops : OpInv(x)') /\ sender' \in [Ops -> SenderStates]
<1>1. sender \in [Ops -> SenderStates]
  BY DEF TypeOK
<1>2. sender'[o] = Done(0, sig) /\ \A x \in Ops \ {o} : sender'[x] = sender[x]
  BY <1>1
<1>3. Done(0, sig) \in Phases(op[o].kind)
  BY DEF Phases, SenderKinds, PolledKinds
<1>4. Done(0, sig) \in SenderStates
  BY DEF SenderStates, Done, Signals
<1>5. Done(0, sig).signals # << >>
  BY DEF Done
<1>6. OpInv(o)'
  BY <1>2, <1>3, <1>5 DEF OpInv, Queued, Cancellable
<1>7. \A x \in Ops : OpInv(x)'
  BY <1>2, <1>6, OneOperation
<1> QED BY <1>1, <1>4, <1>7

(* A queued operation with a sender_state is in flight, and on one list.   *)
LEMMA QueuedInFlight ==
  ASSUME TypeOK, NEW o \in Ops, OpInv(o), Cancellable(o)
  PROVE  /\ op[o].kind \in SenderKinds /\ sender[o] = InFlight
         /\ ~OnList(d_tasks, o)
         /\ ~(OnList(d_outstanding, o) /\ OnList(d_timeouts, o))
<1>1. op[o].kind \in PolledKinds \cup {"connect", "timer"} /\ sender[o].signals = << >>
  BY DEF OpInv, Queued, Cancellable
<1>2. op[o].kind \in SenderKinds /\ op[o].kind # "task"
  BY <1>1 DEF SenderKinds, PolledKinds
<1>3. sender[o] = InFlight
  BY <1>1, <1>2, PhaseFacts DEF OpInv, AllKinds
<1> QED BY <1>2, <1>3 DEF OpInv, PolledKinds

(* An operation that was not started is nowhere. *)
LEMMA NotStartedFacts ==
  ASSUME TypeOK, NEW o \in Ops, OpInv(o), op[o].kind = "none"
  PROVE  /\ sender[o] = FreshState
         /\ ~OnList(d_outstanding, o) /\ ~OnList(d_timeouts, o) /\ ~OnList(d_tasks, o)
         /\ o \notin stopping
<1>1. sender[o] = FreshState
  BY DEF OpInv, Phases
<1>2. ~FreshState.armed
  BY DEF FreshState
<1> QED BY <1>1, <1>2 DEF OpInv, PolledKinds

(* The step that starts an operation describes it and may queue it.        *)
LEMMA Starts ==
  ASSUME TypeOK, NEW o \in Ops, NEW r \in OpRecords, NEW s,
         \A x \in Ops : OpInv(x),
         op[o].kind = "none",
         op' = [op EXCEPT ![o] = r],
         s \in Phases(r.kind), sender' = [sender EXCEPT ![o] = s],
         stop' = stop, stopping' = stopping,
         \A x : OnList(d_outstanding', x) =>
                  OnList(d_outstanding, x) \/ (x = o /\ r.kind \in PolledKinds \cup {"connect"}),
         \A x : OnList(d_timeouts', x) => OnList(d_timeouts, x) \/ (x = o /\ r.kind = "timer"),
         \A x : OnList(d_tasks', x) => OnList(d_tasks, x) \/ (x = o /\ r.kind = "task"),
         \A x : OnList(d_outstanding, x) => OnList(d_outstanding', x),
         \A x : OnList(d_timeouts, x) => OnList(d_timeouts', x),
         \A x : OnList(d_tasks, x) => OnList(d_tasks', x),
         s.signals = << >> <=> Queued(o)'
  PROVE  /\ \A x \in Ops : OpInv(x)'
         /\ op' \in [Ops -> OpRecords] /\ sender' \in [Ops -> SenderStates]
<1>1. sender \in [Ops -> SenderStates] /\ op \in [Ops -> OpRecords]
  BY DEF TypeOK
<1>2. /\ op'[o] = r /\ sender'[o] = s
      /\ \A x \in Ops \ {o} : sender'[x] = sender[x] /\ op'[x] = op[x]
  BY <1>1
<1>3. r.kind \in AllKinds \cup {"none"}
  BY DEF OpRecords
<1>4. s \in SenderStates
  BY <1>3, PhaseFacts
<1>5. /\ ~OnList(d_outstanding, o) /\ ~OnList(d_timeouts, o) /\ ~OnList(d_tasks, o)
      /\ o \notin stopping
  BY NotStartedFacts
<1>6. OpInv(o)'
  BY <1>2, <1>5 DEF OpInv, Queued, Cancellable
<1>7. \A x \in Ops : OpInv(x)'
  BY <1>2, <1>6, OneOperation
<1> QED BY <1>1, <1>2, <1>4, <1>7

------------------------------------------------------------------------------
(* The invariant is inductive *)

LEMMA InitIInv == Init => IInv
<1> SUFFICES ASSUME Init PROVE IInv
  OBVIOUS
<1> USE DEF Init
<1>1. FreshState \in SenderStates
  BY DEF FreshState, SenderStates
<1>2. NotStarted \in OpRecords
  BY ConstantsAssumption DEF NotStarted, OpRecords
<1>3. EmptyContainer \in Containers
  BY DEF EmptyContainer, Containers
<1>4. TypeOK
  BY <1>1, <1>2, <1>3, ConstantsAssumption DEF TypeOK
<1>5. FreeListSound(d_sockets)
  <2>1. Size(EmptyContainer) = 0 /\ DeadIds(EmptyContainer) = {}
    BY DEF EmptyContainer, Size, Ids, DeadIds, LiveIds
  <2>2. Cardinality(DeadIds(EmptyContainer)) = 0
    BY <2>1, FS_EmptySet
  <2>3. 1 .. 0 = {}
    OBVIOUS
  <2>4. [i \in {} |-> 0] \in [1 .. 0 -> DeadIds(EmptyContainer)]
    BY <2>3
  <2>5. IsFreeChain(EmptyContainer, [i \in {} |-> 0])
    BY <2>1, <2>2, <2>3, <2>4 DEF IsFreeChain, EmptyContainer
  <2> QED BY <2>2, <2>4, <2>5 DEF FreeListSound
<1>6. \A o \in Ops : OpInv(o)
  <2> SUFFICES ASSUME NEW o \in Ops PROVE OpInv(o)
    OBVIOUS
  <2>1. op[o].kind = "none" /\ sender[o] = FreshState
    BY DEF NotStarted
  <2>2. ~OnList(d_outstanding, o) /\ ~OnList(d_timeouts, o) /\ ~OnList(d_tasks, o)
    BY DEF OnList
  <2> QED BY <2>1, <2>2 DEF OpInv, Phases, Queued, Cancellable
<1>7. VectorsParallel /\ TimersOrdered
  BY DEF VectorsParallel, TimersOrdered, Ordered
<1>8. NoDuplicates(d_outstanding) /\ NoDuplicates(d_timeouts) /\ NoDuplicates(d_tasks)
  BY DEF NoDuplicates
<1> QED BY <1>4, <1>5, <1>6, <1>7, <1>8 DEF IInv

(* Steps that concern neither operations nor sockets. *)
LEMMA LoopSteps ==
  ASSUME IInv,
         UNCHANGED <<op, sender, stop, stopping, d_sockets,
                     d_poll, d_outstanding, d_timeouts, d_tasks>>,
         pc' \in {"idle", "run", "poll"}, pc' = "poll" => stopping = {},
         now' \in 0 .. MaxClock, left' \in Int, left' >= -1, intr' \in Nat,
         halted' \in {"no", "terminate", "assert"},
         clock' \in 0 .. MaxClock,
         ready' \subseteq Handles \X Events, nonblocking' \subseteq Handles
  PROVE  IInv'
<1> USE DEF IInv
<1>1. TypeOK'
  BY DEF TypeOK
<1>2. \A o \in Ops : OpInv(o)'
  BY DEF OpInv, Queued, Cancellable
<1>3. VectorsParallel' /\ TimersOrdered'
  BY DEF VectorsParallel, TimersOrdered, Deadline
<1> QED BY <1>1, <1>2, <1>3

(* Steps of the loop, the clock and the kernel. *)
LEMMA LoopStepsKeep ==
  ASSUME IInv,
         \/ Run \/ RunOneEmpty \/ RunOnePoll
         \/ PollAgain \/ PollInterrupted \/ PollFailed \/ PollServeReleased
         \/ Tick \/ \E fd \in Handles, e \in Events : KernelReady(fd, e)
         \/ \E o \in Ops : CancelUnknown(o) \/ \E t \in Tokens : StartStopped(o, t)
         \/ UNCHANGED vars
  PROVE  IInv'
<1> USE DEF appVars, queueVars, loopVars, kernelVars
<1>0. /\ TypeOK
      /\ pc = "poll" => stopping = {}
      /\ pc \in {"idle", "run", "poll"} /\ halted \in {"no", "terminate", "assert"}
      /\ now \in 0 .. MaxClock /\ clock \in 0 .. MaxClock /\ MaxClock \in Nat
      /\ left \in Int /\ left >= -1 /\ intr \in Nat
      /\ ready \subseteq Handles \X Events /\ nonblocking \subseteq Handles
  BY ConstantsAssumption DEF IInv, TypeOK
<1>1. SleepTicks(clock) \in Int /\ SleepTicks(clock) >= -1
      /\ SleepTicks(now) \in Int /\ SleepTicks(now) >= -1
  <2>1. clock \in Int /\ now \in Int
    BY <1>0
  <2> QED BY <1>0, <2>1, SleepTicksType
<1>2. CASE Run
  BY <1>0, <1>2, LoopSteps DEF Run
<1>3. CASE RunOneEmpty
  BY <1>0, <1>3, LoopSteps DEF RunOneEmpty
<1>4. CASE RunOnePoll
  BY <1>0, <1>1, <1>4, LoopSteps DEF RunOnePoll, LoopTurn
<1>5. CASE PollAgain
  BY <1>0, <1>1, <1>5, LoopSteps DEF PollAgain
<1>6. CASE PollInterrupted
  BY <1>0, <1>1, <1>6, LoopSteps DEF PollInterrupted
<1>7. CASE PollFailed
  BY <1>0, <1>7, LoopSteps DEF PollFailed, LeavePoll
<1>8. CASE PollServeReleased
  BY <1>0, <1>8, LoopSteps DEF PollServeReleased
<1>9. CASE Tick
  <2>1. clock' \in 0 .. MaxClock /\ left' \in Int /\ left' >= -1
    BY <1>0, <1>9 DEF Tick
  <2> QED BY <1>0, <1>9, <2>1, LoopSteps DEF Tick
<1>10. ASSUME NEW fd \in Handles, NEW e \in Events, KernelReady(fd, e) PROVE IInv'
  <2>1. ready' \subseteq Handles \X Events
    BY <1>0, <1>10 DEF KernelReady
  <2> QED BY <1>0, <1>10, <2>1, LoopSteps DEF KernelReady
<1>11. ASSUME NEW o \in Ops, CancelUnknown(o) PROVE IInv'
  BY <1>0, <1>11, LoopSteps DEF CancelUnknown
<1>12. ASSUME NEW o \in Ops, NEW t \in Tokens, StartStopped(o, t) PROVE IInv'
  BY <1>0, <1>12, LoopSteps DEF StartStopped
<1>13. CASE UNCHANGED vars
  BY <1>0, <1>13, LoopSteps DEF vars
<1> QED BY <1>2, <1>3, <1>4, <1>5, <1>6, <1>7, <1>8, <1>9, <1>10, <1>11, <1>12, <1>13

(* make_socket() and release() *)
LEMMA SocketsKeep ==
  ASSUME IInv, MakeSocket \/ \E id \in Ids(d_sockets) : Release(id)
  PROVE  IInv'
<1> USE DEF appVars, queueVars, loopVars
<1>1. d_sockets' \in Containers /\ FreeListSound(d_sockets')
  <2>1. CASE MakeSocket
    <3>1. NewFd \in Handles /\ d_sockets' = Insert(d_sockets, NewFd)
      BY <2>1, NewFdFree DEF MakeSocket
    <3> QED BY <3>1, InsertEffect, InsertKeepsFreeList DEF IInv, TypeOK
  <2>2. ASSUME NEW id \in Ids(d_sockets), Release(id)
        PROVE  d_sockets' \in Containers /\ FreeListSound(d_sockets')
    <3>1. id \in LiveIds(d_sockets) /\ d_sockets' = Erase(d_sockets, id)
      BY <2>2 DEF Release, IsLive, LiveIds
    <3> QED BY <3>1, EraseEffect, EraseKeepsFreeList DEF IInv, TypeOK
  <2> QED BY <2>1, <2>2
<1>2. ready' \subseteq ready /\ nonblocking' \subseteq nonblocking
  BY DEF MakeSocket, Release, kernelVars
<1>3. UNCHANGED <<op, sender, stop, stopping, d_poll, d_outstanding, d_timeouts, d_tasks,
                  pc, now, left, intr, halted, clock>>
  BY DEF MakeSocket, Release, kernelVars
<1>4. TypeOK'
  BY <1>1, <1>2, <1>3 DEF IInv, TypeOK
<1>5. \A o \in Ops : OpInv(o)'
  BY <1>3 DEF IInv, OpInv, Queued, Cancellable
<1>6. VectorsParallel' /\ TimersOrdered'
  BY <1>3 DEF IInv, VectorsParallel, TimersOrdered, Deadline
<1> QED BY <1>1, <1>3, <1>4, <1>5, <1>6 DEF IInv

LEMMA AppendElements ==
  ASSUME NEW S, NEW list \in Seq(S), NEW e \in S, NEW n, n = Len(list),
         NEW new, new = Append(list, e)
  PROVE  /\ new \in Seq(S) /\ Len(new) = n + 1
         /\ new[n + 1] = e
         /\ \A k \in 1 .. n : new[k] = list[k]
OBVIOUS

(* An operation added to both vectors. *)
LEMMA AddParallel ==
  ASSUME TypeOK, VectorsParallel, NEW o \in Ops, NEW id, NEW events \in SUBSET Events,
         NoDuplicates(d_outstanding), ~OnList(d_outstanding, o),
         IsLive(d_sockets, id),
         AddOutstanding(o, id, events),
         op'[o].events = events, \A x \in Ops \ {o} : op'[x] = op[x]
  PROVE  /\ VectorsParallel' /\ d_poll' \in Seq(PollFds) /\ d_outstanding' \in Seq(Ops)
         /\ NoDuplicates(d_outstanding')
         /\ \A x : OnList(d_outstanding', x) <=> OnList(d_outstanding, x) \/ x = o
<1>1. PICK entry \in PollFds : entry.events = events /\ d_poll' = Append(d_poll, entry)
  <2> DEFINE entry == [fd |-> Lookup(d_sockets, id), events |-> events]
  <2>1. entry \in PollFds /\ entry.events = events
    BY LookupType DEF PollFds
  <2> QED BY <2>1 DEF AddOutstanding
<1>2. PICK n : n = Len(d_poll)
  OBVIOUS
<1>3. /\ d_poll \in Seq(PollFds) /\ d_outstanding \in Seq(Ops)
      /\ n \in Nat /\ n = Len(d_outstanding)
      /\ \A k \in 1 .. n : d_poll[k].events = op[d_outstanding[k]].events
  BY <1>2 DEF TypeOK, VectorsParallel
<1>4. /\ d_poll' \in Seq(PollFds) /\ Len(d_poll') = n + 1
      /\ d_poll'[n + 1] = entry
      /\ \A k \in 1 .. n : d_poll'[k] = d_poll[k]
  <2>1. PICK new : new = Append(d_poll, entry)
    OBVIOUS
  <2>2. d_poll \in Seq(PollFds) /\ entry \in PollFds
    BY <1>1, <1>3
  <2>3. /\ new \in Seq(PollFds) /\ Len(new) = n + 1 /\ new[n + 1] = entry
        /\ \A k \in 1 .. n : new[k] = d_poll[k]
    BY <1>2, <2>1, <2>2, AppendElements
  <2> QED BY <1>1, <2>1, <2>3
<1>5. /\ d_outstanding' \in Seq(Ops) /\ Len(d_outstanding') = n + 1
      /\ d_outstanding'[n + 1] = o
      /\ \A k \in 1 .. n : d_outstanding'[k] = d_outstanding[k]
  BY <1>3 DEF AddOutstanding
<1>6. \A k \in 1 .. n : d_outstanding[k] \in Ops \ {o}
  BY <1>3 DEF OnList
<1>7. ASSUME NEW k \in 1 .. n + 1 PROVE d_poll'[k].events = op'[d_outstanding'[k]].events
  <2>1. CASE k \in 1 .. n
    BY <1>3, <1>4, <1>5, <1>6, <2>1
  <2>2. CASE k = n + 1
    BY <1>1, <1>4, <1>5, <2>2
  <2> QED BY <1>3, <2>1, <2>2
<1>8. VectorsParallel'
  BY <1>4, <1>5, <1>7 DEF VectorsParallel
<1>9. /\ NoDuplicates(d_outstanding')
      /\ \A x : OnList(d_outstanding', x) <=> OnList(d_outstanding, x) \/ x = o
  BY <1>3, AppendEffect DEF AddOutstanding
<1> QED BY <1>4, <1>5, <1>8, <1>9

(* The deadlines of the timers on the list do not change when an operation *)
(* is started, and the entries of the vectors keep their descriptions.     *)
LEMMA StartKeepsOthers ==
  ASSUME TypeOK, NEW o \in Ops, NEW r, op' = [op EXCEPT ![o] = r]
  PROVE  /\ op'[o] = r /\ \A x \in Ops \ {o} : op'[x] = op[x]
         /\ ~OnList(d_timeouts, o) /\ TimersOrdered => Ordered(d_timeouts, Deadline')
         /\ ~OnList(d_outstanding, o) /\ VectorsParallel
              /\ UNCHANGED <<d_poll, d_outstanding>> => VectorsParallel'
<1>1. op'[o] = r /\ \A x \in Ops \ {o} : op'[x] = op[x]
  BY DEF TypeOK
<1>2. ASSUME ~OnList(d_timeouts, o), TimersOrdered
      PROVE  Ordered(d_timeouts, Deadline')
  <2>1. \A i \in 1 .. Len(d_timeouts) : d_timeouts[i] \in Ops \ {o}
    BY <1>2 DEF OnList, TypeOK
  <2>2. \A i \in 1 .. Len(d_timeouts) : Deadline'[d_timeouts[i]] = Deadline[d_timeouts[i]]
    BY <1>1, <2>1 DEF Deadline
  <2> QED BY <1>2, <2>2 DEF Ordered, TimersOrdered
<1>3. ASSUME ~OnList(d_outstanding, o), VectorsParallel, UNCHANGED <<d_poll, d_outstanding>>
      PROVE  VectorsParallel'
  <2>1. \A i \in 1 .. Len(d_outstanding) : d_outstanding[i] \in Ops \ {o}
    BY <1>3 DEF OnList, TypeOK
  <2> QED BY <1>1, <1>3, <2>1 DEF VectorsParallel
<1> QED BY <1>1, <1>2, <1>3

(* poll(), accept(), receive(), send(), and connect() in progress. *)
LEMMA StartQueuedKeeps ==
  ASSUME IInv, NEW o \in Ops, NEW id, NEW t \in Tokens,
         NEW k \in PolledKinds \cup {"connect"}, NEW events \in SUBSET Events,
         op[o].kind = "none", pc \in {"idle", "run"},
         IsLive(d_sockets, id),
         Describe(o, k, id, events, 0, t),
         sender' = [sender EXCEPT ![o] = Started(@)],
         AddOutstanding(o, id, events),
         UNCHANGED <<d_sockets, d_timeouts, d_tasks, loopVars, halted, stop, stopping, clock>>,
         ready' = ready, nonblocking' \subseteq Handles
  PROVE  IInv' /\ StartsOne
<1> DEFINE r == [kind |-> k, id |-> id, events |-> events, deadline |-> 0, token |-> t]
<1>1. r \in OpRecords /\ r.kind = k /\ r.events = events
  <2>1. k \in AllKinds
    BY DEF AllKinds, SenderKinds
  <2> QED BY <2>1, LookupType, ConstantsAssumption DEF IInv, OpRecords
<1>2. op' = [op EXCEPT ![o] = r]
  BY DEF Describe
<1> HIDE DEF r
<1>3. /\ sender[o] = FreshState
      /\ ~OnList(d_outstanding, o) /\ ~OnList(d_timeouts, o)
  BY NotStartedFacts DEF IInv
<1>4. sender' = [sender EXCEPT ![o] = InFlight]
  BY <1>3, Transitions
<1>5. /\ op'[o] = r /\ \A x \in Ops \ {o} : op'[x] = op[x]
      /\ Ordered(d_timeouts, Deadline')
  BY <1>2, <1>3, StartKeepsOthers DEF IInv
<1>6. /\ VectorsParallel' /\ d_poll' \in Seq(PollFds) /\ d_outstanding' \in Seq(Ops)
      /\ NoDuplicates(d_outstanding')
      /\ \A x : OnList(d_outstanding', x) <=> OnList(d_outstanding, x) \/ x = o
  BY <1>1, <1>3, <1>5, AddParallel DEF IInv
<1>7. InFlight \in Phases(r.kind) /\ InFlight.signals = << >>
  BY <1>1 DEF Phases, PolledKinds, InFlight
<1>8. Queued(o)'
  BY <1>6 DEF Queued, Cancellable
<1>9. /\ \A x \in Ops : OpInv(x)'
      /\ op' \in [Ops -> OpRecords] /\ sender' \in [Ops -> SenderStates]
  BY <1>1, <1>2, <1>4, <1>6, <1>7, <1>8, Starts DEF IInv
<1>10. TypeOK'
  BY <1>6, <1>9 DEF IInv, TypeOK, loopVars
<1>11. StartsOne
  <2>1. r.kind # "none" /\ stop' = stop
    BY <1>1 DEF PolledKinds
  <2> QED BY <1>1, <1>2, <1>4, <1>7, <2>1 DEF StartsOne
<1> QED BY <1>5, <1>6, <1>9, <1>10, <1>11 DEF IInv, TimersOrdered, loopVars

LEMMA StartPolledKeeps ==
  ASSUME IInv, NEW o \in Ops, NEW t \in Tokens, NEW k \in PolledKinds,
         NEW id \in Ids(d_sockets), NEW events \in EventMasks(k),
         StartPolled(o, k, id, events, t)
  PROVE  IInv' /\ StartsOne
<1>1. events \in SUBSET Events
  BY DEF EventMasks, Events, PolledKinds
<1>2. nonblocking \subseteq Handles
  BY DEF IInv, TypeOK
<1> QED BY <1>1, <1>2, StartQueuedKeeps DEF StartPolled, CanStart, ProgramRuns, kernelVars

LEMMA StartConnectKeeps ==
  ASSUME IInv, NEW o \in Ops, NEW t \in Tokens, NEW id \in Ids(d_sockets),
         StartConnect(o, id, t)
  PROVE  IInv' /\ StartsOne
<1>1. {"in", "out"} \in SUBSET Events
  BY DEF Events
<1>2. nonblocking \cup {Lookup(d_sockets, id)} \subseteq Handles
  BY LookupType DEF IInv, TypeOK, StartConnect
<1> QED BY <1>1, <1>2, StartQueuedKeeps DEF StartConnect, CanStart, ProgramRuns

(* An operation that is completed by its start: no list changes. *)
LEMMA StartInlineKeeps ==
  ASSUME IInv, NEW o \in Ops, NEW r \in OpRecords, NEW n \in {0, -1}, NEW sig \in Signals,
         op[o].kind = "none",
         r.kind \in {"connect", "timer"},
         op' = [op EXCEPT ![o] = r],
         n = -1 => sig = "value",
         sender' = [sender EXCEPT ![o] = Done(n, sig)],
         UNCHANGED <<d_sockets, queueVars, loopVars, halted, stop, stopping, clock, ready>>,
         nonblocking' \subseteq Handles, sig # "stopped"
  PROVE  IInv' /\ StartsOne
<1>1. ~OnList(d_outstanding, o) /\ ~OnList(d_timeouts, o) /\ ~OnList(d_tasks, o)
  BY NotStartedFacts DEF IInv
<1>2. Ordered(d_timeouts, Deadline') /\ VectorsParallel'
  BY <1>1, StartKeepsOthers DEF IInv, queueVars
<1>3. Done(n, sig) \in Phases(r.kind)
  BY DEF Phases
<1>4. Done(n, sig).signals # << >>
  BY DEF Done
<1>5. ~Queued(o)'
  BY <1>1 DEF Queued, Cancellable, queueVars
<1>6. /\ \A x \in Ops : OpInv(x)'
      /\ op' \in [Ops -> OpRecords] /\ sender' \in [Ops -> SenderStates]
  BY <1>3, <1>4, <1>5, Starts DEF IInv, queueVars
<1>7. TypeOK'
  BY <1>6 DEF IInv, TypeOK, loopVars, queueVars
<1>8. StartsOne
  <2>1. Done(n, sig).signals \in {<<"value">>, <<"error">>} /\ r.kind # "none"
    BY DEF Done, Signals
  <2> QED BY <1>3, <2>1 DEF StartsOne
<1> QED BY <1>2, <1>6, <1>7, <1>8 DEF IInv, TimersOrdered, loopVars, queueVars

LEMMA StartConnectInlineKeeps ==
  ASSUME IInv, NEW o \in Ops, NEW t \in Tokens, NEW id \in Ids(d_sockets),
         StartConnectInline(o, id, t)
  PROVE  IInv' /\ StartsOne
<1> DEFINE r == [kind |-> "connect", id |-> id, events |-> {"in", "out"},
                 deadline |-> 0, token |-> t]
<1>1. r \in OpRecords /\ r.kind = "connect"
  BY LookupType, ConstantsAssumption
     DEF IInv, OpRecords, AllKinds, SenderKinds, Events, StartConnectInline
<1>2. op' = [op EXCEPT ![o] = r]
  BY DEF StartConnectInline, Describe
<1> HIDE DEF r
<1>3. sender[o] = FreshState
  BY NotStartedFacts DEF IInv, StartConnectInline, CanStart
<1>4. \/ sender' = [sender EXCEPT ![o] = Done(0, "error")]
      \/ sender' = [sender EXCEPT ![o] = Done(-1, "value")]
  BY <1>3, Transitions DEF StartConnectInline
<1>5. nonblocking' \subseteq Handles
  BY LookupType DEF IInv, TypeOK, StartConnectInline
<1>6. {"error", "value"} \subseteq Signals
  BY DEF Signals
<1>7. /\ op[o].kind = "none"
      /\ UNCHANGED <<d_sockets, queueVars, loopVars, halted, stop, stopping, clock, ready>>
  BY DEF StartConnectInline, CanStart
<1>8. CASE sender' = [sender EXCEPT ![o] = Done(0, "error")]
  <2>1. 0 \in {0, -1} /\ (0 = -1 => "error" = "value")
    OBVIOUS
  <2> QED BY <1>1, <1>2, <1>5, <1>6, <1>7, <1>8, <2>1, StartInlineKeeps
<1>9. CASE sender' = [sender EXCEPT ![o] = Done(-1, "value")]
  BY <1>1, <1>2, <1>5, <1>6, <1>7, <1>9, StartInlineKeeps
<1> QED BY <1>4, <1>8, <1>9

(* resume_at() *)
LEMMA StartTimerKeeps ==
  ASSUME IInv, NEW o \in Ops, NEW t \in Tokens, NEW d \in Times, StartTimer(o, d, t)
  PROVE  IInv' /\ StartsOne
<1> DEFINE r == [kind |-> "timer", id |-> 0, events |-> {}, deadline |-> d, token |-> t]
<1>1. r \in OpRecords /\ r.kind = "timer" /\ r.deadline = d
  BY ConstantsAssumption DEF OpRecords, AllKinds, SenderKinds, Events
<1>2. op' = [op EXCEPT ![o] = r] /\ op[o].kind = "none"
  BY DEF StartTimer, Describe, CanStart
<1> HIDE DEF r
<1>3. /\ sender[o] = FreshState
      /\ ~OnList(d_outstanding, o) /\ ~OnList(d_timeouts, o)
  BY <1>2, NotStartedFacts DEF IInv
<1>4. UNCHANGED <<d_sockets, d_poll, d_outstanding, d_tasks, pc, now, left, intr, halted,
                  stop, stopping, clock, ready, nonblocking>>
  BY DEF StartTimer, loopVars, kernelVars
<1>5. /\ op'[o] = r /\ \A x \in Ops \ {o} : op'[x] = op[x]
      /\ Ordered(d_timeouts, Deadline') /\ VectorsParallel'
  BY <1>2, <1>3, <1>4, StartKeepsOthers DEF IInv
<1>6. CASE clock < d
  <2>1. Deadline' = [Deadline EXCEPT ![o] = d]
    BY <1>1, <1>5 DEF Deadline
  <2>2. Deadline' \in [Ops -> Int]
    <3>1. \A x \in Ops : op[x].deadline \in Int /\ d \in Int
      BY ConstantsAssumption DEF IInv, TypeOK, OpRecords
    <3> QED BY <2>1, <3>1 DEF Deadline
  <2>3. d_timeouts' = InsertTimer(d_timeouts, Deadline', o)
    BY <1>6, <2>1 DEF StartTimer
  <2>4. d_timeouts \in Seq(Ops) /\ NoDuplicates(d_timeouts)
    BY DEF IInv, TypeOK
  <2>5. PICK deadline : deadline = Deadline'
    OBVIOUS
  <2>6. /\ d_timeouts' \in Seq(Ops) /\ NoDuplicates(d_timeouts')
        /\ \A x : OnList(d_timeouts', x) <=> OnList(d_timeouts, x) \/ x = o
    BY <1>3, <2>2, <2>3, <2>4, <2>5, InsertTimerEffect
  <2>7. Ordered(d_timeouts', Deadline')
    BY <1>5, <2>2, <2>3, <2>4, <2>5, InsertTimerOrdered
  <2>8. sender' = [sender EXCEPT ![o] = InFlight]
    BY <1>3, <1>6, Transitions DEF StartTimer
  <2>9. InFlight \in Phases(r.kind) /\ InFlight.signals = << >>
    BY <1>1 DEF Phases, InFlight
  <2>10. Queued(o)'
    BY <2>6 DEF Queued, Cancellable
  <2>11. /\ \A x \in Ops : OpInv(x)'
         /\ op' \in [Ops -> OpRecords] /\ sender' \in [Ops -> SenderStates]
    BY <1>1, <1>2, <1>4, <2>6, <2>8, <2>9, <2>10, Starts DEF IInv
  <2>12. TypeOK'
    BY <1>4, <2>6, <2>11 DEF IInv, TypeOK
  <2>13. StartsOne
    <3>1. r.kind # "none"
      BY <1>1
    <3> QED BY <1>1, <1>2, <1>4, <2>8, <2>9, <3>1 DEF StartsOne
  <2> QED BY <1>4, <1>5, <2>6, <2>7, <2>11, <2>12, <2>13 DEF IInv, TimersOrdered
<1>7. CASE ~(clock < d)
  <2>1. sender' = [sender EXCEPT ![o] = Done(-1, "value")]
    BY <1>3, <1>7, Transitions DEF StartTimer
  <2>2. UNCHANGED <<d_sockets, queueVars, loopVars, halted, stop, stopping, clock, ready>>
    BY <1>4, <1>7 DEF StartTimer, queueVars, loopVars
  <2>3. "value" \in Signals /\ nonblocking' \subseteq Handles
    BY <1>4 DEF Signals, IInv, TypeOK
  <2> QED BY <1>1, <1>2, <2>1, <2>2, <2>3, StartInlineKeeps
<1> QED BY <1>6, <1>7

(* schedule() *)
LEMMA StartTaskKeeps ==
  ASSUME IInv, NEW o \in Ops, StartTask(o)
  PROVE  IInv' /\ StartsOne
<1> DEFINE r == [kind |-> "task", id |-> 0, events |-> {}, deadline |-> 0, token |-> NoToken]
<1>1. r \in OpRecords /\ r.kind = "task"
  BY ConstantsAssumption DEF OpRecords, AllKinds, Events
<1>2. op' = [op EXCEPT ![o] = r] /\ op[o].kind = "none"
  BY DEF StartTask, Describe
<1> HIDE DEF r
<1>3. /\ sender[o] = FreshState
      /\ ~OnList(d_outstanding, o) /\ ~OnList(d_timeouts, o) /\ ~OnList(d_tasks, o)
  BY <1>2, NotStartedFacts DEF IInv
<1>4. UNCHANGED <<sender, d_sockets, d_poll, d_outstanding, d_timeouts,
                  pc, now, left, intr, halted,
                  stop, stopping, clock, ready, nonblocking>>
  BY DEF StartTask, loopVars, kernelVars
<1>5. Ordered(d_timeouts, Deadline') /\ VectorsParallel'
  BY <1>2, <1>3, <1>4, StartKeepsOthers DEF IInv
<1>6. /\ d_tasks' \in Seq(Ops) /\ NoDuplicates(d_tasks')
      /\ \A x : OnList(d_tasks', x) <=> OnList(d_tasks, x) \/ x = o
  BY <1>3, PushEffect DEF StartTask, IInv, TypeOK
<1>7. FreshState \in Phases(r.kind) /\ FreshState.signals = << >>
  BY <1>1 DEF Phases, FreshState
<1>8. sender' = [sender EXCEPT ![o] = FreshState]
  BY <1>3, <1>4 DEF IInv, TypeOK
<1>9. Queued(o)'
  BY <1>6 DEF Queued
<1>10. /\ \A x \in Ops : OpInv(x)'
       /\ op' \in [Ops -> OpRecords] /\ sender' \in [Ops -> SenderStates]
  BY <1>1, <1>2, <1>4, <1>6, <1>7, <1>8, <1>9, Starts DEF IInv
<1>11. TypeOK'
  BY <1>4, <1>6, <1>10 DEF IInv, TypeOK
<1>12. StartsOne
  <2>1. r.kind # "none"
    BY <1>1
  <2> QED BY <1>1, <1>2, <1>4, <1>7, <1>8, <2>1 DEF StartsOne
<1> QED BY <1>4, <1>5, <1>6, <1>10, <1>11, <1>12 DEF IInv, TimersOrdered

(* request_stop() *)
LEMMA RequestStopKeeps ==
  ASSUME IInv, NEW t \in Tokens, RequestStop(t)
  PROVE  IInv'
<1>1. UNCHANGED <<op, sender, d_sockets, d_poll, d_outstanding, d_timeouts, d_tasks,
                  pc, now, left, intr, halted, clock, ready, nonblocking>>
  BY DEF RequestStop, queueVars, loopVars, kernelVars
<1>2. /\ stop' = stop \cup {t} /\ pc # "poll"
      /\ stopping' = stopping \cup {o \in Ops : sender[o].armed /\ op[o].token = t}
  BY DEF RequestStop, ProgramRuns
<1>3. TypeOK'
  BY <1>1, <1>2 DEF IInv, TypeOK
<1>4. \A o \in Ops : OpInv(o)'
  <2> SUFFICES ASSUME NEW o \in Ops PROVE OpInv(o)'
    OBVIOUS
  <2>1. OpInv(o)
    BY DEF IInv
  <2>2. o \in stopping' => sender[o].armed /\ op[o].token \in stop'
    BY <1>2, <2>1 DEF OpInv
  <2> QED BY <1>1, <2>1, <2>2 DEF OpInv, Queued, Cancellable
<1>5. VectorsParallel' /\ TimersOrdered'
  BY <1>1 DEF IInv, VectorsParallel, TimersOrdered, Deadline
<1> QED BY <1>1, <1>2, <1>3, <1>4, <1>5 DEF IInv

(* What a completion leaves to be shown: that the operation went off its   *)
(* list.                                                                   *)
LEMMA CompletionKeeps ==
  ASSUME IInv, NEW o \in Ops, NEW sig \in Signals,
         op[o].kind \in SenderKinds \/ (op[o].kind = "task" /\ sig = "value"),
         UNCHANGED <<op, stop, intr, clock, nonblocking>>,
         sender' = [sender EXCEPT ![o] = Done(0, sig)],
         stopping' \subseteq stopping \ {o},
         d_sockets' \in Containers, FreeListSound(d_sockets'),
         d_poll' \in Seq(PollFds), VectorsParallel',
         d_outstanding' \in Seq(Ops), d_timeouts' \in Seq(Ops), d_tasks' \in Seq(Ops),
         NoDuplicates(d_outstanding'), NoDuplicates(d_timeouts'), NoDuplicates(d_tasks'),
         \A x : OnList(d_outstanding', x) <=> OnList(d_outstanding, x) /\ x # o,
         \A x : OnList(d_timeouts', x) <=> OnList(d_timeouts, x) /\ x # o,
         \A x : OnList(d_tasks', x) <=> OnList(d_tasks, x) /\ x # o,
         Ordered(d_timeouts', Deadline),
         pc' \in {"idle", "run"}, now' \in 0 .. MaxClock, left' \in Int, left' >= -1,
         halted' = halted, ready' \subseteq ready,
         Queued(o), sig = "stopped" => o \in stopping
  PROVE  IInv' /\ CompletesOne
<1>1. (\A x \in Ops : OpInv(x)') /\ sender' \in [Ops -> SenderStates]
  BY Completes DEF IInv
<1>2. TypeOK'
  BY <1>1 DEF IInv, TypeOK
<1>3. TimersOrdered'
  <2>1. Deadline' = Deadline
    BY DEF Deadline
  <2> QED BY <2>1 DEF TimersOrdered
<1>4. pc' # "poll"
  OBVIOUS
<1>5. CompletesOne
  <2>1. OpInv(o)
    BY DEF IInv
  <2>2. Pending(o)
    BY <2>1 DEF OpInv, Pending, SenderKinds, PolledKinds
  <2>3. sig = "stopped" => op[o].token \in stop
    BY <2>1 DEF OpInv
  <2> QED BY <2>2, <2>3 DEF CompletesOne
<1> QED BY <1>1, <1>2, <1>3, <1>4, <1>5 DEF IInv

(* Nobody but o is removed from a list o is not on. *)
LEMMA NotOnListUnchanged ==
  ASSUME NEW list, NEW o, ~OnList(list, o)
  PROVE  \A x : OnList(list, x) <=> OnList(list, x) /\ x # o
OBVIOUS

LEMMA LoopTypes ==
  ASSUME TypeOK
  PROVE  /\ 0 \in 0 .. MaxClock /\ 0 \in Int /\ 0 >= -1
         /\ now \in 0 .. MaxClock /\ left \in Int /\ left >= -1
         /\ {"value", "error", "stopped"} \subseteq Signals
BY ConstantsAssumption DEF TypeOK, Signals

(* process_timeout() *)
LEMMA TimeoutKeeps ==
  ASSUME IInv, RunOneTimeout \/ PollTimeout
  PROVE  IInv' /\ CompletesOne
<1>1. /\ d_timeouts # << >> /\ d_timeouts' = Tail(d_timeouts)
      /\ sender' = [sender EXCEPT ![FirstTimer] = Complete(@)]
  BY DEF RunOneTimeout, PollTimeout, TimerDue, PopTimer
<1>2. /\ UNCHANGED <<op, stop, stopping, d_sockets, d_poll, d_outstanding, d_tasks,
                     intr, halted, clock, ready, nonblocking>>
      /\ stopping = {}
      /\ pc' \in {"idle", "run"} /\ now' \in {now, 0} /\ left' \in {left, 0}
  BY DEF IInv, RunOneTimeout, PollTimeout, PollIdle, InPoll, LoopTurn, LeavePoll,
         loopVars, kernelVars
<1>3. PICK o \in Ops : o = FirstTimer /\ OnList(d_timeouts, o)
  BY <1>1, TailEffect DEF IInv, TypeOK, FirstTimer
<1>4. /\ d_timeouts' \in Seq(Ops) /\ NoDuplicates(d_timeouts') /\ Ordered(d_timeouts', Deadline)
      /\ \A x : OnList(d_timeouts', x) <=> OnList(d_timeouts, x) /\ x # o
  BY <1>1, <1>3, TailEffect DEF IInv, TypeOK, FirstTimer, TimersOrdered
<1>5. /\ op[o].kind \in SenderKinds /\ sender[o] = InFlight
      /\ ~OnList(d_tasks, o) /\ ~OnList(d_outstanding, o)
  BY <1>3, QueuedInFlight DEF IInv, Cancellable
<1>6. sender' = [sender EXCEPT ![o] = Done(0, "value")]
  BY <1>1, <1>3, <1>5, Transitions
<1>7. VectorsParallel'
  BY <1>2 DEF IInv, VectorsParallel
<1>8. /\ \A x : OnList(d_outstanding', x) <=> OnList(d_outstanding, x) /\ x # o
      /\ \A x : OnList(d_tasks', x) <=> OnList(d_tasks, x) /\ x # o
  BY <1>2, <1>5, NotOnListUnchanged
<1>9. /\ now' \in 0 .. MaxClock /\ left' \in Int /\ left' >= -1 /\ "value" \in Signals
  BY <1>2, LoopTypes DEF IInv
<1>10. /\ d_sockets' \in Containers /\ FreeListSound(d_sockets') /\ d_poll' \in Seq(PollFds)
       /\ d_outstanding' \in Seq(Ops) /\ d_tasks' \in Seq(Ops)
       /\ NoDuplicates(d_outstanding') /\ NoDuplicates(d_tasks')
  BY <1>2 DEF IInv, TypeOK
<1>11. Queued(o)
  BY <1>3 DEF Queued, Cancellable
<1> QED BY <1>2, <1>4, <1>5, <1>6, <1>7, <1>8, <1>9, <1>10, <1>11, CompletionKeeps

(* process_task() *)
LEMMA TaskKeeps ==
  ASSUME IInv, RunOneTask
  PROVE  IInv' /\ CompletesOne
<1>1. /\ d_tasks # << >> /\ d_tasks' = Tail(d_tasks)
      /\ sender' = [sender EXCEPT ![d_tasks[1]] = TaskComplete(@)]
  BY DEF RunOneTask
<1>2. /\ UNCHANGED <<op, stop, stopping, d_sockets, d_poll, d_outstanding, d_timeouts,
                     pc, now, left, intr, halted, clock, ready, nonblocking>>
      /\ stopping = {} /\ pc = "run"
  BY DEF RunOneTask, LoopTurn, loopVars, kernelVars
<1>3. PICK o \in Ops : o = d_tasks[1] /\ OnList(d_tasks, o)
  BY <1>1, TailEffect DEF IInv, TypeOK
<1>4. /\ d_tasks' \in Seq(Ops) /\ NoDuplicates(d_tasks')
      /\ \A x : OnList(d_tasks', x) <=> OnList(d_tasks, x) /\ x # o
  BY <1>1, <1>3, TailEffect DEF IInv, TypeOK
<1>5. op[o].kind = "task" /\ ~OnList(d_outstanding, o) /\ ~OnList(d_timeouts, o)
  BY <1>3 DEF IInv, OpInv, PolledKinds
<1>6. sender[o] = FreshState
  <2>1. sender[o] \in Phases("task") /\ sender[o].signals = << >>
    BY <1>3, <1>5 DEF IInv, OpInv, Queued
  <2>2. "task" \in AllKinds
    BY DEF AllKinds
  <2> QED BY <2>1, <2>2, PhaseFacts
<1>7. sender' = [sender EXCEPT ![o] = Done(0, "value")]
  <2>1. TaskComplete(FreshState) = Done(0, "value")
    <3>1. /\ FreshState.count = 0 /\ FreshState.armed = FALSE
          /\ Append(FreshState.signals, "value") = <<"value">>
      BY DEF FreshState
    <3> QED BY <3>1, Zenon DEF TaskComplete, Done
  <2> QED BY <1>1, <1>3, <1>6, <2>1
<1>8. VectorsParallel'
  BY <1>2 DEF IInv, VectorsParallel
<1>9. /\ \A x : OnList(d_outstanding', x) <=> OnList(d_outstanding, x) /\ x # o
      /\ \A x : OnList(d_timeouts', x) <=> OnList(d_timeouts, x) /\ x # o
  BY <1>2, <1>5, NotOnListUnchanged
<1>10. /\ now' \in 0 .. MaxClock /\ left' \in Int /\ left' >= -1 /\ "value" \in Signals
  BY <1>2, LoopTypes DEF IInv
<1>11. /\ d_sockets' \in Containers /\ FreeListSound(d_sockets') /\ d_poll' \in Seq(PollFds)
       /\ d_outstanding' \in Seq(Ops) /\ d_timeouts' \in Seq(Ops)
       /\ NoDuplicates(d_outstanding') /\ NoDuplicates(d_timeouts')
       /\ Ordered(d_timeouts', Deadline)
  BY <1>2 DEF IInv, TypeOK, TimersOrdered
<1>12. Queued(o)
  BY <1>3 DEF Queued
<1> QED BY <1>2, <1>4, <1>5, <1>7, <1>8, <1>9, <1>10, <1>11, <1>12, CompletionKeeps

(* cancel() of an operation that waits for a descriptor. *)
LEMMA CancelOutstandingKeeps ==
  ASSUME IInv, NEW o \in Ops, CancelOutstanding(o)
  PROVE  IInv' /\ CompletesOne
<1>1. PICK i \in 1 .. Len(d_outstanding) :
         /\ d_outstanding[i] = o
         /\ d_poll' = RemoveOutstanding(d_poll, i)
         /\ d_outstanding' = RemoveOutstanding(d_outstanding, i)
  BY DEF CancelOutstanding
<1>2. /\ UNCHANGED <<op, stop, d_sockets, d_timeouts, d_tasks,
                     pc, now, left, intr, halted, clock, ready, nonblocking>>
      /\ pc \in {"idle", "run"} /\ stopping' = stopping \ {o}
      /\ sender' = [sender EXCEPT ![o] = Cancelled(@)]
  BY DEF CancelOutstanding, ProgramRuns, loopVars, kernelVars
<1>3. OnList(d_outstanding, o)
  BY <1>1 DEF OnList
<1>4. /\ op[o].kind \in SenderKinds /\ sender[o] = InFlight
      /\ ~OnList(d_tasks, o) /\ ~OnList(d_timeouts, o)
  BY <1>3, QueuedInFlight DEF IInv, Cancellable
<1>5. sender' = [sender EXCEPT ![o] = Done(0, "stopped")]
  BY <1>2, <1>4, Transitions
<1>6. /\ d_outstanding' \in Seq(Ops) /\ NoDuplicates(d_outstanding')
      /\ \A x : OnList(d_outstanding', x) <=> OnList(d_outstanding, x) /\ x # o
  BY ZenonT(60), <1>1, RemoveEffect, RemoveMembers DEF IInv, TypeOK
<1>7. VectorsParallel' /\ d_poll' \in Seq(PollFds)
  BY <1>1, <1>2, RemoveParallel DEF IInv
<1>8. /\ \A x : OnList(d_timeouts', x) <=> OnList(d_timeouts, x) /\ x # o
      /\ \A x : OnList(d_tasks', x) <=> OnList(d_tasks, x) /\ x # o
  BY <1>2, <1>4, NotOnListUnchanged
<1>9. /\ now' \in 0 .. MaxClock /\ left' \in Int /\ left' >= -1 /\ "stopped" \in Signals
  BY <1>2, LoopTypes DEF IInv
<1>10. /\ d_sockets' \in Containers /\ FreeListSound(d_sockets')
       /\ d_timeouts' \in Seq(Ops) /\ d_tasks' \in Seq(Ops)
       /\ NoDuplicates(d_timeouts') /\ NoDuplicates(d_tasks')
       /\ Ordered(d_timeouts', Deadline)
  BY <1>2 DEF IInv, TypeOK, TimersOrdered
<1>11. Queued(o) /\ o \in stopping
  BY <1>3 DEF Queued, Cancellable, CancelOutstanding
<1> QED BY <1>2, <1>4, <1>5, <1>6, <1>7, <1>8, <1>9, <1>10, <1>11, CompletionKeeps

(* cancel() of a timer. *)
LEMMA CancelTimerKeeps ==
  ASSUME IInv, NEW o \in Ops, CancelTimer(o)
  PROVE  IInv' /\ CompletesOne
<1>1. d_timeouts' = EraseTimer(d_timeouts, o) /\ OnList(d_timeouts, o)
  BY DEF CancelTimer
<1>2. /\ UNCHANGED <<op, stop, d_sockets, d_poll, d_outstanding, d_tasks,
                     pc, now, left, intr, halted, clock, ready, nonblocking>>
      /\ pc \in {"idle", "run"} /\ stopping' = stopping \ {o}
      /\ sender' = [sender EXCEPT ![o] = Cancelled(@)]
  BY DEF CancelTimer, ProgramRuns, loopVars, kernelVars
<1>3. /\ op[o].kind \in SenderKinds /\ sender[o] = InFlight
      /\ ~OnList(d_tasks, o) /\ ~OnList(d_outstanding, o)
  BY <1>1, QueuedInFlight DEF IInv, Cancellable
<1>4. sender' = [sender EXCEPT ![o] = Done(0, "stopped")]
  BY <1>2, <1>3, Transitions
<1>5. /\ d_timeouts' \in Seq(Ops) /\ NoDuplicates(d_timeouts') /\ Ordered(d_timeouts', Deadline)
      /\ \A x : OnList(d_timeouts', x) <=> OnList(d_timeouts, x) /\ x # o
  <2>1. PICK deadline \in [Ops -> Int] : deadline = Deadline
    <3>1. \A x \in Ops : op[x].deadline \in Int
      BY ConstantsAssumption DEF IInv, TypeOK, OpRecords
    <3> QED BY <3>1 DEF Deadline
  <2>2. d_timeouts \in Seq(Ops) /\ NoDuplicates(d_timeouts) /\ Ordered(d_timeouts, deadline)
    BY <2>1 DEF IInv, TypeOK, TimersOrdered
  <2> QED BY <1>1, <2>1, <2>2, EraseTimerEffect
<1>6. VectorsParallel'
  BY <1>2 DEF IInv, VectorsParallel
<1>7. /\ \A x : OnList(d_outstanding', x) <=> OnList(d_outstanding, x) /\ x # o
      /\ \A x : OnList(d_tasks', x) <=> OnList(d_tasks, x) /\ x # o
  BY <1>2, <1>3, NotOnListUnchanged
<1>8. /\ now' \in 0 .. MaxClock /\ left' \in Int /\ left' >= -1 /\ "stopped" \in Signals
  BY <1>2, LoopTypes DEF IInv
<1>9. /\ d_sockets' \in Containers /\ FreeListSound(d_sockets') /\ d_poll' \in Seq(PollFds)
      /\ d_outstanding' \in Seq(Ops) /\ d_tasks' \in Seq(Ops)
      /\ NoDuplicates(d_outstanding') /\ NoDuplicates(d_tasks')
  BY <1>2 DEF IInv, TypeOK
<1>10. Queued(o) /\ o \in stopping
  BY <1>1 DEF Queued, Cancellable, CancelTimer
<1> QED BY <1>2, <1>3, <1>4, <1>5, <1>6, <1>7, <1>8, <1>9, <1>10, CompletionKeeps

(* run_one() serves a ready entry. *)
LEMMA ServeKeeps ==
  ASSUME IInv, NEW i \in 1 .. Len(d_poll), NEW r \in WorkResults(d_outstanding[i]),
         InPoll, Serve(i, r)
  PROVE  IInv' /\ (CompletesOne \/ UNCHANGED <<op, sender, stop>>)
<1>1. PICK o : o = d_outstanding[i]
  OBVIOUS
<1>2. i \in 1 .. Len(d_outstanding) /\ o \in Ops /\ OnList(d_outstanding, o)
  BY <1>1 DEF IInv, TypeOK, VectorsParallel, OnList
<1>3. /\ UNCHANGED <<op, stop, stopping, d_timeouts, d_tasks, intr, halted, clock, nonblocking>>
      /\ stopping = {} /\ pc' = "run" /\ now' = 0 /\ left' = 0 /\ ready' \subseteq ready
      /\ d_poll' = RemoveOutstanding(d_poll, i)
      /\ d_outstanding' = RemoveOutstanding(d_outstanding, i)
      /\ sender' = [sender EXCEPT ![o] = Apply(@, r)]
  BY <1>1 DEF Serve, LeavePoll, InPoll, IInv
<1>4. /\ op[o].kind \in SenderKinds /\ sender[o] = InFlight
      /\ ~OnList(d_tasks, o) /\ ~OnList(d_timeouts, o)
  BY <1>2, QueuedInFlight DEF IInv, Cancellable
<1>5. /\ d_outstanding' \in Seq(Ops) /\ NoDuplicates(d_outstanding')
      /\ \A x : OnList(d_outstanding', x) <=> OnList(d_outstanding, x) /\ x # o
  BY <1>1, <1>2, <1>3, RemoveEffect, RemoveMembers DEF IInv, TypeOK
<1>6. VectorsParallel' /\ d_poll' \in Seq(PollFds)
  BY <1>2, <1>3, RemoveParallel DEF IInv
<1>7. /\ r \in {"value", "error", "submit"}
      /\ r = "submit" => Spurious /\ op[o].kind # "task"
      /\ op[o].kind = "accept" /\ r = "value" => FreeFds # {}
  BY <1>1, <1>4 DEF WorkResults, SenderKinds, PolledKinds
<1>8. d_sockets' \in Containers /\ FreeListSound(d_sockets')
  <2>1. CASE op[o].kind = "accept" /\ r = "value"
    <3>1. NewFd \in Handles
      BY <1>7, <2>1, NewFdFree
    <3>2. d_sockets' = Insert(d_sockets, NewFd)
      BY <1>1, <2>1 DEF Serve
    <3> QED BY <3>1, <3>2, InsertEffect, InsertKeepsFreeList DEF IInv, TypeOK
  <2>2. CASE ~(op[o].kind = "accept" /\ r = "value")
    <3>1. d_sockets' = d_sockets
      BY <1>1, <2>2 DEF Serve
    <3> QED BY <3>1 DEF IInv, TypeOK
  <2> QED BY <2>1, <2>2
<1>9. /\ d_timeouts' \in Seq(Ops) /\ d_tasks' \in Seq(Ops)
      /\ NoDuplicates(d_timeouts') /\ NoDuplicates(d_tasks')
      /\ Ordered(d_timeouts', Deadline)
  BY <1>3 DEF IInv, TypeOK, TimersOrdered
<1>10. /\ \A x : OnList(d_timeouts', x) <=> OnList(d_timeouts, x) /\ x # o
       /\ \A x : OnList(d_tasks', x) <=> OnList(d_tasks, x) /\ x # o
  BY <1>3, <1>4, NotOnListUnchanged
<1>11. /\ now' \in 0 .. MaxClock /\ left' \in Int /\ left' >= -1
       /\ "value" \in Signals /\ "error" \in Signals
  BY <1>3, LoopTypes DEF IInv
<1>12. ASSUME NEW sig \in Signals, sig # "stopped",
              sender' = [sender EXCEPT ![o] = Done(0, sig)]
       PROVE  IInv' /\ CompletesOne
  <2>1. Queued(o)
    BY <1>2 DEF Queued, Cancellable
  <2> QED BY <2>1, <1>2, <1>3, <1>4, <1>5, <1>6, <1>8, <1>9, <1>10, <1>11, <1>12, CompletionKeeps
<1>13. CASE r = "value"
  <2>1. sender' = [sender EXCEPT ![o] = Done(0, "value")]
    BY <1>3, <1>4, <1>13, Transitions DEF Apply
  <2> QED BY <1>11, <1>12, <2>1
<1>14. CASE r = "error"
  <2>1. sender' = [sender EXCEPT ![o] = Done(0, "error")]
    BY <1>3, <1>4, <1>14, Transitions DEF Apply
  <2> QED BY <1>11, <1>12, <2>1
<1>15. CASE r = "submit"
  <2>1. sender' = sender
    BY <1>3, <1>15 DEF Apply, IInv, TypeOK
  <2>2. Spurious /\ op[o].kind # "task"
    BY <1>7, <1>15
  <2>3. OpInv(o)'
    <3>1. /\ OpInv(o) /\ ~OnList(d_outstanding', o)
          /\ ~OnList(d_timeouts', o) /\ ~OnList(d_tasks', o)
      BY <1>2, <1>3, <1>4, <1>5 DEF IInv
    <3> QED BY <1>3, <2>1, <2>2, <3>1 DEF OpInv, Queued, Cancellable
  <2>4. \A x \in Ops : OpInv(x)'
    BY <1>2, <1>3, <1>5, <2>1, <2>3, OneOperation DEF IInv
  <2>5. TypeOK'
    BY <1>3, <1>5, <1>6, <1>8, <1>9, <1>11, <2>1 DEF IInv, TypeOK
  <2>6. TimersOrdered'
    BY <1>3 DEF IInv, TimersOrdered, Deadline
  <2> QED BY <1>3, <1>5, <1>6, <1>8, <1>9, <2>1, <2>4, <2>5, <2>6 DEF IInv
<1> QED BY <1>7, <1>13, <1>14, <1>15

LEMMA NextIInv == IInv /\ [Next]_vars => IInv'
<1> SUFFICES ASSUME IInv, [Next]_vars PROVE IInv'
  OBVIOUS
<1>1. CASE MakeSocket \/ \E id \in Ids(d_sockets) : Release(id)
  BY <1>1, SocketsKeep
<1>2. ASSUME NEW o \in Ops, Start(o) PROVE IInv'
  <2>1. ASSUME NEW t \in Tokens, NEW k \in PolledKinds, NEW id \in Ids(d_sockets),
               NEW events \in EventMasks(k), StartPolled(o, k, id, events, t)
        PROVE  IInv'
    BY <2>1, StartPolledKeeps
  <2>2. ASSUME NEW t \in Tokens, NEW id \in Ids(d_sockets),
               StartConnect(o, id, t) \/ StartConnectInline(o, id, t)
        PROVE  IInv'
    BY <2>2, StartConnectKeeps, StartConnectInlineKeeps
  <2>3. ASSUME NEW t \in Tokens, NEW d \in Times, StartTimer(o, d, t) PROVE IInv'
    BY <2>3, StartTimerKeeps
  <2>4. ASSUME NEW t \in Tokens, StartStopped(o, t) PROVE IInv'
    BY <2>4, LoopStepsKeep
  <2>5. CASE StartTask(o)
    BY <2>5, StartTaskKeeps
  <2> QED BY <1>2, <2>1, <2>2, <2>3, <2>4, <2>5 DEF Start
<1>3. ASSUME NEW o \in Ops, Callback(o) PROVE IInv'
  <2>1. CASE CancelUnknown(o)
    BY <2>1, LoopStepsKeep
  <2> QED BY <1>3, <2>1, CancelOutstandingKeeps, CancelTimerKeeps DEF Callback
<1>4. ASSUME NEW t \in Tokens, RequestStop(t) PROVE IInv'
  BY <1>4, RequestStopKeeps
<1>5. CASE RunOneTimeout \/ PollTimeout
  BY <1>5, TimeoutKeeps
<1>6. CASE RunOneTask
  BY <1>6, TaskKeeps
<1>7. CASE PollServe
  BY <1>7, ServeKeeps DEF PollServe
<1>8. CASE \/ Run \/ RunOneEmpty \/ RunOnePoll
           \/ PollAgain \/ PollInterrupted \/ PollFailed \/ PollServeReleased
           \/ Tick \/ \E fd \in Handles, e \in Events : KernelReady(fd, e)
           \/ UNCHANGED vars
  BY <1>8, LoopStepsKeep
<1> QED BY <1>1, <1>2, <1>3, <1>4, <1>5, <1>6, <1>7, <1>8
        DEF Next, RunOne, PollReturn, Halted

------------------------------------------------------------------------------
(* Theorems *)

LEMMA IInvCorrect == Spec => []IInv
BY InitIInv, NextIInv, PTL DEF Spec

(* poll_context.hpp: the data members keep their types, whatever the       *)
(* program, the kernel and the clock do.                                   *)
THEOREM TypeCorrect == Spec => []TypeOK
<1>1. IInv => TypeOK
  BY DEF IInv
<1> QED BY <1>1, IInvCorrect, PTL

(* poll_context.hpp remove_outstanding(), add_outstanding(): d_poll and    *)
(* d_outstanding describe the same operations at the same positions.       *)
THEOREM ParallelCorrect == Spec => []VectorsParallel
<1>1. IInv => VectorsParallel
  BY DEF IInv
<1> QED BY <1>1, IInvCorrect, PTL

(* sorted_list.hpp under resume_at(), cancel() and process_timeout(): the  *)
(* timers stay ordered by deadline.                                        *)
THEOREM TimersCorrect == Spec => []TimersOrdered
<1>1. IInv => TimersOrdered
  BY DEF IInv
<1> QED BY <1>1, IInvCorrect, PTL

(* poll_context.hpp: nothing that was completed, or never started, is on a *)
(* list of the context, and nothing is there twice.                        *)
THEOREM NoDanglingCorrect == Spec => []NoDanglingOperation
<1>1. ASSUME IInv PROVE NoDanglingOperation
  <2>1. OnOneList
    <3>1. \A o \in Ops : ~(OnList(d_outstanding, o) /\ OnList(d_timeouts, o))
      BY <1>1 DEF IInv, OpInv, PolledKinds
    <3>2. \A o \in Ops : OnList(d_tasks, o) => ~Cancellable(o)
      BY <1>1 DEF IInv, OpInv, PolledKinds, Cancellable
    <3> QED BY <1>1, <3>1, <3>2 DEF IInv, OnOneList, NoDuplicates
  <2>2. \A o \in Ops : Queued(o) => Pending(o)
    BY <1>1 DEF IInv, OpInv, PolledKinds, Queued, Cancellable, Pending
  <2> QED BY <2>1, <2>2 DEF NoDanglingOperation
<1> QED BY <1>1, IInvCorrect, PTL

(* poll_context.hpp: both, for whatever descriptors and sockets do.        *)
THEOREM ListsCorrect == Spec => []ListsSound
<1>1. VectorsParallel /\ NoDanglingOperation => ListsSound
  BY DEF ListsSound
<1> QED BY <1>1, ParallelCorrect, NoDanglingCorrect, PTL

(* sender.hpp: d_outstanding is 1 while an operation is in flight, the     *)
(* receiver is given one completion, and complete() is called once too     *)
(* often only on connects and timers that no list refers to.               *)
THEOREM CountCorrect == Spec => []CountMatchesState
<1>1. ASSUME IInv PROVE CountMatchesState
  <2> SUFFICES ASSUME NEW o \in Ops
               PROVE  /\ Pending(o) /\ op[o].kind # "task" => sender[o].count = 1
                      /\ Finished(o) => sender[o].count \in {0, -1} /\ Len(sender[o].signals) = 1
                      /\ sender[o].count = -1 =>
                           op[o].kind \in {"connect", "timer"} /\ sender[o].signals = <<"value">>
                           /\ ~Queued(o)
    BY DEF CountMatchesState
  <2>1. OpInv(o) /\ op[o].kind \in AllKinds \cup {"none"}
    BY <1>1 DEF IInv, TypeOK, OpRecords
  <2>2. /\ sender[o].signals = << >> /\ op[o].kind \in SenderKinds => sender[o] = InFlight
        /\ sender[o].signals # << >> => sender[o].count \in {0, -1} /\ Len(sender[o].signals) = 1
        /\ sender[o].count = -1 => op[o].kind \in {"connect", "timer"} /\ sender[o].signals = <<"value">>
    BY <2>1, PhaseFacts DEF OpInv
  <2>3. InFlight.count = 1
    BY DEF InFlight
  <2>4. sender[o].count = -1 => ~Queued(o)
    <3>1. <<"value">> # << >>
      OBVIOUS
    <3> QED BY <2>1, <2>2, <3>1 DEF OpInv
  <2> QED BY <2>1, <2>2, <2>3, <2>4 DEF Pending, Finished, AllKinds
<1> QED BY <1>1, IInvCorrect, PTL

(* poll_context.hpp: as long as no work of a ready descriptor would block, *)
(* an operation that was started and not completed is on one of the lists. *)
THEOREM PendingCorrect == ~Spurious => (Spec => []PendingIsQueued)
<1> SUFFICES ASSUME ~Spurious PROVE Spec => []PendingIsQueued
  OBVIOUS
<1>1. IInv => PendingIsQueued
  BY DEF IInv, OpInv, PendingIsQueued, Pending
<1> QED BY <1>1, IInvCorrect, PTL

(* poll_context.hpp cancel(): under the same condition the callback of an  *)
(* operation in flight finds it on d_outstanding or d_timeouts, so that    *)
(* std::terminate is not reached from there.                               *)
THEOREM CancelCorrect == ~Spurious => (Spec => []CancelFindsOperation)
<1> SUFFICES ASSUME ~Spurious PROVE Spec => []CancelFindsOperation
  OBVIOUS
<1>1. ASSUME IInv PROVE CancelFindsOperation
  <2> SUFFICES ASSUME NEW o \in Ops, sender[o].armed \/ o \in stopping PROVE Cancellable(o)
    BY DEF CancelFindsOperation
  <2>1. OpInv(o) /\ op[o].kind \in AllKinds \cup {"none"} /\ sender[o].armed
    BY <1>1 DEF IInv, TypeOK, OpRecords, OpInv
  <2>2. sender[o] = InFlight /\ op[o].kind \in SenderKinds
    BY <2>1, PhaseFacts DEF OpInv
  <2>3. InFlight.signals = << >>
    BY DEF InFlight
  <2> QED BY <2>1, <2>2, <2>3 DEF OpInv, Queued, SenderKinds, PolledKinds
<1> QED BY <1>1, IInvCorrect, PTL

(* poll_context.hpp: so neither the loop nor a stop request misses an      *)
(* operation that waits.                                                   *)
THEOREM NothingLostCorrect == ~Spurious => (Spec => []NothingLost)
<1> SUFFICES ASSUME ~Spurious PROVE Spec => []NothingLost
  OBVIOUS
<1>1. (Spec => []PendingIsQueued) /\ (Spec => []CancelFindsOperation)
  BY PendingCorrect, CancelCorrect
<1>2. PendingIsQueued /\ CancelFindsOperation => NothingLost
  BY DEF NothingLost
<1> QED BY <1>1, <1>2, PTL

(* io_context.hpp run(): where poll(2) fails with nothing but EINTR and    *)
(* EAGAIN and readiness is not spurious, run() returns only when every     *)
(* operation started so far has completed its receiver.  That the lists    *)
(* are empty when it returns is the easy half; that an operation which is  *)
(* not completed is on one of them is NothingLostCorrect's.                *)
THEOREM RunFinishesAllCorrect == ~PollMayFail /\ ~Spurious => (Spec => RunFinishesAll)
<1> SUFFICES ASSUME ~PollMayFail, ~Spurious PROVE Spec => RunFinishesAll
  OBVIOUS
<1>1. IInv /\ [Next]_vars =>
        [pc # "idle" /\ pc' = "idle" => \A o \in Ops : ~Pending(o)]_vars
  <2> SUFFICES ASSUME IInv, Next, pc # "idle", pc' = "idle", NEW o \in Ops
               PROVE  ~Pending(o)
    OBVIOUS
  <2>1. RunOneEmpty
    <3> USE DEF loopVars
    <3>1. MakeSocket \/ (\E id \in Ids(d_sockets) : Release(id)) => pc' = pc
      BY DEF MakeSocket, Release
    <3>2. ASSUME NEW p \in Ops, Start(p) PROVE pc' = pc
      BY <3>2 DEF Start, StartPolled, StartConnect, StartConnectInline, StartTimer,
                  StartStopped, StartTask
    <3>3. ASSUME NEW p \in Ops, Callback(p) PROVE pc' = pc
      BY <3>3 DEF Callback, CancelOutstanding, CancelTimer, CancelUnknown
    <3>4. ASSUME NEW t \in Tokens, RequestStop(t) PROVE pc' = pc
      BY <3>4 DEF RequestStop
    <3>5. Run \/ RunOneTimeout \/ RunOneTask \/ RunOnePoll => pc' = pc \/ pc' \in {"run", "poll"}
      BY DEF Run, RunOneTimeout, RunOneTask, RunOnePoll
    <3>6. PollServe => pc' = "run"
      BY DEF PollServe, Serve, LeavePoll
    <3>7. PollServeReleased \/ PollTimeout \/ PollAgain \/ PollInterrupted \/ PollFailed
            => pc' = pc \/ pc' = "run"
      BY DEF PollServeReleased, PollTimeout, PollAgain, PollInterrupted, PollFailed, LeavePoll
    <3>8. Tick \/ Halted \/ (\E fd \in Handles, e \in Events : KernelReady(fd, e)) => pc' = pc
      BY DEF Tick, Halted, KernelReady, vars
    <3> QED BY <3>1, <3>2, <3>3, <3>4, <3>5, <3>6, <3>7, <3>8 DEF Next, RunOne, PollReturn
  <2>2. d_outstanding = << >> /\ d_timeouts = << >> /\ d_tasks = << >>
    <3>1. Len(d_outstanding) = 0 /\ d_timeouts = << >> /\ d_tasks = << >>
      BY <2>1 DEF RunOneEmpty, IInv, VectorsParallel
    <3>2. d_outstanding \in Seq(Ops)
      BY DEF IInv, TypeOK
    <3> QED BY <3>1, <3>2
  <2>3. ~Queued(o)
    BY <2>2 DEF Queued, Cancellable, OnList
  <2> QED BY <2>3 DEF IInv, OpInv, Pending
<1> QED BY <1>1, IInvCorrect, PTL DEF Spec, RunFinishesAll

(* Every step is one of four as far as the receivers can tell. *)
LEMMA StepKinds ==
  ASSUME IInv, [Next]_vars
  PROVE  \/ StartsOne
         \/ CompletesOne
         \/ \E t \in Tokens : UNCHANGED <<op, sender>> /\ stop' = stop \cup {t}
         \/ UNCHANGED <<op, sender, stop>>
<1> USE DEF appVars
<1>1. CASE MakeSocket \/ \E id \in Ids(d_sockets) : Release(id)
  BY <1>1 DEF MakeSocket, Release
<1>2. ASSUME NEW o \in Ops, Start(o) PROVE StartsOne \/ UNCHANGED <<op, sender, stop>>
  <2>1. ASSUME NEW t \in Tokens, NEW k \in PolledKinds, NEW id \in Ids(d_sockets),
               NEW events \in EventMasks(k), StartPolled(o, k, id, events, t)
        PROVE  StartsOne
    BY <2>1, StartPolledKeeps
  <2>2. ASSUME NEW t \in Tokens, NEW id \in Ids(d_sockets),
               StartConnect(o, id, t) \/ StartConnectInline(o, id, t)
        PROVE  StartsOne
    BY <2>2, StartConnectKeeps, StartConnectInlineKeeps
  <2>3. ASSUME NEW t \in Tokens, NEW d \in Times, StartTimer(o, d, t) PROVE StartsOne
    BY <2>3, StartTimerKeeps
  <2>4. ASSUME NEW t \in Tokens, StartStopped(o, t) PROVE UNCHANGED <<op, sender, stop>>
    BY <2>4 DEF StartStopped
  <2>5. CASE StartTask(o)
    BY <2>5, StartTaskKeeps
  <2> QED BY <1>2, <2>1, <2>2, <2>3, <2>4, <2>5 DEF Start
<1>3. ASSUME NEW o \in Ops, Callback(o) PROVE CompletesOne \/ UNCHANGED <<op, sender, stop>>
  <2>1. CASE CancelUnknown(o)
    BY <2>1 DEF CancelUnknown
  <2> QED BY <1>3, <2>1, CancelOutstandingKeeps, CancelTimerKeeps DEF Callback
<1>4. ASSUME NEW t \in Tokens, RequestStop(t)
      PROVE  UNCHANGED <<op, sender>> /\ stop' = stop \cup {t}
  BY <1>4 DEF RequestStop
<1>5. CASE RunOneTimeout \/ PollTimeout \/ RunOneTask
  BY <1>5, TimeoutKeeps, TaskKeeps
<1>6. CASE PollServe
  BY <1>6, ServeKeeps DEF PollServe
<1>7. CASE Run \/ RunOneEmpty \/ RunOnePoll
  BY <1>7 DEF Run, RunOneEmpty, RunOnePoll
<1>8. CASE PollAgain \/ PollInterrupted \/ PollFailed \/ PollServeReleased
  BY <1>8 DEF PollAgain, PollInterrupted, PollFailed, PollServeReleased
<1>9. CASE Tick \/ \E fd \in Handles, e \in Events : KernelReady(fd, e)
  BY <1>9 DEF Tick, KernelReady
<1>10. CASE UNCHANGED vars
  BY <1>10 DEF vars
<1> QED BY <1>1, <1>2, <1>3, <1>4, <1>5, <1>6, <1>7, <1>8, <1>9, <1>10
        DEF Next, RunOne, PollReturn, Halted

LEMMA StatusOfOthers ==
  ASSUME NEW o \in Ops, \A x \in Ops \ {o} : op'[x] = op[x] /\ sender'[x] = sender[x],
         NEW v, Status'[o] = v
  PROVE  Status' = [Status EXCEPT ![o] = v]
<1>1. \A x \in Ops \ {o} : Status'[x] = Status[x]
  BY DEF Status
<1>2. /\ Status = [x \in Ops |-> Status[x]]
      /\ Status' = [x \in Ops |-> Status'[x]]
  BY DEF Status
<1> QED BY <1>1, <1>2

(* poll_context.hpp and sender.hpp keep the promise of an asynchronous     *)
(* operation to its receiver: one completion at most, and set_stopped only *)
(* after the receiver's own token was stopped.                             *)
THEOREM AsyncOpsCorrect == Spec => ImplementsAsyncOps
<1> DEFINE Token == [o \in Ops |-> op[o].token]
<1>1. Init => Abstract!AsyncInit
  BY DEF Init, Abstract!AsyncInit, Status, NotStarted
<1>2. IInv /\ [Next]_vars => [Abstract!AsyncNext]_<<Status, Token, stop>>
  <2> SUFFICES ASSUME IInv, [Next]_vars
               PROVE  Abstract!AsyncNext \/ UNCHANGED <<Status, Token, stop>>
    OBVIOUS
  <2>0. op \in [Ops -> OpRecords] /\ sender \in [Ops -> SenderStates]
    BY DEF IInv, TypeOK
  <2>1. CASE StartsOne
    <3>1. PICK o \in Ops, r \in OpRecords : \E s \in Phases(r.kind) :
             /\ op[o].kind = "none" /\ r.kind # "none"
             /\ op' = [op EXCEPT ![o] = r] /\ sender' = [sender EXCEPT ![o] = s]
             /\ s.signals \in {<< >>, <<"value">>, <<"error">>}
      BY <2>1 DEF StartsOne
    <3>2. /\ op'[o].kind # "none" /\ sender'[o].signals \in {<< >>, <<"value">>, <<"error">>}
          /\ \A x \in Ops \ {o} : op'[x] = op[x] /\ sender'[x] = sender[x]
      BY <2>0, <3>1
    <3>3. Status[o] = "idle"
      BY <3>1 DEF Status
    <3>4. PICK v \in {"pending", "value", "error"} : Status'[o] = v
      <4>1. CASE sender'[o].signals = << >>
        BY <3>2, <4>1 DEF Status
      <4>2. ASSUME NEW v \in {"value", "error"}, sender'[o].signals = <<v>>
            PROVE  Status'[o] = v
        <5>1. <<v>> # << >> /\ Len(<<v>>) = 1 /\ <<v>>[1] = v
          OBVIOUS
        <5> QED BY <3>2, <4>2, <5>1 DEF Status
      <4> QED BY <3>2, <4>1, <4>2
    <3>5. Status' = [Status EXCEPT ![o] = v]
      BY <3>2, <3>4, StatusOfOthers
    <3>6. \A p \in Ops \ {o} : Token'[p] = Token[p]
      BY <3>2
    <3>7. stop' = stop
      BY <2>1 DEF StartsOne
    <3>8. v \in Abstract!Outcomes \cup {"pending"} /\ v # "stopped"
      BY <3>2 DEF Abstract!Outcomes
    <3>9. Abstract!Submit(o)
      BY <3>3, <3>5, <3>6, <3>7, <3>8 DEF Abstract!Submit
    <3> QED BY <3>9 DEF Abstract!AsyncNext
  <2>2. CASE CompletesOne
    <3>1. PICK o \in Ops, sig \in Signals :
             /\ Pending(o)
             /\ sender' = [sender EXCEPT ![o] = Done(0, sig)]
             /\ sig = "stopped" => op[o].token \in stop
      BY <2>2 DEF CompletesOne
    <3>2. op' = op /\ stop' = stop
      BY <2>2 DEF CompletesOne
    <3>3. sender'[o] = Done(0, sig) /\ \A x \in Ops \ {o} : sender'[x] = sender[x]
      BY <2>0, <3>1
    <3>4. Status[o] = "pending"
      BY <3>1 DEF Status, Pending
    <3>5. Status'[o] = sig
      <4>1. /\ Done(0, sig).signals # << >> /\ Len(Done(0, sig).signals) = 1
            /\ Done(0, sig).signals[1] = sig
        BY DEF Done
      <4> QED BY <3>1, <3>2, <3>3, <4>1 DEF Status, Pending
    <3>6. Status' = [Status EXCEPT ![o] = sig]
      BY <3>2, <3>3, <3>5, StatusOfOthers
    <3>7. Token' = Token
      BY <3>2
    <3>8. Token[o] = op[o].token
      OBVIOUS
    <3>9. sig \in Abstract!Outcomes
      BY DEF Signals, Abstract!Outcomes
    <3> HIDE DEF Token
    <3>10. Abstract!Resolve(o)
      BY <3>1, <3>2, <3>4, <3>6, <3>7, <3>8, <3>9 DEF Abstract!Resolve, Token
    <3> QED BY <3>10 DEF Abstract!AsyncNext
  <2>3. ASSUME NEW t \in Tokens, UNCHANGED <<op, sender>>, stop' = stop \cup {t}
        PROVE  Abstract!AsyncNext
    <3>1. UNCHANGED <<Status, Token>>
      BY <2>3 DEF Status
    <3>2. Abstract!RequestStop(t)
      BY <2>3, <3>1 DEF Abstract!RequestStop
    <3> QED BY <3>2 DEF Abstract!AsyncNext
  <2>4. CASE UNCHANGED <<op, sender, stop>>
    BY <2>4 DEF Status
  <2> QED BY <2>1, <2>2, <2>3, <2>4, StepKinds
<1> QED BY <1>1, <1>2, InitIInv, NextIInv, PTL
        DEF Spec, ImplementsAsyncOps, Abstract!AsyncSpec

(* process_timeout() with a sorted list: a timer gets its value only at or *)
(* after its deadline, and before all timers with a later one.             *)
THEOREM FireOrderCorrect == Spec => TimersFireInOrder
<1>1. ASSUME IInv, [Next]_vars, NEW o \in Ops, OnList(d_timeouts, o),
             sender[o].signals = << >>, sender'[o].signals = <<"value">>
      PROVE  /\ Deadline[o] <= clock
             /\ \A i \in 1 .. Len(d_timeouts) : Deadline[d_timeouts[i]] >= Deadline[o]
  <2>1. sender \in [Ops -> SenderStates] /\ <<"value">> # << >> /\ <<"stopped">> # <<"value">>
    BY <1>1 DEF IInv, TypeOK
  <2>2. /\ op[o].kind = "timer" /\ sender[o] = InFlight
        /\ ~OnList(d_tasks, o) /\ ~OnList(d_outstanding, o)
    BY <1>1, QueuedInFlight DEF IInv, OpInv, Cancellable
  <2>3. sender'[o] # sender[o]
    BY <1>1, <2>1
  <2>4. ~StartsOne
    BY <2>1, <2>2, <2>3 DEF StartsOne
  <2>5. CASE RunOneTimeout \/ PollTimeout
    <3>1. /\ d_timeouts # << >> /\ Deadline[FirstTimer] <= clock
          /\ sender' = [sender EXCEPT ![FirstTimer] = Complete(@)]
      BY <2>5 DEF RunOneTimeout, PollTimeout, TimerDue, FirstTimer
    <3>2. o = d_timeouts[1]
      BY <2>1, <2>3, <3>1 DEF FirstTimer
    <3>3. d_timeouts \in Seq(Ops) /\ \A x \in Ops : Deadline[x] \in Int
      BY <1>1, ConstantsAssumption DEF IInv, TypeOK, OpRecords, Deadline
    <3>4. ASSUME NEW i \in 1 .. Len(d_timeouts) PROVE Deadline[d_timeouts[i]] >= Deadline[o]
      <4>1. CASE i = 1
        BY <3>2, <3>3, <4>1
      <4>2. CASE 1 < i
        <5>1. 1 \in 1 .. Len(d_timeouts)
          BY <3>1, <3>3
        <5>2. Deadline[d_timeouts[1]] <= Deadline[d_timeouts[i]]
          BY <1>1, <4>2, <5>1 DEF IInv, TimersOrdered, Ordered
        <5>3. Deadline[d_timeouts[1]] \in Int /\ Deadline[d_timeouts[i]] \in Int
          BY <3>3, <5>1
        <5> QED BY <3>2, <5>2, <5>3
      <4> QED BY <4>1, <4>2
    <3> QED BY <3>1, <3>2, <3>4 DEF FirstTimer
  <2>6. CASE RunOneTask
    <3>1. d_tasks # << >> /\ sender' = [sender EXCEPT ![d_tasks[1]] = TaskComplete(@)]
      BY <2>6 DEF RunOneTask
    <3>2. OnList(d_tasks, d_tasks[1])
      BY <1>1, <3>1, TailEffect DEF IInv, TypeOK
    <3> QED BY <2>1, <2>2, <2>3, <3>1, <3>2
  <2>7. CASE PollServe
    <3>1. PICK i \in 1 .. Len(d_poll) : \E r :
            sender' = [sender EXCEPT ![d_outstanding[i]] = Apply(@, r)]
      BY <2>7 DEF PollServe, Serve
    <3>2. OnList(d_outstanding, d_outstanding[i])
      BY <1>1, <3>1 DEF IInv, VectorsParallel, OnList
    <3> QED BY <2>1, <2>2, <2>3, <3>1, <3>2
  <2>8. ASSUME NEW p \in Ops, Callback(p) PROVE FALSE
    <3>1. \/ sender' = [sender EXCEPT ![p] = Cancelled(@)]
          \/ sender' = sender
      BY <2>8 DEF Callback, CancelOutstanding, CancelTimer, CancelUnknown, appVars
    <3>2. sender'[o] = Done(0, "stopped")
      BY <2>1, <2>2, <2>3, <3>1, Transitions
    <3>3. Done(0, "stopped").signals = <<"stopped">>
      BY DEF Done
    <3> QED BY <1>1, <2>1, <3>2, <3>3
  <2>9. CASE \/ MakeSocket \/ \E id \in Ids(d_sockets) : Release(id)
             \/ Run \/ RunOneEmpty \/ RunOnePoll
             \/ PollAgain \/ PollInterrupted \/ PollFailed \/ PollServeReleased
             \/ Tick \/ \E fd \in Handles, e \in Events : KernelReady(fd, e)
             \/ \E t \in Tokens : RequestStop(t)
             \/ UNCHANGED vars
    <3>1. sender' = sender
      BY <2>9 DEF MakeSocket, Release, Run, RunOneEmpty, RunOnePoll, PollAgain,
                  PollInterrupted, PollFailed, PollServeReleased, Tick, KernelReady,
                  RequestStop, vars, appVars
    <3> QED BY <2>3, <3>1
  <2>10. ASSUME NEW p \in Ops, Start(p) PROVE FALSE
    <3>1. CASE \E t \in Tokens : StartStopped(p, t)
      BY <2>3, <3>1 DEF StartStopped, appVars
    <3>2. CASE StartTask(p)
      BY <2>3, <3>2 DEF StartTask
    <3>3. CASE \E t \in Tokens, k \in PolledKinds, id \in Ids(d_sockets) :
                 \E events \in EventMasks(k) : StartPolled(p, k, id, events, t)
      BY <1>1, <2>4, <3>3, StartPolledKeeps
    <3>4. CASE \E t \in Tokens, id \in Ids(d_sockets) :
                 StartConnect(p, id, t) \/ StartConnectInline(p, id, t)
      BY <1>1, <2>4, <3>4, StartConnectKeeps, StartConnectInlineKeeps
    <3>5. CASE \E t \in Tokens, d \in Times : StartTimer(p, d, t)
      BY <1>1, <2>4, <3>5, StartTimerKeeps
    <3> QED BY <2>10, <3>1, <3>2, <3>3, <3>4, <3>5 DEF Start
  <2> QED BY <1>1, <2>5, <2>6, <2>7, <2>8, <2>9, <2>10 DEF Next, RunOne, PollReturn, Halted
<1>2. IInv /\ [Next]_vars =>
        [\A o \in Ops :
           /\ OnList(d_timeouts, o)
           /\ sender[o].signals = << >> /\ sender'[o].signals = <<"value">>
           => /\ Deadline[o] <= clock
              /\ \A i \in 1 .. Len(d_timeouts) : Deadline[d_timeouts[i]] >= Deadline[o]]_vars
  BY <1>1
<1> QED BY <1>2, InitIInv, NextIInv, PTL DEF Spec, TimersFireInOrder

------------------------------------------------------------------------------
(* Sockets that are not closed under their operations *)

(* What a step may do to the vectors and the container: entries are kept,  *)
(* moved or dropped, and a new entry has the descriptor of its live socket.*)
LEMMA SocketFrame ==
  ASSUME QueuedSocketLive,
         \A i \in 1 .. Len(d_poll) :
           LET id == op[d_outstanding[i]].id
           IN  IsLive(d_sockets, id) =>
                 IsLive(d_sockets', id) /\ Lookup(d_sockets', id) = Lookup(d_sockets, id),
         \A k \in 1 .. Len(d_poll') :
           \/ \E i \in 1 .. Len(d_poll) :
                /\ d_poll'[k] = d_poll[i]
                /\ op'[d_outstanding'[k]].id = op[d_outstanding[i]].id
           \/ LET id == op'[d_outstanding'[k]].id
              IN  IsLive(d_sockets', id) /\ d_poll'[k].fd = Lookup(d_sockets', id)
  PROVE  QueuedSocketLive'
<1> SUFFICES ASSUME NEW k \in 1 .. Len(d_poll')
             PROVE  /\ IsLive(d_sockets', op'[d_outstanding'[k]].id)
                    /\ d_poll'[k].fd = Lookup(d_sockets', op'[d_outstanding'[k]].id)
  BY DEF QueuedSocketLive
<1>1. CASE \E i \in 1 .. Len(d_poll) :
             /\ d_poll'[k] = d_poll[i]
             /\ op'[d_outstanding'[k]].id = op[d_outstanding[i]].id
  <2>1. PICK i \in 1 .. Len(d_poll) :
             /\ d_poll'[k] = d_poll[i]
             /\ op'[d_outstanding'[k]].id = op[d_outstanding[i]].id
    BY <1>1
  <2>2. /\ IsLive(d_sockets, op[d_outstanding[i]].id)
        /\ d_poll[i].fd = Lookup(d_sockets, op[d_outstanding[i]].id)
    BY DEF QueuedSocketLive
  <2> QED BY <2>1, <2>2
<1> QED BY <1>1

(* insert() leaves the live sockets alone. *)
LEMMA InsertKeepsLive ==
  ASSUME TypeOK, FreeListSound(d_sockets), NEW fd \in Handles,
         d_sockets' = Insert(d_sockets, fd), NEW id, IsLive(d_sockets, id)
  PROVE  IsLive(d_sockets', id) /\ Lookup(d_sockets', id) = Lookup(d_sockets, id)
<1>1. id \in Ids(d_sockets) /\ id \in LiveIds(d_sockets)
  BY DEF IsLive, LiveIds
<1>2. id # InsertId(d_sockets) /\ id \in LiveIds(d_sockets')
  BY <1>1, InsertEffect DEF TypeOK
<1>3. d_sockets'.records[id + 1] = d_sockets.records[id + 1]
  BY <1>1, <1>2, InsertEffect DEF TypeOK
<1> QED BY <1>2, <1>3 DEF IsLive, LiveIds, Lookup

LEMMA EraseKeepsLive ==
  ASSUME TypeOK, NEW gone, IsLive(d_sockets, gone),
         d_sockets' = Erase(d_sockets, gone), NEW id, id # gone, IsLive(d_sockets, id)
  PROVE  IsLive(d_sockets', id) /\ Lookup(d_sockets', id) = Lookup(d_sockets, id)
<1>1. id \in Ids(d_sockets) /\ id \in LiveIds(d_sockets) /\ gone \in LiveIds(d_sockets)
  BY DEF IsLive, LiveIds
<1>2. id \in LiveIds(d_sockets')
  BY <1>1, EraseEffect DEF TypeOK
<1>3. d_sockets'.records[id + 1] = d_sockets.records[id + 1]
  BY <1>1, EraseEffect DEF TypeOK
<1> QED BY <1>2, <1>3 DEF IsLive, LiveIds, Lookup

(* The entries remove_outstanding() leaves were there before. *)
LEMMA RemoveKeepsEntries ==
  ASSUME TypeOK, VectorsParallel, NEW i \in 1 .. Len(d_poll), op' = op,
         d_poll' = RemoveOutstanding(d_poll, i),
         d_outstanding' = RemoveOutstanding(d_outstanding, i)
  PROVE  \A k \in 1 .. Len(d_poll') : \E j \in 1 .. Len(d_poll) :
           /\ d_poll'[k] = d_poll[j]
           /\ op'[d_outstanding'[k]].id = op[d_outstanding[j]].id
<1>1. PICK n : n = Len(d_poll)
  OBVIOUS
<1>2. /\ d_poll \in Seq(PollFds) /\ d_outstanding \in Seq(Ops) /\ n = Len(d_outstanding)
      /\ i \in 1 .. Len(d_outstanding) /\ n \in 1 .. n
  BY <1>1 DEF TypeOK, VectorsParallel
<1>3. /\ Len(d_poll') = n - 1
      /\ \A k \in 1 .. n - 1 : d_poll'[k] = IF k = i THEN d_poll[n] ELSE d_poll[k]
  <2>1. /\ Len(RemoveOutstanding(d_poll, i)) = Len(d_poll) - 1
        /\ \A k \in 1 .. Len(d_poll) - 1 :
             RemoveOutstanding(d_poll, i)[k] = IF k = i THEN d_poll[Len(d_poll)] ELSE d_poll[k]
    BY <1>2, RemoveEffect
  <2> QED BY <1>1, <2>1
<1>4. \A k \in 1 .. n - 1 :
         d_outstanding'[k] = IF k = i THEN d_outstanding[n] ELSE d_outstanding[k]
  BY <1>2, RemoveEffect
<1> SUFFICES ASSUME NEW k \in 1 .. n - 1
             PROVE  \E j \in 1 .. n : /\ d_poll'[k] = d_poll[j]
                                      /\ op'[d_outstanding'[k]].id = op[d_outstanding[j]].id
  BY <1>1, <1>3
<1>5. CASE k = i
  BY <1>2, <1>3, <1>4, <1>5
<1>6. CASE k # i
  <2>1. k \in 1 .. n
    BY <1>2
  <2> QED BY <1>3, <1>4, <1>6, <2>1
<1> QED BY <1>5, <1>6

(* An operation added at the back of the vectors. *)
LEMMA AddKeepsEntries ==
  ASSUME TypeOK, VectorsParallel, NEW o \in Ops, NEW id, NEW events \in SUBSET Events,
         ~OnList(d_outstanding, o), IsLive(d_sockets, id), d_sockets' = d_sockets,
         AddOutstanding(o, id, events),
         op'[o].id = id, \A x \in Ops \ {o} : op'[x] = op[x],
         QueuedSocketLive
  PROVE  QueuedSocketLive'
<1>1. PICK entry \in PollFds : /\ entry.fd = Lookup(d_sockets, id)
                               /\ d_poll' = Append(d_poll, entry)
  <2> DEFINE entry == [fd |-> Lookup(d_sockets, id), events |-> events]
  <2>1. entry \in PollFds /\ entry.fd = Lookup(d_sockets, id)
    BY LookupType DEF PollFds
  <2> QED BY <2>1 DEF AddOutstanding
<1>2. PICK n : n = Len(d_poll)
  OBVIOUS
<1>3. /\ d_poll \in Seq(PollFds) /\ d_outstanding \in Seq(Ops)
      /\ n \in Nat /\ n = Len(d_outstanding)
  BY <1>2 DEF TypeOK, VectorsParallel
<1>4. /\ Len(d_poll') = n + 1 /\ d_poll'[n + 1] = entry
      /\ \A k \in 1 .. n : d_poll'[k] = d_poll[k]
  <2>1. PICK new : new = Append(d_poll, entry)
    OBVIOUS
  <2>2. d_poll \in Seq(PollFds) /\ entry \in PollFds
    BY <1>1, <1>3
  <2>3. /\ Len(new) = n + 1 /\ new[n + 1] = entry
        /\ \A k \in 1 .. n : new[k] = d_poll[k]
    BY <1>2, <2>1, <2>2, AppendElements
  <2> QED BY <1>1, <2>1, <2>3
<1>5. /\ d_outstanding'[n + 1] = o
      /\ \A k \in 1 .. n : d_outstanding'[k] = d_outstanding[k]
  BY <1>3 DEF AddOutstanding
<1>6. \A k \in 1 .. n : d_outstanding[k] \in Ops \ {o}
  BY <1>3 DEF OnList
<1>7. ASSUME NEW k \in 1 .. Len(d_poll')
      PROVE  \/ \E i \in 1 .. Len(d_poll) :
                  /\ d_poll'[k] = d_poll[i]
                  /\ op'[d_outstanding'[k]].id = op[d_outstanding[i]].id
             \/ /\ IsLive(d_sockets', op'[d_outstanding'[k]].id)
                /\ d_poll'[k].fd = Lookup(d_sockets', op'[d_outstanding'[k]].id)
  <2>1. CASE k \in 1 .. n
    BY <1>2, <1>4, <1>5, <1>6, <2>1
  <2>2. CASE k = n + 1
    BY <1>1, <1>4, <1>5, <2>2
  <2> QED BY <1>3, <1>4, <2>1, <2>2
<1> QED BY <1>7, SocketFrame

(* Steps that leave the vectors and the container alone and do not touch   *)
(* the description of a queued operation.                                  *)
LEMMA OthersKeepSockets ==
  ASSUME TypeOK, VectorsParallel, QueuedSocketLive,
         UNCHANGED <<d_sockets, d_poll, d_outstanding>>,
         op' = op \/ \E o \in Ops : /\ ~OnList(d_outstanding, o)
                                    /\ \A x \in Ops \ {o} : op'[x] = op[x]
  PROVE  QueuedSocketLive'
<1>1. \A i \in 1 .. Len(d_poll) : op'[d_outstanding[i]] = op[d_outstanding[i]]
  <2>1. \A i \in 1 .. Len(d_poll) : d_outstanding[i] \in Ops /\ OnList(d_outstanding, d_outstanding[i])
    BY DEF TypeOK, VectorsParallel, OnList
  <2> QED BY <2>1
<1> QED BY <1>1 DEF QueuedSocketLive

LEMMA NextSocketsLive ==
  ASSUME ~CloseWithPending, IInv, QueuedSocketLive, [Next]_vars
  PROVE  QueuedSocketLive'
<1> USE DEF appVars, queueVars
<1>0. TypeOK /\ VectorsParallel /\ FreeListSound(d_sockets) /\ op \in [Ops -> OpRecords]
  BY DEF IInv, TypeOK
<1>1. CASE MakeSocket
  <2>1. NewFd \in Handles /\ d_sockets' = Insert(d_sockets, NewFd)
    BY <1>1, NewFdFree DEF MakeSocket
  <2>2. UNCHANGED <<op, d_poll, d_outstanding>>
    BY <1>1 DEF MakeSocket
  <2> QED BY <1>0, <2>1, <2>2, InsertKeepsLive, SocketFrame
<1>2. ASSUME NEW id \in Ids(d_sockets), Release(id) PROVE QueuedSocketLive'
  <2>1. IsLive(d_sockets, id) /\ d_sockets' = Erase(d_sockets, id)
    BY <1>2 DEF Release
  <2>2. UNCHANGED <<op, d_poll, d_outstanding>>
    BY <1>2 DEF Release
  <2>3. \A i \in 1 .. Len(d_poll) : op[d_outstanding[i]].id # id
    BY <1>0, <1>2 DEF Release, VectorsParallel
  <2> QED BY <1>0, <2>1, <2>2, <2>3, EraseKeepsLive, SocketFrame
<1>3. ASSUME NEW o \in Ops, Start(o) PROVE QueuedSocketLive'
  <2>1. ASSUME NEW k, NEW id, NEW events \in SUBSET Events, NEW t,
               op[o].kind = "none", IsLive(d_sockets, id), d_sockets' = d_sockets,
               Describe(o, k, id, events, 0, t), AddOutstanding(o, id, events)
        PROVE  QueuedSocketLive'
    <3>1. op'[o].id = id /\ \A x \in Ops \ {o} : op'[x] = op[x]
      BY <1>0, <2>1 DEF Describe
    <3>2. ~OnList(d_outstanding, o)
      BY <2>1, NotStartedFacts DEF IInv
    <3> QED BY <1>0, <2>1, <3>1, <3>2, AddKeepsEntries
  <2>2. ASSUME NEW t \in Tokens, NEW k \in PolledKinds, NEW id \in Ids(d_sockets),
               NEW events \in EventMasks(k), StartPolled(o, k, id, events, t)
        PROVE  QueuedSocketLive'
    <3>1. events \in SUBSET Events
      BY DEF EventMasks, Events, PolledKinds
    <3> QED BY <2>1, <2>2, <3>1 DEF StartPolled, CanStart
  <2>3. ASSUME NEW t \in Tokens, NEW id \in Ids(d_sockets), StartConnect(o, id, t)
        PROVE  QueuedSocketLive'
    <3>1. {"in", "out"} \in SUBSET Events
      BY DEF Events
    <3> QED BY <2>1, <2>3, <3>1 DEF StartConnect, CanStart
  <2>4. ASSUME NEW r, op[o].kind = "none", op' = [op EXCEPT ![o] = r],
               UNCHANGED <<d_sockets, d_poll, d_outstanding>>
        PROVE  QueuedSocketLive'
    <3>1. ~OnList(d_outstanding, o) /\ \A x \in Ops \ {o} : op'[x] = op[x]
      BY <1>0, <2>4, NotStartedFacts DEF IInv
    <3> QED BY <1>0, <2>4, <3>1, OthersKeepSockets
  <2>5. ASSUME NEW t \in Tokens, NEW id \in Ids(d_sockets), StartConnectInline(o, id, t)
        PROVE  QueuedSocketLive'
    BY <2>4, <2>5 DEF StartConnectInline, CanStart, Describe
  <2>6. ASSUME NEW t \in Tokens, NEW d \in Times, StartTimer(o, d, t) PROVE QueuedSocketLive'
    BY <2>4, <2>6 DEF StartTimer, CanStart, Describe
  <2>7. CASE StartTask(o)
    BY <2>4, <2>7 DEF StartTask, Describe
  <2>8. ASSUME NEW t \in Tokens, StartStopped(o, t) PROVE QueuedSocketLive'
    BY <1>0, <2>8, OthersKeepSockets DEF StartStopped
  <2> QED BY <1>3, <2>2, <2>3, <2>5, <2>6, <2>7, <2>8 DEF Start
<1>4. ASSUME NEW o \in Ops, Callback(o) PROVE QueuedSocketLive'
  <2>1. CASE CancelOutstanding(o)
    <3>1. PICK i \in 1 .. Len(d_poll) :
             /\ d_poll' = RemoveOutstanding(d_poll, i)
             /\ d_outstanding' = RemoveOutstanding(d_outstanding, i)
      BY <1>0, <2>1 DEF CancelOutstanding, VectorsParallel
    <3>2. op' = op /\ d_sockets' = d_sockets
      BY <2>1 DEF CancelOutstanding
    <3> QED BY <1>0, <3>1, <3>2, RemoveKeepsEntries, SocketFrame
  <2>2. CASE CancelTimer(o) \/ CancelUnknown(o)
    BY <1>0, <2>2, OthersKeepSockets DEF CancelTimer, CancelUnknown
  <2> QED BY <1>4, <2>1, <2>2 DEF Callback
<1>5. CASE PollServe
  <2>0. PICK i \in 1 .. Len(d_poll) : \E r \in WorkResults(d_outstanding[i]) : Serve(i, r)
    BY <1>5 DEF PollServe
  <2>1. PICK r \in WorkResults(d_outstanding[i]) : Serve(i, r)
    BY <2>0
  <2>2. /\ op' = op
        /\ d_poll' = RemoveOutstanding(d_poll, i)
        /\ d_outstanding' = RemoveOutstanding(d_outstanding, i)
    BY <2>1 DEF Serve
  <2>3. \A id : IsLive(d_sockets, id) =>
          IsLive(d_sockets', id) /\ Lookup(d_sockets', id) = Lookup(d_sockets, id)
    <3>1. CASE op[d_outstanding[i]].kind = "accept" /\ r = "value"
      <4>1. NewFd \in Handles
        BY <3>1, NewFdFree DEF WorkResults
      <4>2. d_sockets' = Insert(d_sockets, NewFd)
        BY <2>1, <3>1 DEF Serve
      <4> QED BY <1>0, <4>1, <4>2, InsertKeepsLive
    <3>2. CASE ~(op[d_outstanding[i]].kind = "accept" /\ r = "value")
      <4>1. d_sockets' = d_sockets
        BY <2>1, <3>2 DEF Serve
      <4> QED BY <4>1
    <3> QED BY <3>1, <3>2
  <2> QED BY <1>0, <2>2, <2>3, RemoveKeepsEntries, SocketFrame
<1>6. CASE RunOneTimeout \/ PollTimeout \/ RunOneTask
  BY <1>0, <1>6, OthersKeepSockets DEF RunOneTimeout, PollTimeout, RunOneTask
<1>7. CASE \/ Run \/ RunOneEmpty \/ RunOnePoll
           \/ PollAgain \/ PollInterrupted \/ PollFailed \/ PollServeReleased
           \/ Tick \/ \E fd \in Handles, e \in Events : KernelReady(fd, e)
           \/ \E t \in Tokens : RequestStop(t)
           \/ UNCHANGED vars
  <2>1. UNCHANGED <<op, d_sockets, d_poll, d_outstanding>>
    BY <1>7 DEF Run, RunOneEmpty, RunOnePoll, PollAgain, PollInterrupted, PollFailed,
                PollServeReleased, Tick, KernelReady, RequestStop, vars
  <2> QED BY <1>0, <2>1, OthersKeepSockets
<1> QED BY <1>1, <1>2, <1>3, <1>4, <1>5, <1>6, <1>7 DEF Next, RunOne, PollReturn, Halted

(* poll_context.hpp with container.hpp: as long as a socket is not closed  *)
(* while operations are queued for it, each of them is polled on the       *)
(* descriptor its work will look up; no id it holds is recycled.           *)
THEOREM SocketsCorrect == ~CloseWithPending => (Spec => []QueuedSocketLive)
<1> SUFFICES ASSUME ~CloseWithPending PROVE Spec => []QueuedSocketLive
  OBVIOUS
<1>1. Init => QueuedSocketLive
  BY DEF Init, QueuedSocketLive
<1>2. IInv /\ QueuedSocketLive /\ [Next]_vars => QueuedSocketLive'
  BY NextSocketsLive
<1> QED BY <1>1, <1>2, IInvCorrect, PTL DEF Spec

------------------------------------------------------------------------------
(* How long poll(2) sleeps *)

(* No interval is longer than an int of milliseconds.  Beyond that the       *)
(* conversion wraps around, and SleepBounds is false.                        *)
IntervalsFit == MaxClock < TicksPerMs * IntRange

(* The timer poll(2) is entered with is still to come, the clock has not     *)
(* been set back since, and what is left of the sleep is at most the time    *)
(* there was at the beginning, from the last call of poll(2) on.             *)
SleepInv ==
  pc = "poll" =>
    /\ now <= clock
    /\ d_timeouts # << >> =>
         /\ now < Deadline[d_timeouts[1]]
         /\ left >= 0 /\ left <= Deadline[d_timeouts[1]] - now
         /\ intr = 0 /\ left > 0 => clock + left < 2 * Deadline[d_timeouts[1]] - now

(* Whole milliseconds are not longer than the interval, and not negative.    *)
LEMMA MillisecondsFit ==
  ASSUME NEW n \in Nat, n < TicksPerMs * IntRange
  PROVE  /\ ToMilliseconds(n) \in Nat
         /\ ToMilliseconds(n) * TicksPerMs \in Nat /\ ToMilliseconds(n) * TicksPerMs <= n
<1>1. TicksPerMs \in Nat \ {0} /\ IntRange \in Nat \ {0}
  BY ConstantsAssumption
<1>2. PICK m \in Nat : m = n \div TicksPerMs
  BY <1>1
<1>3. TicksPerMs * m <= n /\ TicksPerMs * m \in Nat
  BY <1>1, <1>2
<1>4. m < IntRange
  <2>1. SUFFICES ASSUME m >= IntRange  PROVE FALSE
    BY <1>1
  <2>2. PICK d \in Nat : m = IntRange + d
    <3>1. m - IntRange \in Nat /\ m = IntRange + (m - IntRange)
      BY <1>1, <2>1
    <3> QED BY <3>1
  <2>3. PICK a \in Nat, b \in Nat : a = TicksPerMs * IntRange /\ b = TicksPerMs * d
    BY <1>1, <2>2
  <2>4. TicksPerMs * m = a + b
    BY <1>1, <2>2, <2>3
  <2>5. a + b <= n /\ n < a
    BY <1>3, <2>3, <2>4
  <2> QED BY <2>3, <2>5
<1>5. (m + IntRange) % (2 * IntRange) = m + IntRange
  BY <1>1, <1>4
<1>6. ToMilliseconds(n) = m
  BY <1>1, <1>2, <1>5 DEF ToMilliseconds
<1>7. m * TicksPerMs = TicksPerMs * m
  BY <1>1
<1> QED BY <1>3, <1>6, <1>7

LEMMA SleepFits ==
  ASSUME TypeOK, IntervalsFit, d_timeouts # << >>,
         NEW t \in Nat, t < Deadline[d_timeouts[1]]
  PROVE  SleepTicks(t) \in Nat /\ SleepTicks(t) <= Deadline[d_timeouts[1]] - t
<1>1. PICK d : d = Deadline[d_timeouts[1]]
  OBVIOUS
<1>2. d \in 0 .. MaxClock /\ MaxClock \in Nat
  <2>1. d_timeouts[1] \in Ops
    BY DEF TypeOK
  <2> QED BY <1>1, <2>1, ConstantsAssumption DEF TypeOK, OpRecords, Deadline
<1>3. PICK n \in Nat : n = d - t /\ n > 0
  BY <1>1, <1>2
<1>4. n < TicksPerMs * IntRange
  <2>1. TicksPerMs * IntRange \in Nat
    BY ConstantsAssumption
  <2> QED BY <1>2, <1>3, <2>1 DEF IntervalsFit
<1>5. ValueOr(d_timeouts, Deadline, t) = d /\ t # d
  BY <1>1, <1>2 DEF ValueOr
<1>6. PICK m \in Nat : m = ToMilliseconds(n)
  BY <1>4, MillisecondsFit
<1>7. SleepTicks(t) = m * TicksPerMs
  BY <1>3, <1>5, <1>6 DEF SleepTicks
<1> QED BY <1>1, <1>3, <1>4, <1>6, <1>7, MillisecondsFit

(* In poll(2) the queues wait.                                               *)
LEMMA PollFrame ==
  ASSUME IInv, [Next]_vars, pc' = "poll", ~RunOnePoll
  PROVE  /\ pc = "poll" /\ op' = op /\ d_timeouts' = d_timeouts /\ now' = now
         /\ \/ PollAgain \/ PollInterrupted \/ Tick
            \/ UNCHANGED <<left, clock, intr>>
<1>1. ASSUME NEW o \in Ops, Start(o) PROVE FALSE
  <2>1. pc' = pc /\ pc # "poll"
    BY <1>1 DEF Start, StartPolled, StartConnect, StartConnectInline, StartTimer, StartStopped,
                StartTask, CanStart, ProgramRuns, loopVars
  <2> QED BY <2>1
<1>2. ASSUME NEW o \in Ops, Callback(o) PROVE FALSE
  <2>1. pc' = pc /\ pc # "poll"
    BY <1>2 DEF Callback, CancelOutstanding, CancelTimer, CancelUnknown, ProgramRuns, loopVars
  <2> QED BY <2>1
<1>3. CASE \/ MakeSocket \/ (\E id \in Ids(d_sockets) : Release(id))
           \/ (\E t \in Tokens : RequestStop(t))
  <2>1. pc' = pc /\ pc # "poll"
    BY <1>3 DEF MakeSocket, Release, RequestStop, ProgramRuns, loopVars
  <2> QED BY <2>1
<1>4. CASE Run \/ RunOneEmpty \/ RunOneTimeout \/ RunOneTask \/ PollServe \/ PollTimeout \/ PollFailed
  <2>1. pc' # "poll"
    BY <1>4 DEF Run, RunOneEmpty, RunOneTimeout, RunOneTask, PollServe, Serve, PollTimeout, PollFailed,
                LoopTurn, LeavePoll, loopVars
  <2> QED BY <2>1
<1>5. CASE \/ PollAgain \/ PollInterrupted \/ PollServeReleased \/ Tick \/ Halted
           \/ (\E fd \in Handles, e \in Events : KernelReady(fd, e)) \/ UNCHANGED vars
  BY <1>5 DEF PollAgain, PollInterrupted, PollServeReleased, Tick, Halted, KernelReady,
              vars, appVars, queueVars, loopVars, kernelVars
<1> QED BY <1>1, <1>2, <1>3, <1>4, <1>5 DEF Next, RunOne, PollReturn

LEMMA NextSleepInv ==
  ASSUME IInv, IInv', IntervalsFit, SleepInv, [Next]_vars
  PROVE  SleepInv'
<1> SUFFICES ASSUME pc' = "poll"
             PROVE  /\ now' <= clock'
                    /\ d_timeouts' # << >> =>
                         /\ now' < Deadline'[d_timeouts'[1]]
                         /\ left' >= 0 /\ left' <= Deadline'[d_timeouts'[1]] - now'
                         /\ intr' = 0 /\ left' > 0 =>
                              clock' + left' < 2 * Deadline'[d_timeouts'[1]] - now'
  BY DEF SleepInv
<1>1. /\ TypeOK /\ clock \in 0 .. MaxClock /\ now \in 0 .. MaxClock /\ MaxClock \in Nat
      /\ left \in Int /\ intr \in Nat /\ d_timeouts \in Seq(Ops)
  BY ConstantsAssumption DEF IInv, TypeOK
<1>2. PICK d : d = Deadline[d_timeouts[1]]
  OBVIOUS
<1>3. d_timeouts # << >> => d \in 0 .. MaxClock
  <2>1. d_timeouts # << >> => d_timeouts[1] \in Ops
    BY <1>1
  <2> QED BY <1>1, <1>2, <2>1 DEF TypeOK, OpRecords, Deadline
<1>4. CASE RunOnePoll
  <2>1. /\ now' = clock /\ clock' = clock /\ left' = SleepTicks(clock) /\ ~TimerDue(clock)
        /\ op' = op /\ d_timeouts' = d_timeouts
    BY <1>4 DEF RunOnePoll, appVars, queueVars, kernelVars
  <2>2. Deadline' = Deadline
    BY <2>1 DEF Deadline
  <2>3. CASE d_timeouts # << >>
    <3>1. clock < d
      BY <1>1, <1>2, <1>3, <2>1, <2>3 DEF TimerDue
    <3>2. left' \in Nat /\ left' <= d - clock
      BY <1>1, <1>2, <2>1, <2>3, <3>1, SleepFits
    <3>3. clock + left' < 2 * d - clock
      BY <1>1, <1>3, <2>3, <3>1, <3>2
    <3> QED BY <1>1, <1>2, <2>1, <2>2, <3>1, <3>2, <3>3
  <2> QED BY <1>1, <2>1, <2>3
<1>5. CASE ~RunOnePoll
  <2>1. /\ pc = "poll" /\ op' = op /\ d_timeouts' = d_timeouts /\ now' = now
        /\ \/ PollAgain \/ PollInterrupted \/ Tick
           \/ UNCHANGED <<left, clock, intr>>
    BY <1>5, PollFrame
  <2>2. Deadline' = Deadline
    BY <2>1 DEF Deadline
  <2>3. /\ now <= clock
        /\ d_timeouts # << >> =>
             /\ now < d /\ left >= 0 /\ left <= d - now
             /\ intr = 0 /\ left > 0 => clock + left < 2 * d - now
    BY <1>2, <2>1 DEF SleepInv
  <2>4. d_timeouts # << >> => SleepTicks(now) \in Nat /\ SleepTicks(now) <= d - now
    BY <1>1, <1>2, <2>3, SleepFits
  <2>5. CASE PollAgain
    <3>1. clock' = clock /\ left' = SleepTicks(now) /\ ~TimerDue(clock)
      BY <2>5 DEF PollAgain, kernelVars
    <3>2. CASE d_timeouts # << >>
      <4>1. clock < d
        BY <1>1, <1>2, <1>3, <3>1, <3>2 DEF TimerDue
      <4>2. clock + left' < 2 * d - now
        BY <1>1, <1>3, <2>4, <3>1, <3>2, <4>1
      <4> QED BY <1>1, <1>2, <2>1, <2>2, <2>3, <2>4, <3>1, <3>2, <4>2
    <3> QED BY <2>1, <2>3, <3>1, <3>2
  <2>6. CASE PollInterrupted
    <3>1. clock' = clock /\ left' = SleepTicks(now) /\ intr' # 0
      BY <1>1, <2>6 DEF PollInterrupted, kernelVars
    <3> QED BY <1>1, <1>2, <2>1, <2>2, <2>3, <2>4, <3>1
  <2>7. CASE Tick
    <3>1. /\ clock' = IF clock < MaxClock THEN clock + 1 ELSE clock
          /\ left' = IF left > 0 THEN left - 1 ELSE left
          /\ intr' = intr
      BY <2>7 DEF Tick
    <3>2. now <= clock'
      BY <1>1, <2>3, <3>1
    <3>3. CASE d_timeouts # << >>
      <4>1. d \in Int /\ left' >= 0 /\ left' <= d - now
        BY <1>1, <1>3, <2>3, <3>1, <3>3
      <4>2. intr' = 0 /\ left' > 0 => clock' + left' < 2 * d - now
        BY <1>1, <1>3, <2>3, <3>1, <3>3
      <4> QED BY <1>2, <2>1, <2>2, <2>3, <3>2, <3>3, <4>1, <4>2
    <3> QED BY <2>1, <3>2, <3>3
  <2>8. CASE UNCHANGED <<left, clock, intr>>
    BY <1>2, <2>1, <2>2, <2>3, <2>8
  <2> QED BY <2>1, <2>5, <2>6, <2>7, <2>8
<1> QED BY <1>4, <1>5

(* While a timer waits, poll(2) is not told to sleep for ever or past the    *)
(* deadline, and unless it is interrupted it ends less than one interval     *)
(* after the deadline, for every length of a millisecond, if every interval  *)
(* can be converted to int.                                                  *)
THEOREM SleepCorrect == IntervalsFit => (Spec => []SleepBounds)
<1> SUFFICES ASSUME IntervalsFit PROVE Spec => []SleepBounds
  OBVIOUS
<1>1. Init => SleepInv
  BY DEF Init, SleepInv
<1>2. IInv /\ SleepInv /\ [Next]_vars => IInv' /\ SleepInv'
  BY NextIInv, NextSleepInv
<1>3. SleepInv => SleepBounds
  BY DEF SleepInv, SleepBounds, SleepBounded, OversleepBounded
<1> QED BY <1>1, <1>2, <1>3, InitIInv, PTL DEF Spec

==============================================================================
