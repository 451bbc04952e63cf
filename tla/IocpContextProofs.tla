-------------------------- MODULE IocpContextProofs --------------------------
(***************************************************************************)
(* The safety properties of the Windows context, for any number of         *)
(* operations, tokens and sockets, any deadlines and any clock.            *)
(*                                                                         *)
(* The loop's count, the places of an operation and its own count agree    *)
(* because an operation goes through a few phases only, which its kind     *)
(* determines, and is in the kernel, in the port or on a list exactly in   *)
(* those phases in which its receiver waits: OpInv.                        *)
(***************************************************************************)
EXTENDS IocpContext, DataLemmas

OpRecords == [kind : AllKinds \cup {"none", "unsubmitted"}, id : Nat, block : Nat,
              deadline : 0 .. MaxClock, token : Tokens \cup {NoToken}]

(* The phases of a sender_state: started; its callback has asked for the   *)
(* cancellation; aborted by a close, its callback still registered; ended. *)
Registered == [count |-> 1, armed |-> TRUE, signals |-> << >>]
Cancelling == [count |-> 1, armed |-> FALSE, signals |-> << >>]
Aborted == [count |-> 0, armed |-> TRUE, signals |-> <<"stopped">>]
Ended(n, sig) == [count |-> n, armed |-> FALSE, signals |-> <<sig>>]

Phases(k) ==
  CASE k = "none" -> {FreshState}
    [] k = "task" -> {FreshState, Ended(0, "value")}
    [] k = "unsubmitted" -> {Ended(0, "stopped")}
    [] k = "poll" -> {Ended(0, "value")}
    [] k = "timer" -> {Registered, Ended(0, "value"), Ended(0, "stopped"), Ended(-1, "value")}
    [] k \in IoKinds -> {Registered, Cancelling, Aborted, Ended(1, "stopped"),
                         Ended(0, "value"), Ended(0, "error"), Ended(0, "stopped")}

(* The port *)
OpAt(q) == {i \in 1 .. Len(q) : q[i].type = "op"}
Queued(o) == \E i \in 1 .. Len(queue) : IsPacketOf(queue[i], o)

(* An operation is in the kernel or has one packet, and the loop expects   *)
(* as many completions as there are such operations.                       *)
PortInv ==
  /\ \A i, j \in OpAt(queue) : queue[i].op = queue[j].op => i = j
  /\ \A o \in kernel : ~Queued(o)
  /\ IsFiniteSet(kernel)
  /\ OutstandingExact

OpInv(o) ==
  /\ sender[o] \in Phases(op[o].kind)
  /\ InFlight(o) => op[o].kind \in IoKinds
  /\ OnList(timeouts, o) => op[o].kind = "timer"
  /\ OnList(tasks, o) => op[o].kind = "task"
  /\ InFlight(o) \/ OnList(timeouts, o) \/ OnList(tasks, o) <=> Pending(o)
  /\ o \in stopping => sender[o].armed /\ op[o].token \in stop
  /\ sender[o] = Cancelling => op[o].token \in stop

(* The inductive invariant. *)
IInv ==
  /\ TypeOK
  /\ FreeListSound(sockets)
  /\ NoDuplicates(tasks) /\ NoDuplicates(timeouts)
  /\ PortInv
  /\ pc = "wait" => stopping = {}
  /\ \A o \in Ops : OpInv(o)

(* What steps do to the operations as their receivers see them: one is     *)
(* started and may end at once, one that was pending is given its only     *)
(* completion, or nothing.  A completion is set_stopped after a stop       *)
(* request, or because the kernel has aborted the operation.               *)
AbortedNext(o) == queue # << >> /\ IsPacketOf(queue[1], o) /\ queue[1].res = "aborted"

StartsOne ==
  /\ stop' = stop
  /\ \E o \in Ops :
       /\ op[o].kind = "none" /\ op'[o].kind # "none"
       /\ \/ sender'[o].signals = << >>
          \/ \E sig \in Signals : /\ sender'[o].signals = <<sig>>
                                  /\ sig = "stopped" => op'[o].token \in stop
       /\ \A x \in Ops \ {o} : op'[x] = op[x] /\ sender'[x] = sender[x]

CompletesOne ==
  /\ op' = op /\ stop' = stop
  /\ \E o \in Ops, sig \in Signals :
       /\ Pending(o)
       /\ sender'[o].signals = <<sig>>
       /\ sig = "stopped" => op[o].token \in stop \/ AbortedNext(o)
       /\ \A x \in Ops \ {o} : sender'[x] = sender[x]

Internal ==
  /\ op' = op /\ stop' = stop
  /\ \A x \in Ops : sender'[x].signals = sender[x].signals

------------------------------------------------------------------------------
(* The phases of a sender_state *)

(* What the calls on a sender_state do in each phase. *)
LEMMA PhaseSteps ==
  /\ Started(FreshState) = Registered
  /\ \A s \in {Registered, Cancelling} :
       Complete(s) = Ended(0, "value") /\ Error(s) = Ended(0, "error")
  /\ Cancel(Registered) = Aborted
  /\ Cancel(Cancelling) = Ended(0, "stopped")
  /\ Complete(Complete(Registered)) = Ended(-1, "value")
  /\ CallbackComplete(CallbackEntered(Registered)) = Cancelling
  /\ CallbackComplete(Cancel(CallbackEntered(Registered))) = Ended(0, "stopped")
  /\ Cancel(CallbackComplete(CallbackEntered(Registered))) = Ended(0, "stopped")
  /\ CallbackEntered(Aborted) = Ended(1, "stopped")
  /\ TaskComplete(FreshState) = Ended(0, "value")
  /\ MustCancel(Registered) /\ ~MustCancel(Aborted)
<1>1. \A sig : Append(<< >>, sig) = <<sig>>
  OBVIOUS
<1>2. /\ Started(FreshState) = Registered
      /\ CallbackEntered(Registered) = [count |-> 2, armed |-> FALSE, signals |-> << >>]
      /\ CallbackEntered(Aborted) = Ended(1, "stopped")
      /\ MustCancel(Registered) /\ ~MustCancel(Aborted)
  BY DEF Started, FreshState, Registered, Aborted, CallbackEntered, Ended, MustCancel
<1>3. \A sig : Finish(Registered, sig) = Ended(0, sig) /\ Finish(Cancelling, sig) = Ended(0, sig)
  <2>1. Registered.count - 1 = 0 /\ Cancelling.count - 1 = 0
    BY DEF Registered, Cancelling
  <2>2. Registered.signals = << >> /\ Cancelling.signals = << >>
    BY DEF Registered, Cancelling
  <2> QED BY <1>1, <2>1, <2>2 DEF Finish, Ended
<1>4. Finish(Ended(0, "value"), "value") = Ended(-1, "value")
  BY DEF Finish, Ended
<1>5. Cancel(Registered) = Aborted /\ Cancel(Cancelling) = Ended(0, "stopped")
  BY <1>1 DEF Cancel, Registered, Cancelling, Aborted, Ended
<1>6. Cancel([count |-> 2, armed |-> FALSE, signals |-> << >>]) = Cancelling
  BY DEF Cancel, Cancelling
<1>7. TaskComplete(FreshState) = Ended(0, "value")
  BY <1>1 DEF TaskComplete, FreshState, Ended
<1> QED BY <1>2, <1>3, <1>4, <1>5, <1>6, <1>7 DEF Complete, Error, CallbackComplete

(* What can be read off a phase. *)
LEMMA PhaseFacts ==
  /\ FreshState.signals = << >> /\ ~FreshState.armed /\ FreshState.count = 0
  /\ Registered.signals = << >> /\ Registered.armed /\ Registered.count = 1
  /\ Cancelling.signals = << >> /\ ~Cancelling.armed /\ Cancelling.count = 1
  /\ Aborted.signals = <<"stopped">> /\ Aborted.armed /\ Aborted.count = 0
  /\ \A n, sig : /\ Ended(n, sig).signals = <<sig>> /\ ~Ended(n, sig).armed
                 /\ Ended(n, sig).count = n
                 /\ Ended(n, sig).signals # << >>
  /\ Aborted.signals # << >>
BY DEF FreshState, Registered, Cancelling, Aborted, Ended

LEMMA PhaseTypes ==
  /\ {FreshState, Registered, Cancelling, Aborted} \subseteq SenderStates
  /\ \A n \in Int, sig \in Signals : Ended(n, sig) \in SenderStates
<1>1. << >> \in Seq(Signals) /\ \A sig \in Signals : <<sig>> \in Seq(Signals)
  OBVIOUS
<1>2. "stopped" \in Signals
  BY DEF Signals
<1> QED BY <1>1, <1>2 DEF FreshState, Registered, Cancelling, Aborted, Ended, SenderStates

(* The kinds tell the phases apart. *)
LEMMA PhaseCases ==
  /\ Phases("none") = {FreshState}
  /\ Phases("task") = {FreshState, Ended(0, "value")}
  /\ Phases("unsubmitted") = {Ended(0, "stopped")}
  /\ Phases("poll") = {Ended(0, "value")}
  /\ Phases("timer") =
       {Registered, Ended(0, "value"), Ended(0, "stopped"), Ended(-1, "value")}
  /\ \A k \in IoKinds :
       Phases(k) = {Registered, Cancelling, Aborted, Ended(1, "stopped"),
                    Ended(0, "value"), Ended(0, "error"), Ended(0, "stopped")}
  /\ IoKinds \cap {"none", "task", "unsubmitted", "poll", "timer"} = {}
  /\ AllKinds \cup {"none", "unsubmitted"} =
       IoKinds \cup {"none", "task", "unsubmitted", "poll", "timer"}
BY DEF Phases, IoKinds, AllKinds

------------------------------------------------------------------------------
(* The port *)

LEMMA OpAtFinite ==
  ASSUME NEW S, NEW q \in Seq(S)
  PROVE  IsFiniteSet(OpAt(q)) /\ Cardinality(OpAt(q)) \in Nat
<1>1. IsFiniteSet(1 .. Len(q)) /\ OpAt(q) \subseteq 1 .. Len(q)
  BY FS_Interval DEF OpAt
<1> QED BY <1>1, FS_Subset, FS_CardinalityType

LEMMA OpAtAppend ==
  ASSUME NEW S, NEW q \in Seq(S), NEW p \in S
  PROVE  /\ Append(q, p) \in Seq(S) /\ Len(Append(q, p)) = Len(q) + 1 /\ Len(q) \in Nat
         /\ Append(q, p)[Len(q) + 1] = p
         /\ \A i \in 1 .. Len(q) : Append(q, p)[i] = q[i]
         /\ p.type = "op" => /\ OpAt(Append(q, p)) = OpAt(q) \cup {Len(q) + 1}
                             /\ Cardinality(OpAt(Append(q, p))) = Cardinality(OpAt(q)) + 1
         /\ p.type # "op" => OpAt(Append(q, p)) = OpAt(q)
<1>1. PICK r : r = Append(q, p)
  OBVIOUS
<1>2. /\ r \in Seq(S) /\ Len(r) = Len(q) + 1 /\ Len(q) \in Nat
      /\ r[Len(q) + 1] = p
      /\ \A i \in 1 .. Len(q) : r[i] = q[i]
  BY <1>1
<1>3. \A i : i \in 1 .. Len(r) <=> i \in 1 .. Len(q) \/ i = Len(q) + 1
  BY <1>2
<1>4. \A i : i \in OpAt(r) <=> i \in OpAt(q) \/ (i = Len(q) + 1 /\ p.type = "op")
  BY <1>2, <1>3 DEF OpAt
<1>5. Len(q) + 1 \notin OpAt(q)
  BY <1>2 DEF OpAt
<1>6. CASE p.type = "op"
  <2>1. OpAt(r) = OpAt(q) \cup {Len(q) + 1}
    BY <1>4, <1>6
  <2> QED BY ZenonT(60), <1>1, <1>2, <1>5, <1>6, <2>1, OpAtFinite, FS_AddElement
<1>7. CASE p.type # "op"
  <2>1. OpAt(r) = OpAt(q)
    BY <1>4, <1>7
  <2> QED BY <1>1, <1>2, <1>7, <2>1
<1> QED BY <1>6, <1>7

LEMMA OpAtTail ==
  ASSUME NEW S, NEW q \in Seq(S), q # << >>
  PROVE  /\ Tail(q) \in Seq(S) /\ q[1] \in S /\ 1 \in 1 .. Len(q)
         /\ \A i \in OpAt(Tail(q)) : i + 1 \in OpAt(q) /\ Tail(q)[i] = q[i + 1] /\ i + 1 # 1
         /\ \A i \in OpAt(q) : i = 1 \/ (i - 1 \in OpAt(Tail(q)) /\ Tail(q)[i - 1] = q[i])
         /\ q[1].type = "op" => Cardinality(OpAt(q)) = Cardinality(OpAt(Tail(q))) + 1
         /\ q[1].type # "op" => Cardinality(OpAt(q)) = Cardinality(OpAt(Tail(q)))
<1>1. PICK r : r = Tail(q)
  OBVIOUS
<1>2. /\ r \in Seq(S) /\ q[1] \in S /\ 1 \in 1 .. Len(q)
      /\ Len(r) = Len(q) - 1 /\ Len(q) \in Nat
      /\ \A i \in 1 .. Len(q) - 1 : r[i] = q[i + 1]
  BY <1>1
<1>3. /\ OpAt(r) = {i \in 1 .. Len(r) : r[i].type = "op"}
      /\ OpAt(q) = {i \in 1 .. Len(q) : q[i].type = "op"}
  BY DEF OpAt
<1>4. \A i \in OpAt(r) : i \in Nat /\ i + 1 \in OpAt(q) /\ r[i] = q[i + 1] /\ i + 1 # 1
  <2> SUFFICES ASSUME NEW i \in OpAt(r)
               PROVE  i \in Nat /\ i + 1 \in OpAt(q) /\ r[i] = q[i + 1] /\ i + 1 # 1
    OBVIOUS
  <2>1. i \in 1 .. Len(q) - 1 /\ i + 1 \in 1 .. Len(q) /\ i + 1 # 1 /\ i \in Nat
    BY <1>2, <1>3
  <2> QED BY <1>2, <1>3, <2>1
<1>5. \A i \in OpAt(q) : i = 1 \/ (i - 1 \in OpAt(r) /\ r[i - 1] = q[i] /\ (i - 1) + 1 = i)
  <2> SUFFICES ASSUME NEW i \in OpAt(q), i # 1
               PROVE  i - 1 \in OpAt(r) /\ r[i - 1] = q[i] /\ (i - 1) + 1 = i
    OBVIOUS
  <2>1. i - 1 \in 1 .. Len(q) - 1 /\ (i - 1) + 1 = i
    BY <1>2, <1>3
  <2> QED BY <1>2, <1>3, <2>1
<1>6. Cardinality(OpAt(r)) = Cardinality(OpAt(q) \ {1})
  <2> DEFINE f == [i \in OpAt(r) |-> i + 1]
  <2>1. \A i, j \in OpAt(r) : f[i] = f[j] => i = j
    BY <1>4
  <2>2. \A i \in OpAt(r) : f[i] \in OpAt(q) \ {1}
    BY <1>4
  <2>3. \A j \in OpAt(q) \ {1} : \E i \in OpAt(r) : f[i] = j
    BY <1>5
  <2>4. f \in Bijection(OpAt(r), OpAt(q) \ {1})
    <3>1. f \in [OpAt(r) -> OpAt(q) \ {1}]
      BY <2>2
    <3> HIDE DEF f
    <3> QED BY <2>1, <2>3, <3>1 DEF Bijection, Injection, Surjection, IsInjective
  <2>5. IsFiniteSet(OpAt(r))
    BY <1>2, OpAtFinite
  <2>6. ExistsBijection(OpAt(r), OpAt(q) \ {1})
    BY <2>4 DEF ExistsBijection
  <2> QED BY <2>5, <2>6, FS_Bijection
<1>7. q[1].type = "op" => Cardinality(OpAt(q)) = Cardinality(OpAt(r)) + 1
  <2> SUFFICES ASSUME q[1].type = "op" PROVE Cardinality(OpAt(q)) = Cardinality(OpAt(r)) + 1
    OBVIOUS
  <2>1. 1 \in OpAt(q)
    BY <1>2, <1>3
  <2>2. Cardinality(OpAt(q) \ {1}) = Cardinality(OpAt(q)) - 1 /\ Cardinality(OpAt(q)) \in Nat
    BY <2>1, OpAtFinite, FS_RemoveElement
  <2> QED BY <1>6, <2>2
<1>8. q[1].type # "op" => Cardinality(OpAt(q)) = Cardinality(OpAt(r))
  <2>1. q[1].type # "op" => OpAt(q) \ {1} = OpAt(q)
    BY <1>3
  <2> QED BY <1>6, <2>1
<1> QED BY <1>1, <1>2, <1>4, <1>5, <1>7, <1>8

(* Queued and the count in terms of the indices of the packets. *)
LEMMA PortFacts ==
  /\ \A o : Queued(o) <=> \E i \in OpAt(queue) : queue[i].op = o
  /\ OutstandingExact <=> outstanding = Cardinality(kernel) + Cardinality(OpAt(queue))
  /\ \A o : InFlight(o) <=> o \in kernel \/ Queued(o)
BY DEF Queued, OpAt, OutstandingExact, InFlight, IsPacketOf

LEMMA PortFactsNext ==
  /\ \A o : Queued(o)' <=> \E i \in OpAt(queue') : queue'[i].op = o
  /\ OutstandingExact' <=> outstanding' = Cardinality(kernel') + Cardinality(OpAt(queue'))
  /\ \A o : InFlight(o)' <=> o \in kernel' \/ Queued(o)'
BY DEF Queued, OpAt, OutstandingExact, InFlight, IsPacketOf

PortTypes == queue \in Seq(Packets) /\ outstanding \in Nat /\ kernel \subseteq Ops

LEMMA PacketFacts ==
  /\ NullPacket \in Packets /\ NullPacket.type = "null"
  /\ \A o \in Ops, r \in {"value", "error", "aborted"} :
       /\ OpPacket(o, r) \in Packets
       /\ OpPacket(o, r).type = "op" /\ OpPacket(o, r).op = o /\ OpPacket(o, r).res = r
  /\ \A p \in Packets : /\ p.type = "op" \/ p = NullPacket
                        /\ p.type = "op" => /\ p.op \in Ops
                                            /\ p.res \in {"value", "error", "aborted"}
BY DEF Packets, NullPacket, OpPacket

(* Steps that leave the port alone. *)
LEMMA PortFrame ==
  ASSUME PortTypes, PortInv, UNCHANGED <<outstanding, kernel, queue>>
  PROVE  PortTypes' /\ PortInv' /\ \A x : (Queued(x)' <=> Queued(x)) /\ (InFlight(x)' <=> InFlight(x))
<1>1. \A x : Queued(x)' <=> Queued(x)
  BY PortFacts, PortFactsNext
<1>2. \A x : InFlight(x)' <=> InFlight(x)
  BY <1>1, PortFacts, PortFactsNext
<1>3. OutstandingExact'
  BY PortFacts, PortFactsNext DEF PortInv
<1> QED BY <1>1, <1>2, <1>3 DEF PortTypes, PortInv

(* The kernel accepts an operation. *)
LEMMA SubmitEffect ==
  ASSUME PortTypes, PortInv, NEW o \in Ops, ~InFlight(o),
         kernel' = kernel \cup {o}, outstanding' = outstanding + 1, queue' = queue
  PROVE  PortTypes' /\ PortInv' /\ \A x : InFlight(x)' <=> InFlight(x) \/ x = o
<1>1. o \notin kernel /\ ~Queued(o)
  BY PortFacts
<1>2. \A x : Queued(x)' <=> Queued(x)
  BY PortFacts, PortFactsNext
<1>3. IsFiniteSet(kernel') /\ Cardinality(kernel') = Cardinality(kernel) + 1
  BY <1>1, FS_AddElement DEF PortInv
<1>4. OutstandingExact'
  <2>1. outstanding = Cardinality(kernel) + Cardinality(OpAt(queue))
    BY PortFacts DEF PortInv
  <2>2. Cardinality(kernel) \in Nat /\ Cardinality(OpAt(queue)) \in Nat
    BY OpAtFinite, FS_CardinalityType DEF PortInv, PortTypes
  <2>3. outstanding' = Cardinality(kernel') + Cardinality(OpAt(queue))
    BY <1>3, <2>1, <2>2
  <2> QED BY <2>3, PortFactsNext
<1>5. PortInv'
  BY <1>1, <1>2, <1>3, <1>4 DEF PortInv
<1>6. \A x : InFlight(x)' <=> InFlight(x) \/ x = o
  BY <1>2, PortFacts, PortFactsNext
<1> QED BY <1>5, <1>6 DEF PortTypes

(* The kernel ends an operation and queues its packet. *)
LEMMA PostEffect ==
  ASSUME PortTypes, PortInv, NEW o \in kernel, NEW r \in {"value", "error", "aborted"},
         kernel' = kernel \ {o}, queue' = Append(queue, OpPacket(o, r)),
         outstanding' = outstanding
  PROVE  /\ PortTypes' /\ PortInv'
         /\ \A x : InFlight(x)' <=> InFlight(x)
         /\ Len(queue) \in Nat
         /\ OpAt(queue') = OpAt(queue) \cup {Len(queue) + 1}
         /\ queue'[Len(queue) + 1] = OpPacket(o, r)
         /\ \A i \in OpAt(queue) : queue'[i] = queue[i]
<1>1. PICK p : p = OpPacket(o, r)
  OBVIOUS
<1>2. o \in Ops /\ p \in Packets /\ p.type = "op" /\ p.op = o
  BY <1>1, PacketFacts DEF PortTypes
<1>3. /\ queue' \in Seq(Packets) /\ Len(queue) \in Nat
      /\ queue'[Len(queue) + 1] = p
      /\ \A i \in 1 .. Len(queue) : queue'[i] = queue[i]
      /\ OpAt(queue') = OpAt(queue) \cup {Len(queue) + 1}
      /\ Cardinality(OpAt(queue')) = Cardinality(OpAt(queue)) + 1
  BY <1>1, <1>2, OpAtAppend DEF PortTypes
<1>4. \A i \in OpAt(queue) : queue'[i] = queue[i]
  BY <1>3 DEF OpAt
<1>5. ~Queued(o)
  BY DEF PortInv
<1>6. \A x : Queued(x)' <=> Queued(x) \/ x = o
  <2>1. /\ \A x : Queued(x) <=> \E i \in OpAt(queue) : queue[i].op = x
        /\ \A x : Queued(x)' <=> \E i \in OpAt(queue') : queue'[i].op = x
    BY PortFacts, PortFactsNext
  <2>2. ASSUME NEW x, Queued(x)' PROVE Queued(x) \/ x = o
    <3>1. PICK i \in OpAt(queue') : queue'[i].op = x
      BY <2>1, <2>2
    <3>2. i \in OpAt(queue) \/ i = Len(queue) + 1
      BY <1>3
    <3> QED BY <1>2, <1>3, <1>4, <2>1, <3>1, <3>2
  <2>3. ASSUME NEW x, Queued(x) PROVE Queued(x)'
    BY <1>3, <1>4, <2>1, <2>3
  <2>4. Queued(o)'
    BY <1>2, <1>3, <2>1
  <2> QED BY <2>2, <2>3, <2>4
<1>7. \A i, j \in OpAt(queue') : queue'[i].op = queue'[j].op => i = j
  <2>1. \A i \in OpAt(queue) : queue'[i].op = queue[i].op /\ queue[i].op # o
    BY <1>4, <1>5, PortFacts
  <2>2. queue'[Len(queue) + 1].op = o
    BY <1>2, <1>3
  <2>3. \A i \in OpAt(queue') : i \in OpAt(queue) \/ i = Len(queue) + 1
    BY <1>3
  <2>4. \A i, j \in OpAt(queue) : queue[i].op = queue[j].op => i = j
    BY DEF PortInv
  <2> SUFFICES ASSUME NEW i \in OpAt(queue'), NEW j \in OpAt(queue'), queue'[i].op = queue'[j].op
               PROVE  i = j
    OBVIOUS
  <2>5. CASE i \in OpAt(queue) /\ j \in OpAt(queue)
    BY <2>1, <2>4, <2>5
  <2>6. CASE i = Len(queue) + 1 \/ j = Len(queue) + 1
    BY <2>1, <2>2, <2>3, <2>6
  <2> QED BY <2>3, <2>5, <2>6
<1>8. IsFiniteSet(kernel') /\ Cardinality(kernel') = Cardinality(kernel) - 1
  BY FS_RemoveElement DEF PortInv
<1>9. OutstandingExact'
  <2>1. outstanding = Cardinality(kernel) + Cardinality(OpAt(queue))
    BY PortFacts DEF PortInv
  <2>2. Cardinality(kernel) \in Nat /\ Cardinality(OpAt(queue)) \in Nat
    BY OpAtFinite, FS_CardinalityType DEF PortInv, PortTypes
  <2>3. outstanding' = Cardinality(kernel') + Cardinality(OpAt(queue'))
    BY <1>3, <1>8, <2>1, <2>2
  <2> QED BY <2>3, PortFactsNext
<1>10. \A x \in kernel' : ~Queued(x)'
  BY <1>6 DEF PortInv
<1>11. PortInv'
  BY <1>7, <1>8, <1>9, <1>10 DEF PortInv
<1>12. \A x : InFlight(x)' <=> InFlight(x)
  BY <1>6, PortFacts, PortFactsNext
<1>13. PortTypes'
  BY <1>3 DEF PortTypes
<1> QED BY <1>1, <1>3, <1>4, <1>11, <1>12, <1>13

(* schedule() posts a packet of its own. *)
LEMMA PostNullEffect ==
  ASSUME PortTypes, PortInv, queue' = Append(queue, NullPacket),
         UNCHANGED <<kernel, outstanding>>
  PROVE  /\ PortTypes' /\ PortInv'
         /\ \A x : InFlight(x)' <=> InFlight(x)
         /\ OpAt(queue') = OpAt(queue)
         /\ \A i \in OpAt(queue) : queue'[i] = queue[i]
<1>1. NullPacket \in Packets /\ NullPacket.type # "op"
  BY PacketFacts
<1>2. /\ queue' \in Seq(Packets)
      /\ \A i \in 1 .. Len(queue) : queue'[i] = queue[i]
      /\ OpAt(queue') = OpAt(queue)
  BY <1>1, OpAtAppend DEF PortTypes
<1>3. \A i \in OpAt(queue) : queue'[i] = queue[i]
  BY <1>2 DEF OpAt
<1>4. \A x : Queued(x)' <=> Queued(x)
  BY ZenonT(60), <1>2, <1>3, PortFacts, PortFactsNext
<1>5. OutstandingExact'
  BY <1>2, PortFacts, PortFactsNext DEF PortInv
<1>6. \A i, j \in OpAt(queue') : queue'[i].op = queue'[j].op => i = j
  BY <1>2, <1>3 DEF PortInv
<1>7. PortInv'
  BY <1>4, <1>5, <1>6 DEF PortInv
<1>8. \A x : InFlight(x)' <=> InFlight(x)
  BY <1>4, PortFacts, PortFactsNext
<1> QED BY <1>2, <1>3, <1>7, <1>8 DEF PortTypes

(* run_one() takes the first packet of the port: a completion of an        *)
(* operation is counted, a packet of schedule() is not.                    *)
LEMMA TakeEffect ==
  ASSUME PortTypes, PortInv, queue # << >>, queue' = Tail(queue), kernel' = kernel,
         outstanding' = IF queue[1].type = "op" THEN outstanding - 1 ELSE outstanding
  PROVE  /\ PortTypes' /\ PortInv'
         /\ queue[1] \in Packets
         /\ queue[1].type = "op" => /\ queue[1].op \in Ops /\ InFlight(queue[1].op)
                                    /\ 1 \in OpAt(queue)
                                    /\ \A x : InFlight(x)' <=> InFlight(x) /\ x # queue[1].op
         /\ queue[1].type # "op" => \A x : InFlight(x)' <=> InFlight(x)
         /\ \A i \in OpAt(queue') : i + 1 \in OpAt(queue) /\ queue'[i] = queue[i + 1]
<1>1. /\ queue' \in Seq(Packets) /\ queue[1] \in Packets /\ 1 \in 1 .. Len(queue)
      /\ \A i \in OpAt(queue') : i + 1 \in OpAt(queue) /\ queue'[i] = queue[i + 1] /\ i + 1 # 1
      /\ \A i \in OpAt(queue) : i = 1 \/ (i - 1 \in OpAt(queue') /\ queue'[i - 1] = queue[i])
      /\ queue[1].type = "op" => Cardinality(OpAt(queue)) = Cardinality(OpAt(queue')) + 1
      /\ queue[1].type # "op" => Cardinality(OpAt(queue)) = Cardinality(OpAt(queue'))
  BY OpAtTail DEF PortTypes
<1>2. \A i, j \in OpAt(queue') : queue'[i].op = queue'[j].op => i = j
  <2> SUFFICES ASSUME NEW i \in OpAt(queue'), NEW j \in OpAt(queue'),
                      queue'[i].op = queue'[j].op
               PROVE  i = j
    OBVIOUS
  <2>1. i + 1 \in OpAt(queue) /\ j + 1 \in OpAt(queue) /\ queue[i + 1].op = queue[j + 1].op
    BY <1>1
  <2>2. i + 1 = j + 1
    BY <2>1 DEF PortInv
  <2>3. i \in Int /\ j \in Int
    BY DEF OpAt
  <2> QED BY <2>2, <2>3
<1>3. outstanding' \in Nat /\ OutstandingExact'
  <2>1. outstanding = Cardinality(kernel) + Cardinality(OpAt(queue))
    BY PortFacts DEF PortInv
  <2>2. /\ Cardinality(kernel) \in Nat /\ Cardinality(OpAt(queue)) \in Nat
        /\ Cardinality(OpAt(queue')) \in Nat
    BY <1>1, OpAtFinite, FS_CardinalityType DEF PortInv, PortTypes
  <2>3. outstanding' = Cardinality(kernel') + Cardinality(OpAt(queue'))
    <3>1. CASE queue[1].type = "op"
      <4>1. /\ outstanding' = outstanding - 1 /\ Cardinality(kernel') = Cardinality(kernel)
            /\ Cardinality(OpAt(queue)) = Cardinality(OpAt(queue')) + 1
        BY <1>1, <3>1
      <4> QED BY <2>1, <2>2, <4>1
    <3>2. CASE queue[1].type # "op"
      <4>1. /\ outstanding' = outstanding /\ Cardinality(kernel') = Cardinality(kernel)
            /\ Cardinality(OpAt(queue)) = Cardinality(OpAt(queue'))
        BY <1>1, <3>2
      <4> QED BY <2>1, <2>2, <4>1
    <3> QED BY <3>1, <3>2
  <2>4. outstanding' \in Nat
    BY <2>2, <2>3
  <2> QED BY <2>3, <2>4, PortFactsNext
<1>4. queue[1].type = "op" => 1 \in OpAt(queue) /\ queue[1].op \in Ops
  BY <1>1, PacketFacts DEF OpAt
<1>5. ASSUME NEW x
      PROVE  Queued(x)' <=> Queued(x) /\ ~(queue[1].type = "op" /\ queue[1].op = x)
  <2>1. ASSUME Queued(x)' PROVE Queued(x) /\ ~(queue[1].type = "op" /\ queue[1].op = x)
    <3>1. PICK i \in OpAt(queue') : queue'[i].op = x
      BY <2>1, PortFactsNext
    <3>2. i + 1 \in OpAt(queue) /\ queue[i + 1].op = x /\ i + 1 # 1
      BY <1>1, <3>1
    <3>3. ~(queue[1].type = "op" /\ queue[1].op = x)
      BY <1>4, <3>2 DEF PortInv
    <3> QED BY <3>2, <3>3, PortFacts
  <2>2. ASSUME Queued(x), ~(queue[1].type = "op" /\ queue[1].op = x) PROVE Queued(x)'
    <3>1. PICK i \in OpAt(queue) : queue[i].op = x
      BY <2>2, PortFacts
    <3>2. i # 1
      BY <2>2, <3>1 DEF OpAt
    <3>3. i - 1 \in OpAt(queue') /\ queue'[i - 1].op = x
      BY <1>1, <3>1, <3>2
    <3> QED BY <3>3, PortFactsNext
  <2> QED BY <2>1, <2>2
<1>6. \A x : InFlight(x)' <=> x \in kernel \/ Queued(x)'
  BY PortFactsNext
<1>7. queue[1].type = "op" => Queued(queue[1].op)
  BY <1>4, PortFacts
<1>8. PortInv'
  <2>1. \A x \in kernel' : ~Queued(x)'
    BY <1>5 DEF PortInv
  <2> QED BY <1>2, <1>3, <2>1 DEF PortInv
<1>9. queue[1].type = "op" =>
        InFlight(queue[1].op) /\ \A x : InFlight(x)' <=> InFlight(x) /\ x # queue[1].op
  <2> SUFFICES ASSUME queue[1].type = "op"
               PROVE  InFlight(queue[1].op)
                      /\ \A x : InFlight(x)' <=> InFlight(x) /\ x # queue[1].op
    OBVIOUS
  <2>1. queue[1].op \notin kernel
    BY <1>7 DEF PortInv
  <2> QED BY <1>5, <1>6, <1>7, <2>1, PortFacts
<1>10. queue[1].type # "op" => \A x : InFlight(x)' <=> InFlight(x)
  BY <1>5, <1>6, PortFacts
<1> QED BY <1>1, <1>3, <1>4, <1>8, <1>9, <1>10 DEF PortTypes

------------------------------------------------------------------------------
(* The inductive invariant holds initially and is kept by every action. *)

OpsTyped == op \in [Ops -> OpRecords] /\ sender \in [Ops -> SenderStates]

TypeRest ==
  /\ sockets \in Containers /\ used \subseteq Handles /\ deferred \in Seq(Handles)
  /\ tasks \in Seq(Ops) /\ timeouts \in Seq(Ops)
  /\ aborting \subseteq kernel
  /\ pc \in {"idle", "run", "wait", "work"} /\ left \in Int /\ left >= -1
  /\ now \in 0 .. MaxClock /\ clock \in 0 .. MaxClock /\ halted \in {"no", "assert", "freed"}
  /\ stop \subseteq Tokens /\ stopping \subseteq Ops

LEMMA TypeParts ==
  /\ TypeOK <=> OpsTyped /\ PortTypes /\ TypeRest
  /\ TypeOK' <=> OpsTyped' /\ PortTypes' /\ TypeRest'
BY DEF TypeOK, OpsTyped, PortTypes, TypeRest, OpRecords

LEMMA InitIInv == Init => IInv
<1> SUFFICES ASSUME Init PROVE IInv
  OBVIOUS
<1>1. /\ op = [o \in Ops |-> NotStarted] /\ sender = [o \in Ops |-> FreshState]
      /\ queue = << >> /\ kernel = {} /\ tasks = << >> /\ timeouts = << >>
      /\ sockets = EmptyContainer /\ outstanding = 0 /\ stopping = {} /\ pc = "idle"
  BY DEF Init
<1>2. NotStarted \in OpRecords /\ NotStarted.kind = "none"
  BY ConstantsAssumption DEF NotStarted, OpRecords
<1>3. TypeOK
  <2>1. EmptyContainer \in Containers
    BY DEF EmptyContainer, Containers
  <2>2. OpsTyped
    BY <1>1, <1>2, PhaseTypes DEF OpsTyped
  <2>3. PortTypes
    BY <1>1 DEF PortTypes
  <2>4. TypeRest
    BY <2>1, ConstantsAssumption DEF TypeRest, Init
  <2> QED BY <2>2, <2>3, <2>4, TypeParts
<1>4. FreeListSound(sockets)
  <2>1. /\ DeadIds(EmptyContainer) = {} /\ Size(EmptyContainer) = 0
        /\ EmptyContainer.free = 0
    BY DEF EmptyContainer, DeadIds, Ids, Size
  <2>2. Cardinality(DeadIds(EmptyContainer)) = 0
    BY <2>1, FS_EmptySet
  <2> DEFINE chain == [i \in 1 .. 0 |-> i]
  <2>3. chain \in [1 .. 0 -> DeadIds(EmptyContainer)]
    BY <2>1
  <2>4. IsFreeChain(EmptyContainer, chain)
    BY <2>1, <2>2, <2>3 DEF IsFreeChain
  <2> QED BY <1>1, <2>2, <2>3, <2>4 DEF FreeListSound
<1>5. \A x : ~InFlight(x) /\ ~OnList(tasks, x) /\ ~OnList(timeouts, x)
  BY <1>1 DEF InFlight, OnList
<1>6. PortInv
  <2>1. OpAt(queue) = {}
    BY <1>1 DEF OpAt
  <2>2. OutstandingExact
    BY <1>1, <2>1, FS_EmptySet, PortFacts
  <2> QED BY <1>1, <2>1, <2>2, FS_EmptySet DEF PortInv
<1>7. ASSUME NEW o \in Ops PROVE OpInv(o)
  <2>1. op[o].kind = "none" /\ sender[o] = FreshState
    BY <1>1, <1>2
  <2> QED BY <1>1, <1>5, <2>1, PhaseCases, PhaseFacts DEF OpInv, Pending
<1>8. NoDuplicates(tasks) /\ NoDuplicates(timeouts)
  BY <1>1 DEF NoDuplicates
<1> QED BY <1>1, <1>3, <1>4, <1>6, <1>7, <1>8 DEF IInv

LEMMA Parts ==
  ASSUME IInv
  PROVE  /\ TypeOK /\ OpsTyped /\ PortTypes /\ TypeRest /\ PortInv
         /\ FreeListSound(sockets) /\ NoDuplicates(tasks) /\ NoDuplicates(timeouts)
         /\ pc = "wait" => stopping = {}
         /\ \A o \in Ops : OpInv(o) /\ op[o] \in OpRecords /\ sender[o] \in SenderStates
BY TypeParts DEF IInv, OpsTyped

LEMMA PhaseIsState ==
  ASSUME NEW r \in OpRecords, NEW s \in Phases(r.kind)
  PROVE  s \in SenderStates
<1>1. {"value", "error", "stopped"} = Signals
  BY DEF Signals
<1>2. r.kind \in IoKinds \cup {"none", "task", "unsubmitted", "poll", "timer"}
  BY PhaseCases DEF OpRecords
<1>3. s \in {FreshState, Registered, Cancelling, Aborted, Ended(1, "stopped"),
             Ended(0, "value"), Ended(0, "error"), Ended(0, "stopped"), Ended(-1, "value")}
  BY <1>2, PhaseCases
<1> QED BY <1>1, <1>3, PhaseTypes

(* A step that concerns one operation. *)
LEMMA OneOperation ==
  ASSUME IInv, NEW o \in Ops, NEW r \in OpRecords, NEW s \in Phases(r.kind),
         op' = [op EXCEPT ![o] = r], sender' = [sender EXCEPT ![o] = s], stop' = stop,
         \A x \in Ops \ {o} :
           /\ InFlight(x)' <=> InFlight(x)
           /\ OnList(timeouts, x)' <=> OnList(timeouts, x)
           /\ OnList(tasks, x)' <=> OnList(tasks, x)
           /\ x \in stopping' => x \in stopping,
         InFlight(o)' => r.kind \in IoKinds,
         OnList(timeouts, o)' => r.kind = "timer",
         OnList(tasks, o)' => r.kind = "task",
         InFlight(o)' \/ OnList(timeouts, o)' \/ OnList(tasks, o)'
           <=> r.kind # "none" /\ s.signals = << >>,
         o \in stopping' => s.armed /\ r.token \in stop,
         s = Cancelling => r.token \in stop
  PROVE  /\ OpsTyped' /\ \A x \in Ops : OpInv(x)'
         /\ op'[o] = r /\ sender'[o] = s
         /\ \A x \in Ops \ {o} : op'[x] = op[x] /\ sender'[x] = sender[x]
<1>1. OpsTyped /\ \A x \in Ops : OpInv(x)
  BY Parts
<1>2. s \in SenderStates
  BY PhaseIsState
<1>3. /\ op'[o] = r /\ sender'[o] = s
      /\ \A x \in Ops \ {o} : op'[x] = op[x] /\ sender'[x] = sender[x]
  BY <1>1 DEF OpsTyped
<1>4. OpsTyped'
  BY <1>1, <1>2 DEF OpsTyped
<1>5. OpInv(o)'
  BY <1>3 DEF OpInv, Pending
<1>6. ASSUME NEW x \in Ops \ {o} PROVE OpInv(x)'
  <2>1. OpInv(x) /\ op'[x] = op[x] /\ sender'[x] = sender[x]
    BY <1>1, <1>3
  <2> QED BY <2>1 DEF OpInv, Pending
<1> QED BY <1>3, <1>4, <1>5, <1>6

(* A step that concerns the sender_state of one operation. *)
LEMMA OneSender ==
  ASSUME IInv, NEW o \in Ops, NEW s \in Phases(op[o].kind),
         op' = op, sender' = [sender EXCEPT ![o] = s], stop' = stop,
         \A x \in Ops \ {o} :
           /\ InFlight(x)' <=> InFlight(x)
           /\ OnList(timeouts, x)' <=> OnList(timeouts, x)
           /\ OnList(tasks, x)' <=> OnList(tasks, x)
           /\ x \in stopping' => x \in stopping,
         InFlight(o)' => op[o].kind \in IoKinds,
         OnList(timeouts, o)' => op[o].kind = "timer",
         OnList(tasks, o)' => op[o].kind = "task",
         InFlight(o)' \/ OnList(timeouts, o)' \/ OnList(tasks, o)'
           <=> op[o].kind # "none" /\ s.signals = << >>,
         o \in stopping' => s.armed /\ op[o].token \in stop,
         s = Cancelling => op[o].token \in stop
  PROVE  /\ OpsTyped' /\ \A x \in Ops : OpInv(x)'
         /\ sender'[o] = s
         /\ \A x \in Ops \ {o} : sender'[x] = sender[x]
<1>1. OpsTyped /\ \A x \in Ops : OpInv(x)
  BY Parts
<1>2. s \in SenderStates
  BY PhaseIsState, Parts
<1>3. sender'[o] = s /\ \A x \in Ops \ {o} : sender'[x] = sender[x]
  BY <1>1 DEF OpsTyped
<1>4. OpsTyped'
  BY <1>1, <1>2 DEF OpsTyped
<1>5. OpInv(o)'
  BY <1>3 DEF OpInv, Pending
<1>6. ASSUME NEW x \in Ops \ {o} PROVE OpInv(x)'
  <2>1. OpInv(x) /\ sender'[x] = sender[x]
    BY <1>1, <1>3
  <2> QED BY <2>1 DEF OpInv, Pending
<1> QED BY <1>3, <1>4, <1>5, <1>6

(* A step that concerns no operation. *)
LEMMA NoOperation ==
  ASSUME IInv, UNCHANGED <<op, sender, stop, stopping, tasks, timeouts>>,
         PortTypes', PortInv', \A x : InFlight(x)' <=> InFlight(x),
         TypeRest', FreeListSound(sockets'), pc' = "wait" => stopping = {}
  PROVE  IInv' /\ Internal
<1>1. OpsTyped /\ NoDuplicates(tasks) /\ NoDuplicates(timeouts) /\ \A x \in Ops : OpInv(x)
  BY Parts
<1>2. \A x : /\ OnList(timeouts, x)' <=> OnList(timeouts, x)
             /\ OnList(tasks, x)' <=> OnList(tasks, x)
  BY DEF OnList
<1>3. ASSUME NEW x \in Ops PROVE OpInv(x)'
  <2>1. OpInv(x) /\ op'[x] = op[x] /\ sender'[x] = sender[x]
    BY <1>1
  <2> QED BY <1>2, <2>1 DEF OpInv, Pending
<1>4. NoDuplicates(tasks)' /\ NoDuplicates(timeouts)'
  BY <1>1 DEF NoDuplicates
<1>5. TypeOK'
  BY <1>1, TypeParts DEF OpsTyped
<1> QED BY <1>3, <1>4, <1>5 DEF IInv, Internal

(* The handle and block a new socket gets. *)
LEMMA NewHandleFresh ==
  ASSUME FreshHandles # {}
  PROVE  NewHandle \in FreshHandles /\ NewHandle \in Handles
<1>1. FreshHandles \in SUBSET Nat
  BY ConstantsAssumption DEF FreshHandles
<1>2. \E h \in FreshHandles : \A g \in FreshHandles : h <= g
  BY <1>1, LeastElement
<1> QED BY <1>2 DEF NewHandle, FreshHandles

(* container::insert() for a new socket. *)
LEMMA NewSocketEffect ==
  ASSUME sockets \in Containers, FreeListSound(sockets), used \subseteq Handles,
         FreshHandles # {}, sockets' = Insert(sockets, NewHandle),
         used' = used \cup {NewHandle}
  PROVE  /\ sockets' \in Containers /\ FreeListSound(sockets') /\ used' \subseteq Handles
         /\ \A id : IsLive(sockets, id) =>
              IsLive(sockets', id) /\ Lookup(sockets', id) = Lookup(sockets, id)
         /\ LiveBlocks \subseteq LiveBlocks'
<1>1. NewHandle \in Handles
  BY NewHandleFresh
<1>2. /\ sockets' \in Containers /\ InsertId(sockets) \notin LiveIds(sockets)
      /\ LiveIds(sockets') = LiveIds(sockets) \cup {InsertId(sockets)}
      /\ \A k \in Ids(sockets) : k # InsertId(sockets) =>
           sockets'.records[k + 1] = sockets.records[k + 1]
  BY <1>1, InsertEffect
<1>3. ASSUME NEW id, IsLive(sockets, id)
      PROVE  IsLive(sockets', id) /\ Lookup(sockets', id) = Lookup(sockets, id)
  <2>1. id \in LiveIds(sockets) /\ id \in Ids(sockets) /\ id # InsertId(sockets)
    BY <1>2, <1>3 DEF IsLive, LiveIds
  <2>2. id \in LiveIds(sockets')
    BY <1>2, <2>1
  <2> QED BY <1>2, <2>1, <2>2 DEF IsLive, LiveIds, Lookup
<1>4. \A id \in LiveIds(sockets) : id \in LiveIds(sockets') /\ Lookup(sockets', id) = Lookup(sockets, id)
  BY <1>3 DEF IsLive, LiveIds
<1>5. LiveBlocks \subseteq LiveBlocks'
  BY <1>4 DEF LiveBlocks
<1> QED BY <1>1, <1>2, <1>3, <1>5, InsertKeepsFreeList

(* container::erase() for a closed one. *)
LEMMA EraseSocketEffect ==
  ASSUME sockets \in Containers, FreeListSound(sockets), NEW id, IsLive(sockets, id),
         sockets' = Erase(sockets, id)
  PROVE  /\ sockets' \in Containers /\ FreeListSound(sockets')
         /\ Lookup(sockets, id) \in Handles
         /\ \A k : IsLive(sockets, k) /\ k # id =>
              IsLive(sockets', k) /\ Lookup(sockets', k) = Lookup(sockets, k)
<1>1. id \in LiveIds(sockets) /\ id \in Ids(sockets)
  BY DEF IsLive, LiveIds
<1>2. /\ sockets' \in Containers
      /\ LiveIds(sockets') = LiveIds(sockets) \ {id}
      /\ \A k \in Ids(sockets) : k # id => sockets'.records[k + 1] = sockets.records[k + 1]
  BY <1>1, EraseEffect
<1>3. Lookup(sockets, id) \in Handles
  BY <1>1, SlotCases DEF Lookup
<1>4. ASSUME NEW k, IsLive(sockets, k), k # id
      PROVE  IsLive(sockets', k) /\ Lookup(sockets', k) = Lookup(sockets, k)
  <2>1. k \in LiveIds(sockets) /\ k \in Ids(sockets) /\ k \in LiveIds(sockets')
    BY <1>2, <1>4 DEF IsLive, LiveIds
  <2> QED BY <1>2, <1>4, <2>1 DEF IsLive, LiveIds, Lookup
<1> QED BY <1>1, <1>2, <1>3, <1>4, EraseKeepsFreeList

LEMMA SocketsKeep ==
  ASSUME IInv, MakeSocket \/ (\E id \in Ids(sockets) : Release(id))
  PROVE  IInv' /\ Internal
<1>1. /\ PortTypes /\ PortInv /\ TypeRest /\ FreeListSound(sockets)
      /\ pc = "wait" => stopping = {}
  BY Parts
<1>2. /\ UNCHANGED <<op, sender, stop, stopping, tasks, timeouts>>
      /\ UNCHANGED <<outstanding, kernel, queue, pc, left, now, clock, halted>>
  BY DEF MakeSocket, Release, appVars, portVars, loopVars
<1>3. PortTypes' /\ PortInv' /\ \A x : InFlight(x)' <=> InFlight(x)
  BY <1>1, <1>2, PortFrame
<1>4. TypeRest' /\ FreeListSound(sockets')
  <2>1. CASE MakeSocket
    <3>1. UNCHANGED <<deferred, aborting>>
      BY <2>1 DEF MakeSocket, portVars
    <3>2. sockets' \in Containers /\ FreeListSound(sockets') /\ used' \subseteq Handles
      BY <1>1, <2>1, NewSocketEffect DEF MakeSocket, TypeRest
    <3> QED BY <1>1, <1>2, <3>1, <3>2 DEF TypeRest
  <2>2. ASSUME NEW id \in Ids(sockets), Release(id) PROVE TypeRest' /\ FreeListSound(sockets')
    <3>1. /\ sockets' \in Containers /\ FreeListSound(sockets')
          /\ Lookup(sockets, id) \in Handles
      BY <1>1, <2>2, EraseSocketEffect DEF Release, TypeRest
    <3>2. deferred' = Defer(Lookup(sockets, id)) /\ used' = used
          /\ aborting' \subseteq aborting \cup kernel
      BY <2>2 DEF Release
    <3>3. deferred' \in Seq(Handles)
      BY <1>1, <3>1, <3>2 DEF Defer, TypeRest
    <3> QED BY <1>1, <1>2, <3>1, <3>2, <3>3 DEF TypeRest
  <2> QED BY <2>1, <2>2
<1> QED BY <1>1, <1>2, <1>3, <1>4, NoOperation

(* The wait is INFINITE or a number of ticks. *)
LEMMA WaitTicksType ==
  ASSUME IInv, ~TimerDue(clock)
  PROVE  /\ WaitTicks \in Int /\ WaitTicks >= -1
         /\ timeouts # << >> => /\ Deadline[timeouts[1]] \in Nat
                                /\ Deadline[timeouts[1]] - clock \in Nat
                                /\ WaitTicks >= 0
<1>1. CASE timeouts = << >>
  BY <1>1 DEF WaitTicks
<1>2. CASE timeouts # << >>
  <2>1. timeouts[1] \in Ops
    BY <1>2, Parts DEF TypeRest
  <2>2. Deadline[timeouts[1]] \in 0 .. MaxClock /\ clock \in 0 .. MaxClock
    BY <2>1, Parts DEF OpRecords, Deadline, TypeRest
  <2>3. PICK n \in Nat : n = Deadline[timeouts[1]] - clock
    BY <1>2, <2>2, ConstantsAssumption DEF TimerDue
  <2>4. n \div TicksPerMs \in Nat
    BY ConstantsAssumption
  <2>5. Least(n \div TicksPerMs, MaxWait) \in Nat
    BY <2>4, ConstantsAssumption DEF Least
  <2>6. TicksPerMs * Least(n \div TicksPerMs, MaxWait) \in Nat
    BY <2>5, ConstantsAssumption
  <2>7. WaitTicks \in Nat
    BY <1>2, <2>3, <2>6 DEF WaitTicks
  <2> QED BY <2>2, <2>3, <2>7, ConstantsAssumption
<1> QED BY <1>1, <1>2

(* Steps of the loop and of the clock that concern no operation. *)
LEMMA LoopStepsKeep ==
  ASSUME IInv,
         \/ Run \/ RunOneEmpty \/ RunOneWait \/ WaitFailed \/ FreeDeferred \/ Tick
         \/ (\E o \in Ops : CancelReleased(o))
         \/ DequeueStale \/ UNCHANGED vars
  PROVE  IInv' /\ Internal
<1>1. /\ PortTypes /\ PortInv /\ TypeRest /\ FreeListSound(sockets)
      /\ pc = "wait" => stopping = {}
  BY Parts
<1>2. /\ UNCHANGED <<op, sender, stop, stopping, tasks, timeouts>>
      /\ UNCHANGED <<outstanding, kernel, queue, aborting, sockets, used>>
  BY DEF Run, RunOneEmpty, RunOneWait, WaitFailed, FreeDeferred, Tick, CancelReleased,
         DequeueStale, vars, appVars, socketVars, portVars, loopVars
<1>3. PortTypes' /\ PortInv' /\ \A x : InFlight(x)' <=> InFlight(x)
  BY <1>1, <1>2, PortFrame
<1>4. deferred' \in Seq(Handles)
  <2>1. CASE FreeDeferred
    BY <1>1, <2>1 DEF FreeDeferred, TypeRest
  <2>2. CASE ~FreeDeferred
    <3>1. deferred' = deferred
      BY <2>2 DEF Run, RunOneEmpty, RunOneWait, WaitFailed, Tick, CancelReleased,
                  DequeueStale, vars, socketVars
    <3> QED BY <1>1, <3>1 DEF TypeRest
  <2> QED BY <2>1, <2>2
<1>5. /\ left' \in Int /\ left' >= -1 /\ now' \in 0 .. MaxClock
      /\ pc' \in {"idle", "run", "wait", "work"}
      /\ pc' = "wait" => stopping = {}
      /\ clock' \in 0 .. MaxClock /\ halted' \in {"no", "assert", "freed"}
  <2>1. CASE RunOneWait
    <3>1. WaitTicks \in Int /\ WaitTicks >= -1
      BY <2>1, WaitTicksType DEF RunOneWait, Idle
    <3> QED BY <1>1, <2>1, <3>1 DEF RunOneWait, Idle, LoopTurn, TypeRest
  <2>2. CASE Tick
    BY <1>1, <2>2, ConstantsAssumption DEF Tick, TypeRest
  <2>3. CASE Run \/ RunOneEmpty \/ WaitFailed \/ FreeDeferred
    BY <1>1, <2>3, ConstantsAssumption DEF Run, RunOneEmpty, WaitFailed, Leave, FreeDeferred, TypeRest
  <2>4. CASE \/ (\E o \in Ops : CancelReleased(o))
             \/ DequeueStale \/ UNCHANGED vars
    BY <1>1, <2>4 DEF CancelReleased, DequeueStale, vars, loopVars, TypeRest
  <2> QED BY <2>1, <2>2, <2>3, <2>4
<1>6. TypeRest'
  BY <1>1, <1>2, <1>4, <1>5 DEF TypeRest
<1> QED BY <1>1, <1>2, <1>3, <1>5, <1>6, NoOperation

(* The kernel ends an operation: it is in flight as before. *)
LEMMA KernelCompleteKeeps ==
  ASSUME IInv, NEW o \in Ops, KernelComplete(o)
  PROVE  IInv' /\ Internal
<1>1. /\ PortTypes /\ PortInv /\ TypeRest /\ FreeListSound(sockets)
      /\ pc = "wait" => stopping = {}
  BY Parts
<1>2. /\ o \in kernel /\ kernel' = kernel \ {o} /\ aborting' = aborting \ {o}
      /\ UNCHANGED <<op, sender, stop, stopping, tasks, timeouts, sockets, used, deferred>>
      /\ UNCHANGED <<outstanding, pc, left, now, clock, halted>>
  BY DEF KernelComplete, appVars, socketVars, loopVars
<1>3. PICK r \in {"value", "error", "aborted"} : queue' = Append(queue, OpPacket(o, r))
  BY DEF KernelComplete
<1>4. PortTypes' /\ PortInv' /\ \A x : InFlight(x)' <=> InFlight(x)
  BY <1>1, <1>2, <1>3, PostEffect
<1>5. TypeRest'
  BY <1>1, <1>2 DEF TypeRest
<1> QED BY <1>1, <1>2, <1>4, <1>5, NoOperation

(* An operation that was not started. *)
LEMMA NotStartedFacts ==
  ASSUME IInv, NEW o \in Ops, op[o].kind = "none"
  PROVE  /\ sender[o] = FreshState /\ o \notin stopping
         /\ ~InFlight(o) /\ ~OnList(timeouts, o) /\ ~OnList(tasks, o)
<1>1. OpInv(o)
  BY Parts
<1>2. sender[o] = FreshState
  BY <1>1, PhaseCases DEF OpInv
<1> QED BY <1>1, <1>2, PhaseFacts DEF OpInv, Pending

(* What the invariant needs of a step on operations besides OneOperation. *)
LEMMA Assemble ==
  ASSUME IInv, OpsTyped', \A x \in Ops : OpInv(x)', PortTypes', PortInv', TypeRest',
         FreeListSound(sockets'), NoDuplicates(tasks'), NoDuplicates(timeouts'),
         pc' = "wait" => stopping' = {}
  PROVE  IInv'
<1>1. TypeOK'
  BY TypeParts
<1>2. NoDuplicates(tasks)' /\ NoDuplicates(timeouts)' /\ FreeListSound(sockets)'
  OBVIOUS
<1> QED BY <1>1, <1>2 DEF IInv

(* Starting an operation that the context does not keep. *)
LEMMA StartAtOnceKeeps ==
  ASSUME IInv, NEW o \in Ops, op[o].kind = "none", NEW r \in OpRecords, r.kind # "none",
         NEW s \in Phases(r.kind), NEW sig \in Signals, s.signals = <<sig>>, ~s.armed,
         sig = "stopped" => r.token \in stop,
         op' = [op EXCEPT ![o] = r], sender' = [sender EXCEPT ![o] = s],
         UNCHANGED <<socketVars, tasks, timeouts, portVars, loopVars, clock, halted, stop, stopping>>
  PROVE  IInv' /\ StartsOne
<1>1. /\ PortTypes /\ PortInv /\ TypeRest /\ FreeListSound(sockets)
      /\ NoDuplicates(tasks) /\ NoDuplicates(timeouts)
      /\ pc = "wait" => stopping = {}
  BY Parts
<1>2. /\ UNCHANGED <<tasks, timeouts, stop, stopping, sockets, used, deferred>>
      /\ UNCHANGED <<outstanding, kernel, aborting, queue, pc, left, now, clock, halted>>
  BY DEF socketVars, portVars, loopVars
<1>3. PortTypes' /\ PortInv' /\ \A x : InFlight(x)' <=> InFlight(x)
  BY <1>1, <1>2, PortFrame
<1>4. /\ \A x : OnList(timeouts, x)' <=> OnList(timeouts, x)
      /\ \A x : OnList(tasks, x)' <=> OnList(tasks, x)
  BY <1>2 DEF OnList
<1>5. /\ o \notin stopping
      /\ ~InFlight(o) /\ ~OnList(timeouts, o) /\ ~OnList(tasks, o)
  BY NotStartedFacts
<1>6. s.signals # << >> /\ s # Cancelling
  BY SMTT(30), PhaseFacts
<1>7. /\ OpsTyped' /\ \A x \in Ops : OpInv(x)'
      /\ op'[o] = r /\ sender'[o] = s
      /\ \A x \in Ops \ {o} : op'[x] = op[x] /\ sender'[x] = sender[x]
  BY <1>2, <1>3, <1>4, <1>5, <1>6, OneOperation
<1>8. TypeRest' /\ NoDuplicates(tasks') /\ NoDuplicates(timeouts') /\ FreeListSound(sockets')
      /\ (pc' = "wait" => stopping' = {})
  BY <1>1, <1>2 DEF TypeRest
<1>9. StartsOne
  BY <1>2, <1>7 DEF StartsOne
<1> QED BY <1>3, <1>7, <1>8, <1>9, Assemble

LEMMA StartIoKeeps ==
  ASSUME IInv, NEW o \in Ops, NEW k \in IoKinds, NEW id \in Ids(sockets), NEW t \in Tokens,
         StartIo(o, k, id, t)
  PROVE  IInv' /\ StartsOne
<1>1. PICK r : r = [kind |-> k, id |-> id, block |-> Lookup(sockets, id),
                    deadline |-> 0, token |-> t]
  OBVIOUS
<1>2. /\ op[o].kind = "none" /\ op' = [op EXCEPT ![o] = r] /\ IsLive(sockets, id)
      /\ UNCHANGED <<socketVars, tasks, timeouts, aborting, queue, loopVars, clock, halted,
                     stop, stopping>>
  BY <1>1 DEF StartIo, CanStart, Describe
<1>3. /\ PortTypes /\ PortInv /\ TypeRest /\ FreeListSound(sockets)
      /\ NoDuplicates(tasks) /\ NoDuplicates(timeouts)
      /\ pc = "wait" => stopping = {}
  BY Parts
<1>4. r \in OpRecords /\ r.kind = k /\ k # "none" /\ k \in IoKinds
  <2>1. id \in LiveIds(sockets) /\ id \in Ids(sockets)
    BY <1>2 DEF IsLive, LiveIds
  <2>2. Lookup(sockets, id) \in Nat
    BY <1>3, <2>1, SlotCases, ConstantsAssumption DEF Lookup, TypeRest
  <2>3. id \in Nat
    BY <2>1 DEF Ids
  <2> QED BY <1>1, <2>2, <2>3, PhaseCases, ConstantsAssumption DEF OpRecords, AllKinds
<1>5. /\ sender[o] = FreshState /\ o \notin stopping
      /\ ~InFlight(o) /\ ~OnList(timeouts, o) /\ ~OnList(tasks, o)
  BY <1>2, NotStartedFacts
<1>6. Started(sender[o]) = Registered /\ sender \in [Ops -> SenderStates]
  BY <1>5, PhaseSteps, Parts DEF OpsTyped
<1>7. CASE sender' = [sender EXCEPT ![o] = Started(@)] /\ Submitted(o)
  <2>1. /\ UNCHANGED <<tasks, timeouts, stop, stopping, sockets, used, deferred>>
        /\ UNCHANGED <<aborting, queue, pc, left, now, clock, halted>>
        /\ kernel' = kernel \cup {o} /\ outstanding' = outstanding + 1
    BY <1>2, <1>7 DEF socketVars, loopVars, Submitted
  <2>2. PortTypes' /\ PortInv' /\ \A x : InFlight(x)' <=> InFlight(x) \/ x = o
    BY <1>3, <1>5, <2>1, SubmitEffect
  <2>3. /\ \A x : OnList(timeouts, x)' <=> OnList(timeouts, x)
        /\ \A x : OnList(tasks, x)' <=> OnList(tasks, x)
    BY <2>1 DEF OnList
  <2>4. Registered \in Phases(r.kind) /\ Registered.signals = << >> /\ Registered # Cancelling
    BY <1>4, PhaseCases, PhaseFacts
  <2>5. sender' = [sender EXCEPT ![o] = Registered]
    BY <1>6, <1>7
  <2>6. /\ OpsTyped' /\ \A x \in Ops : OpInv(x)'
        /\ op'[o] = r /\ sender'[o] = Registered
        /\ \A x \in Ops \ {o} : op'[x] = op[x] /\ sender'[x] = sender[x]
    BY <1>2, <1>4, <1>5, <2>1, <2>2, <2>3, <2>4, <2>5, OneOperation
  <2>7. TypeRest' /\ NoDuplicates(tasks') /\ NoDuplicates(timeouts') /\ FreeListSound(sockets')
        /\ (pc' = "wait" => stopping' = {})
    BY <1>3, <2>1 DEF TypeRest
  <2>8. StartsOne
    BY <1>2, <1>4, <2>1, <2>4, <2>6 DEF StartsOne
  <2> QED BY <2>2, <2>6, <2>7, <2>8, Assemble
<1>8. CASE sender' = [sender EXCEPT ![o] = Error(Started(@))] /\ UNCHANGED <<kernel, outstanding>>
  <2>1. Error(Started(sender[o])) = Ended(0, "error")
    BY <1>6, PhaseSteps
  <2>2. sender' = [sender EXCEPT ![o] = Ended(0, "error")]
    BY <1>8, <2>1
  <2>3. /\ Ended(0, "error") \in Phases(r.kind) /\ Ended(0, "error").signals = <<"error">>
        /\ ~Ended(0, "error").armed
    BY <1>4, PhaseCases, PhaseFacts
  <2>4. UNCHANGED <<socketVars, tasks, timeouts, portVars, loopVars, clock, halted, stop, stopping>>
    BY <1>2, <1>8 DEF portVars
  <2>5. "error" \in Signals /\ "error" # "stopped"
    BY DEF Signals
  <2> QED BY <1>2, <1>4, <2>2, <2>3, <2>4, <2>5, StartAtOnceKeeps
<1> QED BY <1>7, <1>8 DEF StartIo

LEMMA StartPollKeeps ==
  ASSUME IInv, NEW o \in Ops, NEW id \in Ids(sockets), NEW t \in Tokens, StartPoll(o, id, t)
  PROVE  IInv' /\ StartsOne
<1>1. PICK r : r = [kind |-> "poll", id |-> id, block |-> Lookup(sockets, id),
                    deadline |-> 0, token |-> t]
  OBVIOUS
<1>2. /\ op[o].kind = "none" /\ op' = [op EXCEPT ![o] = r] /\ IsLive(sockets, id)
      /\ sender' = [sender EXCEPT ![o] = Complete(Started(@))]
      /\ UNCHANGED <<socketVars, tasks, timeouts, portVars, loopVars, clock, halted, stop, stopping>>
  BY <1>1 DEF StartPoll, CanStart, Describe
<1>3. r \in OpRecords /\ r.kind = "poll"
  <2>1. id \in LiveIds(sockets) /\ id \in Ids(sockets)
    BY <1>2 DEF IsLive, LiveIds
  <2>2. Lookup(sockets, id) \in Nat
    BY <2>1, SlotCases, ConstantsAssumption, Parts DEF Lookup, TypeRest
  <2>3. id \in Nat
    BY <2>1 DEF Ids
  <2> QED BY <1>1, <2>2, <2>3, ConstantsAssumption DEF OpRecords, AllKinds
<1>4. sender' = [sender EXCEPT ![o] = Ended(0, "value")]
  <2>1. sender[o] = FreshState
    BY <1>2, NotStartedFacts
  <2>2. Complete(Started(sender[o])) = Ended(0, "value")
    BY <2>1, PhaseSteps
  <2> QED BY <1>2, <2>2
<1>5. /\ Ended(0, "value") \in Phases(r.kind) /\ Ended(0, "value").signals = <<"value">>
      /\ ~Ended(0, "value").armed
  BY <1>3, PhaseCases, PhaseFacts
<1>6. "value" \in Signals /\ "value" # "stopped"
  BY DEF Signals
<1> QED BY <1>2, <1>3, <1>4, <1>5, <1>6, StartAtOnceKeeps

(* An operation that is never submitted because its stop was requested. *)
LEMMA StartStoppedKeeps ==
  ASSUME IInv, NEW o \in Ops, NEW t \in Tokens, StartStopped(o, t)
  PROVE  IInv' /\ StartsOne
<1>1. PICK r : r = [kind |-> "unsubmitted", id |-> 0, block |-> 0, deadline |-> 0, token |-> t]
  OBVIOUS
<1>2. /\ op[o].kind = "none" /\ op' = [op EXCEPT ![o] = r] /\ t \in stop
      /\ sender' = [sender EXCEPT ![o] = Cancel(CallbackComplete(CallbackEntered(Started(@))))]
      /\ UNCHANGED <<socketVars, tasks, timeouts, portVars, loopVars, clock, halted, stop, stopping>>
  BY <1>1 DEF StartStopped, Describe
<1>3. r \in OpRecords /\ r.kind = "unsubmitted" /\ r.token = t
  BY <1>1, ConstantsAssumption DEF OpRecords
<1>4. sender' = [sender EXCEPT ![o] = Ended(0, "stopped")]
  <2>1. sender[o] = FreshState
    BY <1>2, NotStartedFacts
  <2>2. Cancel(CallbackComplete(CallbackEntered(Started(sender[o])))) = Ended(0, "stopped")
    BY <2>1, PhaseSteps
  <2> QED BY <1>2, <2>2
<1>5. /\ Ended(0, "stopped") \in Phases(r.kind) /\ Ended(0, "stopped").signals = <<"stopped">>
      /\ ~Ended(0, "stopped").armed
  BY <1>3, PhaseCases, PhaseFacts
<1>6. "stopped" \in Signals
  BY DEF Signals
<1> QED BY <1>2, <1>3, <1>4, <1>5, <1>6, StartAtOnceKeeps

LEMMA StartTimerKeeps ==
  ASSUME IInv, NEW o \in Ops, NEW d \in Times, NEW t \in Tokens, StartTimer(o, d, t)
  PROVE  IInv' /\ StartsOne
<1>1. PICK r : r = [kind |-> "timer", id |-> 0, block |-> 0, deadline |-> d, token |-> t]
  OBVIOUS
<1>2. /\ op[o].kind = "none" /\ op' = [op EXCEPT ![o] = r]
      /\ UNCHANGED <<socketVars, tasks, portVars, loopVars, clock, halted, stop, stopping>>
  BY <1>1 DEF StartTimer, CanStart, Describe
<1>3. r \in OpRecords /\ r.kind = "timer"
  BY <1>1, ConstantsAssumption DEF OpRecords, AllKinds
<1>4. /\ sender[o] = FreshState /\ o \notin stopping
      /\ ~InFlight(o) /\ ~OnList(timeouts, o) /\ ~OnList(tasks, o)
  BY <1>2, NotStartedFacts
<1>5. Started(sender[o]) = Registered /\ Complete(Complete(Registered)) = Ended(-1, "value")
  BY <1>4, PhaseSteps
<1>6. CASE clock < d
  <2>1. /\ sender' = [sender EXCEPT ![o] = Registered]
        /\ timeouts' = InsertTimer(timeouts, [Deadline EXCEPT ![o] = d], o)
    BY <1>5, <1>6 DEF StartTimer
  <2>2. /\ UNCHANGED <<tasks, stop, stopping, sockets, used, deferred>>
        /\ UNCHANGED <<outstanding, kernel, aborting, queue, pc, left, now, clock, halted>>
    BY <1>2 DEF socketVars, portVars, loopVars
  <2>3. /\ PortTypes /\ PortInv /\ TypeRest /\ FreeListSound(sockets)
        /\ NoDuplicates(tasks) /\ NoDuplicates(timeouts)
        /\ pc = "wait" => stopping = {}
    BY Parts
  <2>4. PortTypes' /\ PortInv' /\ \A x : InFlight(x)' <=> InFlight(x)
    BY <2>2, <2>3, PortFrame
  <2>5. /\ timeouts' \in Seq(Ops) /\ NoDuplicates(timeouts')
        /\ \A x : OnList(timeouts', x) <=> OnList(timeouts, x) \/ x = o
    <3>1. PICK value : value = [Deadline EXCEPT ![o] = d]
      OBVIOUS
    <3>2. value \in [Ops -> Int]
      <4>1. Deadline \in [Ops -> Int] /\ d \in Int
        BY Parts, ConstantsAssumption DEF Deadline, OpRecords
      <4> QED BY <3>1, <4>1
    <3>3. timeouts \in Seq(Ops)
      BY <2>3 DEF TypeRest
    <3>4. /\ InsertTimer(timeouts, value, o) \in Seq(Ops)
          /\ NoDuplicates(InsertTimer(timeouts, value, o))
          /\ \A x : OnList(InsertTimer(timeouts, value, o), x) <=> OnList(timeouts, x) \/ x = o
      BY <1>4, <2>3, <3>2, <3>3, InsertTimerEffect
    <3> QED BY <2>1, <3>1, <3>4
  <2>6. /\ \A x : OnList(timeouts, x)' <=> OnList(timeouts, x) \/ x = o
        /\ \A x : OnList(tasks, x)' <=> OnList(tasks, x)
    BY <2>2, <2>5 DEF OnList
  <2>7. /\ Registered \in Phases(r.kind) /\ Registered.signals = << >>
        /\ Registered # Cancelling /\ "timer" \notin IoKinds
    BY <1>3, PhaseCases, PhaseFacts
  <2>8. /\ OpsTyped' /\ \A x \in Ops : OpInv(x)'
        /\ op'[o] = r /\ sender'[o] = Registered
        /\ \A x \in Ops \ {o} : op'[x] = op[x] /\ sender'[x] = sender[x]
    BY <1>2, <1>3, <1>4, <2>1, <2>2, <2>4, <2>6, <2>7, OneOperation
  <2>9. TypeRest' /\ NoDuplicates(tasks') /\ FreeListSound(sockets')
        /\ (pc' = "wait" => stopping' = {})
    BY <2>2, <2>3, <2>5 DEF TypeRest
  <2>10. StartsOne
    BY <1>2, <1>3, <2>2, <2>7, <2>8 DEF StartsOne
  <2> QED BY <2>4, <2>5, <2>8, <2>9, <2>10, Assemble
<1>7. CASE ~(clock < d)
  <2>1. sender' = [sender EXCEPT ![o] = Ended(-1, "value")] /\ timeouts' = timeouts
    BY <1>5, <1>7 DEF StartTimer
  <2>2. /\ Ended(-1, "value") \in Phases(r.kind) /\ Ended(-1, "value").signals = <<"value">>
        /\ ~Ended(-1, "value").armed
    BY <1>3, PhaseCases, PhaseFacts
  <2>3. "value" \in Signals /\ "value" # "stopped"
    BY DEF Signals
  <2> QED BY <1>2, <1>3, <2>1, <2>2, <2>3, StartAtOnceKeeps
<1> QED BY <1>6, <1>7

(* schedule() pushes a task. *)
LEMMA StartTaskKeeps ==
  ASSUME IInv, NEW o \in Ops, StartTask(o)
  PROVE  IInv' /\ StartsOne
<1>1. PICK r : r = [kind |-> "task", id |-> 0, block |-> 0, deadline |-> 0, token |-> NoToken]
  OBVIOUS
<1>2. /\ op[o].kind = "none" /\ op' = [op EXCEPT ![o] = r]
      /\ tasks' = <<o>> \o tasks /\ queue' = Append(queue, NullPacket)
      /\ UNCHANGED <<sender, timeouts, stop, stopping, sockets, used, deferred>>
      /\ UNCHANGED <<outstanding, kernel, aborting, pc, left, now, clock, halted>>
  BY <1>1 DEF StartTask, Describe, socketVars, loopVars
<1>3. r \in OpRecords /\ r.kind = "task"
  BY <1>1, ConstantsAssumption DEF OpRecords, AllKinds
<1>4. /\ sender[o] = FreshState /\ o \notin stopping
      /\ ~InFlight(o) /\ ~OnList(timeouts, o) /\ ~OnList(tasks, o)
  BY <1>2, NotStartedFacts
<1>5. /\ PortTypes /\ PortInv /\ TypeRest /\ OpsTyped /\ FreeListSound(sockets)
      /\ NoDuplicates(tasks) /\ NoDuplicates(timeouts)
      /\ pc = "wait" => stopping = {}
  BY Parts
<1>6. PortTypes' /\ PortInv' /\ \A x : InFlight(x)' <=> InFlight(x)
  BY <1>2, <1>5, PostNullEffect
<1>7. /\ tasks' \in Seq(Ops) /\ NoDuplicates(tasks')
      /\ \A x : OnList(tasks', x) <=> OnList(tasks, x) \/ x = o
  BY <1>2, <1>4, <1>5, PushEffect DEF TypeRest
<1>8. /\ \A x : OnList(timeouts, x)' <=> OnList(timeouts, x)
      /\ \A x : OnList(tasks, x)' <=> OnList(tasks, x) \/ x = o
  BY <1>2, <1>7 DEF OnList
<1>9. /\ FreshState \in Phases(r.kind) /\ FreshState.signals = << >>
      /\ FreshState # Cancelling /\ "task" \notin IoKinds
  BY <1>3, PhaseCases, PhaseFacts
<1>10. sender' = [sender EXCEPT ![o] = FreshState]
  BY <1>2, <1>4, <1>5 DEF OpsTyped
<1>11. /\ OpsTyped' /\ \A x \in Ops : OpInv(x)'
       /\ op'[o] = r /\ sender'[o] = FreshState
       /\ \A x \in Ops \ {o} : op'[x] = op[x] /\ sender'[x] = sender[x]
  <2>1. \A x \in Ops \ {o} :
           /\ InFlight(x)' <=> InFlight(x)
           /\ OnList(timeouts, x)' <=> OnList(timeouts, x)
           /\ OnList(tasks, x)' <=> OnList(tasks, x)
           /\ x \in stopping' => x \in stopping
    BY <1>2, <1>6, <1>8
  <2>2. /\ ~InFlight(o)' /\ ~OnList(timeouts, o)' /\ OnList(tasks, o)'
        /\ o \notin stopping' /\ stop' = stop /\ op' = [op EXCEPT ![o] = r]
    BY <1>2, <1>4, <1>6, <1>8
  <2>3. /\ InFlight(o)' => r.kind \in IoKinds
        /\ OnList(timeouts, o)' => r.kind = "timer"
        /\ OnList(tasks, o)' => r.kind = "task"
        /\ InFlight(o)' \/ OnList(timeouts, o)' \/ OnList(tasks, o)'
             <=> r.kind # "none" /\ FreshState.signals = << >>
        /\ o \in stopping' => FreshState.armed /\ r.token \in stop
        /\ FreshState = Cancelling => r.token \in stop
    BY <1>3, <1>9, <2>2
  <2> QED BY <1>3, <1>9, <1>10, <2>1, <2>2, <2>3, OneOperation
<1>12. TypeRest' /\ NoDuplicates(timeouts') /\ FreeListSound(sockets')
       /\ (pc' = "wait" => stopping' = {})
  BY <1>2, <1>5, <1>7 DEF TypeRest
<1>13. StartsOne
  BY <1>2, <1>3, <1>9, <1>11 DEF StartsOne
<1> QED BY <1>6, <1>7, <1>11, <1>12, <1>13, Assemble

(* request_stop() finds the callbacks that are registered with its token.  *)
LEMMA RequestStopKeeps ==
  ASSUME IInv, NEW t \in Tokens, RequestStop(t)
  PROVE  IInv' /\ UNCHANGED <<op, sender>> /\ stop' = stop \cup {t}
<1>1. /\ PortTypes /\ PortInv /\ TypeRest /\ OpsTyped /\ FreeListSound(sockets)
      /\ NoDuplicates(tasks) /\ NoDuplicates(timeouts) /\ \A x \in Ops : OpInv(x)
  BY Parts
<1>2. /\ stop' = stop \cup {t} /\ pc # "wait"
      /\ stopping' = stopping \cup {o \in Ops : sender[o].armed /\ op[o].token = t}
      /\ UNCHANGED <<op, sender, tasks, timeouts, sockets, used, deferred>>
      /\ UNCHANGED <<outstanding, kernel, aborting, queue, pc, left, now, clock, halted>>
  BY DEF RequestStop, ProgramRuns, socketVars, portVars, loopVars
<1>3. PortTypes' /\ PortInv' /\ \A x : InFlight(x)' <=> InFlight(x)
  BY <1>1, <1>2, PortFrame
<1>4. ASSUME NEW x \in Ops PROVE OpInv(x)'
  <2>1. OpInv(x) /\ (OnList(tasks, x)' <=> OnList(tasks, x))
        /\ (OnList(timeouts, x)' <=> OnList(timeouts, x))
    BY <1>1, <1>2 DEF OnList
  <2>2. x \in stopping' => sender'[x].armed /\ op'[x].token \in stop'
    BY <1>2, <2>1 DEF OpInv
  <2> QED BY <1>2, <1>3, <2>1, <2>2 DEF OpInv, Pending
<1>5. OpsTyped' /\ TypeRest' /\ NoDuplicates(tasks') /\ NoDuplicates(timeouts')
      /\ FreeListSound(sockets') /\ (pc' = "wait" => stopping' = {})
  BY <1>1, <1>2 DEF TypeRest, OpsTyped
<1> QED BY <1>2, <1>3, <1>4, <1>5, Assemble

(* What holds of an operation whose callback is about to run. *)
LEMMA CallbackFacts ==
  ASSUME IInv, NEW o \in Ops, CallbackRuns(o)
  PROVE  /\ sender[o].armed /\ op[o].token \in stop
         /\ sender[o] = Registered \/ sender[o] = Aborted
         /\ op[o].kind \in IoKinds \cup {"timer"}
         /\ sender[o] = Registered <=> MustCancel(sender[o])
         /\ sender[o] = Registered <=> Pending(o)
         /\ sender[o] = Aborted => op[o].kind \in IoKinds
         /\ ~OnList(tasks, o) /\ pc # "wait"
<1>1. /\ OpInv(o) /\ op[o] \in OpRecords
      /\ sender[o].armed /\ op[o].token \in stop /\ pc # "wait"
  BY Parts DEF OpInv, CallbackRuns, ProgramRuns
<1>2. op[o].kind \in IoKinds \cup {"none", "task", "unsubmitted", "poll", "timer"}
  BY <1>1, PhaseCases DEF OpRecords
<1>3. CASE op[o].kind \in IoKinds
  <2>1. sender[o] = Registered \/ sender[o] = Aborted
    BY <1>1, <1>3, PhaseCases, PhaseFacts DEF OpInv
  <2>2. op[o].kind \notin {"none", "task"}
    BY <1>3, PhaseCases
  <2> QED BY <1>1, <1>3, <2>1, <2>2, PhaseSteps, PhaseFacts DEF OpInv, Pending
<1>4. CASE op[o].kind = "timer"
  <2>1. sender[o] = Registered
    BY <1>1, <1>4, PhaseCases, PhaseFacts DEF OpInv
  <2>2. Registered # Aborted
    BY PhaseFacts
  <2> QED BY <1>1, <1>4, <2>1, <2>2, PhaseSteps, PhaseFacts DEF OpInv, Pending
<1>5. CASE op[o].kind \in {"none", "task", "unsubmitted", "poll"}
  <2>1. ~sender[o].armed
    BY <1>1, <1>5, PhaseCases, PhaseFacts DEF OpInv
  <2> QED BY <1>1, <2>1
<1> QED BY <1>2, <1>3, <1>4, <1>5

(* cancel() of a timer takes it off the list. *)
LEMMA CancelTimerKeeps ==
  ASSUME IInv, NEW o \in Ops, CancelTimer(o)
  PROVE  IInv' /\ CompletesOne
<1>1. /\ PortTypes /\ PortInv /\ TypeRest /\ OpsTyped /\ FreeListSound(sockets)
      /\ NoDuplicates(tasks) /\ NoDuplicates(timeouts)
      /\ pc = "wait" => stopping = {}
      /\ OpInv(o) /\ op[o] \in OpRecords
  BY Parts
<1>2. /\ CallbackRuns(o) /\ MustCancel(sender[o]) /\ OnList(timeouts, o)
      /\ timeouts' = EraseTimer(timeouts, o) /\ stopping' = stopping \ {o}
      /\ UNCHANGED <<op, stop, tasks, sockets, used, deferred>>
      /\ UNCHANGED <<outstanding, kernel, aborting, queue, pc, left, now, clock, halted>>
  BY DEF CancelTimer, socketVars, portVars, loopVars
<1>3. /\ sender[o] = Registered /\ op[o].token \in stop /\ op[o].kind = "timer"
      /\ Pending(o) /\ ~OnList(tasks, o)
  BY <1>1, <1>2, CallbackFacts DEF OpInv
<1>4. sender' = [sender EXCEPT ![o] = Ended(0, "stopped")] /\ op' = [op EXCEPT ![o] = op[o]]
  <2>1. CallbackComplete(Cancel(CallbackEntered(sender[o]))) = Ended(0, "stopped")
    BY <1>3, PhaseSteps
  <2> QED BY <1>1, <1>2, <2>1 DEF CancelTimer, OpsTyped
<1>5. PortTypes' /\ PortInv' /\ \A x : InFlight(x)' <=> InFlight(x)
  BY <1>1, <1>2, PortFrame
<1>6. /\ timeouts' \in Seq(Ops) /\ NoDuplicates(timeouts')
      /\ \A x : OnList(timeouts', x) <=> OnList(timeouts, x) /\ x # o
  <2>1. timeouts \in Seq(Ops) /\ Deadline \in [Ops -> Int]
    BY <1>1, Parts, ConstantsAssumption DEF TypeRest, Deadline, OpRecords
  <2> QED BY <1>1, <1>2, <2>1, EraseTimerEffect
<1>7. /\ \A x : OnList(timeouts, x)' <=> OnList(timeouts, x) /\ x # o
      /\ \A x : OnList(tasks, x)' <=> OnList(tasks, x)
  BY <1>2, <1>6 DEF OnList
<1>8. /\ Ended(0, "stopped") \in Phases(op[o].kind)
      /\ Ended(0, "stopped").signals = <<"stopped">> /\ Ended(0, "stopped").signals # << >>
      /\ Ended(0, "stopped") # Cancelling /\ "timer" \notin IoKinds
  BY <1>3, PhaseCases, PhaseFacts
<1>9. ~InFlight(o)
  BY <1>1, <1>3, <1>8 DEF OpInv
<1>10. /\ OpsTyped' /\ \A x \in Ops : OpInv(x)'
       /\ sender'[o] = Ended(0, "stopped")
       /\ \A x \in Ops \ {o} : sender'[x] = sender[x]
  <2>1. PICK s : s = Ended(0, "stopped")
    OBVIOUS
  <2>2. /\ s \in Phases(op[o].kind) /\ s.signals # << >> /\ s # Cancelling
        /\ sender' = [sender EXCEPT ![o] = s] /\ op' = op /\ stop' = stop
    BY <1>2, <1>4, <1>8, <2>1
  <2>3. /\ ~InFlight(o)' /\ ~OnList(timeouts, o)' /\ ~OnList(tasks, o)' /\ o \notin stopping'
    BY <1>2, <1>3, <1>5, <1>7, <1>9
  <2>4. \A x \in Ops \ {o} :
          /\ InFlight(x)' <=> InFlight(x)
          /\ OnList(timeouts, x)' <=> OnList(timeouts, x)
          /\ OnList(tasks, x)' <=> OnList(tasks, x)
          /\ x \in stopping' => x \in stopping
    BY <1>2, <1>5, <1>7
  <2> QED BY <2>1, <2>2, <2>3, <2>4, OneSender
<1>11. TypeRest' /\ NoDuplicates(tasks') /\ FreeListSound(sockets')
       /\ (pc' = "wait" => stopping' = {})
  BY <1>1, <1>2, <1>6 DEF TypeRest
<1>12. CompletesOne
  <2>1. "stopped" \in Signals
    BY DEF Signals
  <2> QED BY <1>2, <1>3, <1>8, <1>10, <2>1 DEF CompletesOne
<1> QED BY <1>5, <1>6, <1>10, <1>11, <1>12, Assemble

(* A callback that does not end the operation: it has asked the kernel to  *)
(* abort it, or the kernel has aborted it before.                          *)
LEMMA CallbackKeeps ==
  ASSUME IInv, NEW o \in Ops, CancelIo(o) \/ CallbackLate(o)
  PROVE  IInv' /\ Internal
<1>1. /\ PortTypes /\ PortInv /\ TypeRest /\ OpsTyped /\ FreeListSound(sockets)
      /\ NoDuplicates(tasks) /\ NoDuplicates(timeouts)
      /\ pc = "wait" => stopping = {}
      /\ OpInv(o) /\ op[o] \in OpRecords
  BY Parts
<1>2. /\ CallbackRuns(o) /\ stopping' = stopping \ {o}
      /\ UNCHANGED <<op, stop, tasks, timeouts, sockets, used, deferred>>
      /\ UNCHANGED <<outstanding, kernel, queue, pc, left, now, clock, halted>>
      /\ aborting' \subseteq aborting \cup kernel
  BY DEF CancelIo, CallbackLate, socketVars, portVars, loopVars
<1>3. /\ op[o].token \in stop /\ op[o].kind \in IoKinds \cup {"timer"}
      /\ ~OnList(tasks, o)
  BY <1>2, CallbackFacts
<1>4. PICK s \in {Cancelling, Ended(1, "stopped")} :
        /\ sender' = [sender EXCEPT ![o] = s]
        /\ s = Cancelling => sender[o] = Registered /\ ~OnList(timeouts, o)
        /\ s # Cancelling => sender[o] = Aborted
  <2>1. CASE CancelIo(o)
    <3>1. sender[o] = Registered /\ ~OnList(timeouts, o)
      BY <1>2, <2>1, CallbackFacts DEF CancelIo
    <3>2. CallbackComplete(CallbackEntered(sender[o])) = Cancelling
      BY <3>1, PhaseSteps
    <3>3. sender' = [sender EXCEPT ![o] = Cancelling]
      BY <2>1, <3>2 DEF CancelIo
    <3> QED BY <3>1, <3>3
  <2>2. CASE CallbackLate(o)
    <3>1. sender[o] = Aborted
      BY <1>2, <2>2, CallbackFacts DEF CallbackLate
    <3>2. CallbackEntered(sender[o]) = Ended(1, "stopped")
      BY <3>1, PhaseSteps
    <3>3. sender' = [sender EXCEPT ![o] = Ended(1, "stopped")]
      BY <2>2, <3>2 DEF CallbackLate
    <3>4. Ended(1, "stopped") # Cancelling
      BY PhaseFacts
    <3> QED BY <3>1, <3>3, <3>4
  <2> QED BY <2>1, <2>2
<1>5. op[o].kind \in IoKinds
  <2>1. CASE s = Cancelling
    <3>1. Pending(o) /\ ~OnList(timeouts, o) /\ ~OnList(tasks, o)
      BY <1>2, <1>3, <1>4, <2>1, CallbackFacts
    <3> QED BY <1>1, <3>1 DEF OpInv
  <2>2. CASE s # Cancelling
    BY <1>2, <1>4, <2>2, CallbackFacts
  <2> QED BY <2>1, <2>2
<1>6. /\ s \in Phases(op[o].kind) /\ ~s.armed /\ s.signals = sender[o].signals
      /\ op[o].kind \notin {"none", "timer", "task"}
  BY <1>4, <1>5, PhaseCases, PhaseFacts
<1>7. PortTypes' /\ PortInv' /\ \A x : InFlight(x)' <=> InFlight(x)
  BY <1>1, <1>2, PortFrame
<1>8. /\ \A x : OnList(timeouts, x)' <=> OnList(timeouts, x)
      /\ \A x : OnList(tasks, x)' <=> OnList(tasks, x)
  BY <1>2 DEF OnList
<1>9. op' = [op EXCEPT ![o] = op[o]]
  BY <1>1, <1>2 DEF OpsTyped
<1>10. /\ OpsTyped' /\ \A x \in Ops : OpInv(x)'
       /\ sender'[o] = s
       /\ \A x \in Ops \ {o} : sender'[x] = sender[x]
  <2>1. /\ InFlight(o)' => op[o].kind \in IoKinds
        /\ OnList(timeouts, o)' => op[o].kind = "timer"
        /\ OnList(tasks, o)' => op[o].kind = "task"
        /\ InFlight(o)' \/ OnList(timeouts, o)' \/ OnList(tasks, o)'
             <=> op[o].kind # "none" /\ s.signals = << >>
    BY <1>1, <1>6, <1>7, <1>8 DEF OpInv, Pending
  <2>2. s \in Phases(op[o].kind) /\ sender' = [sender EXCEPT ![o] = s] /\ op' = op /\ stop' = stop
    BY <1>2, <1>4, <1>6
  <2>3. o \notin stopping'
    BY <1>2
  <2>4. \A x \in Ops \ {o} :
          /\ InFlight(x)' <=> InFlight(x)
          /\ OnList(timeouts, x)' <=> OnList(timeouts, x)
          /\ OnList(tasks, x)' <=> OnList(tasks, x)
          /\ x \in stopping' => x \in stopping
    BY <1>2, <1>7, <1>8
  <2> QED BY <1>3, <2>1, <2>2, <2>3, <2>4, OneSender
<1>11. TypeRest' /\ NoDuplicates(tasks') /\ NoDuplicates(timeouts') /\ FreeListSound(sockets')
       /\ (pc' = "wait" => stopping' = {})
  BY <1>1, <1>2 DEF TypeRest
<1>12. Internal
  BY <1>2, <1>6, <1>10 DEF Internal
<1> QED BY <1>7, <1>10, <1>11, <1>12, Assemble

(* process_timeout() completes the first timer, in either place it is      *)
(* called from.                                                            *)
LEMMA FireTimerKeeps ==
  ASSUME IInv, timeouts # << >>, stopping = {}, FireTimer,
         UNCHANGED <<op, stop, stopping, socketVars, tasks, portVars, clock, halted>>,
         pc' = "run", left' \in Int, left' >= -1, now' \in 0 .. MaxClock
  PROVE  IInv' /\ CompletesOne
<1>1. /\ PortTypes /\ PortInv /\ TypeRest /\ OpsTyped /\ FreeListSound(sockets)
      /\ NoDuplicates(tasks) /\ NoDuplicates(timeouts)
  BY Parts
<1>2. PICK o : o = timeouts[1]
  OBVIOUS
<1>3. /\ timeouts' = Tail(timeouts) /\ sender' = [sender EXCEPT ![o] = Complete(@)]
      /\ UNCHANGED <<op, stop, stopping, tasks, sockets, used, deferred>>
      /\ UNCHANGED <<outstanding, kernel, aborting, queue, clock, halted>>
  BY <1>2 DEF FireTimer, PopTimer, socketVars, portVars
<1>4. /\ o \in Ops /\ OnList(timeouts, o) /\ timeouts' \in Seq(Ops) /\ NoDuplicates(timeouts')
      /\ \A x : OnList(timeouts', x) <=> OnList(timeouts, x) /\ x # o
  BY <1>1, <1>2, <1>3, TailEffect DEF TypeRest
<1>5. /\ OpInv(o) /\ op[o].kind = "timer" /\ Pending(o)
      /\ sender[o] \in Phases("timer") /\ sender[o].signals = << >>
  BY <1>4, Parts DEF OpInv, Pending
<1>6. sender[o] = Registered
  BY <1>5, PhaseCases, PhaseFacts
<1>7. PICK s : s = Ended(0, "value")
  OBVIOUS
<1>8. /\ sender' = [sender EXCEPT ![o] = s]
      /\ s \in Phases(op[o].kind) /\ s.signals = <<"value">> /\ s.signals # << >>
      /\ s # Cancelling /\ "timer" \notin IoKinds /\ "timer" # "task"
  <2>1. Complete(sender[o]) = s
    BY <1>6, <1>7, PhaseSteps
  <2>2. sender' = [sender EXCEPT ![o] = s]
    BY <1>3, <2>1
  <2> QED BY <1>5, <1>7, <2>2, PhaseCases, PhaseFacts
<1>9. PortTypes' /\ PortInv' /\ \A x : InFlight(x)' <=> InFlight(x)
  BY <1>1, <1>3, PortFrame
<1>10. /\ \A x : OnList(timeouts, x)' <=> OnList(timeouts, x) /\ x # o
       /\ \A x : OnList(tasks, x)' <=> OnList(tasks, x)
  BY <1>3, <1>4 DEF OnList
<1>11. /\ OpsTyped' /\ \A x \in Ops : OpInv(x)'
       /\ sender'[o] = s
       /\ \A x \in Ops \ {o} : sender'[x] = sender[x]
  <2>1. /\ ~InFlight(o)' /\ ~OnList(timeouts, o)' /\ ~OnList(tasks, o)'
    BY <1>5, <1>8, <1>9, <1>10 DEF OpInv
  <2>2. o \notin stopping'
    BY <1>3
  <2>3. \A x \in Ops \ {o} :
          /\ InFlight(x)' <=> InFlight(x)
          /\ OnList(timeouts, x)' <=> OnList(timeouts, x)
          /\ OnList(tasks, x)' <=> OnList(tasks, x)
          /\ x \in stopping' => x \in stopping
    BY <1>3, <1>9, <1>10
  <2> QED BY <1>3, <1>4, <1>8, <2>1, <2>2, <2>3, OneSender
<1>12. TypeRest' /\ NoDuplicates(tasks') /\ FreeListSound(sockets')
       /\ (pc' = "wait" => stopping' = {})
  BY <1>1, <1>3, <1>4 DEF TypeRest
<1>13. CompletesOne
  <2>1. "value" \in Signals /\ "value" # "stopped"
    BY DEF Signals
  <2> QED BY <1>3, <1>4, <1>5, <1>8, <1>11, <2>1 DEF CompletesOne
<1> QED BY <1>4, <1>9, <1>11, <1>12, <1>13, Assemble

(* process_task() completes the task on top of the stack. *)
LEMMA PopTaskKeeps ==
  ASSUME IInv, tasks # << >>, stopping = {}, PopTask,
         UNCHANGED <<op, stop, stopping, socketVars, timeouts, clock, halted>>,
         UNCHANGED <<kernel, aborting>>, PortTypes', PortInv',
         \A x : InFlight(x)' <=> InFlight(x),
         pc' = "run", left' \in Int, left' >= -1, now' \in 0 .. MaxClock
  PROVE  IInv' /\ CompletesOne
<1>1. /\ PortTypes /\ PortInv /\ TypeRest /\ OpsTyped /\ FreeListSound(sockets)
      /\ NoDuplicates(tasks) /\ NoDuplicates(timeouts)
  BY Parts
<1>2. PICK o : o = tasks[1]
  OBVIOUS
<1>3. /\ tasks' = Tail(tasks) /\ sender' = [sender EXCEPT ![o] = TaskComplete(@)]
      /\ UNCHANGED <<op, stop, stopping, timeouts, sockets, used, deferred, clock, halted>>
  BY <1>2 DEF PopTask, socketVars
<1>4. /\ o \in Ops /\ OnList(tasks, o) /\ tasks' \in Seq(Ops) /\ NoDuplicates(tasks')
      /\ \A x : OnList(tasks', x) <=> OnList(tasks, x) /\ x # o
  BY <1>1, <1>2, <1>3, TailEffect DEF TypeRest
<1>5. /\ OpInv(o) /\ op[o].kind = "task" /\ Pending(o)
      /\ sender[o] \in Phases("task") /\ sender[o].signals = << >>
  BY <1>4, Parts DEF OpInv, Pending
<1>6. sender[o] = FreshState
  BY <1>5, PhaseCases, PhaseFacts
<1>7. PICK s : s = Ended(0, "value")
  OBVIOUS
<1>8. /\ sender' = [sender EXCEPT ![o] = s]
      /\ s \in Phases(op[o].kind) /\ s.signals = <<"value">> /\ s.signals # << >>
      /\ s # Cancelling /\ "task" \notin IoKinds /\ "timer" # "task"
  <2>1. TaskComplete(sender[o]) = s
    BY <1>6, <1>7, PhaseSteps
  <2>2. sender' = [sender EXCEPT ![o] = s]
    BY <1>3, <2>1
  <2> QED BY <1>5, <1>7, <2>2, PhaseCases, PhaseFacts
<1>9. /\ \A x : OnList(tasks, x)' <=> OnList(tasks, x) /\ x # o
      /\ \A x : OnList(timeouts, x)' <=> OnList(timeouts, x)
  BY <1>3, <1>4 DEF OnList
<1>10. /\ OpsTyped' /\ \A x \in Ops : OpInv(x)'
       /\ sender'[o] = s
       /\ \A x \in Ops \ {o} : sender'[x] = sender[x]
  <2>1. /\ ~InFlight(o)' /\ ~OnList(timeouts, o)' /\ ~OnList(tasks, o)'
    BY <1>5, <1>8, <1>9 DEF OpInv
  <2>2. o \notin stopping'
    BY <1>3
  <2>3. \A x \in Ops \ {o} :
          /\ InFlight(x)' <=> InFlight(x)
          /\ OnList(timeouts, x)' <=> OnList(timeouts, x)
          /\ OnList(tasks, x)' <=> OnList(tasks, x)
          /\ x \in stopping' => x \in stopping
    BY <1>3, <1>9
  <2> QED BY <1>3, <1>4, <1>8, <2>1, <2>2, <2>3, OneSender
<1>11. TypeRest' /\ NoDuplicates(timeouts') /\ FreeListSound(sockets')
       /\ (pc' = "wait" => stopping' = {})
  BY <1>1, <1>3, <1>4 DEF TypeRest
<1>12. CompletesOne
  <2>1. "value" \in Signals /\ "value" # "stopped"
    BY DEF Signals
  <2> QED BY <1>3, <1>4, <1>5, <1>8, <1>10, <2>1 DEF CompletesOne
<1> QED BY <1>4, <1>10, <1>11, <1>12, Assemble

(* The steps of run_one() besides the packet of an operation. *)
LEMMA RunOneKeeps ==
  ASSUME IInv, RunOneTimeout \/ RunOneTask \/ WaitTimedOut \/ DequeueNull
  PROVE  IInv' /\ (CompletesOne \/ Internal)
<1>1. /\ PortTypes /\ PortInv /\ TypeRest /\ FreeListSound(sockets)
      /\ pc = "wait" => stopping = {}
      /\ left \in Int /\ left >= -1 /\ now \in 0 .. MaxClock /\ 0 \in 0 .. MaxClock
  BY Parts, ConstantsAssumption DEF TypeRest
<1>2. CASE RunOneTimeout
  BY <1>1, <1>2, FireTimerKeeps DEF RunOneTimeout, LoopTurn, TimerDue, loopVars
<1>3. CASE RunOneTask
  <2>1. /\ stopping = {} /\ tasks # << >> /\ PopTask /\ pc' = "run" /\ left' = left /\ now' = now
        /\ UNCHANGED <<op, stop, stopping, socketVars, timeouts, clock, halted>>
        /\ UNCHANGED <<outstanding, kernel, aborting, queue>>
    BY <1>3 DEF RunOneTask, LoopTurn, loopVars, portVars
  <2>2. PortTypes' /\ PortInv' /\ \A x : InFlight(x)' <=> InFlight(x)
    BY <1>1, <2>1, PortFrame
  <2> QED BY <1>1, <2>1, <2>2, PopTaskKeeps
<1>4. CASE WaitTimedOut
  <2>1. /\ stopping = {} /\ left' = 0 /\ now' = 0
        /\ UNCHANGED <<op, stop, stopping, socketVars, tasks, portVars, clock, halted>>
    BY <1>1, <1>4 DEF WaitTimedOut, Waiting, Leave
  <2>2. CASE TimerDue(clock)
    BY <1>4, <2>1, <2>2, <1>1, FireTimerKeeps DEF WaitTimedOut, TimerDue, Leave
  <2>3. CASE ~TimerDue(clock)
    <3>1. /\ UNCHANGED <<sender, timeouts>> /\ pc' = "idle"
          /\ UNCHANGED <<op, stop, stopping, tasks, sockets, used, deferred, clock, halted>>
          /\ UNCHANGED <<outstanding, kernel, aborting, queue>>
      BY <1>4, <2>1, <2>3 DEF WaitTimedOut, Leave, socketVars, portVars
    <3>2. PortTypes' /\ PortInv' /\ \A x : InFlight(x)' <=> InFlight(x)
      BY <1>1, <3>1, PortFrame
    <3>3. TypeRest' /\ FreeListSound(sockets')
      BY <1>1, <2>1, <3>1 DEF TypeRest
    <3> QED BY <2>1, <3>1, <3>2, <3>3, NoOperation
  <2> QED BY <2>2, <2>3
<1>5. CASE DequeueNull
  <2>1. /\ stopping = {} /\ left' = 0 /\ now' = 0 /\ queue # << >> /\ queue[1] = NullPacket
        /\ queue' = Tail(queue)
        /\ UNCHANGED <<op, stop, stopping, socketVars, timeouts, clock, halted>>
        /\ UNCHANGED <<outstanding, kernel, aborting>>
    BY <1>1, <1>5 DEF DequeueNull, Waiting, Leave
  <2>2. queue[1].type # "op"
    BY <2>1, PacketFacts
  <2>3. PortTypes' /\ PortInv' /\ \A x : InFlight(x)' <=> InFlight(x)
    BY <1>1, <2>1, <2>2, TakeEffect
  <2>4. CASE tasks # << >>
    <3>1. PopTask /\ pc' = "run"
      BY <1>5, <2>4 DEF DequeueNull, Leave
    <3> QED BY <1>1, <2>1, <2>3, <2>4, <3>1, PopTaskKeeps
  <2>5. CASE tasks = << >>
    <3>1. /\ UNCHANGED <<tasks, sender>> /\ pc' = "idle"
          /\ UNCHANGED <<sockets, used, deferred>>
      BY <1>5, <2>1, <2>5 DEF DequeueNull, Leave, socketVars
    <3>2. TypeRest' /\ FreeListSound(sockets')
      BY <1>1, <2>1, <3>1 DEF TypeRest
    <3> QED BY <2>1, <2>3, <3>1, <3>2, NoOperation
  <2> QED BY <2>4, <2>5
<1> QED BY <1>2, <1>3, <1>4, <1>5

(* What the work function of an operation makes of its sender_state and of *)
(* the sockets.                                                            *)
LEMMA WorkEffect ==
  ASSUME IInv, NEW o \in Ops, NEW r \in {"value", "error", "aborted"}, Work(o, r),
         op[o].kind \in IoKinds, Pending(o)
  PROVE  /\ \E s \in Phases(op[o].kind) : \E sig \in Signals :
              /\ sender' = [sender EXCEPT ![o] = s]
              /\ s.signals = <<sig>>
              /\ s # Cancelling
              /\ sig = "stopped" => op[o].token \in stop \/ r = "aborted"
         /\ \/ UNCHANGED <<sockets, used>>
            \/ /\ FreshHandles # {}
               /\ sockets' = Insert(sockets, NewHandle) /\ used' = used \cup {NewHandle}
<1>1. OpInv(o) /\ sender[o].signals = << >>
  BY Parts DEF Pending
<1>2. /\ sender[o] \in {Registered, Cancelling}
      /\ sender[o] = Cancelling => op[o].token \in stop
  <2>1. sender[o] \in {Registered, Cancelling, Aborted, Ended(1, "stopped"),
                       Ended(0, "value"), Ended(0, "error"), Ended(0, "stopped")}
    BY <1>1, PhaseCases DEF OpInv
  <2> QED BY <1>1, <2>1, PhaseFacts DEF OpInv
<1>3. /\ {Ended(0, "value"), Ended(0, "error"), Ended(0, "stopped"), Aborted}
           \subseteq Phases(op[o].kind)
      /\ Cancelling \notin {Ended(0, "value"), Ended(0, "error"), Ended(0, "stopped"), Aborted}
      /\ Ended(0, "value").signals = <<"value">> /\ Ended(0, "error").signals = <<"error">>
      /\ Ended(0, "stopped").signals = <<"stopped">> /\ Aborted.signals = <<"stopped">>
  BY PhaseCases, PhaseFacts
<1>4. {"value", "error", "stopped"} \subseteq Signals
  BY DEF Signals
<1>5. CASE r = "aborted"
  <2>1. sender' = [sender EXCEPT ![o] = Cancel(sender[o])] /\ UNCHANGED <<sockets, used>>
    BY <1>5 DEF Work
  <2>2. CASE sender[o] = Registered
    <3>1. sender' = [sender EXCEPT ![o] = Aborted]
      BY <2>1, <2>2, PhaseSteps
    <3> QED BY <1>3, <1>4, <1>5, <2>1, <3>1
  <2>3. CASE sender[o] = Cancelling
    <3>1. sender' = [sender EXCEPT ![o] = Ended(0, "stopped")]
      BY <2>1, <2>3, PhaseSteps
    <3> QED BY <1>2, <1>3, <1>4, <2>1, <2>3, <3>1
  <2> QED BY <1>2, <2>2, <2>3
<1>6. ASSUME sender' = [sender EXCEPT ![o] = Error(sender[o])]
      PROVE  \E s \in Phases(op[o].kind) : \E sig \in Signals :
               /\ sender' = [sender EXCEPT ![o] = s] /\ s.signals = <<sig>>
               /\ s # Cancelling /\ sig # "stopped"
  <2>1. sender' = [sender EXCEPT ![o] = Ended(0, "error")]
    BY <1>2, <1>6, PhaseSteps
  <2> QED BY <1>3, <1>4, <2>1
<1>7. ASSUME sender' = [sender EXCEPT ![o] = Complete(sender[o])]
      PROVE  \E s \in Phases(op[o].kind) : \E sig \in Signals :
               /\ sender' = [sender EXCEPT ![o] = s] /\ s.signals = <<sig>>
               /\ s # Cancelling /\ sig # "stopped"
  <2>1. sender' = [sender EXCEPT ![o] = Ended(0, "value")]
    BY <1>2, <1>7, PhaseSteps
  <2> QED BY <1>3, <1>4, <2>1
<1>8. CASE r = "error"
  <2>1. sender' = [sender EXCEPT ![o] = Error(sender[o])] /\ UNCHANGED <<sockets, used>>
    BY <1>8 DEF Work
  <2> QED BY <1>6, <2>1
<1>9. CASE r = "value" /\ op[o].kind # "accept"
  <2>1. sender' = [sender EXCEPT ![o] = Complete(sender[o])] /\ UNCHANGED <<sockets, used>>
    BY <1>9 DEF Work
  <2> QED BY <1>7, <2>1
<1>10. CASE r = "value" /\ op[o].kind = "accept"
  <2>1. \/ sender' = [sender EXCEPT ![o] = Error(sender[o])] /\ UNCHANGED <<sockets, used>>
        \/ /\ FreshHandles # {}
           /\ sockets' = Insert(sockets, NewHandle) /\ used' = used \cup {NewHandle}
           /\ sender' = [sender EXCEPT ![o] = Complete(sender[o])]
    BY <1>10 DEF Work
  <2> QED BY <1>6, <1>7, <2>1
<1> QED BY <1>5, <1>8, <1>9, <1>10

(* A completion: its operation was in flight, and its receiver is told.    *)
LEMMA DequeueOpKeeps ==
  ASSUME IInv, DequeueOp
  PROVE  /\ IInv' /\ CompletesOne
         /\ queue[1].op \in Ops /\ op[queue[1].op].kind \in IoKinds
         /\ sender'[queue[1].op].signals # << >>
         /\ \A x : InFlight(x)' => InFlight(x)
<1>1. /\ PortTypes /\ PortInv /\ TypeRest /\ OpsTyped /\ FreeListSound(sockets)
      /\ NoDuplicates(tasks) /\ NoDuplicates(timeouts)
      /\ pc = "wait" => stopping = {}
  BY Parts
<1>2. PICK o : o = queue[1].op
  OBVIOUS
<1>3. PICK r : r = queue[1].res
  OBVIOUS
<1>4. /\ queue # << >> /\ queue[1].type = "op" /\ Work(o, r) /\ stopping = {}
      /\ queue' = Tail(queue) /\ outstanding' = outstanding - 1
      /\ pc' = "work" /\ left' = 0 /\ now' = 0
      /\ UNCHANGED <<op, stop, stopping, deferred, tasks, timeouts, kernel, aborting, clock, halted>>
  BY <1>1, <1>2, <1>3 DEF DequeueOp, Waiting, Leave
<1>5. /\ PortTypes' /\ PortInv' /\ queue[1] \in Packets
      /\ o \in Ops /\ InFlight(o)
      /\ \A x : InFlight(x)' <=> InFlight(x) /\ x # o
  BY <1>1, <1>2, <1>4, TakeEffect
<1>6. r \in {"value", "error", "aborted"}
  BY <1>3, <1>4, <1>5, PacketFacts
<1>7. /\ OpInv(o) /\ op[o].kind \in IoKinds /\ Pending(o)
      /\ ~OnList(timeouts, o) /\ ~OnList(tasks, o)
      /\ op[o].kind \notin {"none", "timer", "task"}
  <2>1. OpInv(o) /\ op[o].kind \in IoKinds /\ Pending(o)
    BY <1>5, Parts DEF OpInv
  <2>2. op[o].kind \notin {"none", "timer", "task"}
    BY <2>1, PhaseCases
  <2> QED BY <2>1, <2>2 DEF OpInv
<1>8. PICK s \in Phases(op[o].kind), sig \in Signals :
        /\ sender' = [sender EXCEPT ![o] = s] /\ s.signals = <<sig>> /\ s # Cancelling
        /\ sig = "stopped" => op[o].token \in stop \/ r = "aborted"
  <2>1. Work(o, r) /\ o \in Ops /\ r \in {"value", "error", "aborted"}
        /\ op[o].kind \in IoKinds /\ Pending(o)
    BY <1>4, <1>5, <1>6, <1>7
  <2>2. \E s \in Phases(op[o].kind) : \E sig \in Signals :
          /\ sender' = [sender EXCEPT ![o] = s]
          /\ s.signals = <<sig>>
          /\ s # Cancelling
          /\ sig = "stopped" => op[o].token \in stop \/ r = "aborted"
    BY <2>1, WorkEffect
  <2> QED BY <2>2
<1>9. sockets' \in Containers /\ FreeListSound(sockets') /\ used' \subseteq Handles
  <2>1. \/ UNCHANGED <<sockets, used>>
        \/ /\ FreshHandles # {}
           /\ sockets' = Insert(sockets, NewHandle) /\ used' = used \cup {NewHandle}
    BY <1>4, <1>5, <1>6, <1>7, WorkEffect
  <2> QED BY <1>1, <2>1, NewSocketEffect DEF TypeRest
<1>10. /\ \A x : OnList(timeouts, x)' <=> OnList(timeouts, x)
       /\ \A x : OnList(tasks, x)' <=> OnList(tasks, x)
  BY <1>4 DEF OnList
<1>11. s.signals # << >>
  BY <1>8
<1>12. /\ OpsTyped' /\ \A x \in Ops : OpInv(x)'
       /\ sender'[o] = s
       /\ \A x \in Ops \ {o} : sender'[x] = sender[x]
  <2>1. ~InFlight(o)' /\ ~OnList(timeouts, o)' /\ ~OnList(tasks, o)'
    BY <1>5, <1>7, <1>10
  <2>2. o \notin stopping'
    BY <1>4
  <2>3. \A x \in Ops \ {o} :
          /\ InFlight(x)' <=> InFlight(x)
          /\ OnList(timeouts, x)' <=> OnList(timeouts, x)
          /\ OnList(tasks, x)' <=> OnList(tasks, x)
          /\ x \in stopping' => x \in stopping
    BY <1>4, <1>5, <1>10
  <2>4. op' = op /\ stop' = stop
    BY <1>4
  <2> QED BY <1>5, <1>8, <1>11, <2>1, <2>2, <2>3, <2>4, OneSender
<1>13. TypeRest' /\ NoDuplicates(tasks') /\ NoDuplicates(timeouts')
       /\ (pc' = "wait" => stopping' = {})
  BY <1>1, <1>4, <1>9, ConstantsAssumption DEF TypeRest
<1>14. CompletesOne
  <2>1. r = "aborted" => AbortedNext(o)
    BY <1>2, <1>3, <1>4 DEF AbortedNext, IsPacketOf
  <2> QED BY <1>4, <1>5, <1>7, <1>8, <1>12, <2>1 DEF CompletesOne
<1>15. sender'[o].signals # << >>
  BY <1>8, <1>11, <1>12
<1>16. IInv'
  BY <1>5, <1>9, <1>12, <1>13, Assemble
<1>17. \A x : InFlight(x)' => InFlight(x)
  BY <1>5
<1>18. /\ queue[1].op \in Ops /\ op[queue[1].op].kind \in IoKinds
       /\ sender'[queue[1].op].signals # << >>
  BY <1>2, <1>5, <1>7, <1>15
<1> QED BY <1>14, <1>16, <1>17, <1>18

LEMMA NextIInv ==
  ASSUME IInv, [Next]_vars
  PROVE  /\ IInv'
         /\ \/ StartsOne \/ CompletesOne \/ Internal
            \/ \E t \in Tokens : UNCHANGED <<op, sender>> /\ stop' = stop \cup {t}
<1>1. CASE MakeSocket \/ \E id \in Ids(sockets) : Release(id)
  BY <1>1, SocketsKeep
<1>2. ASSUME NEW o \in Ops, Start(o) PROVE IInv' /\ StartsOne
  BY <1>2, StartIoKeeps, StartPollKeeps, StartTimerKeeps, StartStoppedKeeps, StartTaskKeeps
     DEF Start
<1>3. ASSUME NEW o \in Ops, Callback(o) PROVE IInv' /\ (CompletesOne \/ Internal)
  BY <1>3, CancelTimerKeeps, CallbackKeeps, LoopStepsKeep DEF Callback
<1>4. ASSUME NEW t \in Tokens, RequestStop(t)
      PROVE  IInv' /\ UNCHANGED <<op, sender>> /\ stop' = stop \cup {t}
  BY <1>4, RequestStopKeeps
<1>5. CASE RunOneTimeout \/ RunOneTask \/ WaitTimedOut \/ DequeueNull
  BY <1>5, RunOneKeeps
<1>6. CASE DequeueOp
  BY <1>6, DequeueOpKeeps
<1>7. CASE \/ Run \/ RunOneEmpty \/ RunOneWait \/ WaitFailed \/ FreeDeferred \/ Tick
           \/ DequeueStale \/ Halted \/ UNCHANGED vars
  BY <1>7, LoopStepsKeep DEF Halted
<1>8. ASSUME NEW o \in Ops, KernelComplete(o) PROVE IInv' /\ Internal
  BY <1>8, KernelCompleteKeeps
<1> QED BY <1>1, <1>2, <1>3, <1>4, <1>5, <1>6, <1>7, <1>8 DEF Next, RunOne

(* The inductive invariant holds in every state.                           *)
LEMMA IInvCorrect == Spec => []IInv
<1>1. IInv /\ [Next]_vars => IInv'
  BY NextIInv
<1> QED BY <1>1, InitIInv, PTL DEF Spec

(* The counts, lists and packets of iocp_context.hpp have the types of the *)
(* members they model.                                                     *)
THEOREM TypeCorrect == Spec => []TypeOK
<1>1. IInv => TypeOK
  BY DEF IInv
<1> QED BY <1>1, IInvCorrect, PTL

(* No operation is in two places: counting them is asking where it is.     *)
LEMMA PlacesCount ==
  ASSUME IInv, NEW o \in Ops
  PROVE  Places(o) = IF InFlight(o) \/ OnList(timeouts, o) \/ OnList(tasks, o) THEN 1 ELSE 0
<1> DEFINE Port == {i \in 1 .. Len(queue) : IsPacketOf(queue[i], o)}
           Timers == {i \in 1 .. Len(timeouts) : timeouts[i] = o}
           Stack == {i \in 1 .. Len(tasks) : tasks[i] = o}
<1>1. Cardinality(Port) = IF Queued(o) THEN 1 ELSE 0
  <2>1. \A i, j \in Port : i = j
    BY DEF IInv, PortInv, OpAt, IsPacketOf
  <2>2. Port = {} <=> ~Queued(o)
    BY DEF Queued
  <2> QED BY <2>1, <2>2, CountAtMostOne
<1>2. Cardinality(Timers) = IF OnList(timeouts, o) THEN 1 ELSE 0
  <2>1. \A i, j \in Timers : i = j
    BY DEF IInv, NoDuplicates
  <2>2. Timers = {} <=> ~OnList(timeouts, o)
    BY DEF OnList
  <2> QED BY <2>1, <2>2, CountAtMostOne
<1>3. Cardinality(Stack) = IF OnList(tasks, o) THEN 1 ELSE 0
  <2>1. \A i, j \in Stack : i = j
    BY DEF IInv, NoDuplicates
  <2>2. Stack = {} <=> ~OnList(tasks, o)
    BY DEF OnList
  <2> QED BY <2>1, <2>2, CountAtMostOne
<1>4. Places(o) = (IF o \in kernel THEN 1 ELSE 0)
                    + Cardinality(Port) + Cardinality(Timers) + Cardinality(Stack)
  BY DEF Places
<1>5. /\ o \in kernel => ~Queued(o)
      /\ InFlight(o) <=> o \in kernel \/ Queued(o)
  BY PortFacts DEF IInv, PortInv
<1>6. /\ InFlight(o) => ~OnList(timeouts, o) /\ ~OnList(tasks, o)
      /\ OnList(timeouts, o) => ~OnList(tasks, o)
  BY Parts, PhaseCases DEF OpInv
<1> HIDE DEF Port, Timers, Stack
<1> QED BY <1>1, <1>2, <1>3, <1>4, <1>5, <1>6

(* run_one()'s count is that of the packets it will get, an operation is   *)
(* in the context once while its receiver waits and not at all afterwards, *)
(* and its own count says so: for sockets closed under their operations    *)
(* and a GetQueuedCompletionStatus() that fails as well.                   *)
THEOREM AccountsCorrect == Spec => []AccountsExact
<1>1. IInv => AccountsExact
  <2> SUFFICES ASSUME IInv PROVE AccountsExact
    OBVIOUS
  <2>1. OutstandingExact
    BY DEF IInv, PortInv
  <2>2. ASSUME NEW o \in Ops PROVE Places(o) = IF Pending(o) THEN 1 ELSE 0
    BY PlacesCount, Parts DEF OpInv
  <2>3. ASSUME NEW o \in Ops
        PROVE  /\ Pending(o) /\ op[o].kind # "task" => sender[o].count = 1
               /\ Finished(o) => Len(sender[o].signals) = 1 /\ sender[o].count <= 1
               /\ sender[o].count < 0 => op[o].kind = "timer" /\ sender[o].count = -1
    <3>1. /\ sender[o] \in Phases(op[o].kind)
          /\ op[o].kind \in IoKinds \cup {"none", "task", "unsubmitted", "poll", "timer"}
      BY Parts, PhaseCases DEF OpInv, OpRecords
    <3>2. PICK k : k = op[o].kind
      OBVIOUS
    <3>3. PICK s : s = sender[o]
      OBVIOUS
    <3>4. /\ s.signals = << >> => s.count = 1 \/ s = FreshState
          /\ s.signals # << >> => Len(s.signals) = 1 /\ s.count <= 1
          /\ s.count < 0 => s = Ended(-1, "value") /\ s.count = -1
      <4>1. s \in {FreshState, Registered, Cancelling, Aborted, Ended(1, "stopped"),
                   Ended(0, "value"), Ended(0, "error"), Ended(0, "stopped"), Ended(-1, "value")}
        BY <3>1, <3>2, <3>3, PhaseCases
      <4>2. \A sig : Len(<<sig>>) = 1
        OBVIOUS
      <4>3. CASE s \in {FreshState, Registered, Cancelling, Aborted}
        <5>1. /\ s.signals = << >> => s.count = 1 \/ s = FreshState
              /\ s.signals # << >> => s.signals = <<"stopped">> /\ s.count = 0
              /\ s.count \in {0, 1}
          BY <4>3, PhaseFacts
        <5>2. s.signals # << >> => Len(s.signals) = 1
          BY <4>2, <5>1
        <5>3. s.count <= 1 /\ ~(s.count < 0)
          BY <5>1
        <5> QED BY <5>1, <5>2, <5>3
      <4>4. ASSUME NEW n \in {-1, 0, 1}, NEW sig \in Signals, s = Ended(n, sig)
            PROVE  s.count = n /\ s.signals # << >> /\ Len(s.signals) = 1
        <5>1. /\ Ended(n, sig).signals = <<sig>> /\ Ended(n, sig).count = n
              /\ Ended(n, sig).signals # << >>
          BY PhaseFacts
        <5>2. s.signals = <<sig>> /\ s.count = n /\ s.signals # << >>
          BY <4>4, <5>1
        <5> QED BY <4>2, <5>2
      <4>5. {"value", "error", "stopped"} \subseteq Signals
        BY DEF Signals
      <4>6. CASE s \in {Ended(1, "stopped"), Ended(0, "value"), Ended(0, "error"),
                        Ended(0, "stopped")}
        <5>1. s.count \in {0, 1} /\ s.signals # << >> /\ Len(s.signals) = 1
          BY <4>4, <4>5, <4>6
        <5> QED BY <5>1
      <4>7. CASE s = Ended(-1, "value")
        BY <4>4, <4>5, <4>7
      <4> QED BY <4>1, <4>3, <4>6, <4>7
    <3>5. s.signals = << >> /\ k \notin {"none", "task"} => s # FreshState
      BY <3>1, <3>2, <3>3, PhaseCases, PhaseFacts
    <3>6. s.count < 0 => k = "timer"
      BY <3>1, <3>2, <3>3, PhaseCases, PhaseFacts
    <3> QED BY <3>2, <3>3, <3>4, <3>5, <3>6 DEF Pending, Finished
  <2> QED BY <2>1, <2>2, <2>3 DEF AccountsExact, PendingInOnePlace, CountMatchesState
<1> QED BY <1>1, IInvCorrect, PTL

(* An operation that is in flight after a step was so before, or the step  *)
(* has submitted it.                                                       *)
LEMMA FlightSteps ==
  ASSUME IInv, [Next]_vars, NEW o \in Ops, InFlight(o)'
  PROVE  \/ InFlight(o) /\ op'[o] = op[o]
         \/ \E t \in Tokens, k \in IoKinds, id \in Ids(sockets) : StartIo(o, k, id, t)
<1>1. PortTypes /\ PortInv /\ OpsTyped
  BY Parts
<1>2. ASSUME op' = op, UNCHANGED <<outstanding, kernel, queue>>
      PROVE  InFlight(o) /\ op'[o] = op[o]
  BY <1>1, <1>2, PortFrame
<1>3. ASSUME NEW x \in Ops, Start(x), op'[x].kind \notin IoKinds
      PROVE  InFlight(o) /\ op'[o] = op[o]
  <2>1. op[x].kind = "none" /\ \A y \in Ops \ {x} : op'[y] = op[y]
    BY <1>1, <1>3 DEF Start, StartIo, StartPoll, StartTimer, StartTask, StartStopped, CanStart,
                      Describe, OpsTyped
  <2>2. ~StartIo(x, op'[x].kind, op'[x].id, op'[x].token)
    BY <1>3 DEF StartIo
  <2>3. ASSUME NEW t \in Tokens, NEW k \in IoKinds, NEW id \in Ids(sockets), StartIo(x, k, id, t)
        PROVE  FALSE
    BY <1>1, <1>3, <2>3 DEF StartIo, Describe, OpsTyped
  <2>4. InFlight(o)
    <3>1. CASE StartTask(x)
      BY <1>1, <3>1, PostNullEffect DEF StartTask
    <3>2. CASE ~StartTask(x)
      <4>1. UNCHANGED <<outstanding, kernel, queue>>
        BY <1>3, <2>3, <3>2 DEF Start, StartPoll, StartTimer, StartStopped, portVars
      <4> QED BY <1>1, <4>1, PortFrame
    <3> QED BY <3>1, <3>2
  <2>5. o # x
    BY <2>1, <2>4, NotStartedFacts
  <2> QED BY <2>1, <2>4, <2>5
<1>4. ASSUME NEW x \in Ops, Start(x), op'[x].kind \in IoKinds
      PROVE  \E t \in Tokens, k \in IoKinds, id \in Ids(sockets) : StartIo(x, k, id, t)
  <2>1. ASSUME StartTask(x) PROVE FALSE
    <3>1. op'[x].kind = "task"
      BY <1>1, <2>1 DEF StartTask, Describe, OpsTyped
    <3> QED BY <1>4, <3>1, PhaseCases
  <2>2. ASSUME NEW t \in Tokens, NEW id, NEW d,
               StartPoll(x, id, t) \/ StartTimer(x, d, t) \/ StartStopped(x, t)
        PROVE  FALSE
    <3>1. op'[x].kind \in {"poll", "timer", "unsubmitted"}
      BY <1>1, <2>2 DEF StartPoll, StartTimer, StartStopped, Describe, OpsTyped
    <3> QED BY <1>4, <3>1, PhaseCases
  <2> QED BY <1>4, <2>1, <2>2 DEF Start
<1>5. ASSUME NEW x \in Ops, NEW t \in Tokens, NEW k \in IoKinds, NEW id \in Ids(sockets),
             StartIo(x, k, id, t), x # o
      PROVE  InFlight(o) /\ op'[o] = op[o]
  <2>1. op[x].kind = "none" /\ op'[o] = op[o] /\ queue' = queue
        /\ (Submitted(x) \/ UNCHANGED <<kernel, outstanding>>)
    BY <1>1, <1>5 DEF StartIo, CanStart, Describe, OpsTyped
  <2>2. ~InFlight(x)
    BY <2>1, NotStartedFacts
  <2>3. CASE Submitted(x)
    BY <1>1, <1>5, <2>1, <2>2, <2>3, SubmitEffect DEF Submitted
  <2>4. CASE UNCHANGED <<kernel, outstanding>>
    BY <1>1, <2>1, <2>4, PortFrame
  <2> QED BY <2>1, <2>3, <2>4
<1>6. CASE \/ MakeSocket \/ (\E id \in Ids(sockets) : Release(id))
           \/ (\E x \in Ops : Callback(x)) \/ (\E t \in Tokens : RequestStop(t))
           \/ Run \/ RunOneTimeout \/ RunOneTask \/ RunOneEmpty \/ RunOneWait \/ WaitTimedOut
           \/ WaitFailed \/ DequeueStale \/ FreeDeferred \/ Tick \/ Halted \/ UNCHANGED vars
  <2>1. op' = op /\ UNCHANGED <<outstanding, kernel, queue>>
    BY <1>6 DEF MakeSocket, Release, Callback, CancelTimer, CancelIo, CancelReleased, CallbackLate,
       RequestStop, Run, RunOneTimeout, RunOneTask, RunOneEmpty, RunOneWait, WaitTimedOut,
       WaitFailed, DequeueStale, FreeDeferred, Tick, Halted, vars, appVars, portVars
  <2> QED BY <1>2, <2>1
<1>7. CASE DequeueNull
  <2>1. op' = op /\ queue # << >> /\ queue[1] = NullPacket /\ queue' = Tail(queue)
        /\ UNCHANGED <<outstanding, kernel>>
    BY <1>7 DEF DequeueNull
  <2>2. InFlight(o)
    BY <1>1, <2>1, PacketFacts, TakeEffect
  <2> QED BY <2>1, <2>2
<1>8. CASE DequeueOp
  <2>1. InFlight(o)
    BY <1>8, DequeueOpKeeps
  <2>2. op' = op
    BY <1>8 DEF DequeueOp
  <2> QED BY <2>1, <2>2
<1>9. ASSUME NEW x \in Ops, KernelComplete(x) PROVE InFlight(o) /\ op'[o] = op[o]
  <2>1. PICK r \in {"value", "error", "aborted"} : queue' = Append(queue, OpPacket(x, r))
    BY <1>9 DEF KernelComplete
  <2>2. x \in kernel /\ kernel' = kernel \ {x} /\ outstanding' = outstanding /\ op' = op
    BY <1>9 DEF KernelComplete, appVars
  <2>3. InFlight(o)
    BY <1>1, <2>1, <2>2, PostEffect
  <2> QED BY <2>2, <2>3
<1>10. ASSUME NEW x \in Ops, Start(x)
       PROVE  \/ InFlight(o) /\ op'[o] = op[o]
              \/ \E t \in Tokens, k \in IoKinds, id \in Ids(sockets) : StartIo(o, k, id, t)
  <2>1. CASE op'[x].kind \in IoKinds
    BY <1>4, <1>5, <1>10, <2>1
  <2>2. CASE op'[x].kind \notin IoKinds
    BY <1>3, <1>10, <2>2
  <2> QED BY <2>1, <2>2
<1> QED BY <1>6, <1>7, <1>8, <1>9, <1>10 DEF Next, RunOne

(* Only new sockets, closed sockets and freed blocks change the owners.    *)
LEMMA SocketFrame ==
  ASSUME [Next]_vars, ~MakeSocket, ~DequeueOp, \A id \in Ids(sockets) : ~Release(id)
  PROVE  /\ sockets' = sockets
         /\ deferred' = deferred \/ FreeDeferred
<1>1. ASSUME NEW x \in Ops, Start(x) PROVE sockets' = sockets /\ deferred' = deferred
  BY <1>1 DEF Start, StartIo, StartPoll, StartTimer, StartTask, StartStopped, socketVars
<1>2. ASSUME NEW x \in Ops, Callback(x) PROVE sockets' = sockets /\ deferred' = deferred
  BY <1>2 DEF Callback, CancelTimer, CancelIo, CancelReleased, CallbackLate, socketVars
<1>3. CASE \/ (\E t \in Tokens : RequestStop(t)) \/ (\E x \in Ops : KernelComplete(x))
           \/ Run \/ Tick \/ WaitFailed \/ Halted \/ UNCHANGED vars
  BY <1>3 DEF RequestStop, KernelComplete, Run, Tick, WaitFailed, Halted, vars, socketVars
<1>4. CASE \/ RunOneTimeout \/ RunOneTask \/ RunOneEmpty \/ RunOneWait \/ WaitTimedOut
           \/ DequeueNull \/ DequeueStale
  BY <1>4 DEF RunOneTimeout, RunOneTask, RunOneEmpty, RunOneWait, WaitTimedOut, DequeueNull,
              DequeueStale, socketVars
<1>5. CASE FreeDeferred
  BY <1>5 DEF FreeDeferred
<1> QED BY <1>1, <1>2, <1>3, <1>4, <1>5 DEF Next, RunOne

(* A completion makes a socket or leaves them alone. *)
LEMMA WorkSockets ==
  ASSUME IInv, DequeueOp
  PROVE  \/ UNCHANGED <<sockets, used>>
         \/ /\ FreshHandles # {}
            /\ sockets' = Insert(sockets, NewHandle) /\ used' = used \cup {NewHandle}
<1>1. PortTypes /\ PortInv
  BY Parts
<1>2. PICK x : x = queue[1].op
  OBVIOUS
<1>3. PICK r : r = queue[1].res
  OBVIOUS
<1>4. queue # << >> /\ queue[1].type = "op" /\ Work(x, r)
  BY <1>2, <1>3 DEF DequeueOp
<1>5. queue[1] \in Packets /\ 1 \in OpAt(queue)
  BY <1>1, <1>4, OpAtTail DEF OpAt, PortTypes
<1>6. InFlight(x) /\ r \in {"value", "error", "aborted"} /\ x \in Ops
  BY <1>1, <1>2, <1>3, <1>4, <1>5, PacketFacts, PortFacts
<1>7. op[x].kind \in IoKinds /\ Pending(x)
  BY <1>6, Parts DEF OpInv
<1> QED BY <1>4, <1>6, <1>7, WorkEffect

(* The loop's count is not zero while an operation is in flight. *)
LEMMA FlightIsExpected ==
  ASSUME IInv, NEW o \in Ops, InFlight(o)
  PROVE  outstanding > 0
<1>1. PortTypes /\ PortInv
  BY Parts
<1>2. outstanding = Cardinality(kernel) + Cardinality(OpAt(queue))
  BY <1>1, PortFacts DEF PortInv
<1>3. /\ IsFiniteSet(kernel) /\ IsFiniteSet(OpAt(queue))
      /\ Cardinality(kernel) \in Nat /\ Cardinality(OpAt(queue)) \in Nat
  BY <1>1, OpAtFinite, FS_CardinalityType DEF PortInv, PortTypes
<1>4. kernel # {} \/ OpAt(queue) # {}
  BY PortFacts
<1>5. Cardinality(kernel) # 0 \/ Cardinality(OpAt(queue)) # 0
  BY <1>3, <1>4, FS_EmptySet
<1> QED BY <1>2, <1>3, <1>5

(* A block in use keeps its owner, except perhaps in the step that frees a *)
(* deferred block.                                                         *)
LEMMA OwnedStays ==
  ASSUME IInv, [Next]_vars, NEW o \in Ops, InFlight(o), Owned(op[o].block), ~FreeDeferred
  PROVE  Owned(op[o].block)'
<1>1. PortTypes /\ PortInv /\ TypeRest /\ FreeListSound(sockets) /\ OpsTyped
  BY Parts
<1>2. PICK b : b = op[o].block
  OBVIOUS
<1>3. op'[o] = op[o]
  <2>1. ASSUME NEW x \in Ops, Start(x) PROVE op'[o] = op[o]
    <3>1. op[x].kind = "none" /\ \A y \in Ops \ {x} : op'[y] = op[y]
      BY <1>1, <2>1 DEF Start, StartIo, StartPoll, StartTimer, StartTask, StartStopped, CanStart,
                        Describe, OpsTyped
    <3>2. o # x
      BY <3>1, NotStartedFacts
    <3> QED BY <3>1, <3>2
  <2>2. CASE \A x \in Ops : ~Start(x)
    BY <2>2 DEF Next, RunOne, MakeSocket, Release, Callback, CancelTimer, CancelIo, CancelReleased,
       CallbackLate, RequestStop, Run, RunOneTimeout, RunOneTask, RunOneEmpty, RunOneWait,
       WaitTimedOut, WaitFailed, DequeueNull, DequeueOp, DequeueStale, FreeDeferred, Tick,
       KernelComplete, Halted, vars, appVars
  <2> QED BY <2>1, <2>2
<1>4. CASE MakeSocket \/ DequeueOp
  <2>1. LiveBlocks \subseteq LiveBlocks' /\ deferred' = deferred
    <3>1. \/ sockets' = sockets
          \/ /\ FreshHandles # {}
             /\ sockets' = Insert(sockets, NewHandle) /\ used' = used \cup {NewHandle}
      BY <1>4, WorkSockets DEF MakeSocket
    <3>2. sockets' = sockets => LiveBlocks' = LiveBlocks
      BY DEF LiveBlocks
    <3>3. deferred' = deferred
      BY <1>4 DEF MakeSocket, DequeueOp
    <3> QED BY <1>1, <3>1, <3>2, <3>3, NewSocketEffect DEF TypeRest
  <2>2. b \in LiveBlocks \/ \E i \in 1 .. Len(deferred) : deferred[i] = b
    BY <1>2 DEF Owned
  <2> QED BY <1>2, <1>3, <2>1, <2>2 DEF Owned
<1>5. ASSUME NEW id \in Ids(sockets), Release(id) PROVE Owned(op[o].block)'
  <2>1. PICK gone : gone = Lookup(sockets, id)
    OBVIOUS
  <2>2. /\ IsLive(sockets, id) /\ sockets' = Erase(sockets, id) /\ deferred' = Defer(gone)
    BY <1>5, <2>1 DEF Release
  <2>3. gone \in Handles
    BY <1>1, <2>1, <2>2, EraseSocketEffect DEF TypeRest
  <2>4. outstanding > 0
    BY FlightIsExpected
  <2>5. deferred' = <<gone>> \o deferred /\ deferred \in Seq(Handles)
    BY <1>1, <2>2, <2>4 DEF Defer, TypeRest
  <2>6. /\ Len(deferred') = Len(deferred) + 1 /\ Len(deferred) \in Nat
        /\ deferred'[1] = gone
        /\ \A i \in 1 .. Len(deferred) : deferred'[i + 1] = deferred[i]
    BY <2>3, <2>5
  <2>7. CASE b = gone
    BY <1>2, <1>3, <2>6, <2>7 DEF Owned
  <2>8. CASE \E i \in 1 .. Len(deferred) : deferred[i] = b
    <3>1. PICK i \in 1 .. Len(deferred) : deferred[i] = b
      BY <2>8
    <3>2. i + 1 \in 1 .. Len(deferred') /\ deferred'[i + 1] = b
      BY <2>6, <3>1
    <3> QED BY <1>2, <1>3, <3>2 DEF Owned
  <2>9. CASE b \in LiveBlocks /\ b # gone
    <3>1. PICK k \in LiveIds(sockets) : Lookup(sockets, k) = b
      BY <2>9 DEF LiveBlocks
    <3>2. k # id /\ IsLive(sockets, k)
      BY <2>1, <2>9, <3>1 DEF IsLive, LiveIds
    <3>3. IsLive(sockets', k) /\ Lookup(sockets', k) = b
      BY <1>1, <2>2, <3>1, <3>2, EraseSocketEffect DEF TypeRest
    <3>4. b \in LiveBlocks'
      BY <3>3 DEF LiveBlocks, LiveIds, IsLive
    <3> QED BY <1>2, <1>3, <3>4 DEF Owned
  <2> QED BY <1>2, <2>7, <2>8, <2>9 DEF Owned
<1>6. CASE ~MakeSocket /\ ~DequeueOp /\ \A id \in Ids(sockets) : ~Release(id)
  <2>1. sockets' = sockets /\ deferred' = deferred
    BY <1>6, SocketFrame
  <2>2. LiveBlocks' = LiveBlocks
    BY <2>1 DEF LiveBlocks
  <2>3. Owned(b) => b \in LiveBlocks \/ \E i \in 1 .. Len(deferred) : deferred[i] = b
    BY DEF Owned
  <2> QED BY <1>2, <1>3, <2>1, <2>2, <2>3 DEF Owned
<1> QED BY <1>4, <1>5, <1>6

(* The block of an operation in flight is freed by run_one() only, after   *)
(* a completion and as the last one released, whatever the order in which  *)
(* operations are started, cancelled and completed and sockets closed      *)
(* under them.  release() relies on the count of what is outstanding for   *)
(* this.                                                                   *)
THEOREM BlocksCorrect == Spec => BlocksFreedByCompletions
<1> DEFINE Freed(o) ==
             \/ InFlight(o) /\ ~Owned(op[o].block)
             \/ /\ pc = "work" /\ pc' = "run"
                /\ deferred # << >> /\ op[o].block = deferred[1]
<1>1. ASSUME IInv, [Next]_vars, NEW o \in Ops, InFlight(o)', ~Owned(op[o].block)'
      PROVE  Freed(o)
  <2>1. CASE InFlight(o) /\ op'[o] = op[o] /\ ~FreeDeferred
    BY <1>1, <2>1, OwnedStays
  <2>2. CASE InFlight(o) /\ FreeDeferred
    <3>1. PICK b : b = op[o].block
      OBVIOUS
    <3>2. /\ pc = "work" /\ pc' = "run" /\ op' = op /\ sockets' = sockets
          /\ deferred' = IF deferred = << >> THEN deferred ELSE Tail(deferred)
          /\ deferred \in Seq(Handles)
      BY <1>1, <2>2, Parts DEF FreeDeferred, TypeRest, appVars
    <3>3. LiveBlocks' = LiveBlocks /\ op'[o].block = b
      BY <3>1, <3>2 DEF LiveBlocks
    <3>4. ~Owned(b)'
      BY <1>1, <3>3
    <3>5. b \notin LiveBlocks /\ \A i \in 1 .. Len(deferred') : deferred'[i] # b
      BY <3>3, <3>4 DEF Owned
    <3>6. CASE deferred = << >>
      <4>1. ~Owned(b)
        BY <3>2, <3>5, <3>6 DEF Owned
      <4> QED BY <2>2, <3>1, <4>1
    <3>7. CASE deferred # << >> /\ deferred[1] # b
      <4>1. /\ Len(deferred) \in Nat /\ Len(deferred') = Len(deferred) - 1
            /\ \A i \in 1 .. Len(deferred') : deferred'[i] = deferred[i + 1]
        BY <3>2, <3>7
      <4>2. ASSUME NEW i \in 1 .. Len(deferred) PROVE deferred[i] # b
        <5>1. CASE i = 1
          BY <3>7, <5>1
        <5>2. CASE i # 1
          <6>1. i - 1 \in 1 .. Len(deferred') /\ deferred'[i - 1] = deferred[i]
            BY <4>1, <5>2
          <6> QED BY <3>5, <6>1
        <5> QED BY <5>1, <5>2
      <4>3. ~Owned(b)
        BY <3>5, <4>2 DEF Owned
      <4> QED BY <2>2, <3>1, <4>3
    <3> QED BY <3>1, <3>2, <3>6, <3>7
  <2>3. ASSUME NEW t \in Tokens, NEW k \in IoKinds, NEW id \in Ids(sockets), StartIo(o, k, id, t)
        PROVE  FALSE
    <3>1. /\ IsLive(sockets, id) /\ UNCHANGED <<sockets, deferred>>
          /\ op'[o].block = Lookup(sockets, id)
      BY <1>1, <2>3, Parts DEF StartIo, Describe, socketVars, OpsTyped
    <3>2. op'[o].block \in LiveBlocks'
      BY <3>1 DEF LiveBlocks, LiveIds, IsLive
    <3> QED BY <1>1, <3>2 DEF Owned
  <2> QED BY <1>1, <2>1, <2>2, <2>3, FlightSteps
<1>2. IInv /\ [Next]_vars => [FreesOnlyLastReleased]_vars
  BY <1>1 DEF FreesOnlyLastReleased
<1> QED BY <1>2, IInvCorrect, PTL DEF Spec, BlocksFreedByCompletions

(* The socket of an operation in flight is open and has the block that the *)
(* operation was started with.                                             *)
SocketsLive ==
  \A o \in Ops : InFlight(o) =>
    IsLive(sockets, op[o].id) /\ Lookup(sockets, op[o].id) = op[o].block

LInv == halted = "no" /\ SocketsLive

LEMMA NextLInv ==
  ASSUME ~CloseWithPending, IInv, LInv, [Next]_vars
  PROVE  LInv'
<1>1. PortTypes /\ PortInv /\ TypeRest /\ FreeListSound(sockets) /\ OpsTyped
  BY Parts
<1>2. halted = "no" /\ SocketsLive
  BY DEF LInv
<1>3. \A x \in Ops : ~CancelReleased(x)
  <2> SUFFICES ASSUME NEW x \in Ops, CancelReleased(x) PROVE FALSE
    OBVIOUS
  <2>1. Pending(x) /\ ~OnList(timeouts, x) /\ ~OnList(tasks, x) /\ ~IsLive(sockets, op[x].id)
    BY CallbackFacts DEF CancelReleased
  <2>2. InFlight(x)
    BY <2>1, Parts DEF OpInv
  <2> QED BY <1>2, <2>1, <2>2 DEF SocketsLive
<1>4. ~DequeueStale
  <2> SUFFICES ASSUME DequeueStale PROVE FALSE
    OBVIOUS
  <2>1. PICK o : o = queue[1].op
    OBVIOUS
  <2>2. /\ queue # << >> /\ queue[1].type = "op"
        /\ ~Owned(op[o].block) \/ ~IsLive(sockets, op[o].id)
    BY <2>1 DEF DequeueStale
  <2>3. o \in Ops /\ InFlight(o)
    <3>1. 1 \in OpAt(queue) /\ o \in Ops
      BY <1>1, <2>1, <2>2, OpAtTail, PacketFacts DEF OpAt, PortTypes
    <3> QED BY <2>1, <3>1, PortFacts
  <2>4. IsLive(sockets, op[o].id) /\ Lookup(sockets, op[o].id) = op[o].block
    BY <1>2, <2>3 DEF SocketsLive
  <2>5. op[o].block \in LiveBlocks
    BY <2>4 DEF LiveBlocks, LiveIds, IsLive
  <2> QED BY <2>2, <2>4, <2>5 DEF Owned
<1>5. halted' = "no"
  <2>1. ASSUME NEW o \in Ops, Start(o) PROVE halted' = halted
    BY <2>1 DEF Start, StartIo, StartPoll, StartTimer, StartTask, StartStopped
  <2>2. ASSUME NEW o \in Ops, Callback(o) PROVE halted' = halted
    BY <1>3, <2>2 DEF Callback, CancelTimer, CancelIo, CallbackLate
  <2>3. CASE \/ MakeSocket \/ (\E id \in Ids(sockets) : Release(id))
             \/ (\E t \in Tokens : RequestStop(t)) \/ (\E o \in Ops : KernelComplete(o))
    BY <1>2, <2>3 DEF MakeSocket, Release, RequestStop, KernelComplete
  <2>4. CASE \/ Run \/ RunOneTimeout \/ RunOneTask \/ RunOneEmpty \/ RunOneWait \/ FreeDeferred
             \/ WaitTimedOut \/ WaitFailed \/ DequeueNull \/ DequeueOp
    BY <1>2, <2>4 DEF Run, RunOneTimeout, RunOneTask, RunOneEmpty, RunOneWait, FreeDeferred,
                WaitTimedOut, WaitFailed, DequeueNull, DequeueOp
  <2>5. CASE Tick \/ Halted \/ UNCHANGED vars
    BY <1>2, <2>5 DEF Tick, Halted, vars
  <2> QED BY <1>2, <1>4, <2>1, <2>2, <2>3, <2>4, <2>5 DEF Next, RunOne
<1>6. ASSUME NEW o \in Ops, InFlight(o)
      PROVE  IsLive(sockets', op[o].id) /\ Lookup(sockets', op[o].id) = op[o].block
  <2>1. IsLive(sockets, op[o].id) /\ Lookup(sockets, op[o].id) = op[o].block
    BY <1>2, <1>6 DEF SocketsLive
  <2>2. ASSUME FreshHandles # {}, sockets' = Insert(sockets, NewHandle),
               used' = used \cup {NewHandle}
        PROVE  IsLive(sockets', op[o].id) /\ Lookup(sockets', op[o].id) = op[o].block
    BY <1>1, <2>1, <2>2, NewSocketEffect DEF TypeRest
  <2>3. CASE MakeSocket
    BY <2>2, <2>3 DEF MakeSocket
  <2>4. CASE DequeueOp
    BY <2>1, <2>2, <2>4, WorkSockets
  <2>5. ASSUME NEW id \in Ids(sockets), Release(id)
        PROVE  IsLive(sockets', op[o].id) /\ Lookup(sockets', op[o].id) = op[o].block
    <3>1. /\ IsLive(sockets, id) /\ sockets' = Erase(sockets, id)
          /\ op[o].block # Lookup(sockets, id)
      BY <1>6, <2>5 DEF Release
    <3>2. op[o].id # id
      BY <2>1, <3>1
    <3> QED BY <1>1, <2>1, <3>1, <3>2, EraseSocketEffect DEF TypeRest
  <2>6. CASE ~MakeSocket /\ ~DequeueOp /\ \A id \in Ids(sockets) : ~Release(id)
    <3>1. sockets' = sockets
      BY <2>6, SocketFrame
    <3> QED BY <2>1, <3>1
  <2> QED BY <2>3, <2>4, <2>5, <2>6
<1>7. ASSUME NEW o \in Ops, InFlight(o)'
      PROVE  IsLive(sockets', op'[o].id) /\ Lookup(sockets', op'[o].id) = op'[o].block
  <2>1. CASE InFlight(o) /\ op'[o] = op[o]
    BY <1>6, <2>1
  <2>2. ASSUME NEW t \in Tokens, NEW k \in IoKinds, NEW id \in Ids(sockets), StartIo(o, k, id, t)
        PROVE  IsLive(sockets', op'[o].id) /\ Lookup(sockets', op'[o].id) = op'[o].block
    <3>1. /\ IsLive(sockets, id) /\ sockets' = sockets
          /\ op'[o].id = id /\ op'[o].block = Lookup(sockets, id)
      BY <1>1, <2>2 DEF StartIo, Describe, socketVars, OpsTyped
    <3> QED BY <3>1
  <2> QED BY <1>7, <2>1, <2>2, FlightSteps
<1> QED BY <1>5, <1>7 DEF LInv, SocketsLive

LEMMA LInvCorrect ==
  ASSUME ~CloseWithPending
  PROVE  Spec => []LInv
<1>1. Init => LInv
  BY DEF Init, LInv, SocketsLive, InFlight
<1>2. IInv /\ LInv /\ [Next]_vars => LInv'
  BY NextLInv
<1> QED BY <1>1, <1>2, IInvCorrect, PTL DEF Spec

(* As long as sockets are not closed under their operations, every         *)
(* socket_id that a cancellation or a work function looks up is in the     *)
(* container and no completion points into a block that was freed.         *)
THEOREM LookupsCorrect == ~CloseWithPending => (Spec => []LookupsSucceed)
<1> SUFFICES ASSUME ~CloseWithPending PROVE Spec => []LookupsSucceed
  OBVIOUS
<1>1. LInv => LookupsSucceed
  BY DEF LInv, LookupsSucceed
<1> QED BY <1>1, LInvCorrect, PTL

(* The kernel aborts operations only on behalf of a stop request.          *)
AInv ==
  /\ \A o \in aborting : op[o].token \in stop
  /\ \A i \in OpAt(queue) : queue[i].res = "aborted" => op[queue[i].op].token \in stop

LEMMA NextAInv ==
  ASSUME ~CloseWithPending, IInv, AInv, [Next]_vars
  PROVE  AInv'
<1>1. PortTypes /\ PortInv /\ OpsTyped /\ aborting \subseteq kernel
  BY Parts DEF TypeRest
<1>2. /\ \A o \in aborting : o \in Ops /\ op[o].token \in stop
      /\ \A i \in OpAt(queue) : queue[i].op \in Ops
      /\ \A i \in OpAt(queue) : queue[i].res = "aborted" => op[queue[i].op].token \in stop
  <2>1. \A i \in OpAt(queue) : queue[i] \in Packets /\ queue[i].type = "op"
    BY <1>1 DEF OpAt, PortTypes
  <2> QED BY <1>1, <2>1, PacketFacts DEF AInv, PortTypes
<1>3. ASSUME op' = op, stop \subseteq stop',
             aborting' \subseteq aborting \cup {o \in Ops : op[o].token \in stop},
             \A i \in OpAt(queue') : \E j \in OpAt(queue) : queue'[i] = queue[j]
      PROVE  AInv'
  BY <1>2, <1>3 DEF AInv
<1>4. ASSUME op' = op, stop \subseteq stop', queue' = queue,
             aborting' \subseteq aborting \cup {o \in Ops : op[o].token \in stop}
      PROVE  AInv'
  BY <1>3, <1>4
<1>5. ASSUME NEW x \in Ops, Start(x) PROVE AInv'
  <2>1. /\ op[x].kind = "none" /\ \A y \in Ops \ {x} : op'[y] = op[y]
        /\ stop' = stop /\ aborting' = aborting
        /\ queue' = queue \/ StartTask(x)
    BY <1>1, <1>5 DEF Start, StartIo, StartPoll, StartTimer, StartTask, StartStopped, CanStart,
                      Describe, OpsTyped, portVars
  <2>2. /\ \A i \in OpAt(queue') : i \in OpAt(queue) /\ queue'[i] = queue[i]
    <3>1. CASE StartTask(x)
      BY <1>1, <3>1, PostNullEffect DEF StartTask
    <3> QED BY <2>1, <3>1
  <2>3. x \notin aborting /\ \A i \in OpAt(queue) : queue[i].op # x
    <3>1. ~InFlight(x)
      BY <2>1, NotStartedFacts
    <3> QED BY <1>1, <3>1, PortFacts
  <2>4. \A o \in aborting' : op'[o].token \in stop'
    BY <1>2, <2>1, <2>3
  <2>5. \A i \in OpAt(queue') : queue'[i].res = "aborted" => op'[queue'[i].op].token \in stop'
    BY <1>2, <2>1, <2>2, <2>3
  <2> QED BY <2>4, <2>5 DEF AInv
<1>6. ASSUME NEW id \in Ids(sockets), Release(id) PROVE AInv'
  <2>1. \A o \in Ops : InFlight(o) => op[o].block # Lookup(sockets, id)
    BY <1>6 DEF Release
  <2>2. {o \in kernel : op[o].block = Lookup(sockets, id)} = {}
    BY <1>1, <2>1 DEF InFlight, PortTypes
  <2>3. aborting' = aborting
    BY <1>6, <2>2 DEF Release
  <2> QED BY <1>4, <1>6, <2>3 DEF Release, appVars
<1>7. ASSUME NEW o \in Ops, CancelIo(o) PROVE AInv'
  <2>1. op[o].token \in stop
    BY <1>7, CallbackFacts DEF CancelIo
  <2>2. aborting' \subseteq aborting \cup {o} /\ op' = op /\ stop' = stop /\ queue' = queue
    BY <1>7 DEF CancelIo
  <2> QED BY <1>4, <2>1, <2>2
<1>8. ASSUME NEW o \in Ops, KernelComplete(o) PROVE AInv'
  <2>1. PICK r \in {"value", "error", "aborted"} :
          (r = "aborted" => o \in aborting) /\ queue' = Append(queue, OpPacket(o, r))
    BY <1>8 DEF KernelComplete
  <2>2. /\ o \in kernel /\ kernel' = kernel \ {o} /\ outstanding' = outstanding
        /\ aborting' = aborting \ {o} /\ op' = op /\ stop' = stop
    BY <1>8 DEF KernelComplete, appVars
  <2>3. /\ OpAt(queue') = OpAt(queue) \cup {Len(queue) + 1}
        /\ queue'[Len(queue) + 1] = OpPacket(o, r)
        /\ \A i \in OpAt(queue) : queue'[i] = queue[i]
    BY <1>1, <2>1, <2>2, PostEffect
  <2>4. OpPacket(o, r).op = o /\ OpPacket(o, r).res = r
    BY PacketFacts
  <2>5. \A i \in OpAt(queue') : queue'[i].res = "aborted" => op'[queue'[i].op].token \in stop'
    <3> SUFFICES ASSUME NEW i \in OpAt(queue'), queue'[i].res = "aborted"
                 PROVE  op[queue'[i].op].token \in stop
      BY <2>2
    <3>1. CASE i \in OpAt(queue)
      BY <1>2, <2>3, <3>1
    <3>2. CASE i = Len(queue) + 1
      <4>1. queue'[i].op = o /\ r = "aborted"
        BY <2>3, <2>4, <3>2
      <4> QED BY <1>2, <2>1, <4>1
    <3> QED BY <2>3, <3>1, <3>2
  <2>6. \A x \in aborting' : op'[x].token \in stop'
    BY <1>2, <2>2
  <2> QED BY <2>5, <2>6 DEF AInv
<1>9. CASE DequeueNull \/ DequeueOp
  <2>1. /\ op' = op /\ stop' = stop /\ aborting' = aborting
        /\ queue # << >> /\ queue' = Tail(queue)
    BY <1>9 DEF DequeueNull, DequeueOp
  <2>2. \A i \in OpAt(queue') : i + 1 \in OpAt(queue) /\ queue'[i] = queue[i + 1]
    BY <1>1, <2>1, OpAtTail DEF PortTypes
  <2> QED BY <1>3, <2>1, <2>2
<1>10. CASE \/ MakeSocket \/ (\E o \in Ops : CancelTimer(o) \/ CancelReleased(o) \/ CallbackLate(o))
            \/ (\E t \in Tokens : RequestStop(t))
            \/ Run \/ RunOneTimeout \/ RunOneTask \/ RunOneEmpty \/ RunOneWait \/ WaitTimedOut
            \/ WaitFailed \/ DequeueStale \/ FreeDeferred \/ Tick \/ Halted \/ UNCHANGED vars
  <2>1. op' = op /\ stop \subseteq stop' /\ queue' = queue /\ aborting' = aborting
    BY <1>10 DEF MakeSocket, CancelTimer, CancelReleased, CallbackLate, RequestStop, Run,
       RunOneTimeout, RunOneTask, RunOneEmpty, RunOneWait, WaitTimedOut, WaitFailed,
       DequeueStale, FreeDeferred, Tick, Halted, vars, appVars, portVars
  <2> QED BY <1>4, <2>1
<1> QED BY <1>5, <1>6, <1>7, <1>8, <1>9, <1>10 DEF Next, RunOne, Callback

LEMMA StatusOfOthers ==
  ASSUME NEW o \in Ops, \A x \in Ops \ {o} : op'[x] = op[x] /\ sender'[x] = sender[x],
         NEW v, Status'[o] = v
  PROVE  Status' = [Status EXCEPT ![o] = v]
<1>1. \A x \in Ops \ {o} : Status'[x] = Status[x]
  BY DEF Status
<1>2. /\ Status = [x \in Ops |-> Status[x]]
      /\ Status' = [x \in Ops |-> Status'[x]]
  BY DEF Status
<1> QED BY <1>1, <1>2

(* iocp_context.hpp and sender.hpp keep the promise of an asynchronous     *)
(* operation to its receiver, although a cancellation only asks the kernel *)
(* to abort and the kernel may end the operation otherwise.                *)
THEOREM AsyncOpsCorrect == ~CloseWithPending => (Spec => ImplementsAsyncOps)
<1> SUFFICES ASSUME ~CloseWithPending PROVE Spec => ImplementsAsyncOps
  OBVIOUS
<1> DEFINE Token == [o \in Ops |-> op[o].token]
<1>1. Init => Abstract!AsyncInit
  BY DEF Init, Abstract!AsyncInit, Status, NotStarted
<1>2. Init => AInv
  BY DEF Init, AInv, OpAt
<1>3. IInv /\ AInv /\ [Next]_vars => [Abstract!AsyncNext]_<<Status, Token, stop>>
  <2> SUFFICES ASSUME IInv, AInv, [Next]_vars
               PROVE  Abstract!AsyncNext \/ UNCHANGED <<Status, Token, stop>>
    OBVIOUS
  <2>0. \A sig : <<sig>> # << >> /\ Len(<<sig>>) = 1 /\ <<sig>>[1] = sig
    OBVIOUS
  <2>1. CASE StartsOne
    <3>1. PICK o \in Ops :
             /\ op[o].kind = "none" /\ op'[o].kind # "none"
             /\ \/ sender'[o].signals = << >>
                \/ \E sig \in Signals : /\ sender'[o].signals = <<sig>>
                                        /\ sig = "stopped" => op'[o].token \in stop
             /\ \A x \in Ops \ {o} : op'[x] = op[x] /\ sender'[x] = sender[x]
      BY <2>1 DEF StartsOne
    <3>2. PICK v \in Abstract!Outcomes \cup {"pending"} :
             Status'[o] = v /\ (v = "stopped" => op'[o].token \in stop)
      <4>1. CASE sender'[o].signals = << >>
        BY <3>1, <4>1 DEF Status
      <4>2. ASSUME NEW sig \in Signals, sender'[o].signals = <<sig>>,
                   sig = "stopped" => op'[o].token \in stop
            PROVE  sig \in Abstract!Outcomes /\ Status'[o] = sig
        BY <2>0, <3>1, <4>2 DEF Status, Signals, Abstract!Outcomes
      <4> QED BY <3>1, <4>1, <4>2
    <3>3. Status[o] = "idle"
      BY <3>1 DEF Status
    <3>4. Status' = [Status EXCEPT ![o] = v]
      BY <3>1, <3>2, StatusOfOthers
    <3>5. (\A p \in Ops \ {o} : Token'[p] = Token[p]) /\ Token'[o] = op'[o].token
      BY <3>1
    <3>6. stop' = stop
      BY <2>1 DEF StartsOne
    <3> HIDE DEF Token
    <3>7. Abstract!Submit(o)
      BY <3>2, <3>3, <3>4, <3>5, <3>6 DEF Abstract!Submit, Token
    <3> QED BY <3>7 DEF Abstract!AsyncNext
  <2>2. CASE CompletesOne
    <3>1. PICK o \in Ops, sig \in Signals :
             /\ Pending(o)
             /\ sender'[o].signals = <<sig>>
             /\ sig = "stopped" => op[o].token \in stop \/ AbortedNext(o)
             /\ \A x \in Ops \ {o} : sender'[x] = sender[x]
      BY <2>2 DEF CompletesOne
    <3>2. op' = op /\ stop' = stop
      BY <2>2 DEF CompletesOne
    <3>3. AbortedNext(o) => op[o].token \in stop
      <4> SUFFICES ASSUME AbortedNext(o) PROVE op[o].token \in stop
        OBVIOUS
      <4>1. queue # << >> /\ queue[1].type = "op" /\ queue[1].op = o /\ queue[1].res = "aborted"
        BY DEF AbortedNext, IsPacketOf
      <4>2. 1 \in OpAt(queue)
        BY <4>1, Parts, OpAtTail DEF OpAt, PortTypes
      <4> QED BY <4>1, <4>2 DEF AInv
    <3>4. Status[o] = "pending"
      BY <3>1 DEF Status, Pending
    <3>5. Status'[o] = sig
      BY <2>0, <3>1, <3>2 DEF Status, Pending
    <3>6. Status' = [Status EXCEPT ![o] = sig]
      BY <3>1, <3>2, <3>5, StatusOfOthers
    <3>7. Token' = Token
      BY <3>2
    <3>8. Token[o] = op[o].token
      OBVIOUS
    <3>9. sig \in Abstract!Outcomes
      BY DEF Signals, Abstract!Outcomes
    <3> HIDE DEF Token
    <3>10. Abstract!Resolve(o)
      BY <3>1, <3>2, <3>3, <3>4, <3>6, <3>7, <3>8, <3>9 DEF Abstract!Resolve, Token
    <3> QED BY <3>10 DEF Abstract!AsyncNext
  <2>3. CASE Internal
    <3>1. op' = op /\ stop' = stop /\ \A x \in Ops : sender'[x].signals = sender[x].signals
      BY <2>3 DEF Internal
    <3>2. \A x \in Ops : Status'[x] = Status[x]
      BY <3>1 DEF Status
    <3>3. Status = [x \in Ops |-> Status[x]] /\ Status' = [x \in Ops |-> Status'[x]]
      BY DEF Status
    <3>4. Status' = Status
      BY <3>2, <3>3
    <3> QED BY <3>1, <3>4
  <2>4. ASSUME NEW t \in Tokens, UNCHANGED <<op, sender>>, stop' = stop \cup {t}
        PROVE  Abstract!AsyncNext
    <3>1. UNCHANGED <<Status, Token>>
      BY <2>4 DEF Status
    <3>2. Abstract!RequestStop(t)
      BY <2>4, <3>1 DEF Abstract!RequestStop
    <3> QED BY <3>2 DEF Abstract!AsyncNext
  <2> QED BY <2>1, <2>2, <2>3, <2>4, NextIInv
<1>4. IInv /\ AInv /\ [Next]_vars => IInv' /\ AInv'
  BY NextIInv, NextAInv
<1> QED BY <1>1, <1>2, <1>3, <1>4, InitIInv, PTL
        DEF Spec, ImplementsAsyncOps, Abstract!AsyncSpec

(* While run_one() waits no task is left and its wait is as long as it was *)
(* made: infinite without timers, otherwise the whole milliseconds to the  *)
(* first deadline or the longest wait, counted from `now', or longer.      *)
WInv ==
  pc = "wait" =>
    /\ tasks = << >>
    /\ IF timeouts = << >> THEN left = -1
       ELSE /\ left >= 0 /\ now < Deadline[timeouts[1]]
            /\ \/ clock = MaxClock
               \/ clock - now + left
                    >= TicksPerMs * Least((Deadline[timeouts[1]] - now) \div TicksPerMs, MaxWait)

(* A packet of schedule() is there because of a task. *)
NullInv == \A i \in 1 .. Len(queue) : queue[i] = NullPacket => \E o \in Ops : op[o].kind = "task"

(* Nothing but time changes while run_one() waits. *)
LEMMA WaitFrame ==
  ASSUME [Next]_vars, pc' = "wait", ~RunOneWait
  PROVE  /\ pc = "wait" /\ op' = op /\ timeouts' = timeouts /\ tasks' = tasks /\ now' = now
         /\ Tick \/ UNCHANGED <<left, clock>>
<1>1. ASSUME NEW x \in Ops, Start(x) \/ Callback(x) PROVE FALSE
  <2>1. pc' = pc /\ pc # "wait"
    BY <1>1 DEF Start, StartIo, StartPoll, StartTimer, StartTask, StartStopped, CanStart, Callback,
                CancelTimer, CancelIo, CancelReleased, CallbackLate, CallbackRuns, ProgramRuns,
                loopVars
  <2> QED BY <2>1
<1>2. CASE \/ MakeSocket \/ (\E id \in Ids(sockets) : Release(id))
           \/ (\E t \in Tokens : RequestStop(t))
  <2>1. pc' = pc /\ pc # "wait"
    BY <1>2 DEF MakeSocket, Release, RequestStop, ProgramRuns, loopVars
  <2> QED BY <2>1
<1>3. CASE \/ Run \/ RunOneTimeout \/ RunOneTask \/ RunOneEmpty \/ FreeDeferred
           \/ WaitTimedOut \/ WaitFailed \/ DequeueNull \/ DequeueOp
  <2>1. pc' # "wait"
    BY <1>3 DEF Run, RunOneTimeout, RunOneTask, RunOneEmpty, FreeDeferred, WaitTimedOut,
                WaitFailed, DequeueNull, DequeueOp, Idle, LoopTurn, Leave, loopVars
  <2> QED BY <2>1
<1>4. CASE \/ Tick \/ DequeueStale \/ Halted \/ (\E o \in Ops : KernelComplete(o))
           \/ UNCHANGED vars
  BY <1>4 DEF Tick, DequeueStale, Halted, KernelComplete, vars, appVars, loopVars
<1> QED BY <1>1, <1>2, <1>3, <1>4 DEF Next, RunOne

(* Waiting for whole milliseconds, and not too long. *)
LEMMA WaitRounds ==
  ASSUME NEW t \in Nat \ {0}, NEW m \in Nat \ {0}, NEW n \in Nat
  PROVE  /\ t * Least(n \div t, m) \in Nat
         /\ \/ n > t * m /\ t * Least(n \div t, m) = t * m
            \/ n - t * Least(n \div t, m) < t
<1>1. PICK a \in Nat : a = n \div t
  OBVIOUS
<1>2. n - t * a < t /\ t * a <= n
  BY <1>1
<1>3. CASE a <= m
  <2>1. Least(a, m) = a
    BY <1>3 DEF Least
  <2>2. t * a \in Nat
    OBVIOUS
  <2> QED BY <1>1, <1>2, <2>1, <2>2
<1>4. CASE a > m
  <2>1. Least(a, m) = m /\ t * m \in Nat
    BY <1>4 DEF Least
  <2>2. PICK d \in Nat \ {0} : a = m + d
    <3>1. a - m \in Nat \ {0} /\ a = m + (a - m)
      BY <1>4
    <3> QED BY <3>1
  <2>3. t * a = t * m + t * d /\ t * d > 0
    BY <2>2
  <2>4. n > t * m
    BY <1>2, <2>1, <2>3
  <2> QED BY <1>1, <2>1, <2>4
<1> QED BY <1>3, <1>4

LEMMA NextWInv ==
  ASSUME IInv, WInv, [Next]_vars
  PROVE  WInv'
<1> SUFFICES ASSUME pc' = "wait"
             PROVE  /\ tasks' = << >>
                    /\ IF timeouts' = << >> THEN left' = -1
                       ELSE /\ left' >= 0 /\ now' < Deadline'[timeouts'[1]]
                            /\ \/ clock' = MaxClock
                               \/ clock' - now' + left'
                                    >= TicksPerMs * Least((Deadline'[timeouts'[1]] - now')
                                                           \div TicksPerMs, MaxWait)
  BY DEF WInv
<1>1. /\ left \in Int /\ clock \in 0 .. MaxClock /\ now \in 0 .. MaxClock
      /\ MaxClock \in Nat /\ timeouts \in Seq(Ops)
  BY Parts, ConstantsAssumption DEF TypeRest
<1>2. CASE RunOneWait
  <2>1. /\ left' = WaitTicks /\ ~TimerDue(clock) /\ now' = clock /\ tasks = << >>
        /\ op' = op /\ timeouts' = timeouts /\ clock' = clock /\ tasks' = tasks
    BY <1>2 DEF RunOneWait, Idle, appVars
  <2>2. CASE timeouts = << >>
    BY <2>1, <2>2 DEF WaitTicks
  <2>3. CASE timeouts # << >>
    <3>1. PICK d : d = Deadline[timeouts[1]]
      OBVIOUS
    <3>2. d \in Nat /\ d - clock \in Nat
      BY <2>1, <2>3, <3>1, WaitTicksType
    <3>3. clock < d
      BY <1>1, <2>1, <2>3, <3>1, <3>2 DEF TimerDue
    <3>4. left' = TicksPerMs * Least((d - clock) \div TicksPerMs, MaxWait)
      BY <2>1, <2>3, <3>1 DEF WaitTicks
    <3>5. left' \in Int /\ left' >= 0
      BY <2>1, <2>3, WaitTicksType
    <3>6. clock' - now' + left' = left'
      BY <1>1, <2>1, <3>5
    <3>7. Deadline'[timeouts'[1]] = d
      BY <2>1, <3>1 DEF Deadline
    <3> QED BY <2>1, <2>3, <3>3, <3>4, <3>5, <3>6, <3>7
  <2> QED BY <2>2, <2>3
<1>3. CASE ~RunOneWait
  <2>1. /\ pc = "wait" /\ op' = op /\ timeouts' = timeouts /\ tasks' = tasks /\ now' = now
        /\ Tick \/ UNCHANGED <<left, clock>>
    BY <1>3, WaitFrame
  <2>2. Deadline' = Deadline
    BY <2>1 DEF Deadline
  <2>3. CASE UNCHANGED <<left, clock>>
    BY <2>1, <2>2, <2>3 DEF WInv
  <2>4. CASE Tick
    <3>1. /\ clock' = IF clock < MaxClock THEN clock + 1 ELSE clock
          /\ left' = IF left > 0 THEN left - 1 ELSE left
          /\ clock < MaxClock \/ left > 0
      BY <2>4 DEF Tick
    <3>2. CASE timeouts = << >>
      BY <2>1, <3>1, <3>2 DEF WInv
    <3>3. CASE timeouts # << >>
      <4>1. PICK w : w = TicksPerMs * Least((Deadline[timeouts[1]] - now) \div TicksPerMs, MaxWait)
        OBVIOUS
      <4>2. /\ left >= 0 /\ now < Deadline[timeouts[1]] /\ tasks = << >>
            /\ clock = MaxClock \/ clock - now + left >= w
        BY <2>1, <3>3, <4>1 DEF WInv
      <4>3. left' >= 0 /\ (clock' = MaxClock \/ clock' - now' + left' >= w)
        <5>1. CASE clock = MaxClock
          BY <1>1, <3>1, <4>2, <5>1
        <5>2. CASE clock # MaxClock /\ left > 0
          BY <1>1, <2>1, <3>1, <4>2, <5>2
        <5>3. CASE clock # MaxClock /\ left = 0
          <6>1. timeouts[1] \in Ops
            BY <1>1, <3>3
          <6>2. Deadline[timeouts[1]] \in 0 .. MaxClock
            BY <6>1, Parts DEF OpRecords, Deadline
          <6>3. PICK n \in Nat : n = Deadline[timeouts[1]] - now
            BY <1>1, <4>2, <6>2
          <6>4. w \in Nat
            BY <4>1, <6>3, WaitRounds, ConstantsAssumption
          <6> QED BY <1>1, <2>1, <3>1, <4>2, <5>3, <6>4
        <5> QED BY <1>1, <4>2, <5>1, <5>2, <5>3
      <4> QED BY <2>1, <2>2, <3>3, <4>1, <4>2, <4>3
    <3> QED BY <3>2, <3>3
  <2> QED BY <2>1, <2>3, <2>4
<1> QED BY <1>2, <1>3

LEMMA NextNullInv ==
  ASSUME IInv, NullInv, [Next]_vars
  PROVE  NullInv'
<1>1. PortTypes /\ OpsTyped
  BY Parts
<1>2. ASSUME NEW o \in Ops, op[o].kind = "task" PROVE op'[o].kind = "task"
  <2>1. CASE \E x \in Ops : Start(x)
    <3>1. ASSUME NEW x \in Ops, Start(x)
          PROVE  op[x].kind = "none" /\ \A y \in Ops \ {x} : op'[y] = op[y]
      BY <1>1, <3>1 DEF Start, StartIo, StartPoll, StartTimer, StartTask, StartStopped, CanStart,
                        Describe, OpsTyped
    <3>2. PICK x \in Ops : op[x].kind = "none" /\ \A y \in Ops \ {x} : op'[y] = op[y]
      BY <2>1, <3>1
    <3> QED BY <1>2, <3>2
  <2>2. CASE \A x \in Ops : ~Start(x)
    <3>1. op' = op
      BY <2>2 DEF Next, RunOne, MakeSocket, Release, Callback, CancelTimer, CancelIo,
         CancelReleased, CallbackLate, RequestStop, Run, RunOneTimeout, RunOneTask, RunOneEmpty,
         RunOneWait, WaitTimedOut, WaitFailed, DequeueNull, DequeueOp, DequeueStale, FreeDeferred,
         Tick, KernelComplete, Halted, vars, appVars
    <3> QED BY <1>2, <3>1
  <2> QED BY <2>1, <2>2
<1>3. ASSUME queue' = queue PROVE NullInv'
  BY <1>2, <1>3 DEF NullInv
<1>4. ASSUME NEW x \in Ops, StartTask(x) PROVE NullInv'
  <2>1. op'[x].kind = "task"
    BY <1>1, <1>4 DEF StartTask, Describe, OpsTyped
  <2> QED BY <2>1 DEF NullInv
<1>5. ASSUME NEW x \in Ops, KernelComplete(x) PROVE NullInv'
  <2>1. PICK r \in {"value", "error", "aborted"} : queue' = Append(queue, OpPacket(x, r))
    BY <1>5 DEF KernelComplete
  <2>2. OpPacket(x, r) # NullPacket
    BY DEF OpPacket, NullPacket
  <2>3. /\ Len(queue') = Len(queue) + 1 /\ queue'[Len(queue) + 1] = OpPacket(x, r)
        /\ \A i \in 1 .. Len(queue) : queue'[i] = queue[i]
    BY <1>1, <2>1 DEF PortTypes
  <2>4. \A i \in 1 .. Len(queue') : queue'[i] = NullPacket =>
          i \in 1 .. Len(queue) /\ queue[i] = NullPacket
    BY <1>1, <2>2, <2>3 DEF PortTypes
  <2> QED BY <1>2, <2>4 DEF NullInv
<1>6. CASE DequeueNull \/ DequeueOp
  <2>1. queue # << >> /\ queue' = Tail(queue)
    BY <1>6 DEF DequeueNull, DequeueOp
  <2>2. \A i \in 1 .. Len(queue') : i + 1 \in 1 .. Len(queue) /\ queue'[i] = queue[i + 1]
    BY <1>1, <2>1 DEF PortTypes
  <2> QED BY <1>2, <2>2 DEF NullInv
<1>7. ASSUME NEW x \in Ops, Start(x), ~StartTask(x) PROVE queue' = queue
  BY <1>7 DEF Start, StartIo, StartPoll, StartTimer, StartStopped, portVars
<1>8. CASE \/ MakeSocket \/ (\E id \in Ids(sockets) : Release(id))
           \/ (\E x \in Ops : Callback(x)) \/ (\E t \in Tokens : RequestStop(t))
           \/ Run \/ RunOneTimeout \/ RunOneTask \/ RunOneEmpty \/ RunOneWait \/ WaitTimedOut
           \/ WaitFailed \/ DequeueStale \/ FreeDeferred \/ Tick \/ Halted \/ UNCHANGED vars
  <2>1. queue' = queue
    BY <1>8 DEF MakeSocket, Release, Callback, CancelTimer, CancelIo, CancelReleased, CallbackLate,
       RequestStop, Run, RunOneTimeout, RunOneTask, RunOneEmpty, RunOneWait, WaitTimedOut,
       WaitFailed, DequeueStale, FreeDeferred, Tick, Halted, vars, portVars
  <2> QED BY <1>3, <2>1
<1> QED BY <1>3, <1>4, <1>5, <1>6, <1>7, <1>8 DEF Next, RunOne

(* Which steps end run(), and that none of them leaves a task behind.      *)
LEMMA ReturnSteps ==
  ASSUME IInv, WInv, [Next]_vars, ~WaitMayFail, pc # "idle", pc' = "idle"
  PROVE  /\ RunOneEmpty \/ WaitTimedOut \/ DequeueNull
         /\ tasks = << >>
<1>1. RunOneEmpty \/ WaitTimedOut \/ DequeueNull
  <2>1. ASSUME NEW x \in Ops, Start(x) \/ Callback(x) PROVE FALSE
    <3>1. pc' = pc
      BY <2>1 DEF Start, StartIo, StartPoll, StartTimer, StartTask, StartStopped, Callback,
                  CancelTimer, CancelIo, CancelReleased, CallbackLate, loopVars
    <3> QED BY <3>1
  <2>2. CASE \/ MakeSocket \/ (\E id \in Ids(sockets) : Release(id))
             \/ (\E t \in Tokens : RequestStop(t)) \/ (\E x \in Ops : KernelComplete(x))
             \/ Tick \/ Halted \/ DequeueStale \/ UNCHANGED vars
    <3>1. pc' = pc
      BY <2>2 DEF MakeSocket, Release, RequestStop, KernelComplete, Tick, Halted, DequeueStale,
                  vars, loopVars
    <3> QED BY <3>1
  <2>3. CASE \/ Run \/ RunOneTimeout \/ RunOneTask \/ RunOneWait \/ FreeDeferred
             \/ DequeueOp \/ WaitFailed
    <3>1. pc' # "idle"
      BY <2>3 DEF Run, RunOneTimeout, RunOneTask, RunOneWait, FreeDeferred, DequeueOp,
                  WaitFailed, Idle, LoopTurn, Leave, loopVars
    <3> QED BY <3>1
  <2> QED BY <2>1, <2>2, <2>3 DEF Next, RunOne
<1>2. CASE RunOneEmpty
  BY <1>2 DEF RunOneEmpty, Idle
<1>3. CASE WaitTimedOut \/ DequeueNull
  BY <1>3 DEF WaitTimedOut, DequeueNull, Waiting, WInv
<1> QED BY <1>1, <1>2, <1>3

(* Unless GetQueuedCompletionStatus() fails, run() returns only when every *)
(* task has run, and with other operations left only for the reasons that  *)
(* RunReturns lists, whatever the deadlines, the length of a millisecond   *)
(* and the longest wait are.                                               *)
THEOREM RunReturnsCorrect == ~WaitMayFail => (Spec => RunReturns)
<1> SUFFICES ASSUME ~WaitMayFail PROVE Spec => RunReturns
  OBVIOUS
<1> DEFINE Reasons ==
             \/ \A o \in Ops : ~Pending(o)
             \/ /\ pc = "wait" /\ queue # << >> /\ queue[1] = NullPacket
                /\ \E o \in Ops : op[o].kind = "task"
             \/ /\ pc = "wait" /\ queue = << >> /\ timeouts # << >>
                /\ \/ Deadline[timeouts[1]] - clock < TicksPerMs
                   \/ /\ Deadline[timeouts[1]] - now > TicksPerMs * MaxWait
                      /\ clock - now >= TicksPerMs * MaxWait
<1>1. ASSUME IInv, WInv, NullInv, [Next]_vars, pc # "idle", pc' = "idle"
      PROVE  (\A o \in Ops : op[o].kind = "task" => Finished(o)) /\ Reasons
  <2>1. (RunOneEmpty \/ WaitTimedOut \/ DequeueNull) /\ tasks = << >>
    BY <1>1, ReturnSteps
  <2>2. ASSUME NEW o \in Ops, op[o].kind = "task" PROVE Finished(o)
    <3>1. ~OnList(tasks, o)
      BY <2>1 DEF OnList
    <3>2. ~Pending(o)
      BY <1>1, <2>2, <3>1, Parts, PhaseCases DEF OpInv
    <3> QED BY <2>2, <3>2 DEF Pending, Finished
  <2>3. CASE RunOneEmpty
    <3> SUFFICES ASSUME NEW o \in Ops PROVE ~Pending(o)
      BY <2>2
    <3>1. outstanding = 0 /\ ~OnList(timeouts, o) /\ ~OnList(tasks, o)
      BY <2>1, <2>3 DEF RunOneEmpty, OnList
    <3>2. ~InFlight(o)
      BY <1>1, <3>1, FlightIsExpected
    <3> QED BY <1>1, <3>1, <3>2, Parts DEF OpInv
  <2>4. CASE DequeueNull
    <3>1. pc = "wait" /\ queue # << >> /\ queue[1] = NullPacket
      BY <2>4 DEF DequeueNull, Waiting
    <3>2. 1 \in 1 .. Len(queue)
      BY <1>1, <3>1, Parts DEF PortTypes
    <3>3. \E o \in Ops : op[o].kind = "task"
      BY <1>1, <3>1, <3>2 DEF NullInv
    <3> QED BY <2>2, <3>1, <3>3
  <2>5. CASE WaitTimedOut
    <3>1. pc = "wait" /\ left = 0 /\ queue = << >> /\ ~TimerDue(clock)
      BY <1>1, <2>5 DEF WaitTimedOut, Waiting, Leave
    <3>2. timeouts # << >>
      BY <1>1, <3>1 DEF WInv
    <3>3. PICK d : d = Deadline[timeouts[1]]
      OBVIOUS
    <3>4. /\ d \in 0 .. MaxClock /\ clock \in 0 .. MaxClock /\ now \in 0 .. MaxClock
          /\ MaxClock \in Nat /\ TicksPerMs \in Nat \ {0} /\ MaxWait \in Nat \ {0}
      <4>1. timeouts[1] \in Ops
        BY <1>1, <3>2, Parts DEF TypeRest
      <4> QED BY <1>1, <3>3, <4>1, Parts, ConstantsAssumption DEF OpRecords, Deadline, TypeRest
    <3>5. ~(d <= clock) /\ now < d
      BY <1>1, <3>1, <3>2, <3>3 DEF TimerDue, WInv
    <3>6. PICK n \in Nat : n = d - now
      BY <3>4, <3>5
    <3>7. PICK w : w = TicksPerMs * Least(n \div TicksPerMs, MaxWait)
      OBVIOUS
    <3>8. clock - now >= w
      <4>1. clock # MaxClock
        BY <3>4, <3>5
      <4>2. clock = MaxClock \/ clock - now + left >= w
        BY <1>1, <3>1, <3>2, <3>3, <3>6, <3>7 DEF WInv
      <4>3. clock - now + left = clock - now
        BY <3>1, <3>4
      <4> QED BY <4>1, <4>2, <4>3
    <3>9. /\ w \in Nat
          /\ (n > TicksPerMs * MaxWait /\ w = TicksPerMs * MaxWait) \/ n - w < TicksPerMs
      BY <3>4, <3>7, WaitRounds
    <3>10. CASE n > TicksPerMs * MaxWait /\ w = TicksPerMs * MaxWait
      BY <2>2, <3>1, <3>2, <3>3, <3>6, <3>8, <3>10
    <3>11. CASE n - w < TicksPerMs
      <4>1. d - clock < TicksPerMs
        BY <3>4, <3>6, <3>8, <3>9, <3>11
      <4> QED BY <2>2, <3>1, <3>2, <3>3, <4>1
    <3> QED BY <3>9, <3>10, <3>11
  <2> QED BY <2>1, <2>2, <2>3, <2>4, <2>5
<1>2. IInv /\ WInv /\ NullInv /\ [Next]_vars =>
        [pc # "idle" /\ pc' = "idle" =>
           (\A o \in Ops : op[o].kind = "task" => Finished(o)) /\ Reasons]_vars
  BY <1>1
<1>3. Init => WInv /\ NullInv
  BY DEF Init, WInv, NullInv
<1>4. IInv /\ WInv /\ NullInv /\ [Next]_vars => IInv' /\ WInv' /\ NullInv'
  BY NextIInv, NextWInv, NextNullInv
<1> QED BY <1>2, <1>3, <1>4, InitIInv, PTL DEF Spec, RunReturns

==============================================================================
