-------------------------- MODULE UringContextProofs --------------------------
(***************************************************************************)
(* The safety properties of the io_uring context, for any number of        *)
(* operations, tokens and sockets and any depth of the submission queue.   *)
(*                                                                         *)
(* The counters are exact because no user data is in the ring twice; that  *)
(* holds because a callback that is still registered has no cancellation   *)
(* in the ring, which takes what the count, the callback and the fate of   *)
(* each operation are while its entries move through the ring: OpInv.      *)
(***************************************************************************)
EXTENDS UringContext, DataLemmas

CqEntries == {cq[i].entry : i \in 1 .. Len(cq)}
InRing(e) == OnList(sq, e) \/ e \in kernel \/ e \in CqEntries

(* The entries are in one place each, and the counters count them. *)
RingInv ==
  /\ NoDuplicates(sq)
  /\ \A i, j \in 1 .. Len(cq) : cq[i].entry = cq[j].entry => i = j
  /\ \A e \in Entries :
       /\ ~(OnList(sq, e) /\ e \in kernel)
       /\ ~(OnList(sq, e) /\ e \in CqEntries)
       /\ ~(e \in kernel /\ e \in CqEntries)
  /\ IsFiniteSet(kernel)
  /\ CountersMatchRing

(* What the kernel may answer. *)
CqInv ==
  \A i \in 1 .. Len(cq) :
    /\ cq[i].entry[1] = "op" =>
         /\ cq[i].res \in {"ok", "error", "canceled"}
         /\ cq[i].res = "canceled" => fate[cq[i].entry[2]] = "canceled"
    /\ Accepted(cq[i]) => cq[i].fd \in Handles

Due(e) == IF InRing(e) THEN 1 ELSE 0

OpInv(o) ==
  \* The count is the number of entries of the operation in the ring.
  /\ sender[o].count = Due(OpEntry(o)) + Due(CancelEntry(o))
  /\ op[o].kind \in {"none", "task"} => ~InRing(OpEntry(o)) /\ ~InRing(CancelEntry(o))
  /\ op[o].kind \notin {"none", "task"} => (sender[o].signals = << >> <=> sender[o].count # 0)
  /\ op[o].kind = "none" => sender[o].signals = << >> /\ ~sender[o].armed /\ fate[o] = "open"
  /\ op[o].kind = "unsubmitted" => ~InRing(OpEntry(o))
  /\ OnList(tasks, o) => op[o].kind = "task" /\ sender[o].signals = << >>
  /\ Len(sender[o].signals) <= 1
  \* A registered callback has not been submitted.
  /\ sender[o].armed => InRing(OpEntry(o)) /\ ~InRing(CancelEntry(o)) /\ fate[o] = "open"
  /\ o \in stopping => sender[o].armed /\ op[o].token \in stop
  \* Nothing is cancelled without a stop request on its token.
  /\ InRing(CancelEntry(o)) \/ fate[o] = "canceled" => op[o].token \in stop

(* The inductive invariant. *)
IInv ==
  /\ TypeOK
  /\ FreeListSound(sockets)
  /\ NoDuplicates(tasks)
  /\ RingInv
  /\ CqInv
  /\ pc = "wait" => stopping = {}
  /\ \A o \in Ops : OpInv(o)

OpRecords == [kind : AllKinds \cup {"none", "unsubmitted"}, id : Nat,
              fd : Handles \cup {0}, token : Tokens \cup {NoToken}]

(* What steps do to the operations as their receivers see them: one is     *)
(* started, one that was pending is given its only completion, or nothing. *)
StartsOne ==
  /\ stop' = stop
  /\ \E o \in Ops :
       /\ op[o].kind = "none" /\ op'[o].kind # "none"
       /\ sender'[o].signals = << >>
       /\ \A x \in Ops \ {o} : op'[x] = op[x] /\ sender'[x] = sender[x]

CompletesOne ==
  /\ op' = op /\ stop' = stop
  /\ \E o \in Ops, sig \in Signals :
       /\ Pending(o)
       /\ sender'[o].signals = <<sig>>
       /\ sig = "stopped" => op[o].token \in stop
       /\ \A x \in Ops \ {o} : sender'[x] = sender[x]

Internal ==
  /\ op' = op /\ stop' = stop
  /\ \A x \in Ops : sender'[x].signals = sender[x].signals

------------------------------------------------------------------------------
(* The ring *)

LEMMA EntryFacts ==
  /\ \A o \in Ops : OpEntry(o) \in Entries /\ CancelEntry(o) \in Entries
  /\ \A o, x \in Ops : /\ OpEntry(o) = OpEntry(x) <=> o = x
                       /\ CancelEntry(o) = CancelEntry(x) <=> o = x
                       /\ OpEntry(o) # CancelEntry(x)
  /\ \A o : OpEntry(o)[1] = "op" /\ OpEntry(o)[2] = o
  /\ \A o : CancelEntry(o)[1] = "cancel" /\ CancelEntry(o)[2] = o
  /\ \A e \in Entries : e[2] \in Ops /\ (\/ e[1] = "op" /\ e = OpEntry(e[2])
                                         \/ e[1] = "cancel" /\ e = CancelEntry(e[2]))
BY DEF Entries, OpEntry, CancelEntry

(* The n entries io_uring_submit() takes and those it leaves. *)
LEMMA SplitEffect ==
  ASSUME NEW S, NEW q \in Seq(S), NoDuplicates(q), NEW n \in 0 .. Len(q)
  PROVE  /\ First(q, n) \subseteq S
         /\ IsFiniteSet(First(q, n)) /\ Cardinality(First(q, n)) = n
         /\ Rest(q, n) \in Seq(S) /\ NoDuplicates(Rest(q, n))
         /\ Len(Rest(q, n)) = Len(q) - n
         /\ \A x : OnList(q, x) <=> x \in First(q, n) \/ OnList(Rest(q, n), x)
         /\ \A x : ~(x \in First(q, n) /\ OnList(Rest(q, n), x))
<1>1. Len(q) \in Nat /\ n \in Nat /\ n <= Len(q) /\ \A i \in 1 .. Len(q) : q[i] \in S
  OBVIOUS
<1>2. PICK r : r = Rest(q, n)
  OBVIOUS
<1>3. /\ r \in Seq(S) /\ Len(r) = Len(q) - n
      /\ \A i \in 1 .. Len(q) - n : r[i] = q[i + n]
  BY <1>1, <1>2 DEF Rest
<1>4. \A i \in 1 .. Len(q) - n : i + n \in 1 .. Len(q) /\ i + n > n
  BY <1>1
<1>5. NoDuplicates(r)
  BY <1>1, <1>3, <1>4 DEF NoDuplicates
<1>6. First(q, n) = {q[i] : i \in 1 .. n} /\ \A i \in 1 .. n : i \in 1 .. Len(q)
  BY <1>1 DEF First
<1>7. \A x : OnList(q, x) <=> x \in First(q, n) \/ OnList(r, x)
  <2> SUFFICES ASSUME NEW x PROVE OnList(q, x) <=> x \in First(q, n) \/ OnList(r, x)
    OBVIOUS
  <2>1. ASSUME NEW i \in 1 .. Len(q), q[i] = x PROVE x \in First(q, n) \/ OnList(r, x)
    <3>1. CASE i <= n
      BY <1>1, <1>6, <2>1, <3>1
    <3>2. CASE i > n
      <4>1. i - n \in 1 .. Len(q) - n /\ (i - n) + n = i
        BY <1>1, <3>2
      <4> QED BY <1>3, <2>1, <4>1 DEF OnList
    <3> QED BY <1>1, <3>1, <3>2
  <2>2. ASSUME x \in First(q, n) PROVE OnList(q, x)
    BY <1>6, <2>2 DEF OnList
  <2>3. ASSUME NEW i \in 1 .. Len(r), r[i] = x PROVE OnList(q, x)
    BY <1>3, <1>4, <2>3 DEF OnList
  <2> QED BY <2>1, <2>2, <2>3 DEF OnList
<1>8. ASSUME NEW x, x \in First(q, n), OnList(r, x) PROVE FALSE
  <2>1. PICK i \in 1 .. n : x = q[i]
    BY <1>6, <1>8
  <2>2. PICK j \in 1 .. Len(q) - n : x = r[j]
    BY <1>3, <1>8 DEF OnList
  <2>3. i = j + n
    BY <1>3, <1>4, <1>6, <2>1, <2>2 DEF NoDuplicates
  <2> QED BY <1>4, <2>3
<1>9. IsFiniteSet(First(q, n)) /\ Cardinality(First(q, n)) = n
  <2> DEFINE f == [i \in 1 .. n |-> q[i]]
  <2>1. f \in Bijection(1 .. n, First(q, n))
    BY <1>1, <1>6 DEF NoDuplicates, Bijection, Injection, Surjection, IsInjective
  <2>2. IsFiniteSet(1 .. n) /\ Cardinality(1 .. n) = n
    BY <1>1, FS_Interval
  <2>3. ExistsBijection(1 .. n, First(q, n))
    BY <2>1 DEF ExistsBijection
  <2> QED BY <2>2, <2>3, FS_Bijection
<1>10. First(q, n) \subseteq S
  BY <1>1, <1>6
<1> QED BY <1>2, <1>3, <1>5, <1>7, <1>8, <1>9, <1>10

(* What is left of a queue of which k entries were taken.                 *)
LEMMA RestEffect ==
  ASSUME NEW S, NEW q \in Seq(S), NEW k \in 0 .. Len(q)
  PROVE  /\ Rest(q, k) \in Seq(S) /\ Len(Rest(q, k)) = Len(q) - k
         /\ \A i \in 1 .. Len(q) - k : Rest(q, k)[i] = q[i + k]
BY DEF Rest

(* Taking k entries, queueing e and taking j more is the same as queueing  *)
(* e first and taking k + j.                                               *)
LEMMA EnqueueFirst ==
  ASSUME NEW S, NEW q \in Seq(S), NEW e \in S, NEW k \in 0 .. Len(q),
         NEW j \in 0 .. Len(q) - k + 1
  PROVE  /\ First(q, k) \cup First(Append(Rest(q, k), e), j) = First(Append(q, e), k + j)
         /\ Rest(Append(Rest(q, k), e), j) = Rest(Append(q, e), k + j)
<1>1. /\ Len(q) \in Nat /\ k \in Nat /\ j \in Nat /\ k <= Len(q) /\ k + j <= Len(q) + 1
      /\ \A i \in 1 .. Len(q) : q[i] \in S
  OBVIOUS
<1>2. PICK f : f = Append(q, e)
  OBVIOUS
<1>3. /\ f \in Seq(S) /\ Len(f) = Len(q) + 1 /\ f[Len(q) + 1] = e
      /\ \A i \in 1 .. Len(q) : f[i] = q[i]
  BY <1>1, <1>2
<1>4. PICK r : r = Rest(q, k)
  OBVIOUS
<1>5. /\ r \in Seq(S) /\ Len(r) = Len(q) - k
      /\ \A i \in 1 .. Len(q) - k : r[i] = q[i + k]
  BY <1>1, <1>4 DEF Rest
<1>6. PICK g : g = Append(r, e)
  OBVIOUS
<1>7. /\ g \in Seq(S) /\ Len(g) = Len(q) - k + 1
      /\ \A i \in 1 .. Len(q) - k + 1 : g[i] = f[i + k]
  <2>1. /\ g \in Seq(S) /\ Len(g) = Len(q) - k + 1 /\ g[Len(q) - k + 1] = e
        /\ \A i \in 1 .. Len(q) - k : g[i] = r[i]
    BY <1>1, <1>5, <1>6
  <2>2. ASSUME NEW i \in 1 .. Len(q) - k + 1 PROVE g[i] = f[i + k]
    <3>1. CASE i = Len(q) - k + 1
      BY <1>1, <1>3, <2>1, <3>1
    <3>2. CASE i \in 1 .. Len(q) - k
      BY <1>1, <1>3, <1>5, <2>1, <3>2
    <3> QED BY <1>1, <3>1, <3>2
  <2> QED BY <2>1, <2>2
<1>8. First(q, k) \cup First(g, j) = First(f, k + j)
  <2>1. ASSUME NEW i \in 1 .. k PROVE i \in 1 .. k + j /\ q[i] = f[i]
    <3>1. i \in 1 .. k + j /\ i \in 1 .. Len(q)
      BY <1>1
    <3> QED BY <1>3, <3>1
  <2>2. ASSUME NEW i \in 1 .. j PROVE i + k \in 1 .. k + j /\ g[i] = f[i + k]
    <3>1. i + k \in 1 .. k + j /\ i \in 1 .. Len(q) - k + 1
      BY <1>1
    <3> QED BY <1>7, <3>1
  <2>3. ASSUME NEW i \in 1 .. k + j
        PROVE  \/ i \in 1 .. k /\ f[i] = q[i]
               \/ i - k \in 1 .. j /\ f[i] = g[i - k]
    <3>1. CASE i <= k
      <4>1. i \in 1 .. k /\ i \in 1 .. Len(q)
        BY <1>1, <3>1
      <4> QED BY <1>3, <4>1
    <3>2. CASE i > k
      <4>1. i - k \in 1 .. j /\ i - k \in 1 .. Len(q) - k + 1 /\ (i - k) + k = i
        BY <1>1, <3>2
      <4> QED BY <1>7, <4>1
    <3> QED BY <1>1, <3>1, <3>2
  <2>4. \A x \in First(q, k) : x \in First(f, k + j)
    BY <2>1 DEF First
  <2>5. \A x \in First(g, j) : x \in First(f, k + j)
    BY <2>2 DEF First
  <2>6. \A x \in First(f, k + j) : x \in First(q, k) \/ x \in First(g, j)
    BY <2>3 DEF First
  <2> QED BY <2>4, <2>5, <2>6
<1>9. Rest(g, j) = Rest(f, k + j)
  <2>1. /\ Rest(g, j) \in Seq(S) /\ Len(Rest(g, j)) = Len(q) - k + 1 - j
        /\ \A i \in 1 .. Len(q) - k + 1 - j : Rest(g, j)[i] = g[i + j]
    <3>1. g \in Seq(S) /\ j \in 0 .. Len(g) /\ Len(g) = Len(q) - k + 1
      BY <1>1, <1>7
    <3>2. /\ Rest(g, j) \in Seq(S) /\ Len(Rest(g, j)) = Len(g) - j
          /\ \A i \in 1 .. Len(g) - j : Rest(g, j)[i] = g[i + j]
      BY <3>1, RestEffect
    <3> QED BY <3>1, <3>2
  <2>2. /\ Rest(f, k + j) \in Seq(S) /\ Len(Rest(f, k + j)) = Len(q) + 1 - (k + j)
        /\ \A i \in 1 .. Len(q) + 1 - (k + j) : Rest(f, k + j)[i] = f[i + (k + j)]
    <3>1. PICK m : m = k + j
      OBVIOUS
    <3>2. m \in 0 .. Len(f) /\ Len(f) = Len(q) + 1
      BY <1>1, <1>3, <3>1
    <3>3. /\ Rest(f, m) \in Seq(S) /\ Len(Rest(f, m)) = Len(f) - m
          /\ \A i \in 1 .. Len(f) - m : Rest(f, m)[i] = f[i + m]
      BY <1>3, <3>2, RestEffect
    <3> QED BY <3>1, <3>2, <3>3
  <2>3. Len(q) - k + 1 - j = Len(q) + 1 - (k + j)
    BY <1>1
  <2>4. ASSUME NEW i \in 1 .. Len(q) - k + 1 - j PROVE g[i + j] = f[i + (k + j)]
    <3>1. i + j \in 1 .. Len(q) - k + 1 /\ (i + j) + k = i + (k + j)
      BY <1>1
    <3> QED BY <1>7, <3>1
  <2>5. ASSUME NEW s \in Seq(S), NEW t \in Seq(S), Len(s) = Len(t),
               \A i \in 1 .. Len(s) : s[i] = t[i]
        PROVE  s = t
    BY <2>5
  <2> QED BY <2>1, <2>2, <2>3, <2>4, <2>5
<1> QED BY <1>2, <1>4, <1>6, <1>8, <1>9

RingTypes ==
  /\ submitting \in Nat /\ outstanding \in Nat
  /\ sq \in Seq(Entries) /\ kernel \subseteq Entries

(* io_uring_submit() takes n entries of the queue q, which holds the old   *)
(* entries and those queued before the call.                               *)
LEMMA TakeEffect ==
  ASSUME TypeOK, RingInv, NEW q \in Seq(Entries), NoDuplicates(q), NEW n \in 0 .. Len(q),
         \A x : OnList(q, x) => x \notin kernel /\ x \notin CqEntries,
         \A x : OnList(sq, x) => OnList(q, x),
         kernel' = kernel \cup First(q, n), sq' = Rest(q, n), cq' = cq,
         submitting' = Len(q) - n, outstanding' = Len(q) + Cardinality(kernel) + Len(cq)
  PROVE  /\ RingInv' /\ RingTypes'
         /\ \A x : InRing(x)' <=> InRing(x) \/ OnList(q, x)
         /\ \A x : OnList(sq, x)' => OnList(q, x)
         /\ \A x : x \in kernel' => x \in kernel \/ OnList(q, x)
<1>1. /\ First(q, n) \subseteq Entries
      /\ IsFiniteSet(First(q, n)) /\ Cardinality(First(q, n)) = n
      /\ Rest(q, n) \in Seq(Entries) /\ NoDuplicates(Rest(q, n))
      /\ Len(Rest(q, n)) = Len(q) - n
      /\ \A x : OnList(q, x) <=> x \in First(q, n) \/ OnList(Rest(q, n), x)
      /\ \A x : ~(x \in First(q, n) /\ OnList(Rest(q, n), x))
  BY SplitEffect
<1>2. Len(q) \in Nat /\ n \in Nat /\ n <= Len(q) /\ Len(cq) \in Nat
  BY DEF TypeOK
<1>3. IsFiniteSet(kernel) /\ Cardinality(kernel) \in Nat
  BY FS_CardinalityType DEF RingInv
<1>4. IsFiniteSet(kernel') /\ Cardinality(kernel') = Cardinality(kernel) + n
  <2>1. kernel \cap First(q, n) = {}
    BY <1>1
  <2>2. /\ IsFiniteSet(kernel \cup First(q, n))
        /\ Cardinality(kernel \cup First(q, n)) = Cardinality(kernel) + n - Cardinality({})
    BY <1>1, <1>3, <2>1, FS_Union
  <2> QED BY <1>2, <1>3, <2>2, FS_EmptySet
<1>5. CountersMatchRing'
  BY <1>1, <1>2, <1>3, <1>4 DEF CountersMatchRing
<1>6. CqEntries' = CqEntries
  BY DEF CqEntries
<1>7. \A e \in Entries : /\ ~(OnList(sq, e)' /\ e \in kernel')
                         /\ ~(OnList(sq, e)' /\ e \in CqEntries)
                         /\ ~(e \in kernel' /\ e \in CqEntries)
  <2> SUFFICES ASSUME NEW e \in Entries
               PROVE  /\ ~(OnList(Rest(q, n), e) /\ (e \in kernel \/ e \in First(q, n)))
                      /\ ~(OnList(Rest(q, n), e) /\ e \in CqEntries)
                      /\ ~((e \in kernel \/ e \in First(q, n)) /\ e \in CqEntries)
    BY DEF OnList
  <2> QED BY <1>1 DEF RingInv
<1>8. \A x : OnList(sq, x)' <=> OnList(Rest(q, n), x)
  BY DEF OnList
<1>9. RingInv'
  <2>1. NoDuplicates(sq)'
    BY <1>1 DEF NoDuplicates
  <2>2. \A i, j \in 1 .. Len(cq') : cq'[i].entry = cq'[j].entry => i = j
    BY DEF RingInv
  <2> QED BY <1>4, <1>5, <1>6, <1>7, <2>1, <2>2 DEF RingInv
<1>10. RingTypes'
  BY <1>1, <1>2, <1>3 DEF RingTypes, TypeOK
<1>11. \A x : InRing(x)' <=> InRing(x) \/ OnList(q, x)
  <2> SUFFICES ASSUME NEW x
               PROVE  OnList(sq, x)' \/ x \in kernel' \/ x \in CqEntries'
                        <=> InRing(x) \/ OnList(q, x)
    BY DEF InRing
  <2> QED BY <1>1, <1>6, <1>8 DEF InRing
<1> QED BY <1>1, <1>8, <1>9, <1>10, <1>11 DEF InRing

(* get_sqe(e), with or without the submit() that follows it, for an entry  *)
(* that is not in the ring.                                                *)
LEMMA QueueEffect ==
  ASSUME TypeOK, RingInv, NEW e \in Entries, ~InRing(e), cq' = cq,
         GetSqe(e) \/ GetSqeAndSubmit(e)
  PROVE  /\ RingInv' /\ RingTypes'
         /\ \A x : InRing(x)' <=> InRing(x) \/ x = e
         /\ \A x : OnList(sq, x)' => OnList(sq, x) \/ x = e
         /\ \A x : x \in kernel' => x \in kernel \/ OnList(sq, x) \/ x = e
         /\ GetSqeAndSubmit(e) /\ ~PartialSubmit => sq' = << >>
<1>1. Len(sq) \in Nat /\ sq \in Seq(Entries) /\ NoDuplicates(sq) /\ ~OnList(sq, e)
  BY DEF TypeOK, RingInv, InRing
<1>2. PICK q : q = Append(sq, e)
  OBVIOUS
<1>3. /\ q \in Seq(Entries) /\ NoDuplicates(q) /\ Len(q) = Len(sq) + 1
      /\ \A x : OnList(q, x) <=> OnList(sq, x) \/ x = e
  BY <1>1, <1>2, AppendEffect
<1>4. \A n \in Nat : Taken(n) \subseteq 0 .. n /\ (~PartialSubmit => Taken(n) = {n})
  BY DEF Taken
<1>5. MakeRoom \subseteq 0 .. Len(sq)
  BY <1>1, <1>4 DEF MakeRoom
<1>6. ASSUME NEW k \in MakeRoom, NEW j \in 0 .. Len(sq) - k + 1, Enqueue(e, k, j)
      PROVE  /\ RingInv' /\ RingTypes'
             /\ \A x : InRing(x)' <=> InRing(x) \/ x = e
             /\ \A x : OnList(sq, x)' => OnList(sq, x) \/ x = e
             /\ \A x : x \in kernel' => x \in kernel \/ OnList(sq, x) \/ x = e
             /\ j = Len(sq) - k + 1 => sq' = << >>
  <2>1. k \in 0 .. Len(sq) /\ j \in Nat /\ k \in Nat
    BY <1>1, <1>5
  <2>2. /\ First(sq, k) \cup First(Append(Rest(sq, k), e), j) = First(q, k + j)
        /\ Rest(Append(Rest(sq, k), e), j) = Rest(q, k + j)
    BY <1>1, <1>2, <1>6, <2>1, EnqueueFirst
  <2>3. kernel' = kernel \cup First(q, k + j) /\ sq' = Rest(q, k + j)
    BY <1>6, <2>2 DEF Enqueue
  <2>4. k + j \in 0 .. Len(q)
    BY <1>1, <1>3, <1>6, <2>1
  <2>5. /\ submitting' = Len(q) - (k + j)
        /\ outstanding' = Len(q) + Cardinality(kernel) + Len(cq)
    <3>1. submitting' = submitting + 1 - (k + j) /\ outstanding' = outstanding + 1
      BY <1>6 DEF Enqueue
    <3>2. submitting = Len(sq) /\ outstanding = Len(sq) + Cardinality(kernel) + Len(cq)
      BY DEF RingInv, CountersMatchRing
    <3>3. Cardinality(kernel) \in Nat /\ Len(cq) \in Nat
      BY FS_CardinalityType DEF RingInv, TypeOK
    <3> QED BY <1>1, <1>3, <2>1, <3>1, <3>2, <3>3
  <2>6. \A x : OnList(q, x) => x \notin kernel /\ x \notin CqEntries
    <3>1. ASSUME NEW x, OnList(sq, x) PROVE x \notin kernel /\ x \notin CqEntries
      <4>1. x \in Entries
        BY <1>1, <3>1 DEF OnList
      <4> QED BY <3>1, <4>1 DEF RingInv
    <3> QED BY <1>3, <3>1 DEF InRing
  <2>7. \A x : OnList(sq, x) => OnList(q, x)
    BY <1>3
  <2>8. /\ RingInv' /\ RingTypes'
        /\ \A x : InRing(x)' <=> InRing(x) \/ OnList(q, x)
        /\ \A x : OnList(sq, x)' => OnList(q, x)
        /\ \A x : x \in kernel' => x \in kernel \/ OnList(q, x)
    BY <1>3, <2>3, <2>4, <2>5, <2>6, <2>7, TakeEffect
  <2>9. j = Len(sq) - k + 1 => sq' = << >>
    <3>1. SUFFICES ASSUME j = Len(sq) - k + 1 PROVE sq' = << >>
      OBVIOUS
    <3>2. k + j = Len(q)
      BY <1>1, <1>3, <2>1, <3>1
    <3>3. Rest(q, Len(q)) = << >>
      BY <1>3 DEF Rest
    <3> QED BY <2>3, <3>2, <3>3
  <2> QED BY <1>3, <2>8, <2>9 DEF InRing
<1>7. CASE GetSqe(e)
  <2>1. PICK k \in MakeRoom : Enqueue(e, k, 0)
    BY <1>7 DEF GetSqe
  <2>2. 0 \in 0 .. Len(sq) - k + 1
    BY <1>1, <1>5
  <2>3. ~(GetSqeAndSubmit(e) /\ ~PartialSubmit) \/ sq' = << >>
    <3>1. SUFFICES ASSUME GetSqeAndSubmit(e), ~PartialSubmit PROVE sq' = << >>
      OBVIOUS
    <3>2. PICK m \in MakeRoom : \E j \in Taken(Len(sq) - m + 1) : Enqueue(e, m, j)
      BY <3>1 DEF GetSqeAndSubmit
    <3> PICK j \in Taken(Len(sq) - m + 1) : Enqueue(e, m, j)
      BY <3>2
    <3>3. j = Len(sq) - m + 1 /\ j \in 0 .. Len(sq) - m + 1
      <4>1. Len(sq) - m + 1 \in Nat
        BY <1>1, <1>5
      <4> QED BY <1>4, <3>1, <3>2, <4>1
    <3> QED BY <1>6, <3>2, <3>3
  <2> QED BY <1>6, <2>1, <2>2, <2>3
<1>8. CASE GetSqeAndSubmit(e)
  <2>1. PICK k \in MakeRoom : \E j \in Taken(Len(sq) - k + 1) : Enqueue(e, k, j)
    BY <1>8 DEF GetSqeAndSubmit
  <2> PICK j \in Taken(Len(sq) - k + 1) : Enqueue(e, k, j)
    BY <2>1
  <2>2. /\ j \in 0 .. Len(sq) - k + 1
        /\ ~PartialSubmit => j = Len(sq) - k + 1
    <3>1. Len(sq) - k + 1 \in Nat
      BY <1>1, <1>5
    <3> QED BY <1>4, <2>1, <3>1
  <2> QED BY <1>6, <2>1, <2>2
<1> QED BY <1>7, <1>8

Completions == [entry : Entries, res : Results, fd : Handles \cup {0}]

(* The kernel moves an entry it holds to the completion queue. *)
LEMMA PostEffect ==
  ASSUME TypeOK, RingInv, NEW e \in kernel, NEW r \in Results, NEW fd \in Handles \cup {0},
         kernel' = kernel \ {e}, Post(e, r, fd), UNCHANGED <<sq, submitting, outstanding>>
  PROVE  /\ RingInv' /\ RingTypes' /\ cq' \in Seq(Completions)
         /\ \A x : InRing(x)' <=> InRing(x)
         /\ Len(cq') = Len(cq) + 1
         /\ cq'[Len(cq) + 1] = [entry |-> e, res |-> r, fd |-> fd]
         /\ \A i \in 1 .. Len(cq) : cq'[i] = cq[i]
<1>1. cq \in Seq(Completions) /\ Len(cq) \in Nat /\ e \in Entries
  BY DEF TypeOK, Completions
<1>2. PICK c : c = [entry |-> e, res |-> r, fd |-> fd]
  OBVIOUS
<1>3. c \in Completions /\ c.entry = e
  BY <1>1, <1>2 DEF Completions
<1>4. /\ cq' \in Seq(Completions) /\ Len(cq') = Len(cq) + 1 /\ cq'[Len(cq) + 1] = c
      /\ \A i \in 1 .. Len(cq) : cq'[i] = cq[i]
  BY <1>1, <1>2, <1>3 DEF Post
<1>5. \A i \in 1 .. Len(cq) + 1 : i \in 1 .. Len(cq) \/ i = Len(cq) + 1
  BY <1>1
<1>6. CqEntries' = CqEntries \cup {e}
  <2>1. \A x \in CqEntries' : x \in CqEntries \/ x = e
    BY <1>3, <1>4, <1>5 DEF CqEntries
  <2>2. \A x \in CqEntries : x \in CqEntries'
    <3> SUFFICES ASSUME NEW i \in 1 .. Len(cq) PROVE cq[i].entry \in CqEntries'
      BY DEF CqEntries
    <3>1. i \in 1 .. Len(cq') /\ cq'[i].entry = cq[i].entry
      BY <1>1, <1>4
    <3> QED BY <3>1 DEF CqEntries
  <2>3. e \in CqEntries'
    <3>1. Len(cq) + 1 \in 1 .. Len(cq') /\ cq'[Len(cq) + 1].entry = e
      BY <1>1, <1>3, <1>4
    <3> QED BY <3>1 DEF CqEntries
  <2> QED BY <2>1, <2>2, <2>3
<1>7. e \notin CqEntries /\ ~OnList(sq, e)
  BY <1>1 DEF RingInv
<1>8. IsFiniteSet(kernel') /\ Cardinality(kernel') = Cardinality(kernel) - 1
  BY FS_RemoveElement DEF RingInv
<1>9. CountersMatchRing'
  <2>1. Cardinality(kernel) \in Nat /\ Len(sq) \in Nat
    BY FS_CardinalityType DEF RingInv, TypeOK
  <2>2. submitting = Len(sq) /\ outstanding = Len(sq) + Cardinality(kernel) + Len(cq)
    BY DEF RingInv, CountersMatchRing
  <2>3. outstanding' = Len(sq) + Cardinality(kernel') + Len(cq')
    <3>1. PICK n \in Nat : n = Cardinality(kernel)
      BY <2>1
    <3>2. Cardinality(kernel') = n - 1 /\ outstanding = Len(sq) + n + Len(cq)
      BY <1>8, <2>2, <3>1
    <3>3. Len(sq) + n + Len(cq) = Len(sq) + (n - 1) + (Len(cq) + 1)
      BY <1>1, <2>1
    <3> QED BY <1>4, <3>2, <3>3
  <2> QED BY <2>2, <2>3 DEF CountersMatchRing
<1>10. \A i, j \in 1 .. Len(cq') : cq'[i].entry = cq'[j].entry => i = j
  <2> SUFFICES ASSUME NEW i \in 1 .. Len(cq) + 1, NEW j \in 1 .. Len(cq) + 1,
                      cq'[i].entry = cq'[j].entry
               PROVE  i = j
    BY <1>4
  <2>1. \A k \in 1 .. Len(cq) : cq'[k].entry # e
    BY <1>4, <1>7 DEF CqEntries
  <2>2. CASE i \in 1 .. Len(cq) /\ j \in 1 .. Len(cq)
    BY <1>4, <2>2 DEF RingInv
  <2> QED BY <1>3, <1>4, <1>5, <2>1, <2>2
<1>11. RingInv'
  <2>1. NoDuplicates(sq)' /\ \A x : OnList(sq, x)' <=> OnList(sq, x)
    BY DEF RingInv, OnList, NoDuplicates
  <2>2. \A x \in Entries : /\ ~(OnList(sq, x)' /\ x \in kernel')
                           /\ ~(OnList(sq, x)' /\ x \in CqEntries')
                           /\ ~(x \in kernel' /\ x \in CqEntries')
    BY <1>6, <1>7, <2>1 DEF RingInv
  <2> QED BY <1>8, <1>9, <1>10, <2>1, <2>2 DEF RingInv
<1>12. \A x : InRing(x)' <=> InRing(x)
  <2> SUFFICES ASSUME NEW x
               PROVE  OnList(sq, x)' \/ x \in kernel' \/ x \in CqEntries' <=> InRing(x)
    BY DEF InRing
  <2>1. OnList(sq, x)' <=> OnList(sq, x)
    BY DEF OnList
  <2> QED BY <1>6, <2>1 DEF InRing
<1>13. RingTypes'
  BY DEF RingTypes, TypeOK
<1> QED BY <1>2, <1>4, <1>11, <1>12, <1>13

(* wait() takes the first completion. *)
LEMMA ReapEffect ==
  ASSUME TypeOK, RingInv, cq # << >>, cq' = Tail(cq), outstanding' = outstanding - 1,
         UNCHANGED <<sq, kernel, submitting>>
  PROVE  /\ RingInv' /\ RingTypes' /\ cq' \in Seq(Completions)
         /\ cq[1] \in Completions /\ InRing(cq[1].entry)
         /\ \A x : InRing(x)' <=> InRing(x) /\ x # cq[1].entry
         /\ Len(cq) \in Nat /\ Len(cq') = Len(cq) - 1
         /\ \A i \in 1 .. Len(cq') : i + 1 \in 1 .. Len(cq) /\ cq'[i] = cq[i + 1]
<1>1. cq \in Seq(Completions) /\ Len(cq) \in Nat /\ 1 \in 1 .. Len(cq)
  BY DEF TypeOK, Completions
<1>2. /\ cq' \in Seq(Completions) /\ Len(cq') = Len(cq) - 1
      /\ \A i \in 1 .. Len(cq) - 1 : i + 1 \in 1 .. Len(cq) /\ cq'[i] = cq[i + 1]
  BY <1>1
<1>3. /\ cq[1] \in Completions /\ cq[1].entry \in Entries /\ cq[1].entry \in CqEntries
  <2>1. cq[1] \in Completions
    BY <1>1
  <2> QED BY <1>1, <2>1 DEF Completions, CqEntries
<1>4. \A i \in 1 .. Len(cq) : i = 1 \/ (i - 1 \in 1 .. Len(cq) - 1 /\ (i - 1) + 1 = i)
  BY <1>1
<1>5. CqEntries' = CqEntries \ {cq[1].entry}
  <2>1. ASSUME NEW i \in 1 .. Len(cq')
        PROVE  cq'[i].entry \in CqEntries /\ cq'[i].entry # cq[1].entry
    <3>1. i + 1 \in 1 .. Len(cq) /\ cq'[i] = cq[i + 1] /\ i + 1 # 1
      BY <1>1, <1>2
    <3> QED BY <1>1, <3>1 DEF CqEntries, RingInv
  <2>2. ASSUME NEW i \in 1 .. Len(cq), cq[i].entry # cq[1].entry
        PROVE  cq[i].entry \in CqEntries'
    <3>1. i - 1 \in 1 .. Len(cq') /\ cq'[i - 1] = cq[i]
      BY <1>2, <1>4, <2>2
    <3> QED BY <3>1 DEF CqEntries
  <2>3. \A x \in CqEntries' : x \in CqEntries /\ x # cq[1].entry
    BY <2>1 DEF CqEntries
  <2>4. \A x \in CqEntries : x # cq[1].entry => x \in CqEntries'
    <3> SUFFICES ASSUME NEW i \in 1 .. Len(cq), cq[i].entry # cq[1].entry
                 PROVE  cq[i].entry \in CqEntries'
      BY DEF CqEntries
    <3> QED BY <2>2
  <2> QED BY <2>3, <2>4
<1>6. CountersMatchRing'
  <2>1. Cardinality(kernel) \in Nat /\ Len(sq) \in Nat
    BY FS_CardinalityType DEF RingInv, TypeOK
  <2> QED BY <1>1, <1>2, <2>1 DEF RingInv, CountersMatchRing
<1>7. \A i, j \in 1 .. Len(cq') : cq'[i].entry = cq'[j].entry => i = j
  <2> SUFFICES ASSUME NEW i \in 1 .. Len(cq) - 1, NEW j \in 1 .. Len(cq) - 1,
                      cq'[i].entry = cq'[j].entry
               PROVE  i = j
    BY <1>2
  <2>1. i + 1 = j + 1
    BY <1>2 DEF RingInv
  <2> QED BY <1>1, <2>1
<1>8. \A x : OnList(sq, x)' <=> OnList(sq, x)
  BY DEF OnList
<1>9. RingInv'
  <2>1. NoDuplicates(sq)'
    BY DEF RingInv, NoDuplicates
  <2>2. \A x \in Entries : /\ ~(OnList(sq, x)' /\ x \in kernel')
                           /\ ~(OnList(sq, x)' /\ x \in CqEntries')
                           /\ ~(x \in kernel' /\ x \in CqEntries')
    BY <1>5, <1>8 DEF RingInv
  <2>3. IsFiniteSet(kernel')
    BY DEF RingInv
  <2> QED BY <1>6, <1>7, <2>1, <2>2, <2>3 DEF RingInv
<1>10. \A x : InRing(x)' <=> InRing(x) /\ x # cq[1].entry
  <2> SUFFICES ASSUME NEW x
               PROVE  OnList(sq, x)' \/ x \in kernel' \/ x \in CqEntries'
                        <=> InRing(x) /\ x # cq[1].entry
    BY DEF InRing
  <2>1. ~OnList(sq, cq[1].entry) /\ cq[1].entry \notin kernel
    BY <1>3 DEF RingInv
  <2> QED BY <1>5, <1>8, <2>1 DEF InRing
<1>11. RingTypes'
  <2>1. outstanding - 1 \in Nat
    <3>1. Cardinality(kernel) \in Nat /\ Len(sq) \in Nat
      BY FS_CardinalityType DEF RingInv, TypeOK
    <3> QED BY <1>1, <3>1 DEF RingInv, CountersMatchRing
  <2> QED BY <2>1 DEF RingTypes, TypeOK
<1>12. InRing(cq[1].entry)
  BY <1>3 DEF InRing
<1> QED BY <1>2, <1>3, <1>9, <1>10, <1>11, <1>12, <1>1

(* The descriptor socket(2) and accept(2) return. *)
LEMMA NewFdFree ==
  ASSUME FreeFds # {}
  PROVE  NewFd \in FreeFds /\ NewFd \in Handles
<1>1. FreeFds \in SUBSET Nat
  BY ConstantsAssumption DEF FreeFds
<1>2. \E fd \in FreeFds : \A g \in FreeFds : fd <= g
  BY <1>1, LeastElement
<1> QED BY <1>2 DEF NewFd, FreeFds

------------------------------------------------------------------------------
(* The operations *)

(* What the calls on a sender_state do to it. *)
LEMMA SenderEffects ==
  ASSUME NEW s \in SenderStates
  PROVE  /\ Started(s) \in SenderStates /\ Started(s).count = s.count + 1
         /\ Started(s).armed /\ Started(s).signals = s.signals
         /\ CallbackEntered(s) \in SenderStates /\ CallbackEntered(s).count = s.count + 1
         /\ ~CallbackEntered(s).armed /\ CallbackEntered(s).signals = s.signals
         /\ TaskComplete(s) \in SenderStates /\ TaskComplete(s).count = s.count
         /\ TaskComplete(s).armed = s.armed
         /\ TaskComplete(s).signals = Append(s.signals, "value")
<1>1. s.count \in Int /\ s.armed \in BOOLEAN /\ s.signals \in Seq(Signals)
  BY DEF SenderStates
<1>2. Append(s.signals, "value") \in Seq(Signals)
  BY <1>1 DEF Signals
<1> QED BY <1>1, <1>2 DEF Started, CallbackEntered, TaskComplete, SenderStates

(* The signal of a work function: set_stopped comes from a cancellation or *)
(* from an operation that was cancelled.                                   *)
SignalOf(e, r) ==
  IF e[1] = "cancel" \/ r = "canceled" THEN "stopped" ELSE IF r = "ok" THEN "value" ELSE "error"

LEMMA WorkEffect ==
  ASSUME NEW s \in SenderStates, NEW e \in Entries, NEW r \in Results,
         e[1] = "op" => r \in {"ok", "error", "canceled"}
  PROVE  /\ Work(s, e, r) \in SenderStates
         /\ Work(s, e, r).count = s.count - 1
         /\ Work(s, e, r).armed => s.armed
         /\ s.count # 1 => Work(s, e, r).signals = s.signals
         /\ s.count = 1 => Work(s, e, r).signals = Append(s.signals, SignalOf(e, r))
         /\ s.count = 1 /\ Work(s, e, r).armed => SignalOf(e, r) = "stopped"
         /\ SignalOf(e, r) \in Signals
<1>1. s.count \in Int /\ s.armed \in BOOLEAN /\ s.signals \in Seq(Signals)
  BY DEF SenderStates
<1>2. s.count - 1 = 0 <=> s.count = 1
  BY <1>1
<1>3. ASSUME NEW sig \in Signals
      PROVE  /\ Finish(s, sig) \in SenderStates /\ Finish(s, sig).count = s.count - 1
             /\ Finish(s, sig).armed => s.armed /\ s.count # 1
             /\ Finish(s, sig).signals = IF s.count = 1 THEN Append(s.signals, sig) ELSE s.signals
  <2>1. Append(s.signals, sig) \in Seq(Signals)
    BY <1>1
  <2> QED BY <1>1, <1>2, <2>1 DEF Finish, SenderStates
<1>4. /\ Cancel(s) \in SenderStates /\ Cancel(s).count = s.count - 1
      /\ Cancel(s).armed => s.armed
      /\ Cancel(s).signals = IF s.count = 1 THEN Append(s.signals, "stopped") ELSE s.signals
  <2>1. Append(s.signals, "stopped") \in Seq(Signals)
    BY <1>1 DEF Signals
  <2> QED BY <1>1, <1>2, <2>1 DEF Cancel, SenderStates
<1>5. {"value", "error", "stopped"} = Signals
  BY DEF Signals
<1>6. CASE e[1] = "cancel"
  <2>1. Work(s, e, r) = Cancel(s) /\ SignalOf(e, r) = "stopped"
    BY <1>6 DEF Work, CallbackComplete, SignalOf
  <2> QED BY <1>4, <1>5, <2>1
<1>7. CASE e[1] = "op" /\ r = "canceled"
  <2>1. Work(s, e, r) = Cancel(s) /\ SignalOf(e, r) = "stopped"
    BY <1>7 DEF Work, SignalOf
  <2> QED BY <1>4, <1>5, <2>1
<1>8. CASE e[1] = "op" /\ r = "ok"
  <2>1. Work(s, e, r) = Finish(s, "value") /\ SignalOf(e, r) = "value"
    BY <1>8 DEF Work, Complete, SignalOf
  <2> QED BY <1>3, <1>5, <2>1
<1>9. CASE e[1] = "op" /\ r = "error"
  <2>1. Work(s, e, r) = Finish(s, "error") /\ SignalOf(e, r) = "error"
    BY <1>9 DEF Work, Error, SignalOf
  <2> QED BY <1>3, <1>5, <2>1
<1> QED BY <1>6, <1>7, <1>8, <1>9, EntryFacts

(* A step that concerns one operation. *)
LEMMA OneOperation ==
  ASSUME NEW o \in Ops,
         \A x \in Ops : OpInv(x),
         stop' = stop,
         \A x \in Ops \ {o} :
           /\ op'[x] = op[x] /\ sender'[x] = sender[x] /\ fate'[x] = fate[x]
           /\ InRing(OpEntry(x))' <=> InRing(OpEntry(x))
           /\ InRing(CancelEntry(x))' <=> InRing(CancelEntry(x))
           /\ OnList(tasks, x)' => OnList(tasks, x)
           /\ x \in stopping' => x \in stopping,
         OpInv(o)'
  PROVE  \A x \in Ops : OpInv(x)'
<1> SUFFICES ASSUME NEW x \in Ops \ {o} PROVE OpInv(x)'
  OBVIOUS
<1>1. OpInv(x)
  OBVIOUS
<1>2. Due(OpEntry(x))' = Due(OpEntry(x)) /\ Due(CancelEntry(x))' = Due(CancelEntry(x))
  BY DEF Due
<1> QED BY <1>1, <1>2 DEF OpInv

LEMMA CqKeeps ==
  ASSUME TypeOK, CqInv, cq' = cq,
         \A x \in Ops : OpEntry(x) \in CqEntries =>
                          op'[x].kind = op[x].kind /\ fate'[x] = fate[x]
  PROVE  CqInv'
<1> SUFFICES ASSUME NEW i \in 1 .. Len(cq)
             PROVE  /\ cq[i].entry[1] = "op" =>
                         /\ cq[i].res \in {"ok", "error", "canceled"}
                         /\ cq[i].res = "canceled" => fate'[cq[i].entry[2]] = "canceled"
                    /\ Accepted(cq[i])' => cq[i].fd \in Handles
  BY DEF CqInv
<1>1. cq[i].entry \in Entries /\ cq[i].entry \in CqEntries
  <2>1. cq \in Seq(Completions)
    BY DEF TypeOK, Completions
  <2>2. cq[i] \in Completions
    BY <2>1
  <2> QED BY <2>2 DEF Completions, CqEntries
<1>2. cq[i].entry[1] = "op" =>
        LET x == cq[i].entry[2]
        IN  op'[x].kind = op[x].kind /\ fate'[x] = fate[x]
  BY <1>1, EntryFacts
<1>3. Accepted(cq[i])' => Accepted(cq[i])
  BY <1>2 DEF Accepted
<1> QED BY <1>2, <1>3 DEF CqInv

(* Steps that leave the ring alone. *)
LEMMA RingFrame ==
  ASSUME TypeOK, RingInv, UNCHANGED <<submitting, outstanding, sq, kernel, cq>>
  PROVE  RingInv' /\ RingTypes' /\ \A x : InRing(x)' <=> InRing(x)
<1>1. CqEntries' = CqEntries /\ \A x : OnList(sq, x)' <=> OnList(sq, x)
  BY DEF CqEntries, OnList
<1>2. \A x : InRing(x)' <=> InRing(x)
  <2> SUFFICES ASSUME NEW x
               PROVE  OnList(sq, x)' \/ x \in kernel' \/ x \in CqEntries' <=> InRing(x)
    BY DEF InRing
  <2> QED BY <1>1 DEF InRing
<1>3. NoDuplicates(sq)' /\ CountersMatchRing' /\ IsFiniteSet(kernel')
  BY DEF RingInv, NoDuplicates, CountersMatchRing
<1>4. \A i, j \in 1 .. Len(cq') : cq'[i].entry = cq'[j].entry => i = j
  BY DEF RingInv
<1>5. \A x \in Entries : /\ ~(OnList(sq, x)' /\ x \in kernel')
                         /\ ~(OnList(sq, x)' /\ x \in CqEntries')
                         /\ ~(x \in kernel' /\ x \in CqEntries')
  BY <1>1 DEF RingInv
<1>6. RingTypes'
  BY DEF RingTypes, TypeOK
<1> QED BY <1>2, <1>3, <1>4, <1>5, <1>6 DEF RingInv

(* The ring holds the entries of operations that were not completed only.  *)
LEMMA RingPending ==
  ASSUME NEW o \in Ops, OpInv(o), InRing(OpEntry(o)) \/ InRing(CancelEntry(o))
  PROVE  Pending(o) /\ sender[o].count # 0 /\ op[o].kind \notin {"none", "task"}
<1>1. Due(OpEntry(o)) \in Nat /\ Due(CancelEntry(o)) \in Nat
      /\ Due(OpEntry(o)) + Due(CancelEntry(o)) # 0
  BY DEF Due
<1> QED BY <1>1 DEF OpInv, Pending

(* An operation that was not started. *)
LEMMA NotStartedFacts ==
  ASSUME NEW o \in Ops, OpInv(o), op[o].kind = "none"
  PROVE  /\ ~InRing(OpEntry(o)) /\ ~InRing(CancelEntry(o))
         /\ sender[o].count = 0 /\ sender[o].signals = << >> /\ ~sender[o].armed
         /\ fate[o] = "open" /\ ~OnList(tasks, o) /\ o \notin stopping
BY DEF OpInv, Due

------------------------------------------------------------------------------
(* The inductive invariant holds initially and is kept by every action. *)

LEMMA InitIInv == Init => IInv
<1> SUFFICES ASSUME Init PROVE IInv
  OBVIOUS
<1>1. op = [o \in Ops |-> NotStarted] /\ sender = [o \in Ops |-> FreshState]
  BY DEF Init
<1>2. NotStarted \in OpRecords
  BY DEF NotStarted, OpRecords
<1>3. FreshState \in SenderStates /\ FreshState.count = 0 /\ ~FreshState.armed
      /\ FreshState.signals = << >>
  BY DEF FreshState, SenderStates
<1>4. TypeOK
  <2>1. EmptyContainer \in Containers
    BY DEF EmptyContainer, Containers
  <2>2. op \in [Ops -> OpRecords] /\ sender \in [Ops -> SenderStates]
    BY <1>1, <1>2, <1>3
  <2> QED BY <2>1, <2>2 DEF TypeOK, Init, OpRecords
<1>5. FreeListSound(sockets)
  <2>1. /\ DeadIds(EmptyContainer) = {} /\ Size(EmptyContainer) = 0
        /\ EmptyContainer.free = 0
    BY DEF EmptyContainer, DeadIds, Ids, Size
  <2>2. Cardinality(DeadIds(EmptyContainer)) = 0
    BY <2>1, FS_EmptySet
  <2> DEFINE chain == [i \in 1 .. 0 |-> i]
  <2>3. chain \in [1 .. 0 -> DeadIds(EmptyContainer)]
    BY <2>1
  <2>4. IsFreeChain(EmptyContainer, chain)
    BY <2>1, <2>2, <2>3 DEF IsFreeChain
  <2> QED BY <2>2, <2>3, <2>4 DEF FreeListSound, Init
<1>6. CqEntries = {} /\ \A x : ~OnList(sq, x) /\ ~OnList(tasks, x)
  BY DEF CqEntries, OnList, Init
<1>7. RingInv /\ NoDuplicates(tasks) /\ CqInv
  <2>1. CountersMatchRing
    BY FS_EmptySet DEF CountersMatchRing, Init
  <2> QED BY <1>6, <2>1, FS_EmptySet DEF RingInv, NoDuplicates, CqInv, Init
<1>8. ASSUME NEW o \in Ops PROVE OpInv(o)
  <2>1. ~InRing(OpEntry(o)) /\ ~InRing(CancelEntry(o))
    BY <1>6 DEF InRing, Init
  <2>2. op[o].kind = "none" /\ sender[o] = FreshState
    BY <1>1 DEF NotStarted
  <2> QED BY <1>3, <1>6, <2>1, <2>2 DEF OpInv, Due, Init
<1> QED BY <1>4, <1>5, <1>7, <1>8 DEF IInv, Init

(* The types of the loop's own variables. *)
LEMMA TypeParts ==
  ASSUME RingTypes', sockets' \in Containers,
         op' \in [Ops -> OpRecords], sender' \in [Ops -> SenderStates],
         tasks' \in Seq(Ops), cq' \in Seq(Completions),
         fate' \in [Ops -> {"open", "canceled", "busy"}],
         pc' \in {"idle", "run", "wait"}, halted' \in {"no", "terminate", "destroyed"},
         stop' \subseteq Tokens, stopping' \subseteq Ops
  PROVE  TypeOK'
BY DEF TypeOK, RingTypes, OpRecords, Completions

(* Steps that change the sockets, where the loop is, or nothing. *)
LEMMA LoopKeeps ==
  ASSUME IInv, UNCHANGED <<appVars, tasks, ringVars>>,
         sockets' \in Containers, FreeListSound(sockets'),
         pc' \in {"idle", "run", "wait"}, halted' \in {"no", "terminate", "destroyed"},
         pc' = "wait" => stopping = {}
  PROVE  IInv' /\ Internal
<1> USE DEF appVars, ringVars
<1>1. TypeOK /\ RingInv /\ CqInv /\ \A x \in Ops : OpInv(x)
  BY DEF IInv
<1>2. RingInv' /\ RingTypes' /\ \A x : InRing(x)' <=> InRing(x)
  BY <1>1, RingFrame
<1>3. CqInv'
  BY <1>1, CqKeeps
<1>4. TypeOK'
  BY <1>1, <1>2 DEF TypeOK, RingTypes
<1>5. ASSUME NEW x \in Ops PROVE OpInv(x)'
  <2>1. Due(OpEntry(x))' = Due(OpEntry(x)) /\ Due(CancelEntry(x))' = Due(CancelEntry(x))
    BY <1>2 DEF Due
  <2>2. OpInv(x) /\ (OnList(tasks, x)' <=> OnList(tasks, x))
    BY <1>1 DEF OnList
  <2> QED BY <1>2, <2>1, <2>2 DEF OpInv
<1>6. NoDuplicates(tasks)'
  BY DEF IInv, NoDuplicates
<1> QED BY <1>2, <1>3, <1>4, <1>5, <1>6 DEF IInv, Internal

LEMMA SocketsKeep ==
  ASSUME IInv, MakeSocket \/ (\E id \in Ids(sockets) : Release(id))
  PROVE  IInv' /\ Internal
<1>1. sockets \in Containers /\ FreeListSound(sockets)
  BY DEF IInv, TypeOK
<1>2. sockets' \in Containers /\ FreeListSound(sockets')
  <2>1. CASE MakeSocket
    <3>1. NewFd \in Handles
      BY <2>1, NewFdFree DEF MakeSocket
    <3> QED BY <1>1, <2>1, <3>1, InsertEffect, InsertKeepsFreeList DEF MakeSocket
  <2>2. ASSUME NEW id \in Ids(sockets), Release(id)
        PROVE  sockets' \in Containers /\ FreeListSound(sockets')
    <3>1. id \in LiveIds(sockets) /\ sockets' = Erase(sockets, id)
      BY <2>2 DEF Release, IsLive, LiveIds
    <3> QED BY <1>1, <3>1, EraseEffect, EraseKeepsFreeList
  <2> QED BY <2>1, <2>2
<1>3. UNCHANGED <<appVars, tasks, ringVars, pc, halted>>
  BY DEF MakeSocket, Release
<1> QED BY <1>2, <1>3, LoopKeeps DEF IInv, TypeOK

LEMMA LoopStepsKeep ==
  ASSUME IInv,
         Run \/ RunOneWait \/ RunOneEmpty \/ SubmitFails \/ WaitFails \/ ReapDestroyed
           \/ UNCHANGED vars
  PROVE  IInv' /\ Internal
<1>1. /\ UNCHANGED <<appVars, tasks, ringVars, sockets>>
      /\ pc' \in {"idle", "run", "wait"} /\ halted' \in {"no", "terminate", "destroyed"}
      /\ pc' = "wait" => stopping = {}
  BY DEF IInv, TypeOK, Run, RunOneWait, RunOneEmpty, SubmitFails, WaitFails, ReapDestroyed,
         LoopTurn, vars
<1>2. sockets' \in Containers /\ FreeListSound(sockets')
  BY <1>1 DEF IInv, TypeOK
<1> QED BY <1>1, <1>2, LoopKeeps

(* Starting an operation whose entry is queued. *)
LEMMA StartQueuedKeeps ==
  ASSUME IInv, NEW o \in Ops, op[o].kind = "none",
         NEW r \in OpRecords, r.kind \in {"accept", "io", "timer"},
         op' = [op EXCEPT ![o] = r], sender' = [sender EXCEPT ![o] = Started(@)],
         GetSqe(OpEntry(o)) \/ GetSqeAndSubmit(OpEntry(o)),
         UNCHANGED <<sockets, tasks, fate, cq, pc, halted, stop, stopping>>
  PROVE  IInv' /\ StartsOne
<1>1. TypeOK /\ RingInv /\ CqInv /\ \A x \in Ops : OpInv(x)
  BY DEF IInv
<1>2. /\ op \in [Ops -> OpRecords] /\ sender \in [Ops -> SenderStates]
      /\ op'[o] = r /\ sender'[o] = Started(sender[o])
      /\ \A x \in Ops \ {o} : op'[x] = op[x] /\ sender'[x] = sender[x]
  BY <1>1 DEF TypeOK, OpRecords
<1>3. /\ ~InRing(OpEntry(o)) /\ ~InRing(CancelEntry(o))
      /\ sender[o].count = 0 /\ sender[o].signals = << >> /\ fate[o] = "open"
      /\ ~OnList(tasks, o) /\ o \notin stopping
  BY <1>1, NotStartedFacts
<1>4. /\ RingInv' /\ RingTypes'
      /\ \A x : InRing(x)' <=> InRing(x) \/ x = OpEntry(o)
  BY <1>1, <1>3, QueueEffect, EntryFacts
<1>5. CqInv'
  <2>1. OpEntry(o) \notin CqEntries
    BY <1>3 DEF InRing
  <2> QED BY <1>1, <1>2, <2>1, CqKeeps
<1>6. /\ sender'[o] \in SenderStates /\ sender'[o].count = 1 /\ sender'[o].armed
      /\ sender'[o].signals = << >>
  BY <1>2, <1>3, SenderEffects
<1>7. OpInv(o)'
  <2>1. InRing(OpEntry(o))' /\ ~InRing(CancelEntry(o))'
    BY <1>3, <1>4, EntryFacts
  <2>2. Due(OpEntry(o))' = 1 /\ Due(CancelEntry(o))' = 0
    BY <2>1 DEF Due
  <2>3. ~OnList(tasks, o)'
    BY <1>3 DEF OnList
  <2> QED BY <1>2, <1>3, <1>6, <2>1, <2>2, <2>3 DEF OpInv
<1>8. \A x \in Ops : OpInv(x)'
  <2>1. \A x \in Ops \ {o} :
          /\ InRing(OpEntry(x))' <=> InRing(OpEntry(x))
          /\ InRing(CancelEntry(x))' <=> InRing(CancelEntry(x))
    BY <1>4, EntryFacts
  <2>2. \A x \in Ops \ {o} : OnList(tasks, x)' => OnList(tasks, x)
    BY DEF OnList
  <2> QED BY <1>1, <1>2, <1>7, <2>1, <2>2, OneOperation
<1>9. TypeOK'
  BY <1>1, <1>2, <1>4, <1>6, TypeParts DEF TypeOK, OpRecords, Completions
<1>10. NoDuplicates(tasks)'
  BY DEF IInv, NoDuplicates
<1>11. StartsOne
  BY <1>2, <1>6 DEF StartsOne
<1> QED BY <1>4, <1>5, <1>8, <1>9, <1>10, <1>11 DEF IInv

LEMMA StartSocketKeeps ==
  ASSUME IInv, NEW o \in Ops, NEW t \in Tokens, NEW k \in SocketKinds, NEW id \in Ids(sockets),
         StartSocket(o, k, id, t)
  PROVE  IInv' /\ StartsOne
<1>1. PICK r : r = [kind |-> k, id |-> id, fd |-> Lookup(sockets, id), token |-> t]
  OBVIOUS
<1>2. id \in Nat /\ Lookup(sockets, id) \in Handles
  <2>1. id \in LiveIds(sockets)
    BY DEF StartSocket, IsLive, LiveIds
  <2> QED BY <2>1, SlotCases DEF IInv, TypeOK, Lookup, Ids
<1>3. r \in OpRecords /\ r.kind \in {"accept", "io", "timer"}
  BY <1>1, <1>2 DEF OpRecords, AllKinds, SocketKinds
<1>4. op' = [op EXCEPT ![o] = r]
  BY <1>1 DEF StartSocket, Describe
<1> QED BY <1>3, <1>4, StartQueuedKeeps DEF StartSocket, CanStart

LEMMA StartTimerKeeps ==
  ASSUME IInv, NEW o \in Ops, NEW t \in Tokens, StartTimer(o, t)
  PROVE  IInv' /\ StartsOne
<1>1. PICK r : r = [kind |-> "timer", id |-> 0, fd |-> 0, token |-> t]
  OBVIOUS
<1>2. r \in OpRecords /\ r.kind \in {"accept", "io", "timer"}
  BY <1>1 DEF OpRecords, AllKinds
<1>3. op' = [op EXCEPT ![o] = r]
  BY <1>1 DEF StartTimer, Describe
<1> QED BY <1>2, <1>3, StartQueuedKeeps DEF StartTimer, CanStart

(* An operation started with a stopped token: its cancellation only.       *)
LEMMA StartStoppedKeeps ==
  ASSUME IInv, NEW o \in Ops, NEW t \in Tokens, StartStopped(o, t)
  PROVE  IInv' /\ StartsOne
<1>1. TypeOK /\ RingInv /\ CqInv /\ \A x \in Ops : OpInv(x)
  BY DEF IInv
<1>2. PICK r : r = [kind |-> "unsubmitted", id |-> 0, fd |-> 0, token |-> t]
  OBVIOUS
<1>3. r \in OpRecords /\ r.kind = "unsubmitted" /\ r.token = t
  BY <1>2 DEF OpRecords
<1>4. /\ op \in [Ops -> OpRecords] /\ sender \in [Ops -> SenderStates]
      /\ op' = [op EXCEPT ![o] = r]
      /\ op'[o] = r /\ sender'[o] = Cancel(CallbackEntered(Started(sender[o])))
      /\ \A x \in Ops \ {o} : op'[x] = op[x] /\ sender'[x] = sender[x]
  BY <1>1, <1>2 DEF TypeOK, OpRecords, StartStopped, Describe
<1>5. /\ op[o].kind = "none" /\ t \in stop /\ GetSqe(CancelEntry(o))
      /\ UNCHANGED <<sockets, tasks, fate, cq, pc, halted, stop, stopping>>
      /\ sender' = [sender EXCEPT ![o] = Cancel(CallbackEntered(Started(@)))]
  BY DEF StartStopped
<1>6. /\ ~InRing(OpEntry(o)) /\ ~InRing(CancelEntry(o))
      /\ sender[o].count = 0 /\ sender[o].signals = << >> /\ fate[o] = "open"
      /\ ~OnList(tasks, o) /\ o \notin stopping
  BY <1>1, <1>5, NotStartedFacts
<1>7. /\ RingInv' /\ RingTypes'
      /\ \A x : InRing(x)' <=> InRing(x) \/ x = CancelEntry(o)
  BY <1>1, <1>5, <1>6, QueueEffect, EntryFacts
<1>8. CqInv'
  <2>1. OpEntry(o) \notin CqEntries
    BY <1>6 DEF InRing
  <2> QED BY <1>1, <1>4, <1>5, <2>1, CqKeeps
<1>9. /\ sender'[o] \in SenderStates /\ sender'[o].count = 1 /\ ~sender'[o].armed
      /\ sender'[o].signals = << >>
  <2>1. PICK s : s = CallbackEntered(Started(sender[o]))
    OBVIOUS
  <2>2. s \in SenderStates /\ s.count = 2 /\ ~s.armed /\ s.signals = << >>
    <3>1. Started(sender[o]) \in SenderStates /\ Started(sender[o]).count = 1
          /\ Started(sender[o]).signals = << >>
      BY <1>4, <1>6, SenderEffects
    <3> QED BY <2>1, <3>1, SenderEffects
  <2>3. s.count - 1 = 1 /\ s.count - 1 # 0
    BY <2>2
  <2>4. sender'[o] = [count |-> s.count - 1, armed |-> s.armed, signals |-> s.signals]
    BY <1>4, <2>1, <2>3 DEF Cancel
  <2> QED BY <2>2, <2>3, <2>4 DEF SenderStates
<1>10. OpInv(o)'
  <2>1. ~InRing(OpEntry(o))' /\ InRing(CancelEntry(o))'
    BY <1>6, <1>7, EntryFacts
  <2>2. Due(OpEntry(o))' = 0 /\ Due(CancelEntry(o))' = 1
    BY <2>1 DEF Due
  <2>3. ~OnList(tasks, o)'
    BY <1>5, <1>6 DEF OnList
  <2> QED BY <1>3, <1>4, <1>5, <1>6, <1>9, <2>1, <2>2, <2>3 DEF OpInv
<1>11. \A x \in Ops : OpInv(x)'
  <2>1. \A x \in Ops \ {o} :
          /\ InRing(OpEntry(x))' <=> InRing(OpEntry(x))
          /\ InRing(CancelEntry(x))' <=> InRing(CancelEntry(x))
    BY <1>7, EntryFacts
  <2>2. \A x \in Ops \ {o} : OnList(tasks, x)' => OnList(tasks, x)
    BY <1>5 DEF OnList
  <2> QED BY <1>1, <1>4, <1>5, <1>10, <2>1, <2>2, OneOperation
<1>12. TypeOK'
  <2>1. op' \in [Ops -> OpRecords] /\ sender' \in [Ops -> SenderStates]
    BY <1>3, <1>4, <1>5, <1>9
  <2> QED BY <1>1, <1>5, <1>7, <2>1, TypeParts DEF TypeOK, Completions
<1>13. NoDuplicates(tasks)' /\ (pc' = "wait" => stopping' = {}) /\ FreeListSound(sockets')
  BY <1>5 DEF IInv, NoDuplicates
<1>14. StartsOne
  BY <1>3, <1>4, <1>5, <1>9 DEF StartsOne
<1> QED BY <1>7, <1>8, <1>11, <1>12, <1>13, <1>14 DEF IInv

(* schedule() pushes a task. *)
LEMMA StartTaskKeeps ==
  ASSUME IInv, NEW o \in Ops, StartTask(o)
  PROVE  IInv' /\ StartsOne
<1>1. TypeOK /\ RingInv /\ CqInv /\ NoDuplicates(tasks) /\ \A x \in Ops : OpInv(x)
  BY DEF IInv
<1>2. PICK r : r = [kind |-> "task", id |-> 0, fd |-> 0, token |-> NoToken]
  OBVIOUS
<1>3. r \in OpRecords /\ r.kind = "task"
  BY <1>2 DEF OpRecords, AllKinds
<1>4. /\ op[o].kind = "none" /\ op' = [op EXCEPT ![o] = r] /\ tasks' = <<o>> \o tasks
      /\ UNCHANGED <<sender, stop, stopping, sockets, ringVars, pc, halted>>
  BY <1>2 DEF StartTask, Describe
<1>5. /\ op \in [Ops -> OpRecords] /\ op' \in [Ops -> OpRecords]
      /\ op'[o] = r /\ \A x \in Ops \ {o} : op'[x] = op[x]
  BY <1>1, <1>3, <1>4 DEF TypeOK, OpRecords
<1>6. /\ ~InRing(OpEntry(o)) /\ ~InRing(CancelEntry(o))
      /\ sender[o].count = 0 /\ sender[o].signals = << >> /\ ~sender[o].armed
      /\ fate[o] = "open" /\ ~OnList(tasks, o) /\ o \notin stopping
  BY <1>1, <1>4, NotStartedFacts
<1>7. RingInv' /\ RingTypes' /\ \A x : InRing(x)' <=> InRing(x)
  BY <1>1, <1>4, RingFrame DEF ringVars
<1>8. CqInv'
  <2>1. OpEntry(o) \notin CqEntries
    BY <1>6 DEF InRing
  <2> QED BY <1>1, <1>4, <1>5, <2>1, CqKeeps DEF ringVars
<1>9. /\ tasks' \in Seq(Ops) /\ NoDuplicates(tasks)'
      /\ \A x : OnList(tasks, x)' <=> OnList(tasks, x) \/ x = o
  <2>1. /\ <<o>> \o tasks \in Seq(Ops) /\ NoDuplicates(<<o>> \o tasks)
        /\ \A x : OnList(<<o>> \o tasks, x) <=> OnList(tasks, x) \/ x = o
    BY <1>1, <1>6, PushEffect DEF TypeOK
  <2> QED BY <1>4, <2>1 DEF NoDuplicates, OnList
<1>10. OpInv(o)'
  <2>1. ~InRing(OpEntry(o))' /\ ~InRing(CancelEntry(o))'
    BY <1>6, <1>7
  <2>2. Due(OpEntry(o))' = 0 /\ Due(CancelEntry(o))' = 0
    BY <2>1 DEF Due
  <2> QED BY <1>3, <1>4, <1>5, <1>6, <2>1, <2>2 DEF OpInv, ringVars
<1>11. \A x \in Ops : OpInv(x)'
  BY <1>1, <1>4, <1>5, <1>7, <1>9, <1>10, OneOperation DEF ringVars
<1>12. TypeOK'
  BY <1>1, <1>4, <1>5, <1>7, <1>9, TypeParts DEF TypeOK, Completions, ringVars
<1>13. StartsOne
  BY <1>3, <1>4, <1>5, <1>6 DEF StartsOne
<1> QED BY <1>4, <1>7, <1>8, <1>9, <1>11, <1>12, <1>13 DEF IInv

(* request_stop() finds the callbacks that are registered with its token.  *)
LEMMA RequestStopKeeps ==
  ASSUME IInv, NEW t \in Tokens, RequestStop(t)
  PROVE  IInv' /\ UNCHANGED <<op, sender>> /\ stop' = stop \cup {t}
<1>1. TypeOK /\ RingInv /\ CqInv /\ \A x \in Ops : OpInv(x)
  BY DEF IInv
<1>2. /\ stop' = stop \cup {t}
      /\ stopping' = stopping \cup {o \in Ops : sender[o].armed /\ op[o].token = t}
      /\ UNCHANGED <<op, sender, sockets, tasks, ringVars, pc, halted>>
      /\ pc \in {"idle", "run"}
  BY DEF RequestStop, ProgramRuns
<1>3. RingInv' /\ RingTypes' /\ \A x : InRing(x)' <=> InRing(x)
  BY <1>1, <1>2, RingFrame DEF ringVars
<1>4. CqInv'
  BY <1>1, <1>2, CqKeeps DEF ringVars
<1>5. ASSUME NEW x \in Ops PROVE OpInv(x)'
  <2>1. Due(OpEntry(x))' = Due(OpEntry(x)) /\ Due(CancelEntry(x))' = Due(CancelEntry(x))
    BY <1>3 DEF Due
  <2>2. OpInv(x) /\ (OnList(tasks, x)' <=> OnList(tasks, x))
    BY <1>1, <1>2 DEF OnList
  <2>3. x \in stopping' => sender'[x].armed /\ op'[x].token \in stop'
    BY <1>2, <2>2 DEF OpInv
  <2> QED BY <1>2, <1>3, <2>1, <2>2, <2>3 DEF OpInv, ringVars
<1>6. TypeOK'
  BY <1>1, <1>2, <1>3 DEF TypeOK, RingTypes, ringVars
<1> QED BY <1>2, <1>3, <1>4, <1>5, <1>6 DEF IInv, NoDuplicates

(* A callback submits the cancellation of its operation. *)
LEMMA CallbackKeeps ==
  ASSUME IInv, NEW o \in Ops, Callback(o)
  PROVE  IInv' /\ Internal
<1>1. TypeOK /\ RingInv /\ CqInv /\ \A x \in Ops : OpInv(x)
  BY DEF IInv
<1>2. /\ o \in stopping
      /\ sender' = [sender EXCEPT ![o] = CallbackEntered(@)]
      /\ stopping' = stopping \ {o}
      /\ UNCHANGED <<op, stop, sockets, tasks, fate, cq, pc, halted>>
  BY DEF Callback
<1>3. /\ sender \in [Ops -> SenderStates] /\ sender'[o] = CallbackEntered(sender[o])
      /\ \A x \in Ops \ {o} : sender'[x] = sender[x]
  BY <1>1, <1>2 DEF TypeOK
<1>4. /\ sender[o].armed /\ op[o].token \in stop
      /\ InRing(OpEntry(o)) /\ ~InRing(CancelEntry(o)) /\ fate[o] = "open"
      /\ sender[o].count = 1 /\ sender[o].signals = << >>
      /\ op[o].kind \notin {"none", "task", "unsubmitted"}
  <2>1. sender[o].armed /\ op[o].token \in stop
    BY <1>1, <1>2 DEF OpInv
  <2>2. InRing(OpEntry(o)) /\ ~InRing(CancelEntry(o)) /\ fate[o] = "open"
    BY <1>1, <2>1 DEF OpInv
  <2>3. Due(OpEntry(o)) = 1 /\ Due(CancelEntry(o)) = 0
    BY <2>2 DEF Due
  <2>4. sender[o].count = 1
    BY <1>1, <2>3 DEF OpInv
  <2>5. op[o].kind \notin {"none", "task", "unsubmitted"}
    BY <1>1, <2>2 DEF OpInv
  <2> QED BY <1>1, <2>1, <2>2, <2>4, <2>5 DEF OpInv
<1>5. GetSqe(CancelEntry(o))
  <2>1. MustCancel(sender[o])
    BY <1>4 DEF MustCancel
  <2> QED BY <2>1 DEF Callback
<1>6. /\ RingInv' /\ RingTypes'
      /\ \A x : InRing(x)' <=> InRing(x) \/ x = CancelEntry(o)
  BY <1>1, <1>2, <1>4, <1>5, QueueEffect, EntryFacts
<1>7. CqInv'
  BY <1>1, <1>2, CqKeeps
<1>8. /\ sender'[o] \in SenderStates /\ sender'[o].count = 2 /\ ~sender'[o].armed
      /\ sender'[o].signals = << >>
  BY <1>3, <1>4, SenderEffects
<1>9. OpInv(o)'
  <2>1. InRing(OpEntry(o))' /\ InRing(CancelEntry(o))'
    BY <1>4, <1>6
  <2>2. Due(OpEntry(o))' = 1 /\ Due(CancelEntry(o))' = 1
    BY <2>1 DEF Due
  <2>3. ~OnList(tasks, o)'
    BY <1>1, <1>2, <1>4 DEF OnList, OpInv
  <2> QED BY <1>2, <1>4, <1>8, <2>1, <2>2, <2>3 DEF OpInv
<1>10. \A x \in Ops : OpInv(x)'
  <2>1. \A x \in Ops \ {o} :
          /\ InRing(OpEntry(x))' <=> InRing(OpEntry(x))
          /\ InRing(CancelEntry(x))' <=> InRing(CancelEntry(x))
    BY <1>6, EntryFacts
  <2>2. \A x \in Ops \ {o} : OnList(tasks, x)' => OnList(tasks, x)
    BY <1>2 DEF OnList
  <2> QED BY <1>1, <1>2, <1>3, <1>9, <2>1, <2>2, OneOperation
<1>11. TypeOK'
  <2>1. sender' \in [Ops -> SenderStates]
    BY <1>2, <1>3, <1>8
  <2> QED BY <1>1, <1>2, <1>6, <2>1, TypeParts DEF TypeOK, OpRecords, Completions
<1>12. NoDuplicates(tasks)' /\ (pc' = "wait" => stopping' = {}) /\ FreeListSound(sockets')
  BY <1>2 DEF IInv, NoDuplicates
<1>13. Internal
  BY <1>2, <1>3, <1>4, <1>8 DEF Internal
<1> QED BY <1>6, <1>7, <1>10, <1>11, <1>12, <1>13 DEF IInv

(* process_task() *)
LEMMA TaskKeeps ==
  ASSUME IInv, RunOneTask
  PROVE  IInv' /\ CompletesOne
<1>1. TypeOK /\ RingInv /\ CqInv /\ NoDuplicates(tasks) /\ \A x \in Ops : OpInv(x)
  BY DEF IInv
<1>2. PICK o : o = tasks[1]
  OBVIOUS
<1>3. /\ tasks # << >> /\ tasks' = Tail(tasks)
      /\ sender' = [sender EXCEPT ![o] = TaskComplete(@)]
      /\ UNCHANGED <<op, stop, stopping, sockets, ringVars, pc, halted>>
  BY <1>2 DEF RunOneTask
<1>4. /\ o \in Ops /\ OnList(tasks, o)
      /\ tasks' \in Seq(Ops) /\ NoDuplicates(tasks)'
      /\ \A x : OnList(tasks, x)' <=> OnList(tasks, x) /\ x # o
  <2>1. /\ tasks[1] \in Ops /\ OnList(tasks, tasks[1])
        /\ Tail(tasks) \in Seq(Ops) /\ NoDuplicates(Tail(tasks))
        /\ \A x : OnList(Tail(tasks), x) <=> OnList(tasks, x) /\ x # tasks[1]
    BY <1>1, <1>3, TailEffect DEF TypeOK
  <2> QED BY <1>2, <1>3, <2>1 DEF NoDuplicates, OnList
<1>5. /\ sender \in [Ops -> SenderStates] /\ sender'[o] = TaskComplete(sender[o])
      /\ \A x \in Ops \ {o} : sender'[x] = sender[x]
  BY <1>1, <1>3, <1>4 DEF TypeOK
<1>6. op[o].kind = "task" /\ sender[o].signals = << >> /\ OpInv(o)
  BY <1>1, <1>4 DEF OpInv
<1>7. /\ sender'[o] \in SenderStates /\ sender'[o].count = sender[o].count
      /\ sender'[o].armed = sender[o].armed /\ sender'[o].signals = <<"value">>
  BY <1>4, <1>5, <1>6, SenderEffects
<1>8. RingInv' /\ RingTypes' /\ \A x : InRing(x)' <=> InRing(x)
  BY <1>1, <1>3, RingFrame DEF ringVars
<1>9. CqInv'
  BY <1>1, <1>3, CqKeeps DEF ringVars
<1>10. OpInv(o)'
  <2>1. Due(OpEntry(o))' = Due(OpEntry(o)) /\ Due(CancelEntry(o))' = Due(CancelEntry(o))
    BY <1>8 DEF Due
  <2>2. Len(sender'[o].signals) <= 1
    BY <1>7
  <2> QED BY <1>3, <1>4, <1>6, <1>7, <1>8, <2>1, <2>2 DEF OpInv, ringVars
<1>11. \A x \in Ops : OpInv(x)'
  BY <1>1, <1>3, <1>4, <1>5, <1>8, <1>10, OneOperation DEF ringVars
<1>12. TypeOK'
  <2>1. sender' \in [Ops -> SenderStates]
    BY <1>3, <1>5, <1>7
  <2> QED BY <1>1, <1>3, <1>4, <1>8, <2>1, TypeParts DEF TypeOK, OpRecords, Completions, ringVars
<1>13. CompletesOne
  <2>1. Pending(o) /\ "value" \in Signals
    BY <1>6 DEF Pending, Signals
  <2> QED BY <1>3, <1>4, <1>5, <1>7, <2>1 DEF CompletesOne
<1> QED BY <1>3, <1>4, <1>8, <1>9, <1>11, <1>12, <1>13 DEF IInv

(* io_uring_submit_and_wait() *)
LEMMA SubmitKeeps ==
  ASSUME IInv, RunOneSubmit
  PROVE  IInv' /\ Internal
<1>1. TypeOK /\ RingInv /\ CqInv /\ \A x \in Ops : OpInv(x)
  BY DEF IInv
<1>2. /\ stopping = {} /\ pc' \in {"idle", "wait"}
      /\ UNCHANGED <<appVars, sockets, tasks, outstanding, fate, cq, halted>>
  BY DEF RunOneSubmit, LoopTurn
<1>3. PICK k \in Taken(Len(sq)) :
        kernel' = kernel \cup First(sq, k) /\ sq' = Rest(sq, k) /\ submitting' = submitting - k
  BY DEF RunOneSubmit
<1>4. /\ sq \in Seq(Entries) /\ NoDuplicates(sq) /\ k \in 0 .. Len(sq)
      /\ submitting = Len(sq) /\ outstanding = Len(sq) + Cardinality(kernel) + Len(cq)
  BY <1>1 DEF TypeOK, RingInv, CountersMatchRing, Taken
<1>5. \A x : OnList(sq, x) => x \notin kernel /\ x \notin CqEntries
  <2> SUFFICES ASSUME NEW x, OnList(sq, x) PROVE x \notin kernel /\ x \notin CqEntries
    OBVIOUS
  <2>1. x \in Entries
    BY <1>4 DEF OnList
  <2> QED BY <1>1, <2>1 DEF RingInv
<1>6. RingInv' /\ RingTypes' /\ \A x : InRing(x)' <=> InRing(x)
  <2>1. /\ RingInv' /\ RingTypes'
        /\ \A x : InRing(x)' <=> InRing(x) \/ OnList(sq, x)
    BY <1>1, <1>2, <1>3, <1>4, <1>5, TakeEffect
  <2> QED BY <2>1 DEF InRing
<1>7. CqInv'
  BY <1>1, <1>2, CqKeeps DEF appVars
<1>8. ASSUME NEW x \in Ops PROVE OpInv(x)'
  <2>1. Due(OpEntry(x))' = Due(OpEntry(x)) /\ Due(CancelEntry(x))' = Due(CancelEntry(x))
    BY <1>6 DEF Due
  <2>2. OpInv(x) /\ (OnList(tasks, x)' <=> OnList(tasks, x))
    BY <1>1, <1>2 DEF OnList
  <2> QED BY <1>2, <1>6, <2>1, <2>2 DEF OpInv, appVars
<1>9. TypeOK'
  BY <1>1, <1>2, <1>6 DEF TypeOK, RingTypes, appVars
<1>10. NoDuplicates(tasks)'
  BY <1>2 DEF IInv, NoDuplicates
<1>11. Internal
  BY <1>2 DEF Internal, appVars
<1> QED BY <1>2, <1>6, <1>7, <1>8, <1>9, <1>10, <1>11 DEF IInv, appVars

(* run_one() reads a completion and calls its work function. *)
LEMMA ReapKeeps ==
  ASSUME IInv, Reap
  PROVE  IInv' /\ (CompletesOne \/ Internal)
<1>1. TypeOK /\ RingInv /\ CqInv /\ \A x \in Ops : OpInv(x)
  BY DEF IInv
<1>2. PICK e, r, o : e = cq[1].entry /\ r = cq[1].res /\ o = e[2]
  OBVIOUS
<1>3. /\ cq # << >> /\ cq' = Tail(cq) /\ outstanding' = outstanding - 1
      /\ sender' = [sender EXCEPT ![o] = Work(@, e, r)]
      /\ sockets' = IF Accepted(cq[1]) THEN Insert(sockets, cq[1].fd) ELSE sockets
      /\ pc = "wait" /\ pc' = "run"
      /\ UNCHANGED <<op, stop, stopping, tasks, submitting, sq, kernel, fate, halted>>
  BY <1>2 DEF Reap, Waiting
<1>4. /\ RingInv' /\ RingTypes' /\ cq' \in Seq(Completions)
      /\ cq[1] \in Completions /\ InRing(e)
      /\ \A x : InRing(x)' <=> InRing(x) /\ x # e
      /\ Len(cq) \in Nat /\ Len(cq') = Len(cq) - 1
      /\ \A i \in 1 .. Len(cq') : i + 1 \in 1 .. Len(cq) /\ cq'[i] = cq[i + 1]
  BY <1>1, <1>2, <1>3, ReapEffect
<1>5. /\ e \in Entries /\ r \in Results /\ o \in Ops
      /\ \/ e[1] = "op" /\ e = OpEntry(o)
         \/ e[1] = "cancel" /\ e = CancelEntry(o)
      /\ 1 \in 1 .. Len(cq)
  <2>1. e \in Entries /\ r \in Results
    BY <1>2, <1>4 DEF Completions
  <2>2. 1 \in 1 .. Len(cq)
    BY <1>3, <1>4
  <2> QED BY <1>2, <2>1, <2>2, EntryFacts
<1>6. /\ e[1] = "op" => r \in {"ok", "error", "canceled"}
      /\ e[1] = "op" /\ r = "canceled" => fate[o] = "canceled"
      /\ Accepted(cq[1]) => cq[1].fd \in Handles
  BY <1>1, <1>2, <1>5 DEF CqInv
<1>7. /\ sender \in [Ops -> SenderStates] /\ sender[o] \in SenderStates
      /\ sender'[o] = Work(sender[o], e, r)
      /\ \A x \in Ops \ {o} : sender'[x] = sender[x]
  BY <1>1, <1>3, <1>5 DEF TypeOK
<1>8. /\ Pending(o) /\ sender[o].count # 0 /\ op[o].kind \notin {"none", "task"}
      /\ sender[o].signals = << >> /\ OpInv(o)
  BY <1>1, <1>4, <1>5, RingPending DEF Pending
<1>9. /\ sender'[o] \in SenderStates
      /\ sender'[o].count = sender[o].count - 1
      /\ sender'[o].armed => sender[o].armed
      /\ sender[o].count # 1 => sender'[o].signals = << >>
      /\ sender[o].count = 1 => sender'[o].signals = <<SignalOf(e, r)>>
      /\ sender[o].count = 1 /\ sender'[o].armed => SignalOf(e, r) = "stopped"
      /\ SignalOf(e, r) \in Signals
  <2>1. \A sig : Append(<< >>, sig) = <<sig>>
    OBVIOUS
  <2> QED BY <1>5, <1>6, <1>7, <1>8, <2>1, WorkEffect
<1>10. SignalOf(e, r) = "stopped" => op[o].token \in stop /\ ~(e[1] = "op" /\ fate[o] = "open")
  <2>1. ASSUME e[1] = "cancel" PROVE op[o].token \in stop
    BY <1>4, <1>5, <1>8, <2>1 DEF OpInv
  <2>2. ASSUME e[1] = "op", r = "canceled" PROVE op[o].token \in stop /\ fate[o] # "open"
    BY <1>6, <1>8, <2>2 DEF OpInv
  <2>3. SignalOf(e, r) = "stopped" => e[1] = "cancel" \/ r = "canceled"
    BY DEF SignalOf
  <2> QED BY <1>5, <2>1, <2>2, <2>3
<1>11. OpInv(o)'
  <2>1. ~sender'[o].armed
    <3>1. SUFFICES ASSUME sender'[o].armed PROVE FALSE
      OBVIOUS
    <3>2. InRing(OpEntry(o)) /\ ~InRing(CancelEntry(o)) /\ fate[o] = "open"
      BY <1>8, <1>9, <3>1 DEF OpInv
    <3>3. e[1] = "op"
      BY <1>4, <1>5, <3>2
    <3>4. Due(OpEntry(o)) = 1 /\ Due(CancelEntry(o)) = 0
      BY <3>2 DEF Due
    <3>5. sender[o].count = 1
      BY <1>8, <3>4 DEF OpInv
    <3> QED BY <1>9, <1>10, <3>1, <3>2, <3>3, <3>5
  <2>2. sender'[o].count = Due(OpEntry(o))' + Due(CancelEntry(o))'
    <3>1. CASE e = OpEntry(o)
      <4>1. ~InRing(OpEntry(o))' /\ (InRing(CancelEntry(o))' <=> InRing(CancelEntry(o)))
        BY <1>4, <1>5, <3>1, EntryFacts
      <4>2. Due(OpEntry(o)) = 1 /\ Due(OpEntry(o))' = 0
            /\ Due(CancelEntry(o))' = Due(CancelEntry(o)) /\ Due(CancelEntry(o)) \in Nat
        BY <1>4, <3>1, <4>1 DEF Due
      <4>3. sender[o].count = 1 + Due(CancelEntry(o))
        BY <1>8, <4>2 DEF OpInv
      <4> QED BY <1>9, <4>2, <4>3
    <3>2. CASE e = CancelEntry(o)
      <4>1. ~InRing(CancelEntry(o))' /\ (InRing(OpEntry(o))' <=> InRing(OpEntry(o)))
        BY <1>4, <1>5, <3>2, EntryFacts
      <4>2. Due(CancelEntry(o)) = 1 /\ Due(CancelEntry(o))' = 0
            /\ Due(OpEntry(o))' = Due(OpEntry(o)) /\ Due(OpEntry(o)) \in Nat
        BY <1>4, <3>2, <4>1 DEF Due
      <4>3. sender[o].count = Due(OpEntry(o)) + 1
        BY <1>8, <4>2 DEF OpInv
      <4> QED BY <1>9, <4>2, <4>3
    <3> QED BY <1>5, <3>1, <3>2
  <2>3. /\ sender'[o].signals = << >> <=> sender'[o].count # 0
        /\ Len(sender'[o].signals) <= 1
    <3>1. sender[o].count \in Int
      BY <1>7 DEF SenderStates
    <3>2. CASE sender[o].count = 1
      <4>1. PICK sig : sender'[o].signals = <<sig>>
        BY <1>9, <3>2
      <4>2. sender'[o].count = 0
        BY <1>9, <3>2
      <4> QED BY <4>1, <4>2
    <3>3. CASE sender[o].count # 1
      <4>1. Len(<< >>) = 0
        OBVIOUS
      <4> QED BY <1>9, <3>1, <3>3, <4>1
    <3> QED BY <3>2, <3>3
  <2>4. ~OnList(tasks, o)' /\ o \notin stopping'
    BY <1>3, <1>8 DEF OnList, OpInv, IInv
  <2>5. /\ InRing(OpEntry(o))' => InRing(OpEntry(o))
        /\ InRing(CancelEntry(o))' => InRing(CancelEntry(o))
    BY <1>4
  <2> QED BY <1>3, <1>8, <2>1, <2>2, <2>3, <2>4, <2>5 DEF OpInv
<1>12. \A x \in Ops : OpInv(x)'
  <2>1. \A x \in Ops \ {o} :
          /\ InRing(OpEntry(x))' <=> InRing(OpEntry(x))
          /\ InRing(CancelEntry(x))' <=> InRing(CancelEntry(x))
    BY <1>4, <1>5, EntryFacts
  <2>2. \A x \in Ops \ {o} : OnList(tasks, x)' => OnList(tasks, x)
    BY <1>3 DEF OnList
  <2> QED BY <1>1, <1>3, <1>5, <1>7, <1>11, <2>1, <2>2, OneOperation
<1>13. CqInv'
  <2> SUFFICES ASSUME NEW i \in 1 .. Len(cq')
               PROVE  /\ cq'[i].entry[1] = "op" =>
                           /\ cq'[i].res \in {"ok", "error", "canceled"}
                           /\ cq'[i].res = "canceled" => fate'[cq'[i].entry[2]] = "canceled"
                      /\ Accepted(cq[i])' => cq'[i].fd \in Handles
    BY DEF CqInv
  <2>1. i + 1 \in 1 .. Len(cq) /\ cq'[i] = cq[i + 1]
    BY <1>4
  <2>2. Accepted(cq[i])' <=> Accepted(cq[i + 1])
    BY <1>3, <2>1 DEF Accepted
  <2> QED BY <1>1, <1>3, <2>1, <2>2 DEF CqInv
<1>14. sockets' \in Containers /\ FreeListSound(sockets')
  BY <1>3, <1>6, InsertEffect, InsertKeepsFreeList DEF IInv, TypeOK
<1>15. TypeOK'
  <2>1. sender' \in [Ops -> SenderStates]
    BY <1>3, <1>7, <1>9
  <2> QED BY <1>1, <1>3, <1>4, <1>14, <2>1, TypeParts DEF TypeOK, OpRecords
<1>16. NoDuplicates(tasks)'
  BY <1>3 DEF IInv, NoDuplicates
<1>17. CompletesOne \/ Internal
  <2>1. CASE sender[o].count = 1
    BY <1>3, <1>5, <1>7, <1>8, <1>9, <1>10, <2>1 DEF CompletesOne
  <2>2. CASE sender[o].count # 1
    BY <1>3, <1>5, <1>7, <1>8, <1>9, <2>2 DEF Internal
  <2> QED BY <2>1, <2>2
<1> QED BY <1>3, <1>4, <1>12, <1>13, <1>14, <1>15, <1>16, <1>17 DEF IInv

(* The kernel ends an operation. *)
LEMMA KernelCompleteKeeps ==
  ASSUME IInv, NEW o \in Ops, KernelComplete(o)
  PROVE  IInv' /\ Internal
<1>1. TypeOK /\ RingInv /\ CqInv /\ \A x \in Ops : OpInv(x)
  BY DEF IInv
<1>2. /\ OpEntry(o) \in kernel /\ kernel' = kernel \ {OpEntry(o)}
      /\ UNCHANGED <<appVars, sockets, tasks, submitting, outstanding, sq, fate, pc, halted>>
  BY DEF KernelComplete
<1>3. PICK r \in (IF fate[o] = "canceled" THEN {"canceled"} ELSE {"ok", "error"}) :
        IF r = "ok" /\ op[o].kind = "accept"
        THEN FreeFds # {} /\ Post(OpEntry(o), r, NewFd)
        ELSE Post(OpEntry(o), r, 0)
  BY DEF KernelComplete
<1>4. PICK fd \in Handles \cup {0} :
        Post(OpEntry(o), r, fd) /\ (r = "ok" /\ op[o].kind = "accept" => fd \in Handles)
  BY <1>3, NewFdFree
<1>5. /\ r \in Results /\ r \in {"ok", "error", "canceled"}
      /\ r = "canceled" => fate[o] = "canceled"
  BY <1>3 DEF Results
<1>6. /\ RingInv' /\ RingTypes' /\ cq' \in Seq(Completions)
      /\ \A x : InRing(x)' <=> InRing(x)
      /\ Len(cq') = Len(cq) + 1 /\ Len(cq) \in Nat
      /\ cq'[Len(cq) + 1] = [entry |-> OpEntry(o), res |-> r, fd |-> fd]
      /\ \A i \in 1 .. Len(cq) : cq'[i] = cq[i]
  BY <1>1, <1>2, <1>4, <1>5, PostEffect DEF TypeOK
<1>7. CqInv'
  <2> SUFFICES ASSUME NEW i \in 1 .. Len(cq')
               PROVE  /\ cq'[i].entry[1] = "op" =>
                           /\ cq'[i].res \in {"ok", "error", "canceled"}
                           /\ cq'[i].res = "canceled" => fate'[cq'[i].entry[2]] = "canceled"
                      /\ Accepted(cq[i])' => cq'[i].fd \in Handles
    BY DEF CqInv
  <2>1. CASE i \in 1 .. Len(cq)
    <3>1. cq'[i] = cq[i] /\ (Accepted(cq[i])' <=> Accepted(cq[i]))
      BY <1>2, <1>6, <2>1 DEF Accepted, appVars
    <3> QED BY <1>1, <1>2, <2>1, <3>1 DEF CqInv
  <2>2. CASE i = Len(cq) + 1
    <3>1. cq'[i].entry = OpEntry(o) /\ cq'[i].res = r /\ cq'[i].fd = fd
      BY <1>6, <2>2
    <3>2. Accepted(cq[i])' => r = "ok" /\ op[o].kind = "accept"
      BY <1>2, <3>1, EntryFacts DEF Accepted, appVars
    <3> QED BY <1>2, <1>4, <1>5, <3>1, <3>2, EntryFacts
  <2> QED BY <1>6, <2>1, <2>2
<1>8. ASSUME NEW x \in Ops PROVE OpInv(x)'
  <2>1. Due(OpEntry(x))' = Due(OpEntry(x)) /\ Due(CancelEntry(x))' = Due(CancelEntry(x))
    BY <1>6 DEF Due
  <2>2. OpInv(x) /\ (OnList(tasks, x)' <=> OnList(tasks, x))
    BY <1>1, <1>2 DEF OnList
  <2> QED BY <1>2, <1>6, <2>1, <2>2 DEF OpInv, appVars
<1>9. TypeOK'
  BY <1>1, <1>2, <1>6, TypeParts DEF TypeOK, OpRecords, appVars
<1>10. NoDuplicates(tasks)'
  BY <1>2 DEF IInv, NoDuplicates
<1>11. Internal
  BY <1>2 DEF Internal, appVars
<1> QED BY <1>2, <1>6, <1>7, <1>8, <1>9, <1>10, <1>11 DEF IInv, appVars

(* The kernel carries out a cancellation: the fate of an operation that is *)
(* cancelled is decided before it ends.                                    *)
LEMMA KernelCancelKeeps ==
  ASSUME IInv, NEW o \in Ops, KernelCancel(o)
  PROVE  IInv' /\ Internal
<1>1. TypeOK /\ RingInv /\ CqInv /\ \A x \in Ops : OpInv(x)
  BY DEF IInv
<1>2. /\ CancelEntry(o) \in kernel /\ kernel' = kernel \ {CancelEntry(o)}
      /\ UNCHANGED <<appVars, sockets, tasks, submitting, outstanding, sq, pc, halted>>
  BY DEF KernelCancel
<1>3. PICK r \in (IF OpEntry(o) \in kernel THEN {"ok", "already"} ELSE {"noent"}) :
        /\ Post(CancelEntry(o), r, 0)
        /\ fate' = CASE r = "ok"      -> [fate EXCEPT ![o] = "canceled"]
                     [] r = "already" -> [fate EXCEPT ![o] = "busy"]
                     [] r = "noent"   -> fate
  BY DEF KernelCancel
<1>4. r \in Results /\ 0 \in Handles \cup {0}
  BY <1>3 DEF Results
<1>5. /\ RingInv' /\ RingTypes' /\ cq' \in Seq(Completions)
      /\ \A x : InRing(x)' <=> InRing(x)
      /\ Len(cq') = Len(cq) + 1 /\ Len(cq) \in Nat
      /\ cq'[Len(cq) + 1] = [entry |-> CancelEntry(o), res |-> r, fd |-> 0]
      /\ \A i \in 1 .. Len(cq) : cq'[i] = cq[i]
  BY <1>1, <1>2, <1>3, <1>4, PostEffect DEF TypeOK
<1>6. /\ fate' \in [Ops -> {"open", "canceled", "busy"}]
      /\ \A x \in Ops \ {o} : fate'[x] = fate[x]
      /\ fate'[o] # fate[o] => OpEntry(o) \in kernel
  <2>1. fate \in [Ops -> {"open", "canceled", "busy"}]
    BY <1>1 DEF TypeOK
  <2>2. CASE r = "ok"
    BY <1>3, <2>1, <2>2
  <2>3. CASE r = "already"
    BY <1>3, <2>1, <2>3
  <2>4. CASE r = "noent"
    BY <1>3, <2>1, <2>4
  <2> QED BY <1>3, <2>2, <2>3, <2>4
<1>7. CqInv'
  <2> SUFFICES ASSUME NEW i \in 1 .. Len(cq')
               PROVE  /\ cq'[i].entry[1] = "op" =>
                           /\ cq'[i].res \in {"ok", "error", "canceled"}
                           /\ cq'[i].res = "canceled" => fate'[cq'[i].entry[2]] = "canceled"
                      /\ Accepted(cq[i])' => cq'[i].fd \in Handles
    BY DEF CqInv
  <2>1. CASE i \in 1 .. Len(cq)
    <3>1. cq'[i] = cq[i] /\ (Accepted(cq[i])' <=> Accepted(cq[i]))
      BY <1>2, <1>5, <2>1 DEF Accepted, appVars
    <3>2. cq[i].entry \in Entries /\ cq[i].entry \in CqEntries
      <4>1. cq \in Seq(Completions)
        BY <1>1 DEF TypeOK, Completions
      <4>2. cq[i] \in Completions
        BY <2>1, <4>1
      <4> QED BY <2>1, <4>2 DEF Completions, CqEntries
    <3>3. cq[i].entry[1] = "op" => fate'[cq[i].entry[2]] = fate[cq[i].entry[2]]
      <4>1. cq[i].entry # OpEntry(o) \/ OpEntry(o) \notin kernel
        BY <1>1, <3>2 DEF RingInv
      <4> QED BY <1>6, <3>2, <4>1, EntryFacts
    <3> QED BY <1>1, <2>1, <3>1, <3>3 DEF CqInv
  <2>2. CASE i = Len(cq) + 1
    <3>1. cq'[i].entry = CancelEntry(o)
      BY <1>5, <2>2
    <3> QED BY <3>1, EntryFacts DEF Accepted
  <2> QED BY <1>5, <2>1, <2>2
<1>8. InRing(CancelEntry(o))
  BY <1>2 DEF InRing
<1>9. ASSUME NEW x \in Ops PROVE OpInv(x)'
  <2>1. Due(OpEntry(x))' = Due(OpEntry(x)) /\ Due(CancelEntry(x))' = Due(CancelEntry(x))
    BY <1>5 DEF Due
  <2>2. OpInv(x) /\ (OnList(tasks, x)' <=> OnList(tasks, x))
    BY <1>1, <1>2 DEF OnList
  <2>3. CASE x = o
    <3>1. ~sender[o].armed /\ op[o].token \in stop /\ op[o].kind # "none"
      BY <1>8, <2>2, <2>3 DEF OpInv
    <3> QED BY <1>2, <1>5, <2>1, <2>2, <2>3, <3>1 DEF OpInv, appVars
  <2>4. CASE x # o
    BY <1>2, <1>5, <1>6, <2>1, <2>2, <2>4 DEF OpInv, appVars
  <2> QED BY <2>3, <2>4
<1>10. TypeOK'
  BY <1>1, <1>2, <1>5, <1>6, TypeParts DEF TypeOK, OpRecords, appVars
<1>11. NoDuplicates(tasks)'
  BY <1>2 DEF IInv, NoDuplicates
<1>12. Internal
  BY <1>2 DEF Internal, appVars
<1> QED BY <1>2, <1>5, <1>7, <1>9, <1>10, <1>11, <1>12 DEF IInv, appVars

LEMMA NextIInv ==
  ASSUME IInv, [Next]_vars
  PROVE  /\ IInv'
         /\ \/ StartsOne \/ CompletesOne \/ Internal
            \/ \E t \in Tokens : UNCHANGED <<op, sender>> /\ stop' = stop \cup {t}
<1>1. CASE MakeSocket \/ \E id \in Ids(sockets) : Release(id)
  BY <1>1, SocketsKeep
<1>2. ASSUME NEW o \in Ops, Start(o) PROVE IInv' /\ StartsOne
  BY <1>2, StartSocketKeeps, StartTimerKeeps, StartStoppedKeeps, StartTaskKeeps DEF Start
<1>3. ASSUME NEW o \in Ops, Callback(o) PROVE IInv' /\ Internal
  BY <1>3, CallbackKeeps
<1>4. ASSUME NEW t \in Tokens, RequestStop(t)
      PROVE  IInv' /\ UNCHANGED <<op, sender>> /\ stop' = stop \cup {t}
  BY <1>4, RequestStopKeeps
<1>5. CASE \/ Run \/ RunOneWait \/ RunOneEmpty \/ SubmitFails \/ WaitFails \/ ReapDestroyed
           \/ Halted \/ UNCHANGED vars
  BY <1>5, LoopStepsKeep DEF Halted
<1>6. CASE RunOneTask
  BY <1>6, TaskKeeps
<1>7. CASE RunOneSubmit
  BY <1>7, SubmitKeeps
<1>8. CASE Reap
  BY <1>8, ReapKeeps
<1>9. ASSUME NEW o \in Ops, KernelComplete(o) \/ KernelCancel(o) PROVE IInv' /\ Internal
  BY <1>9, KernelCompleteKeeps, KernelCancelKeeps
<1> QED BY <1>1, <1>2, <1>3, <1>4, <1>5, <1>6, <1>7, <1>8, <1>9 DEF Next, RunOne

LEMMA IInvCorrect == Spec => []IInv
<1>1. IInv /\ [Next]_vars => IInv'
  BY NextIInv
<1> QED BY <1>1, InitIInv, PTL DEF Spec

------------------------------------------------------------------------------
(* Theorems *)

(* Type correctness of the io_uring context, the operation states and the  *)
(* queues below them.                                                      *)
THEOREM TypeCorrect == Spec => []TypeOK
<1>1. IInv => TypeOK
  BY DEF IInv
<1> QED BY <1>1, IInvCorrect, PTL

(* No user data is in the ring twice: counting its places is asking        *)
(* whether it is there.                                                    *)
LEMMA OccurrencesDue ==
  ASSUME TypeOK, RingInv, NEW e \in Entries
  PROVE  Occurrences(e) = Due(e)
<1> DEFINE Sq == {i \in 1 .. Len(sq) : sq[i] = e}
           Cq == {i \in 1 .. Len(cq) : cq[i].entry = e}
<1>1. Cardinality(Sq) = IF OnList(sq, e) THEN 1 ELSE 0
  <2>1. \A i, j \in Sq : i = j
    BY DEF RingInv, NoDuplicates
  <2>2. Sq = {} <=> ~OnList(sq, e)
    BY DEF OnList
  <2> QED BY <2>1, <2>2, CountAtMostOne
<1>2. Cardinality(Cq) = IF e \in CqEntries THEN 1 ELSE 0
  <2>1. \A i, j \in Cq : i = j
    BY DEF RingInv
  <2>2. Cq = {} <=> e \notin CqEntries
    BY DEF CqEntries
  <2> QED BY <2>1, <2>2, CountAtMostOne
<1>3. /\ ~(OnList(sq, e) /\ e \in kernel) /\ ~(OnList(sq, e) /\ e \in CqEntries)
      /\ ~(e \in kernel /\ e \in CqEntries)
  BY DEF RingInv
<1>4. Occurrences(e) = Cardinality(Sq) + (IF e \in kernel THEN 1 ELSE 0) + Cardinality(Cq)
  BY DEF Occurrences
<1> HIDE DEF Sq, Cq
<1> QED BY <1>1, <1>2, <1>3, <1>4 DEF Due, InRing

(* The counters of the context and of every operation state count what is  *)
(* in the ring, for every ring depth, in whatever order completions arrive *)
(* and with submissions that take a part of the entries.                   *)
THEOREM CountersCorrect == Spec => []CountersExact
<1>1. IInv => CountersExact
  <2> SUFFICES ASSUME IInv PROVE CountersExact
    OBVIOUS
  <2>1. CountersMatchRing
    BY DEF IInv, RingInv
  <2>2. ASSUME NEW o \in Ops
        PROVE  /\ sender[o].count = Occurrences(OpEntry(o)) + Occurrences(CancelEntry(o))
               /\ op[o].kind \notin {"none", "task"} => (Finished(o) <=> sender[o].count = 0)
    <3>1. /\ Occurrences(OpEntry(o)) = Due(OpEntry(o))
          /\ Occurrences(CancelEntry(o)) = Due(CancelEntry(o))
      BY OccurrencesDue, EntryFacts DEF IInv
    <3> QED BY <3>1 DEF IInv, OpInv, Finished
  <2> QED BY <2>1, <2>2 DEF CountersExact, CountMatchesRing
<1> QED BY <1>1, IInvCorrect, PTL

(* uring_context.hpp and sender.hpp: a pointer in the ring, and one of the *)
(* stop source, is to an operation that was not completed or to its        *)
(* callback, for any kernel; of an operation started with a stopped token  *)
(* the ring holds the cancellation only, whose callback was reset.         *)
THEOREM PointersCorrect == Spec => []PointersValid
<1>1. IInv => PointersValid
  <2> SUFFICES ASSUME IInv, NEW o \in Ops
               PROVE  /\ Occurrences(OpEntry(o)) <= 1 /\ Occurrences(CancelEntry(o)) <= 1
                      /\ Occurrences(OpEntry(o)) > 0 => Pending(o) /\ op[o].kind # "unsubmitted"
                      /\ Occurrences(CancelEntry(o)) > 0 =>
                           Pending(o) /\ (CallbackExists(o) \/ op[o].kind = "unsubmitted")
                      /\ sender[o].armed => CallbackExists(o)
    BY DEF PointersValid
  <2>1. /\ Occurrences(OpEntry(o)) = Due(OpEntry(o))
        /\ Occurrences(CancelEntry(o)) = Due(CancelEntry(o))
    BY OccurrencesDue, EntryFacts DEF IInv
  <2>2. Due(OpEntry(o)) \in {0, 1} /\ Due(CancelEntry(o)) \in {0, 1}
    BY DEF Due
  <2>3. /\ Due(OpEntry(o)) > 0 => InRing(OpEntry(o))
        /\ Due(CancelEntry(o)) > 0 => InRing(CancelEntry(o))
    BY DEF Due
  <2>4. InRing(OpEntry(o)) => Pending(o) /\ op[o].kind \notin {"task", "unsubmitted"}
    BY RingPending DEF IInv, OpInv
  <2>5. InRing(CancelEntry(o)) => Pending(o) /\ op[o].kind # "task"
    BY RingPending DEF IInv, OpInv
  <2>6. sender[o].armed => InRing(OpEntry(o))
    BY DEF IInv, OpInv
  <2> QED BY <2>1, <2>2, <2>3, <2>4, <2>5, <2>6 DEF CallbackExists
<1> QED BY <1>1, IInvCorrect, PTL

(* run() returns only when no task is left and the ring is empty.          *)
THEOREM DrainCorrect == Spec => RunDrains
<1>1. ASSUME IInv, [Next]_vars, pc # "idle", pc' = "idle"
      PROVE  tasks = << >> /\ sq = << >> /\ kernel = {} /\ cq = << >>
  <2>1. /\ submitting = Len(sq) /\ outstanding = Len(sq) + Cardinality(kernel) + Len(cq)
        /\ IsFiniteSet(kernel) /\ Cardinality(kernel) \in Nat
        /\ Len(sq) \in Nat /\ Len(cq) \in Nat
    BY <1>1, FS_CardinalityType DEF IInv, TypeOK, RingInv, CountersMatchRing
  <2>2. RunOneEmpty
    <3>1. CASE RunOneSubmit
      <4>1. submitting > 0 /\ outstanding = 0
        BY <1>1, <3>1 DEF RunOneSubmit
      <4> QED BY <2>1, <4>1
    <3>2. CASE RunOneTask \/ Reap \/ RunOneWait
      BY <1>1, <3>2 DEF RunOneTask, Reap, RunOneWait
    <3>3. CASE \/ MakeSocket \/ \E id \in Ids(sockets) : Release(id)
               \/ \E o \in Ops : Callback(o) \/ KernelComplete(o) \/ KernelCancel(o)
               \/ \E t \in Tokens : RequestStop(t)
               \/ Run \/ SubmitFails \/ WaitFails \/ ReapDestroyed \/ Halted \/ UNCHANGED vars
      BY <1>1, <3>3 DEF MakeSocket, Release, Callback, KernelComplete, KernelCancel,
                        RequestStop, Run, SubmitFails, WaitFails, ReapDestroyed, Halted, vars
    <3>4. ASSUME NEW o \in Ops, Start(o) PROVE FALSE
      BY <1>1, <3>4 DEF Start, StartSocket, StartTimer, StartStopped, StartTask
    <3> QED BY <1>1, <3>1, <3>2, <3>3, <3>4 DEF Next, RunOne
  <2>3. tasks = << >> /\ outstanding = 0
    BY <2>2 DEF RunOneEmpty, LoopTurn
  <2>4. Len(sq) = 0 /\ Cardinality(kernel) = 0 /\ Len(cq) = 0
    BY <2>1, <2>3
  <2>5. kernel = {}
    BY <2>1, <2>4, FS_EmptySet
  <2>6. sq = << >> /\ cq = << >>
    BY <1>1, <2>4 DEF IInv, TypeOK
  <2> QED BY <2>3, <2>5, <2>6
<1>2. IInv /\ [Next]_vars =>
        [pc # "idle" /\ pc' = "idle" =>
           tasks = << >> /\ sq = << >> /\ kernel = {} /\ cq = << >>]_vars
  BY <1>1
<1>3. IInv /\ [Next]_vars => IInv'
  BY NextIInv
<1> QED BY <1>2, <1>3, InitIInv, PTL DEF Spec, RunDrains

LEMMA StatusOfOthers ==
  ASSUME NEW o \in Ops, \A x \in Ops \ {o} : op'[x] = op[x] /\ sender'[x] = sender[x],
         NEW v, Status'[o] = v
  PROVE  Status' = [Status EXCEPT ![o] = v]
<1>1. \A x \in Ops \ {o} : Status'[x] = Status[x]
  BY DEF Status
<1>2. /\ Status = [x \in Ops |-> Status[x]]
      /\ Status' = [x \in Ops |-> Status'[x]]
  BY DEF Status
<1> QED BY <1>1, <1>2

(* uring_context.hpp and sender.hpp keep the promise of an asynchronous    *)
(* operation to its receiver, although an operation and its cancellation   *)
(* complete separately and in either order.                                *)
THEOREM AsyncOpsCorrect == Spec => ImplementsAsyncOps
<1> DEFINE Token == [o \in Ops |-> op[o].token]
<1>1. Init => Abstract!AsyncInit
  BY DEF Init, Abstract!AsyncInit, Status, NotStarted
<1>2. IInv /\ [Next]_vars => [Abstract!AsyncNext]_<<Status, Token, stop>>
  <2> SUFFICES ASSUME IInv, [Next]_vars
               PROVE  Abstract!AsyncNext \/ UNCHANGED <<Status, Token, stop>>
    OBVIOUS
  <2>1. CASE StartsOne
    <3>1. PICK o \in Ops :
             /\ op[o].kind = "none" /\ op'[o].kind # "none"
             /\ sender'[o].signals = << >>
             /\ \A x \in Ops \ {o} : op'[x] = op[x] /\ sender'[x] = sender[x]
      BY <2>1 DEF StartsOne
    <3>2. Status[o] = "idle" /\ Status'[o] = "pending"
      BY <3>1 DEF Status
    <3>3. Status' = [Status EXCEPT ![o] = "pending"]
      BY <3>1, <3>2, StatusOfOthers
    <3>4. \A p \in Ops \ {o} : Token'[p] = Token[p]
      BY <3>1
    <3>5. stop' = stop
      BY <2>1 DEF StartsOne
    <3>6. Abstract!Submit(o)
      BY <3>2, <3>3, <3>4, <3>5 DEF Abstract!Submit
    <3> QED BY <3>6 DEF Abstract!AsyncNext
  <2>2. CASE CompletesOne
    <3>1. PICK o \in Ops, sig \in Signals :
             /\ Pending(o)
             /\ sender'[o].signals = <<sig>>
             /\ sig = "stopped" => op[o].token \in stop
             /\ \A x \in Ops \ {o} : sender'[x] = sender[x]
      BY <2>2 DEF CompletesOne
    <3>2. op' = op /\ stop' = stop
      BY <2>2 DEF CompletesOne
    <3>3. Status[o] = "pending"
      BY <3>1 DEF Status, Pending
    <3>4. Status'[o] = sig
      <4>1. <<sig>> # << >> /\ Len(<<sig>>) = 1 /\ <<sig>>[1] = sig
        OBVIOUS
      <4> QED BY <3>1, <3>2, <4>1 DEF Status, Pending
    <3>5. Status' = [Status EXCEPT ![o] = sig]
      BY <3>1, <3>2, <3>4, StatusOfOthers
    <3>6. Token' = Token
      BY <3>2
    <3>7. Token[o] = op[o].token
      OBVIOUS
    <3>8. sig \in Abstract!Outcomes
      BY DEF Signals, Abstract!Outcomes
    <3> HIDE DEF Token
    <3>9. Abstract!Resolve(o)
      BY <3>1, <3>2, <3>3, <3>5, <3>6, <3>7, <3>8 DEF Abstract!Resolve, Token
    <3> QED BY <3>9 DEF Abstract!AsyncNext
  <2>3. CASE Internal
    <3>1. op' = op /\ stop' = stop /\ \A x \in Ops : sender'[x].signals = sender[x].signals
      BY <2>3 DEF Internal
    <3>2. \A x \in Ops : Status'[x] = Status[x]
      BY <3>1 DEF Status
    <3>3. Status = [x \in Ops |-> Status[x]] /\ Status' = [x \in Ops |-> Status'[x]]
      BY DEF Status
    <3>4. Status' = Status
      BY <3>2, <3>3
    <3> QED BY <3>1, <3>4
  <2>4. ASSUME NEW t \in Tokens, UNCHANGED <<op, sender>>, stop' = stop \cup {t}
        PROVE  Abstract!AsyncNext
    <3>1. UNCHANGED <<Status, Token>>
      BY <2>4 DEF Status
    <3>2. Abstract!RequestStop(t)
      BY <2>4, <3>1 DEF Abstract!RequestStop
    <3> QED BY <3>2 DEF Abstract!AsyncNext
  <2> QED BY <2>1, <2>2, <2>3, <2>4, NextIInv
<1>3. IInv /\ [Next]_vars => IInv'
  BY NextIInv
<1> QED BY <1>1, <1>2, <1>3, InitIInv, PTL
        DEF Spec, ImplementsAsyncOps, Abstract!AsyncSpec

(* The socket of a pending operation is open and has the descriptor that   *)
(* the entry of the operation was prepared with.                           *)
PendingSocketLive ==
  \A o \in Ops : Pending(o) /\ op[o].kind \in SocketKinds =>
    IsLive(sockets, op[o].id) /\ Lookup(sockets, op[o].id) = op[o].fd

LEMMA LiveKeeps ==
  ASSUME IInv, NEW id, IsLive(sockets, id),
         \/ sockets' = sockets
         \/ \E fd \in Handles : sockets' = Insert(sockets, fd)
         \/ \E old \in LiveIds(sockets) : old # id /\ sockets' = Erase(sockets, old)
  PROVE  IsLive(sockets', id) /\ Lookup(sockets', id) = Lookup(sockets, id)
<1>1. sockets \in Containers /\ FreeListSound(sockets)
  BY DEF IInv, TypeOK
<1>2. id \in LiveIds(sockets) /\ id \in Ids(sockets)
  BY DEF IsLive, LiveIds
<1>3. ASSUME NEW fd \in Handles, sockets' = Insert(sockets, fd)
      PROVE  IsLive(sockets', id) /\ Lookup(sockets', id) = Lookup(sockets, id)
  <2>1. id \in LiveIds(sockets') /\ id # InsertId(sockets)
    BY <1>1, <1>2, <1>3, InsertEffect
  <2>2. sockets'.records[id + 1] = sockets.records[id + 1]
    BY <1>1, <1>2, <1>3, <2>1, InsertEffect
  <2> QED BY <2>1, <2>2 DEF IsLive, LiveIds, Lookup
<1>4. ASSUME NEW old \in LiveIds(sockets), old # id, sockets' = Erase(sockets, old)
      PROVE  IsLive(sockets', id) /\ Lookup(sockets', id) = Lookup(sockets, id)
  <2>1. id \in LiveIds(sockets') /\ sockets'.records[id + 1] = sockets.records[id + 1]
    BY <1>1, <1>2, <1>4, EraseEffect
  <2> QED BY <2>1 DEF IsLive, LiveIds, Lookup
<1> QED BY <1>3, <1>4

(* What a step does to the sockets of pending operations and to the ring.  *)
LEMMA SocketSteps ==
  ASSUME ~CloseWithPending, IInv, [Next]_vars
  PROVE  /\ \/ sockets' = sockets
            \/ \E fd \in Handles : sockets' = Insert(sockets, fd)
            \/ \E old \in LiveIds(sockets) :
                 sockets' = Erase(sockets, old) /\ \A o \in Ops : Pending(o) => op[o].id # old
         /\ sockets' = sockets \/ kernel' = kernel
         /\ \/ StartsOne /\ sockets' = sockets
            \/ op' = op /\ \A x \in Ops : Pending(x)' => Pending(x)
<1>1. ASSUME CompletesOne \/ Internal
      PROVE  op' = op /\ \A x \in Ops : Pending(x)' => Pending(x)
  <2>1. CASE CompletesOne
    <3>1. PICK o \in Ops : Pending(o) /\ \A x \in Ops \ {o} : sender'[x] = sender[x]
      BY <2>1 DEF CompletesOne
    <3>2. op' = op
      BY <2>1 DEF CompletesOne
    <3> QED BY <3>1, <3>2 DEF Pending
  <2>2. CASE Internal
    BY <2>2 DEF Internal, Pending
  <2> QED BY <1>1, <2>1, <2>2
<1>2. CASE MakeSocket
  <2>1. \E fd \in Handles : sockets' = Insert(sockets, fd)
    BY <1>2, NewFdFree DEF MakeSocket
  <2> QED BY <1>1, <1>2, <2>1, SocketsKeep DEF MakeSocket, ringVars
<1>3. ASSUME NEW id \in Ids(sockets), Release(id)
      PROVE  /\ \E old \in LiveIds(sockets) :
                  sockets' = Erase(sockets, old) /\ \A o \in Ops : Pending(o) => op[o].id # old
             /\ kernel' = kernel
             /\ op' = op /\ \A x \in Ops : Pending(x)' => Pending(x)
  <2>1. id \in LiveIds(sockets)
    BY <1>3 DEF Release, IsLive, LiveIds
  <2> QED BY <1>1, <1>3, <2>1, SocketsKeep DEF Release, ringVars
<1>4. ASSUME NEW o \in Ops, Start(o) PROVE StartsOne /\ sockets' = sockets
  <2>1. StartsOne
    BY <1>4, StartSocketKeeps, StartTimerKeeps, StartStoppedKeeps, StartTaskKeeps DEF Start
  <2>2. sockets' = sockets
    BY <1>4 DEF Start, StartSocket, StartTimer, StartStopped, StartTask
  <2> QED BY <2>1, <2>2
<1>5. ASSUME NEW o \in Ops, Callback(o) \/ KernelComplete(o) \/ KernelCancel(o)
      PROVE  sockets' = sockets /\ Internal
  BY <1>5, CallbackKeeps, KernelCompleteKeeps, KernelCancelKeeps
     DEF Callback, KernelComplete, KernelCancel
<1>6. ASSUME NEW t \in Tokens, RequestStop(t)
      PROVE  sockets' = sockets /\ op' = op /\ \A x \in Ops : Pending(x)' => Pending(x)
  BY <1>6 DEF RequestStop, Pending
<1>7. CASE \/ Run \/ RunOneWait \/ RunOneEmpty \/ SubmitFails \/ WaitFails \/ ReapDestroyed
           \/ Halted \/ UNCHANGED vars
  <2>1. sockets' = sockets
    BY <1>7 DEF Run, RunOneWait, RunOneEmpty, SubmitFails, WaitFails, ReapDestroyed, Halted, vars
  <2> QED BY <1>1, <1>7, <2>1, LoopStepsKeep DEF Halted
<1>8. CASE RunOneTask \/ RunOneSubmit
  BY <1>1, <1>8, TaskKeeps, SubmitKeeps DEF RunOneTask, RunOneSubmit
<1>9. CASE Reap
  <2>1. kernel' = kernel /\ \/ sockets' = sockets
                            \/ \E fd \in Handles : sockets' = Insert(sockets, fd)
    <3>1. 1 \in 1 .. Len(cq)
      BY <1>9 DEF Reap, IInv, TypeOK
    <3> QED BY <1>9, <3>1 DEF Reap, IInv, CqInv
  <2> QED BY <1>1, <1>9, <2>1, ReapKeeps
<1> QED BY <1>1, <1>2, <1>3, <1>4, <1>5, <1>6, <1>7, <1>8, <1>9 DEF Next, RunOne

LEMMA StartedSocketLive ==
  ASSUME IInv, [Next]_vars, StartsOne,
         NEW o \in Ops, op[o].kind = "none", op'[o].kind \in SocketKinds
  PROVE  IsLive(sockets, op'[o].id) /\ Lookup(sockets, op'[o].id) = op'[o].fd
<1>1. op \in [Ops -> OpRecords]
  BY DEF IInv, TypeOK, OpRecords
<1>2. op'[o] # op[o]
  BY DEF SocketKinds
<1>3. ASSUME NEW x \in Ops, Start(x)
      PROVE  \E t \in Tokens, k \in SocketKinds, id \in Ids(sockets) : StartSocket(o, k, id, t)
  <2>1. ASSUME NEW r, op' = [op EXCEPT ![x] = r] PROVE x = o /\ op'[o] = r
    BY <1>1, <1>2, <2>1
  <2>2. ASSUME NEW t \in Tokens, StartTimer(x, t) \/ StartStopped(x, t) PROVE FALSE
    <3>1. op'[o].kind \in {"timer", "unsubmitted"}
      BY <2>1, <2>2 DEF StartTimer, StartStopped, Describe
    <3> QED BY <3>1 DEF SocketKinds
  <2>3. ASSUME StartTask(x) PROVE FALSE
    <3>1. op'[o].kind = "task"
      BY <2>1, <2>3 DEF StartTask, Describe
    <3> QED BY <3>1 DEF SocketKinds
  <2>4. ASSUME NEW t \in Tokens, NEW k \in SocketKinds, NEW id \in Ids(sockets),
               StartSocket(x, k, id, t)
        PROVE  x = o
    BY <2>1, <2>4 DEF StartSocket, Describe
  <2> QED BY <1>3, <2>2, <2>3, <2>4 DEF Start
<1>4. \E x \in Ops : Start(x)
  <2>1. op' # op
    BY <1>2
  <2> QED BY <2>1 DEF Next, RunOne, MakeSocket, Release, Callback, RequestStop, Run, RunOneTask,
        RunOneSubmit, RunOneWait, RunOneEmpty, Reap, SubmitFails, WaitFails, ReapDestroyed,
        KernelComplete, KernelCancel, Halted, vars, appVars
<1>5. PICK t \in Tokens, k \in SocketKinds, id \in Ids(sockets) : StartSocket(o, k, id, t)
  BY <1>3, <1>4
<1>6. op'[o].id = id /\ op'[o].fd = Lookup(sockets, id) /\ IsLive(sockets, id)
  BY <1>1, <1>5 DEF StartSocket, Describe
<1> QED BY <1>6

LEMMA NextSocketLive ==
  ASSUME ~CloseWithPending, IInv, PendingSocketLive, [Next]_vars
  PROVE  PendingSocketLive'
<1> SUFFICES ASSUME NEW o \in Ops, Pending(o)', op'[o].kind \in SocketKinds
             PROVE  IsLive(sockets', op'[o].id) /\ Lookup(sockets', op'[o].id) = op'[o].fd
  BY DEF PendingSocketLive
<1>1. CASE op[o].kind = "none" /\ StartsOne /\ sockets' = sockets
  BY <1>1, StartedSocketLive
<1>2. CASE Pending(o) /\ op'[o] = op[o]
  <2>1. IsLive(sockets, op[o].id) /\ Lookup(sockets, op[o].id) = op[o].fd
    BY <1>2 DEF PendingSocketLive
  <2>2. \/ sockets' = sockets
        \/ \E fd \in Handles : sockets' = Insert(sockets, fd)
        \/ \E old \in LiveIds(sockets) : old # op[o].id /\ sockets' = Erase(sockets, old)
    BY <1>2, SocketSteps
  <2> QED BY <1>2, <2>1, <2>2, LiveKeeps
<1>3. CASE StartsOne /\ sockets' = sockets
  <2>1. PICK p \in Ops : /\ op[p].kind = "none"
                         /\ \A x \in Ops \ {p} : op'[x] = op[x] /\ sender'[x] = sender[x]
    BY <1>3 DEF StartsOne
  <2>2. CASE o = p
    BY <1>1, <1>3, <2>1, <2>2
  <2>3. CASE o # p
    <3>1. op'[o] = op[o] /\ sender'[o] = sender[o]
      BY <2>1, <2>3
    <3>2. Pending(o)
      BY <3>1 DEF Pending
    <3> QED BY <1>2, <3>1, <3>2
  <2> QED BY <2>2, <2>3
<1>4. CASE op' = op /\ \A x \in Ops : Pending(x)' => Pending(x)
  BY <1>2, <1>4
<1> QED BY <1>3, <1>4, SocketSteps

(* As long as sockets are not closed under their operations, an entry that *)
(* is submitted late is still prepared with the descriptor of its socket.  *)
THEOREM DescriptorCorrect == ~CloseWithPending => (Spec => SubmitsOwnDescriptor)
<1> SUFFICES ASSUME ~CloseWithPending PROVE Spec => SubmitsOwnDescriptor
  OBVIOUS
<1>1. Init => PendingSocketLive
  BY DEF Init, PendingSocketLive, Pending, NotStarted
<1>2. IInv /\ PendingSocketLive /\ [Next]_vars => IInv' /\ PendingSocketLive'
  BY NextIInv, NextSocketLive
<1>3. ASSUME IInv, PendingSocketLive, [Next]_vars,
             NEW o \in Ops, OpEntry(o) \in kernel' \ kernel, op'[o].kind \in SocketKinds
      PROVE  IsLive(sockets, op'[o].id) /\ Lookup(sockets, op'[o].id) = op'[o].fd
  <2>1. IInv' /\ PendingSocketLive'
    BY <1>2, <1>3
  <2>2. Pending(o)'
    <3>1. InRing(OpEntry(o))' /\ OpInv(o)'
      BY <1>3, <2>1 DEF InRing, IInv
    <3>2. Due(OpEntry(o))' \in Nat \ {0} /\ Due(CancelEntry(o))' \in Nat
      BY <3>1 DEF Due
    <3> QED BY <3>1, <3>2 DEF OpInv, Pending
  <2>3. sockets' = sockets
    BY <1>3, SocketSteps
  <2>4. IsLive(sockets', op'[o].id) /\ Lookup(sockets', op'[o].id) = op'[o].fd
    BY <1>3, <2>1, <2>2 DEF PendingSocketLive
  <2> QED BY <2>3, <2>4
<1>4. IInv /\ PendingSocketLive /\ [Next]_vars =>
        [\A o \in Ops :
           OpEntry(o) \in kernel' \ kernel /\ op'[o].kind \in SocketKinds =>
             IsLive(sockets, op'[o].id) /\ Lookup(sockets, op'[o].id) = op'[o].fd]_vars
  BY <1>3
<1> QED BY <1>1, <1>2, <1>4, InitIInv, PTL DEF Spec, SubmitsOwnDescriptor

==============================================================================
