----------------------------- MODULE UringContext -----------------------------
(***************************************************************************)
(* The Linux event loop: detail/uring_context.hpp driven by                *)
(* io_context::run(), with the operation states of detail/sender.hpp on    *)
(* top of it and the two queues of an io_uring below it.                   *)
(*                                                                         *)
(* A submission queue entry carries a pointer as its user data: the        *)
(* operation, or the stop callback of an operation, which is submitted to  *)
(* cancel it.  Cancelling is asynchronous: the operation and its           *)
(* cancellation complete separately and in either order.                   *)
(*                                                                         *)
(* connect(), receive() and send() differ only in the entry they prepare   *)
(* and are one kind, "io".                                                 *)
(***************************************************************************)
EXTENDS SenderState, Container

CONSTANTS
  Ops,               \* operation states; each is started at most once
  Tokens,            \* stop tokens
  NoToken,           \* the token of an operation that was not started
  Kinds,             \* the kinds of operation the program uses
  QueueDepth,        \* entries in the submission queue (QUEUE_DEPTH)
  PartialSubmit,     \* io_uring_submit() may take some of the entries only
  SubmitMayFail,     \* io_uring_submit() and io_uring_wait_cqe() may fail
  CloseWithPending,  \* the program closes sockets that have operations pending
  StartAfterStop     \* the program starts operations whose token was stopped

SocketKinds == {"accept", "io"}
AllKinds == SocketKinds \cup {"timer", "task"}

ASSUME ConstantsAssumption ==
  /\ Kinds \subseteq AllKinds
  /\ NoToken \notin Tokens
  /\ QueueDepth \in Nat \ {0}
  /\ Handles \subseteq Nat
  /\ {PartialSubmit, SubmitMayFail, CloseWithPending, StartAfterStop} \subseteq BOOLEAN

VARIABLES
  op,           \* what each operation was started with
  sender,       \* its sender_state
  sockets,      \* container: socket_id to native handle
  tasks,        \* intrusive stack of tasks
  submitting,   \* the counters of the context
  outstanding,
  sq,           \* submission queue, written by the program
  kernel,       \* entries the kernel has taken and not completed
  fate,         \* per operation: open, canceled or busy (too late to cancel)
  cq,           \* completion queue
  pc,           \* idle: outside run(); run: between run_one() calls; wait: in run_one()
  halted,       \* no, terminate (std::terminate) or destroyed (use of a destroyed object)
  stop,         \* tokens whose stop was requested
  stopping      \* callbacks request_stop() still has to invoke

appVars == <<op, sender, stop, stopping>>
ringVars == <<submitting, outstanding, sq, kernel, fate, cq>>
vars == <<appVars, sockets, tasks, ringVars, pc, halted>>

NotStarted == [kind |-> "none", id |-> 0, fd |-> 0, token |-> NoToken]

Init ==
  /\ op = [o \in Ops |-> NotStarted]
  /\ sender = [o \in Ops |-> FreshState]
  /\ sockets = EmptyContainer
  /\ tasks = << >>
  /\ submitting = 0 /\ outstanding = 0
  /\ sq = << >> /\ kernel = {} /\ fate = [o \in Ops |-> "open"] /\ cq = << >>
  /\ pc = "idle" /\ halted = "no"
  /\ stop = {} /\ stopping = {}

(* The user data of an entry. *)
OpEntry(o) == <<"op", o>>
CancelEntry(o) == <<"cancel", o>>
Entries == {"op", "cancel"} \X Ops

Pending(o) == op[o].kind # "none" /\ sender[o].signals = << >>
Finished(o) == sender[o].signals # << >>

(* Descriptors in use: those of sockets, and those accept(2) has returned  *)
(* in a completion that was not read.                                      *)
Accepted(c) == c.res = "ok" /\ c.entry[1] = "op" /\ op[c.entry[2]].kind = "accept"
OpenFds == {Lookup(sockets, id) : id \in LiveIds(sockets)}
             \cup {cq[i].fd : i \in {j \in 1 .. Len(cq) : Accepted(cq[j])}}
FreeFds == Handles \ OpenFds
NewFd == CHOOSE fd \in FreeFds : \A g \in FreeFds : fd <= g

(* Control is with the program: before run(), after it, or in a receiver. *)
ProgramRuns == halted = "no" /\ pc \in {"idle", "run"}

------------------------------------------------------------------------------
(* Sockets *)

(* make_socket(d, t, p, error) when socket(2) succeeds *)
MakeSocket ==
  /\ ProgramRuns
  /\ FreeFds # {}
  /\ sockets' = Insert(sockets, NewFd)
  /\ UNCHANGED <<appVars, tasks, ringVars, pc, halted>>

(* release(id, error).  Operations on the socket are not looked at. *)
Release(id) ==
  /\ ProgramRuns
  /\ IsLive(sockets, id)
  /\ CloseWithPending \/ \A o \in Ops : Pending(o) => op[o].id # id
  /\ sockets' = Erase(sockets, id)
  /\ UNCHANGED <<appVars, tasks, ringVars, pc, halted>>

------------------------------------------------------------------------------
(* The ring *)

(* How many of n entries one io_uring_submit() takes. *)
Taken(n) == IF PartialSubmit THEN 1 .. n ELSE {n}

First(queue, k) == {queue[i] : i \in 1 .. k}
Rest(queue, k) == SubSeq(queue, k + 1, Len(queue))

(* Fault: submit() forgets what it has submitted. *)
EnqueueForgets(e, k, j) ==
  LET queue == Append(Rest(sq, k), e)
  IN  /\ kernel' = kernel \cup First(sq, k) \cup First(queue, j)
      /\ sq' = Rest(queue, j)
      /\ submitting' = submitting + 1
      /\ outstanding' = outstanding + 1

(* submit() takes k entries, e is queued, and submit() takes j entries. *)
Enqueue(e, k, j) ==
  LET queue == Append(Rest(sq, k), e)
  IN  /\ kernel' = kernel \cup First(sq, k) \cup First(queue, j)
      /\ sq' = Rest(queue, j)
      /\ submitting' = submitting + 1 - (k + j)
      /\ outstanding' = outstanding + 1

(* The loop of get_sqe() submits only when the queue is full. *)
MakeRoom == IF Len(sq) < QueueDepth THEN {0} ELSE Taken(Len(sq))

(* get_sqe(e) *)
GetSqe(e) == \E k \in MakeRoom : Enqueue(e, k, 0)

(* get_sqe(e) followed by submit() *)
GetSqeAndSubmit(e) ==
  \E k \in MakeRoom : \E j \in Taken(Len(sq) - k + 1) : Enqueue(e, k, j)

(* io_uring_submit() fails: submit() throws out of a function that is      *)
(* noexcept.  It is called by run_one() and when start() or request_stop() *)
(* find the queue full or start() has queued a timer.                      *)
SubmitFails ==
  /\ SubmitMayFail /\ ProgramRuns
  /\ \/ pc = "run" /\ stopping = {} /\ tasks = << >> /\ submitting > 0
     \/ Len(sq) = QueueDepth /\ stopping # {}
     \/ /\ Len(sq) = QueueDepth \/ "timer" \in Kinds
        /\ \E o \in Ops : op[o].kind = "none"
  /\ halted' = "terminate"
  /\ UNCHANGED <<appVars, sockets, tasks, ringVars, pc>>

------------------------------------------------------------------------------
(* Starting operations *)

CanStart(o, k, t) ==
  /\ ProgramRuns
  /\ op[o].kind = "none"
  /\ k \in Kinds
  /\ t \notin stop

Describe(o, k, id, fd, t) ==
  op' = [op EXCEPT ![o] = [kind |-> k, id |-> id, fd |-> fd, token |-> t]]

(* accept(), connect(), receive(), send(): the entry is queued and         *)
(* submitted by the next run_one().                                        *)
StartSocket(o, k, id, t) ==
  /\ CanStart(o, k, t) /\ k \in SocketKinds
  /\ IsLive(sockets, id)
  /\ Describe(o, k, id, Lookup(sockets, id), t)
  /\ sender' = [sender EXCEPT ![o] = Started(@)]
  /\ GetSqe(OpEntry(o))
  /\ UNCHANGED <<sockets, tasks, fate, cq, pc, halted, stop, stopping>>

(* resume_at(): the entry points to a timespec on the stack of the         *)
(* function, which therefore submits at once.                              *)
StartTimer(o, t) ==
  /\ CanStart(o, "timer", t)
  /\ Describe(o, "timer", 0, 0, t)
  /\ sender' = [sender EXCEPT ![o] = Started(@)]
  /\ GetSqeAndSubmit(OpEntry(o))
  /\ UNCHANGED <<sockets, tasks, fate, cq, pc, halted, stop, stopping>>

(* schedule() *)
StartTask(o) ==
  /\ ProgramRuns /\ op[o].kind = "none" /\ "task" \in Kinds
  /\ Describe(o, "task", 0, 0, NoToken)
  /\ tasks' = <<o>> \o tasks
  /\ UNCHANGED <<sender, stop, stopping, sockets, ringVars, pc, halted>>

(* start() with a token whose stop was already requested: constructing     *)
(* d_callback invokes it, which queues a cancellation of an operation that *)
(* is not submitted.  d_callback, which the entry points to, is reset and  *)
(* the operation's own count dropped.                                      *)
StartStopped(o, t) ==
  /\ StartAfterStop
  /\ ProgramRuns
  /\ op[o].kind = "none" /\ Kinds # {"task"}
  /\ t \in stop
  /\ Describe(o, "unsubmitted", 0, 0, t)
  /\ sender' = [sender EXCEPT ![o] = Cancel(CallbackEntered(Started(@)))]
  /\ GetSqe(CancelEntry(o))
  /\ UNCHANGED <<sockets, tasks, fate, cq, pc, halted, stop, stopping>>

------------------------------------------------------------------------------
(* Stop requests *)

(* request_stop() on the source of t *)
RequestStop(t) ==
  /\ ProgramRuns
  /\ t \notin stop
  /\ stop' = stop \cup {t}
  /\ stopping' = stopping \cup {o \in Ops : sender[o].armed /\ op[o].token = t}
  /\ UNCHANGED <<op, sender, sockets, tasks, ringVars, pc, halted>>

(* Fault: cancel() submits nothing. *)
CallbackIgnored(o) ==
  /\ ProgramRuns /\ o \in stopping
  /\ sender' = [sender EXCEPT ![o] = CallbackComplete(CallbackEntered(@))]
  /\ stopping' = stopping \ {o}
  /\ UNCHANGED <<op, stop, sockets, tasks, ringVars, pc, halted>>

(* cancel_callback::operator()() of one operation, and the context's       *)
(* cancel(), which submits the callback as a cancellation.                 *)
Callback(o) ==
  /\ ProgramRuns /\ o \in stopping
  /\ sender' = [sender EXCEPT ![o] = CallbackEntered(@)]
  /\ IF MustCancel(sender[o])
     THEN GetSqe(CancelEntry(o))
     ELSE UNCHANGED <<submitting, outstanding, sq, kernel>>
  /\ stopping' = stopping \ {o}
  /\ UNCHANGED <<op, stop, sockets, tasks, fate, cq, pc, halted>>

------------------------------------------------------------------------------
(* The loop: io_context::run() calls run_one() until it returns 0. *)

Run ==
  /\ halted = "no" /\ pc = "idle" /\ stopping = {}
  /\ pc' = "run"
  /\ UNCHANGED <<appVars, sockets, tasks, ringVars, halted>>

LoopTurn == halted = "no" /\ pc = "run" /\ stopping = {}

(* process_task() completes the task on top of the stack. *)
RunOneTask ==
  /\ LoopTurn /\ tasks # << >>
  /\ tasks' = Tail(tasks)
  /\ sender' = [sender EXCEPT ![tasks[1]] = TaskComplete(@)]
  /\ UNCHANGED <<op, stop, stopping, sockets, ringVars, pc, halted>>

(* io_uring_submit_and_wait() *)
RunOneSubmit ==
  /\ LoopTurn /\ tasks = << >>
  /\ submitting > 0
  /\ \E k \in Taken(Len(sq)) :
       /\ kernel' = kernel \cup First(sq, k)
       /\ sq' = Rest(sq, k)
       /\ submitting' = submitting - k
  /\ pc' = IF outstanding = 0 THEN "idle" ELSE "wait"
  /\ UNCHANGED <<appVars, sockets, tasks, outstanding, fate, cq, halted>>

(* Nothing to submit, but completions are due. *)
RunOneWait ==
  /\ LoopTurn /\ tasks = << >>
  /\ submitting = 0 /\ outstanding > 0
  /\ pc' = "wait"
  /\ UNCHANGED <<appVars, sockets, tasks, ringVars, halted>>

(* Nothing to submit and nothing to wait for: run_one() returns 0. *)
RunOneEmpty ==
  /\ LoopTurn /\ tasks = << >>
  /\ submitting = 0 /\ outstanding = 0
  /\ pc' = "idle"
  /\ UNCHANGED <<appVars, sockets, tasks, ringVars, halted>>

Waiting == halted = "no" /\ pc = "wait"

(* io_uring_wait_cqe() fails, when a signal interrupts it for instance:    *)
(* wait() throws and run_one() is noexcept.                                *)
WaitFails ==
  /\ SubmitMayFail /\ Waiting /\ cq = << >>
  /\ halted' = "terminate"
  /\ UNCHANGED <<appVars, sockets, tasks, ringVars, pc>>

(* Fault: the cancellation completes the operation as well. *)
WorkCancelTwice(s, e, r) ==
  IF e[1] = "cancel" THEN Cancel(CallbackComplete(s))
  ELSE CASE r = "ok" -> Complete(s) [] r = "error" -> Error(s) [] r = "canceled" -> Cancel(s)

(* The work function of an operation, or of its callback, for result r:    *)
(* whatever the result of the cancellation is, the callback's count drops. *)
Work(s, e, r) ==
  IF e[1] = "cancel" THEN CallbackComplete(s)
  ELSE CASE r = "ok" -> Complete(s) [] r = "error" -> Error(s) [] r = "canceled" -> Cancel(s)

(* wait() takes a completion and run_one() calls its work function. *)
Reap ==
  /\ Waiting /\ cq # << >>
  /\ LET e == cq[1].entry
     IN  sender' = [sender EXCEPT ![e[2]] = Work(@, e, cq[1].res)]
  /\ sockets' = IF Accepted(cq[1]) THEN Insert(sockets, cq[1].fd) ELSE sockets
  /\ cq' = Tail(cq)
  /\ outstanding' = outstanding - 1
  /\ pc' = "run"
  /\ UNCHANGED <<op, stop, stopping, tasks, submitting, sq, kernel, fate, halted>>

(* The same with user data that points to a callback that was reset.       *)
ReapDestroyed ==
  /\ Waiting /\ cq # << >>
  /\ cq[1].entry[1] = "cancel" /\ op[cq[1].entry[2]].kind = "unsubmitted"
  /\ halted' = "destroyed"
  /\ UNCHANGED <<appVars, sockets, tasks, ringVars, pc>>

------------------------------------------------------------------------------
(* The kernel *)

Post(e, r, fd) == cq' = Append(cq, [entry |-> e, res |-> r, fd |-> fd])

(* An operation ends: as cancelled if its cancellation was successful.  An *)
(* accept needs a free descriptor.                                         *)
KernelComplete(o) ==
  /\ halted = "no"
  /\ OpEntry(o) \in kernel
  /\ kernel' = kernel \ {OpEntry(o)}
  /\ \E r \in IF fate[o] = "canceled" THEN {"canceled"} ELSE {"ok", "error"} :
       IF r = "ok" /\ op[o].kind = "accept"
       THEN FreeFds # {} /\ Post(OpEntry(o), r, NewFd)
       ELSE Post(OpEntry(o), r, 0)
  /\ UNCHANGED <<appVars, sockets, tasks, submitting, outstanding, sq, fate, pc, halted>>

(* A cancellation is carried out: the operation is in the kernel and will  *)
(* end as cancelled (0), it is too far on (EALREADY), or it is not there   *)
(* (ENOENT).                                                               *)
KernelCancel(o) ==
  /\ halted = "no"
  /\ CancelEntry(o) \in kernel
  /\ kernel' = kernel \ {CancelEntry(o)}
  /\ \E r \in IF OpEntry(o) \in kernel THEN {"ok", "already"} ELSE {"noent"} :
       /\ Post(CancelEntry(o), r, 0)
       /\ fate' = CASE r = "ok"      -> [fate EXCEPT ![o] = "canceled"]
                    [] r = "already" -> [fate EXCEPT ![o] = "busy"]
                    [] r = "noent"   -> fate
  /\ UNCHANGED <<appVars, sockets, tasks, submitting, outstanding, sq, pc, halted>>

Halted == halted # "no" /\ UNCHANGED vars

------------------------------------------------------------------------------

Start(o) ==
  \/ \E t \in Tokens :
       \/ \E k \in SocketKinds, id \in Ids(sockets) : StartSocket(o, k, id, t)
       \/ StartTimer(o, t)
       \/ StartStopped(o, t)
  \/ StartTask(o)

RunOne == RunOneTask \/ RunOneSubmit \/ RunOneWait \/ RunOneEmpty \/ Reap

Next ==
  \/ MakeSocket
  \/ \E id \in Ids(sockets) : Release(id)
  \/ \E o \in Ops : Start(o) \/ Callback(o)
  \/ \E t \in Tokens : RequestStop(t)
  \/ Run \/ RunOne \/ SubmitFails \/ WaitFails \/ ReapDestroyed
  \/ \E o \in Ops : KernelComplete(o) \/ KernelCancel(o)
  \/ Halted

Spec == Init /\ [][Next]_vars

(* The thread keeps executing run(), the kernel carries out cancellations  *)
(* and ends the operations it has cancelled or found too far on.  Nothing  *)
(* is assumed of any other operation: its peer may never answer.           *)
Fairness ==
  /\ WF_vars(Run) /\ WF_vars(RunOne)
  /\ \A o \in Ops : /\ WF_vars(Callback(o)) /\ WF_vars(KernelCancel(o))
                    /\ WF_vars(fate[o] # "open" /\ KernelComplete(o))

FairSpec == Spec /\ Fairness

------------------------------------------------------------------------------
(* Properties *)

Results == {"ok", "error", "canceled", "already", "noent"}

(* Every variable has the type of the member or queue it models. *)
TypeOK ==
  /\ op \in [Ops -> [kind : AllKinds \cup {"none", "unsubmitted"}, id : Nat,
                     fd : Handles \cup {0}, token : Tokens \cup {NoToken}]]
  /\ sender \in [Ops -> SenderStates]
  /\ sockets \in Containers /\ tasks \in Seq(Ops)
  /\ submitting \in Nat /\ outstanding \in Nat
  /\ sq \in Seq(Entries) /\ kernel \subseteq Entries
  /\ cq \in Seq([entry : Entries, res : Results, fd : Handles \cup {0}])
  /\ fate \in [Ops -> {"open", "canceled", "busy"}]
  /\ pc \in {"idle", "run", "wait"} /\ halted \in {"no", "terminate", "destroyed"}
  /\ stop \subseteq Tokens /\ stopping \subseteq Ops

(* The places in the ring that hold the user data e. *)
Occurrences(e) ==
  Cardinality({i \in 1 .. Len(sq) : sq[i] = e})
    + (IF e \in kernel THEN 1 ELSE 0)
    + Cardinality({i \in 1 .. Len(cq) : cq[i].entry = e})

(* The counters are exact: `submitting' entries wait for a submission and  *)
(* `outstanding' completions are due, so run_one() neither returns with    *)
(* completions due nor waits for one that never comes, and the asserts of  *)
(* submit(), run_one() and wait() hold.                                    *)
CountersMatchRing ==
  /\ submitting = Len(sq)
  /\ outstanding = Len(sq) + Cardinality(kernel) + Len(cq)

(* The counter of an operation state is the number of completions that     *)
(* will be delivered to it: the operation's own and its cancellation's.    *)
(* The receiver is completed with the last of them.                        *)
CountMatchesRing ==
  \A o \in Ops :
    /\ sender[o].count = Occurrences(OpEntry(o)) + Occurrences(CancelEntry(o))
    /\ op[o].kind \notin {"none", "task"} => (Finished(o) <=> sender[o].count = 0)

(* The two counts together: neither the loop nor an operation waits for a  *)
(* completion that does not come, or misses one that does.                 *)
CountersExact == CountersMatchRing /\ CountMatchesRing

(* d_callback is engaged from start() to the completion of the operation,   *)
(* unless start() found the token stopped and reset it at once.            *)
CallbackExists(o) == Pending(o) /\ op[o].kind \notin {"task", "unsubmitted"}

(* What the ring points to exists, once for each pointer: an operation that *)
(* was submitted and not completed, or its stop callback, in whatever      *)
(* order the two come back.  The stop source refers to nothing else        *)
(* either.  There is one exception, which the code makes and the model     *)
(* shows (ReapDestroyed): an operation that was started with a stopped     *)
(* token is not in the ring itself, but the cancellation it has queued     *)
(* points to the callback that start() has reset.                          *)
PointersValid ==
  \A o \in Ops :
    /\ Occurrences(OpEntry(o)) <= 1 /\ Occurrences(CancelEntry(o)) <= 1
    /\ Occurrences(OpEntry(o)) > 0 => Pending(o) /\ op[o].kind # "unsubmitted"
    /\ Occurrences(CancelEntry(o)) > 0 =>
         Pending(o) /\ (CallbackExists(o) \/ op[o].kind = "unsubmitted")
    /\ sender[o].armed => CallbackExists(o)

(* The timespec on the stack of resume_at() outlives its use: when the     *)
(* function has returned, its entry is not in the submission queue.        *)
TimespecOutlivesEntry ==
  \A i \in 1 .. Len(sq) : sq[i][1] = "op" => op[sq[i][2]].kind # "timer"

(* As long as sockets are not closed under their operations, an entry that *)
(* is submitted late is still prepared with the descriptor of its socket.  *)
SubmitsOwnDescriptor ==
  [][\A o \in Ops :
       OpEntry(o) \in kernel' \ kernel /\ op'[o].kind \in SocketKinds =>
         IsLive(sockets, op'[o].id) /\ Lookup(sockets, op'[o].id) = op'[o].fd]_vars

(* run() returns only when the context has nothing left to do. *)
RunDrains ==
  [][pc # "idle" /\ pc' = "idle" =>
       tasks = << >> /\ sq = << >> /\ kernel = {} /\ cq = << >>]_vars

(* The status of each operation as its receiver sees it. *)
Status ==
  [o \in Ops |->
     IF op[o].kind = "none" THEN "idle"
     ELSE IF sender[o].signals = << >> THEN "pending"
     ELSE IF Len(sender[o].signals) = 1 THEN sender[o].signals[1] ELSE "twice"]

Abstract == INSTANCE AsyncOps WITH status <- Status,
                                   tokenOf <- [o \in Ops |-> op[o].token],
                                   stopped <- stop

(* Receivers are completed at most once, and with set_stopped only after a *)
(* stop request on their token, in whatever order the completions of an    *)
(* operation and of its cancellation arrive.                               *)
ImplementsAsyncOps == Abstract!AsyncSpec

(* A stop request ends an operation even if it would never end by itself.  *)
StopCompletes ==
  \A o \in Ops :
    Pending(o) /\ op[o].token \in stop ~> Finished(o) \/ halted # "no"

==============================================================================
