----------------------------- MODULE IocpContext ------------------------------
(***************************************************************************)
(* The Windows event loop: detail/iocp_context.hpp driven by               *)
(* io_context::run(), with the operation states of detail/sender.hpp on    *)
(* top of it and a completion port below it.                               *)
(*                                                                         *)
(* Every socket has an iocp_socket_data with one overlapped structure per  *)
(* direction, which the kernel writes to until the operation that uses it  *)
(* has ended.  A member of Handles stands for a socket and its data; each  *)
(* make_socket() takes a new one, so that a block that was freed is not    *)
(* mistaken for its successor.                                             *)
(*                                                                         *)
(* After the work function of a completion run_one() goes on to free a     *)
(* deferred block, so the receivers' continuations have a place of their   *)
(* own in it: pc = "work".                                                 *)
(***************************************************************************)
EXTENDS TimerList, SenderState, Container

CONSTANTS
  Ops,               \* operation states; each is started at most once
  Tokens,            \* stop tokens
  NoToken,           \* the token of an operation that was not started
  Kinds,             \* the kinds of operation the program uses
  Times,             \* deadlines the program passes to resume_at
  MaxClock,          \* the clock saturates here, at or after every deadline
  TicksPerMs,        \* ticks in a millisecond
  MaxWait,           \* INFINITE - 1 milliseconds, the longest bounded wait
  CloseWithPending,  \* the program closes sockets that have operations in flight
  WaitMayFail        \* GetQueuedCompletionStatus() may fail

IoKinds == {"accept", "connect", "receive", "send"}
AllKinds == IoKinds \cup {"poll", "timer", "task"}

ASSUME ConstantsAssumption ==
  /\ Kinds \subseteq AllKinds
  /\ NoToken \notin Tokens
  /\ MaxClock \in Nat /\ Times \subseteq 0 .. MaxClock
  /\ TicksPerMs \in Nat \ {0} /\ MaxWait \in Nat \ {0}
  /\ Handles \subseteq Nat
  /\ {CloseWithPending, WaitMayFail} \subseteq BOOLEAN

VARIABLES
  op,           \* what each operation was started with
  sender,       \* its sender_state
  sockets,      \* container: socket_id to handle and iocp_socket_data
  used,         \* handles that were given out
  tasks,        \* intrusive stack of tasks
  outstanding,  \* completions run_one() expects
  deferred,     \* list of iocp_socket_data of released sockets
  timeouts,     \* sorted list of timers
  kernel,       \* operations whose overlapped structure the kernel holds
  aborting,     \* those of them that were cancelled or whose socket was closed
  queue,        \* packets of the completion port
  pc,           \* idle; run: between run_one() calls; wait, work: in run_one()
  left,         \* ticks until the wait times out, -1 for never
  now,          \* run_one()'s local, the clock when its wait began
  clock,        \* system_clock
  halted,       \* no, assert (a failed assert) or freed (use of a freed block)
  stop,         \* tokens whose stop was requested
  stopping      \* callbacks request_stop() still has to invoke

appVars == <<op, sender, stop, stopping>>
socketVars == <<sockets, used, deferred>>
portVars == <<outstanding, kernel, aborting, queue>>
loopVars == <<pc, left, now>>
vars == <<appVars, socketVars, tasks, timeouts, portVars, loopVars, clock, halted>>

NotStarted == [kind |-> "none", id |-> 0, block |-> 0, deadline |-> 0, token |-> NoToken]

Init ==
  /\ op = [o \in Ops |-> NotStarted]
  /\ sender = [o \in Ops |-> FreshState]
  /\ sockets = EmptyContainer /\ used = {} /\ deferred = << >>
  /\ tasks = << >> /\ timeouts = << >>
  /\ outstanding = 0 /\ kernel = {} /\ aborting = {} /\ queue = << >>
  /\ pc = "idle" /\ left = 0 /\ now = 0 /\ clock = 0
  /\ halted = "no"
  /\ stop = {} /\ stopping = {}

Deadline == [o \in Ops |-> op[o].deadline]

Packets == [type : {"null"}] \cup [type : {"op"}, op : Ops, res : {"value", "error", "aborted"}]
NullPacket == [type |-> "null"]
OpPacket(o, r) == [type |-> "op", op |-> o, res |-> r]
IsPacketOf(p, o) == p.type = "op" /\ p.op = o

(* The kernel or the port refers to the overlapped structure of o. *)
InFlight(o) == o \in kernel \/ \E i \in 1 .. Len(queue) : IsPacketOf(queue[i], o)

Pending(o) == op[o].kind # "none" /\ sender[o].signals = << >>
Finished(o) == sender[o].signals # << >>

LiveBlocks == {Lookup(sockets, id) : id \in LiveIds(sockets)}

(* A unique_ptr owns the block: that of its record or the deferred list. *)
Owned(b) == b \in LiveBlocks \/ \E i \in 1 .. Len(deferred) : deferred[i] = b

FreshHandles == Handles \ used
NewHandle == CHOOSE h \in FreshHandles : \A g \in FreshHandles : h <= g

(* Control is with the program: outside run() or in a receiver. *)
ProgramRuns == halted = "no" /\ pc \in {"idle", "run", "work"}

------------------------------------------------------------------------------
(* Sockets *)

(* make_socket(d, t, p, error) when WSASocketW succeeds *)
MakeSocket ==
  /\ ProgramRuns
  /\ FreshHandles # {}
  /\ sockets' = Insert(sockets, NewHandle)
  /\ used' = used \cup {NewHandle}
  /\ UNCHANGED <<appVars, deferred, tasks, timeouts, portVars, loopVars, clock, halted>>

(* Fault: the block goes with the record. *)
DeferNothing(b) == deferred

(* While completions are expected the block is kept on a list. *)
Defer(b) == IF outstanding > 0 THEN <<b>> \o deferred ELSE deferred

(* release(id, error): closesocket() makes the kernel abort what it holds. *)
Release(id) ==
  /\ ProgramRuns
  /\ IsLive(sockets, id)
  /\ LET b == Lookup(sockets, id)
     IN  /\ CloseWithPending \/ \A o \in Ops : InFlight(o) => op[o].block # b
         /\ deferred' = Defer(b)
         /\ aborting' = aborting \cup {o \in kernel : op[o].block = b}
  /\ sockets' = Erase(sockets, id)
  /\ UNCHANGED <<appVars, used, tasks, timeouts, outstanding, kernel, queue, loopVars, clock, halted>>

------------------------------------------------------------------------------
(* Starting operations *)

CanStart(o, k, t) ==
  /\ ProgramRuns
  /\ op[o].kind = "none"
  /\ k \in Kinds
  /\ t \notin stop

Describe(o, k, id, b, deadline, t) ==
  op' = [op EXCEPT ![o] = [kind |-> k, id |-> id, block |-> b,
                           deadline |-> deadline, token |-> t]]

(* Fault: an operation that the kernel completed at once is not counted,    *)
(* although its packet is queued all the same.                              *)
SubmittedUncounted(o) ==
  /\ kernel' = kernel \cup {o}
  /\ outstanding' \in {outstanding, outstanding + 1}

(* The kernel has accepted the operation, whether or not it is done. *)
Submitted(o) ==
  /\ kernel' = kernel \cup {o}
  /\ outstanding' = outstanding + 1

(* accept(), connect(), receive(), send(): `At most one outstanding        *)
(* operation per direction' is the program's duty.                         *)
StartIo(o, k, id, t) ==
  /\ CanStart(o, k, t) /\ k \in IoKinds
  /\ IsLive(sockets, id)
  /\ \A p \in Ops : InFlight(p) => <<op[p].block, op[p].kind>> # <<Lookup(sockets, id), k>>
  /\ Describe(o, k, id, Lookup(sockets, id), 0, t)
  /\ \/ sender' = [sender EXCEPT ![o] = Started(@)] /\ Submitted(o)
     \/ sender' = [sender EXCEPT ![o] = Error(Started(@))] /\ UNCHANGED <<kernel, outstanding>>
  /\ UNCHANGED <<socketVars, tasks, timeouts, aborting, queue, loopVars, clock, halted, stop, stopping>>

(* poll() is not implemented: it returns submit_result{}, which is ready,  *)
(* and start() completes the operation.                                    *)
StartPoll(o, id, t) ==
  /\ CanStart(o, "poll", t)
  /\ IsLive(sockets, id)
  /\ Describe(o, "poll", id, Lookup(sockets, id), 0, t)
  /\ sender' = [sender EXCEPT ![o] = Complete(Started(@))]
  /\ UNCHANGED <<socketVars, tasks, timeouts, portVars, loopVars, clock, halted, stop, stopping>>

(* resume_at(): a deadline that is not in the future completes the         *)
(* operation, and start() calls complete() once more.                      *)
StartTimer(o, d, t) ==
  /\ CanStart(o, "timer", t) /\ d \in Times
  /\ Describe(o, "timer", 0, 0, d, t)
  /\ IF clock < d
     THEN /\ sender' = [sender EXCEPT ![o] = Started(@)]
          /\ timeouts' = InsertTimer(timeouts, [Deadline EXCEPT ![o] = d], o)
     ELSE /\ sender' = [sender EXCEPT ![o] = Complete(Complete(Started(@)))]
          /\ UNCHANGED timeouts
  /\ UNCHANGED <<socketVars, tasks, portVars, loopVars, clock, halted, stop, stopping>>

(* schedule(): the task is pushed on the stack and an empty packet posted  *)
(* to wake up the loop.                                                    *)
StartTask(o) ==
  /\ ProgramRuns /\ op[o].kind = "none" /\ "task" \in Kinds
  /\ Describe(o, "task", 0, 0, 0, NoToken)
  /\ tasks' = <<o>> \o tasks
  /\ queue' = Append(queue, NullPacket)
  /\ UNCHANGED <<sender, stop, stopping, socketVars, timeouts, outstanding, kernel, aborting,
                 loopVars, clock, halted>>

(* start() with a token whose stop was already requested: the callback     *)
(* runs inside emplace(), cancel() finds nothing to cancel and completes   *)
(* it, and start() cancels the operation that was never submitted.         *)
StartStopped(o, t) ==
  /\ ProgramRuns
  /\ op[o].kind = "none" /\ Kinds # {"task"}
  /\ t \in stop
  /\ Describe(o, "unsubmitted", 0, 0, 0, t)
  /\ sender' = [sender EXCEPT ![o] = Cancel(CallbackComplete(CallbackEntered(Started(@))))]
  /\ UNCHANGED <<socketVars, tasks, timeouts, portVars, loopVars, clock, halted, stop, stopping>>

------------------------------------------------------------------------------
(* Stop requests *)

(* request_stop() on the source of t *)
RequestStop(t) ==
  /\ ProgramRuns
  /\ t \notin stop
  /\ stop' = stop \cup {t}
  /\ stopping' = stopping \cup {o \in Ops : sender[o].armed /\ op[o].token = t}
  /\ UNCHANGED <<op, sender, socketVars, tasks, timeouts, portVars, loopVars, clock, halted>>

CallbackRuns(o) == ProgramRuns /\ o \in stopping

(* cancel() of a timer completes the operation and the callback. *)
CancelTimer(o) ==
  /\ CallbackRuns(o) /\ MustCancel(sender[o])
  /\ OnList(timeouts, o)
  /\ timeouts' = EraseTimer(timeouts, o)
  /\ sender' = [sender EXCEPT ![o] = CallbackComplete(Cancel(CallbackEntered(@)))]
  /\ stopping' = stopping \ {o}
  /\ UNCHANGED <<op, stop, socketVars, tasks, portVars, loopVars, clock, halted>>

(* Fault: cancel() does not ask the kernel to abort. *)
CancelIoIgnored(o) ==
  /\ CallbackRuns(o) /\ MustCancel(sender[o])
  /\ ~OnList(timeouts, o) /\ IsLive(sockets, op[o].id)
  /\ sender' = [sender EXCEPT ![o] = CallbackComplete(CallbackEntered(@))]
  /\ stopping' = stopping \ {o}
  /\ UNCHANGED <<op, stop, socketVars, tasks, timeouts, portVars, loopVars, clock, halted>>

(* cancel() of anything else completes the callback and asks the kernel to *)
(* abort the operation, on the handle its socket_id has now.               *)
CancelIo(o) ==
  /\ CallbackRuns(o) /\ MustCancel(sender[o])
  /\ ~OnList(timeouts, o) /\ IsLive(sockets, op[o].id)
  /\ aborting' = IF Lookup(sockets, op[o].id) = op[o].block
                 THEN aborting \cup ({o} \cap kernel) ELSE aborting
  /\ sender' = [sender EXCEPT ![o] = CallbackComplete(CallbackEntered(@))]
  /\ stopping' = stopping \ {o}
  /\ UNCHANGED <<op, stop, socketVars, tasks, timeouts, outstanding, kernel, queue, loopVars, clock, halted>>

(* The same with a socket_id that is no longer in the container. *)
CancelReleased(o) ==
  /\ CallbackRuns(o) /\ MustCancel(sender[o])
  /\ ~OnList(timeouts, o) /\ ~IsLive(sockets, op[o].id)
  /\ halted' = "assert"
  /\ UNCHANGED <<appVars, socketVars, tasks, timeouts, portVars, loopVars, clock>>

(* The operation was aborted because its socket was closed; cancel() has   *)
(* left the callback registered.                                           *)
CallbackLate(o) ==
  /\ CallbackRuns(o) /\ ~MustCancel(sender[o])
  /\ sender' = [sender EXCEPT ![o] = CallbackEntered(@)]
  /\ stopping' = stopping \ {o}
  /\ UNCHANGED <<op, stop, socketVars, tasks, timeouts, portVars, loopVars, clock, halted>>

------------------------------------------------------------------------------
(* The loop: io_context::run() calls run_one() until it returns 0. *)

Run ==
  /\ halted = "no" /\ pc = "idle" /\ stopping = {}
  /\ pc' = "run"
  /\ UNCHANGED <<appVars, socketVars, tasks, timeouts, portVars, left, now, clock, halted>>

LoopTurn == halted = "no" /\ pc = "run" /\ stopping = {}

(* The condition of process_timeout(t). *)
TimerDue(t) == timeouts # << >> /\ Deadline[timeouts[1]] <= t

(* process_timeout() completes the first timer. *)
FireTimer ==
  /\ timeouts' = PopTimer(timeouts)
  /\ sender' = [sender EXCEPT ![timeouts[1]] = Complete(@)]

RunOneTimeout ==
  /\ LoopTurn /\ TimerDue(clock)
  /\ FireTimer
  /\ UNCHANGED <<op, stop, stopping, socketVars, tasks, portVars, loopVars, clock, halted>>

(* process_task() completes the task on top of the stack. *)
PopTask ==
  /\ tasks' = Tail(tasks)
  /\ sender' = [sender EXCEPT ![tasks[1]] = TaskComplete(@)]

RunOneTask ==
  /\ LoopTurn /\ ~TimerDue(clock) /\ tasks # << >>
  /\ PopTask
  /\ UNCHANGED <<op, stop, stopping, socketVars, timeouts, portVars, loopVars, clock, halted>>

Idle == LoopTurn /\ ~TimerDue(clock) /\ tasks = << >>

(* Fault: timers are not looked at. *)
RunOneEmptyTimers ==
  /\ Idle /\ outstanding = 0
  /\ pc' = "idle"
  /\ UNCHANGED <<appVars, socketVars, tasks, timeouts, portVars, left, now, clock, halted>>

(* run_one() has nothing to wait for and returns 0. *)
RunOneEmpty ==
  /\ Idle /\ outstanding = 0 /\ timeouts = << >>
  /\ pc' = "idle"
  /\ UNCHANGED <<appVars, socketVars, tasks, timeouts, portVars, left, now, clock, halted>>

Least(m, n) == IF m < n THEN m ELSE n

(* timeout_ms, in ticks: whole milliseconds, or INFINITE without timers. *)
WaitTicks ==
  IF timeouts = << >> THEN -1
  ELSE TicksPerMs * Least((Deadline[timeouts[1]] - clock) \div TicksPerMs, MaxWait)

(* GetQueuedCompletionStatus() is called. *)
RunOneWait ==
  /\ Idle /\ (outstanding > 0 \/ timeouts # << >>)
  /\ pc' = "wait" /\ left' = WaitTicks /\ now' = clock
  /\ UNCHANGED <<appVars, socketVars, tasks, timeouts, portVars, clock, halted>>

Waiting == halted = "no" /\ pc = "wait"
Leave(to) == pc' = to /\ left' = 0 /\ now' = 0

(* No packet arrived in time: run_one() returns what process_timeout()     *)
(* returns, which is 0 when the rounded wait ended before the deadline.    *)
WaitTimedOut ==
  /\ Waiting /\ left = 0 /\ queue = << >>
  /\ IF TimerDue(clock)
     THEN FireTimer /\ Leave("run")
     ELSE UNCHANGED <<timeouts, sender>> /\ Leave("idle")
  /\ UNCHANGED <<op, stop, stopping, socketVars, tasks, portVars, clock, halted>>

(* Any other failure without a packet: run_one() returns 0. *)
WaitFailed ==
  /\ WaitMayFail /\ Waiting
  /\ Leave("idle")
  /\ UNCHANGED <<appVars, socketVars, tasks, timeouts, portVars, clock, halted>>

(* A packet of schedule(): run_one() returns what process_task() returns,  *)
(* which is 0 when the task was run without waiting.                       *)
DequeueNull ==
  /\ Waiting /\ queue # << >> /\ queue[1] = NullPacket
  /\ queue' = Tail(queue)
  /\ IF tasks # << >>
     THEN PopTask /\ Leave("run")
     ELSE UNCHANGED <<tasks, sender>> /\ Leave("idle")
  /\ UNCHANGED <<op, stop, stopping, socketVars, timeouts, outstanding, kernel, aborting, clock, halted>>

(* The work functions of accept() and connect() look their socket up. *)
LooksUp(o, r) == r = "value" /\ op[o].kind \in {"accept", "connect"}

(* Fault: every failure is taken for a cancellation. *)
WorkErrorStops(o, r) ==
  /\ sender' = [sender EXCEPT ![o] = IF r = "value" THEN Complete(@) ELSE Cancel(@)]
  /\ UNCHANGED <<sockets, used>>

(* The work function of o for result r.  A successful accept makes a       *)
(* socket, unless it cannot be associated with the port.  A connection     *)
(* reset ends receive and send with zero bytes, which is a value.          *)
Work(o, r) ==
  CASE r = "aborted" ->
         sender' = [sender EXCEPT ![o] = Cancel(@)] /\ UNCHANGED <<sockets, used>>
    [] r = "error" ->
         sender' = [sender EXCEPT ![o] = Error(@)] /\ UNCHANGED <<sockets, used>>
    [] r = "value" /\ op[o].kind # "accept" ->
         sender' = [sender EXCEPT ![o] = Complete(@)] /\ UNCHANGED <<sockets, used>>
    [] r = "value" /\ op[o].kind = "accept" ->
         \/ sender' = [sender EXCEPT ![o] = Error(@)] /\ UNCHANGED <<sockets, used>>
         \/ /\ FreshHandles # {}
            /\ sockets' = Insert(sockets, NewHandle) /\ used' = used \cup {NewHandle}
            /\ sender' = [sender EXCEPT ![o] = Complete(@)]

(* The packet of an operation: its work function is called. *)
DequeueOp ==
  /\ Waiting /\ queue # << >> /\ queue[1].type = "op"
  /\ LET o == queue[1].op
         r == queue[1].res
     IN  /\ Owned(op[o].block)
         /\ LooksUp(o, r) => IsLive(sockets, op[o].id)
         /\ Work(o, r)
  /\ queue' = Tail(queue)
  /\ outstanding' = outstanding - 1
  /\ Leave("work")
  /\ UNCHANGED <<op, stop, stopping, deferred, tasks, timeouts, kernel, aborting, clock, halted>>

(* The packet points into a block that was freed, or the work function     *)
(* looks up a socket_id that is no longer in the container.                *)
DequeueStale ==
  /\ Waiting /\ queue # << >> /\ queue[1].type = "op"
  /\ LET o == queue[1].op
     IN  \/ ~Owned(op[o].block) /\ halted' = "freed"
         \/ /\ Owned(op[o].block) /\ LooksUp(o, queue[1].res) /\ ~IsLive(sockets, op[o].id)
            /\ halted' = "assert"
  /\ UNCHANGED <<appVars, socketVars, tasks, timeouts, portVars, loopVars, clock>>

(* After the work function and the continuations it has called, run_one()  *)
(* frees the block at the head of the deferred list.                       *)
FreeDeferred ==
  /\ halted = "no" /\ pc = "work" /\ stopping = {}
  /\ deferred' = IF deferred = << >> THEN deferred ELSE Tail(deferred)
  /\ pc' = "run"
  /\ UNCHANGED <<appVars, sockets, used, tasks, timeouts, portVars, left, now, clock, halted>>

------------------------------------------------------------------------------
(* The environment: time and the kernel. *)

Tick ==
  /\ halted = "no"
  /\ clock < MaxClock \/ left > 0
  /\ clock' = IF clock < MaxClock THEN clock + 1 ELSE clock
  /\ left' = IF left > 0 THEN left - 1 ELSE left
  /\ UNCHANGED <<appVars, socketVars, tasks, timeouts, portVars, pc, now, halted>>

(* The kernel ends an operation and queues its packet: aborted when its    *)
(* socket was closed, possibly so when it was cancelled.                   *)
KernelComplete(o) ==
  /\ halted = "no"
  /\ o \in kernel
  /\ kernel' = kernel \ {o} /\ aborting' = aborting \ {o}
  /\ \E r \in {"value", "error", "aborted"} :
       /\ r = "aborted" => o \in aborting
       /\ op[o].block \notin LiveBlocks => r = "aborted"
       /\ queue' = Append(queue, OpPacket(o, r))
  /\ UNCHANGED <<appVars, socketVars, tasks, timeouts, outstanding, loopVars, clock, halted>>

Halted == halted # "no" /\ UNCHANGED vars

------------------------------------------------------------------------------

Start(o) ==
  \/ \E t \in Tokens :
       \/ \E k \in IoKinds, id \in Ids(sockets) : StartIo(o, k, id, t)
       \/ \E id \in Ids(sockets) : StartPoll(o, id, t)
       \/ \E d \in Times : StartTimer(o, d, t)
       \/ StartStopped(o, t)
  \/ StartTask(o)

Callback(o) == CancelTimer(o) \/ CancelIo(o) \/ CancelReleased(o) \/ CallbackLate(o)

RunOne ==
  \/ RunOneTimeout \/ RunOneTask \/ RunOneEmpty \/ RunOneWait
  \/ WaitTimedOut \/ DequeueNull \/ DequeueOp \/ DequeueStale \/ FreeDeferred

Next ==
  \/ MakeSocket
  \/ \E id \in Ids(sockets) : Release(id)
  \/ \E o \in Ops : Start(o) \/ Callback(o)
  \/ \E t \in Tokens : RequestStop(t)
  \/ Run \/ RunOne \/ WaitFailed
  \/ Tick
  \/ \E o \in Ops : KernelComplete(o)
  \/ Halted

Spec == Init /\ [][Next]_vars

(* The thread keeps executing run(), time passes, and the kernel ends the  *)
(* operations it was asked to abort.  Nothing is assumed of the others.    *)
Fairness ==
  /\ WF_vars(Run) /\ WF_vars(RunOne) /\ WF_vars(Tick)
  /\ \A o \in Ops : WF_vars(Callback(o)) /\ WF_vars(o \in aborting /\ KernelComplete(o))

FairSpec == Spec /\ Fairness

------------------------------------------------------------------------------
(* Properties *)

(* Every variable has the type of the member or parameter it models. *)
TypeOK ==
  /\ op \in [Ops -> [kind : AllKinds \cup {"none", "unsubmitted"}, id : Nat, block : Nat,
                     deadline : 0 .. MaxClock, token : Tokens \cup {NoToken}]]
  /\ sender \in [Ops -> SenderStates]
  /\ sockets \in Containers /\ used \subseteq Handles /\ deferred \in Seq(Handles)
  /\ tasks \in Seq(Ops) /\ timeouts \in Seq(Ops)
  /\ outstanding \in Nat /\ kernel \subseteq Ops /\ aborting \subseteq kernel
  /\ queue \in Seq(Packets)
  /\ pc \in {"idle", "run", "wait", "work"} /\ left \in Int /\ left >= -1
  /\ now \in 0 .. MaxClock /\ clock \in 0 .. MaxClock /\ halted \in {"no", "assert", "freed"}
  /\ stop \subseteq Tokens /\ stopping \subseteq Ops

(* `outstanding' is the number of packets of operations that are queued or *)
(* will be, so run_one() neither returns while the kernel writes to an     *)
(* overlapped structure nor waits for a packet that never comes.           *)
OutstandingExact ==
  outstanding = Cardinality(kernel) + Cardinality({i \in 1 .. Len(queue) : queue[i].type = "op"})

(* A block the kernel or the port refers to is freed in one place only:    *)
(* run_one(), after it has called the work function of a completion, frees *)
(* the block that was released last, whosever the completion was.  In      *)
(* particular closing a socket never frees the block of its operations, as *)
(* long as completions are expected exactly when there are any.            *)
FreesOnlyLastReleased ==
  \A o \in Ops :
    InFlight(o)' /\ ~Owned(op[o].block)' =>
      \/ InFlight(o) /\ ~Owned(op[o].block)
      \/ pc = "work" /\ pc' = "run" /\ deferred # << >> /\ op[o].block = deferred[1]
BlocksFreedByCompletions == [][FreesOnlyLastReleased]_vars

(* The context holds an operation exactly while its receiver waits: in the *)
(* kernel, in the port, on the list of timers or on the stack of tasks,    *)
(* and in one place only.                                                  *)
Places(o) ==
  (IF o \in kernel THEN 1 ELSE 0)
    + Cardinality({i \in 1 .. Len(queue) : IsPacketOf(queue[i], o)})
    + Cardinality({i \in 1 .. Len(timeouts) : timeouts[i] = o})
    + Cardinality({i \in 1 .. Len(tasks) : tasks[i] = o})
PendingInOnePlace == \A o \in Ops : Places(o) = IF Pending(o) THEN 1 ELSE 0

(* The two-phase cancellation leaves an operation in flight with its own   *)
(* count, and no operation is completed twice.  A timer that start() found *)
(* expired ends with -1.                                                   *)
CountMatchesState ==
  \A o \in Ops :
    /\ Pending(o) /\ op[o].kind # "task" => sender[o].count = 1
    /\ Finished(o) => Len(sender[o].signals) = 1 /\ sender[o].count <= 1
    /\ sender[o].count < 0 => op[o].kind = "timer" /\ sender[o].count = -1

(* The loop's count, the places of the operations and the counts of their  *)
(* states agree.                                                           *)
AccountsExact == OutstandingExact /\ PendingInOnePlace /\ CountMatchesState

(* As long as sockets are not closed under their operations, no socket_id  *)
(* is looked up that is not in the container.                              *)
LookupsSucceed == halted = "no"

(* run() is to return when every receiver has been completed.  It never    *)
(* returns before a task was run, and returns before another operation     *)
(* ended for one of three reasons only: it waited, and was woken up by the *)
(* packet of a task that has already run; it waited for the first timer,   *)
(* in whole milliseconds, and is less than one of them early; it waited as *)
(* long as one wait can last, because the timer was further away than that *)
(* when the wait began.                                                    *)
RunReturns ==
  [][pc # "idle" /\ pc' = "idle" =>
       /\ \A o \in Ops : op[o].kind = "task" => Finished(o)
       /\ \/ \A o \in Ops : ~Pending(o)
          \/ /\ pc = "wait" /\ queue # << >> /\ queue[1] = NullPacket
             /\ \E o \in Ops : op[o].kind = "task"
          \/ /\ pc = "wait" /\ queue = << >> /\ timeouts # << >>
             /\ \/ Deadline[timeouts[1]] - clock < TicksPerMs
                \/ /\ Deadline[timeouts[1]] - now > TicksPerMs * MaxWait
                   /\ clock - now >= TicksPerMs * MaxWait]_vars

(* The status of each operation as its receiver sees it. *)
Status ==
  [o \in Ops |->
     IF op[o].kind = "none" THEN "idle"
     ELSE IF sender[o].signals = << >> THEN "pending"
     ELSE IF Len(sender[o].signals) = 1 THEN sender[o].signals[1] ELSE "twice"]

Abstract == INSTANCE AsyncOps WITH status <- Status,
                                   tokenOf <- [o \in Ops |-> op[o].token],
                                   stopped <- stop

(* Receivers are completed at most once, and as long as sockets are not    *)
(* closed under their operations with set_stopped only after a stop        *)
(* request on their token.                                                 *)
ImplementsAsyncOps == Abstract!AsyncSpec

(* A stop request ends an operation even if it would never end by itself.  *)
StopCompletes ==
  \A o \in Ops :
    Pending(o) /\ op[o].token \in stop ~> Finished(o) \/ halted # "no"

==============================================================================
