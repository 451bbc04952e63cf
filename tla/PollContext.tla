----------------------------- MODULE PollContext -----------------------------
(***************************************************************************)
(* The default event loop: detail/poll_context.hpp driven by               *)
(* io_context::run(), with the operation states of detail/sender.hpp on    *)
(* top of it and poll(2), the sockets and the clock below it.              *)
(*                                                                         *)
(* Everything runs on one thread (the context takes no lock and wakeup()   *)
(* is empty), so the interleaving is that of the program's own code with   *)
(* the loop: the receivers' continuations start operations, request stops  *)
(* and close sockets whenever control is with them, i.e. while the thread  *)
(* is not inside poll(2).  Every function of the context changes its lists *)
(* before it completes an operation and touches none afterwards, hence a   *)
(* continuation may be taken as later steps of the program.                *)
(*                                                                         *)
(* Time is counted in ticks; TicksPerMs of them make the millisecond that  *)
(* poll(2) counts in.                                                      *)
(***************************************************************************)
EXTENDS TimerList, SenderState, Container

CONSTANTS
  Ops,               \* operation states; each is started at most once
  Tokens,            \* stop tokens
  NoToken,           \* the token of an operation that was not started
  Kinds,             \* the kinds of operation the program uses
  Times,             \* deadlines the program passes to resume_at
  MaxClock,          \* the clock saturates here, at or after every deadline
  TicksPerMs,        \* ticks in a millisecond
  IntRange,          \* an int holds -IntRange .. IntRange - 1
  MaxIntr,           \* bound: poll(2) calls interrupted by a signal
  CloseWithPending,  \* the program closes sockets that have operations queued
  Spurious,          \* readiness may be gone when the operation is tried
  PollMayFail        \* poll(2) may fail with another error than EINTR, EAGAIN

PolledKinds == {"poll", "accept", "receive", "send"}
SenderKinds == PolledKinds \cup {"connect", "timer"}
AllKinds == SenderKinds \cup {"task"}

ASSUME ConstantsAssumption ==
  /\ Kinds \subseteq AllKinds
  /\ NoToken \notin Tokens
  /\ MaxClock \in Nat /\ Times \subseteq 0 .. MaxClock
  /\ TicksPerMs \in Nat \ {0} /\ IntRange \in Nat \ {0}
  /\ MaxIntr \in Nat
  /\ Handles \subseteq Nat
  /\ {CloseWithPending, Spurious, PollMayFail} \subseteq BOOLEAN

VARIABLES
  op,            \* what each operation was started with
  sender,        \* its sender_state
  d_sockets,     \* container: socket_id to native handle
  d_poll,        \* vector<pollfd>
  d_outstanding, \* vector<io_base*>, parallel to d_poll
  d_timeouts,    \* sorted list of timers
  d_tasks,       \* intrusive stack of tasks
  pc,            \* idle: outside run(); run: between run_one() calls; poll: in poll(2)
  now,           \* run_one()'s local `now'
  left,          \* ticks until poll(2) times out, -1 for never
  intr,          \* interrupted calls so far
  halted,        \* no, terminate (std::terminate) or assert (a failed assert)
  stop,          \* tokens whose stop was requested
  stopping,      \* callbacks request_stop() still has to invoke
  clock,         \* system_clock
  ready,         \* <<fd, event>> pairs poll(2) would report
  nonblocking    \* descriptors with O_NONBLOCK

appVars == <<op, sender, stop, stopping>>
queueVars == <<d_poll, d_outstanding, d_timeouts, d_tasks>>
loopVars == <<pc, now, left, intr>>
kernelVars == <<clock, ready, nonblocking>>
vars == <<appVars, d_sockets, queueVars, loopVars, halted, kernelVars>>

NotStarted == [kind |-> "none", id |-> 0, events |-> {}, deadline |-> 0, token |-> NoToken]

Init ==
  /\ op = [o \in Ops |-> NotStarted]
  /\ sender = [o \in Ops |-> FreshState]
  /\ d_sockets = EmptyContainer
  /\ d_poll = << >> /\ d_outstanding = << >> /\ d_timeouts = << >> /\ d_tasks = << >>
  /\ pc = "idle" /\ now = 0 /\ left = 0 /\ intr = 0
  /\ halted = "no"
  /\ stop = {} /\ stopping = {}
  /\ clock = 0 /\ ready = {} /\ nonblocking = {}

Deadline == [o \in Ops |-> op[o].deadline]

Cancellable(o) == OnList(d_outstanding, o) \/ OnList(d_timeouts, o)
Queued(o) == Cancellable(o) \/ OnList(d_tasks, o)

OpenFds == {Lookup(d_sockets, id) : id \in LiveIds(d_sockets)}
FreeFds == Handles \ OpenFds
NewFd == CHOOSE fd \in FreeFds : \A g \in FreeFds : fd <= g

(* Control is with the program: before run(), after it, or in a receiver. *)
ProgramRuns == halted = "no" /\ pc \in {"idle", "run"}

------------------------------------------------------------------------------
(* Sockets *)

(* make_socket(d, t, p, error) when socket(2) succeeds.  When it fails only *)
(* the error code is set.                                                   *)
MakeSocket ==
  /\ ProgramRuns
  /\ FreeFds # {}
  /\ d_sockets' = Insert(d_sockets, NewFd)
  /\ UNCHANGED <<appVars, queueVars, loopVars, halted, kernelVars>>

(* release(id, error), from the destructor of a socket or from close().    *)
(* Operations queued for the socket are not looked at.                     *)
Release(id) ==
  /\ ProgramRuns
  /\ IsLive(d_sockets, id)
  /\ CloseWithPending \/ \A i \in 1 .. Len(d_outstanding) : op[d_outstanding[i]].id # id
  /\ d_sockets' = Erase(d_sockets, id)
  /\ LET fd == Lookup(d_sockets, id)
     IN  /\ ready' = {r \in ready : r[1] # fd}
         /\ nonblocking' = nonblocking \ {fd}
  /\ UNCHANGED <<appVars, queueVars, loopVars, halted, clock>>

------------------------------------------------------------------------------
(* Starting operations: sender_state::start() and the context's submission *)
(* functions.                                                              *)

EventMasks(k) ==
  CASE k \in {"accept", "receive"} -> {{"in"}}
    [] k = "send"                  -> {{"out"}}
    [] k = "connect"               -> {{"in", "out"}}
    [] k = "poll"                  -> {{"in"}, {"out"}, {"in", "out"}}

CanStart(o, k, t) ==
  /\ ProgramRuns
  /\ op[o].kind = "none"
  /\ k \in Kinds
  /\ t \notin stop

Describe(o, k, id, events, deadline, t) ==
  op' = [op EXCEPT ![o] = [kind |-> k, id |-> id, events |-> events,
                           deadline |-> deadline, token |-> t]]

(* add_outstanding(completion).  poll_record::blocking is true from its    *)
(* initializer on, so the work is never tried before the first poll(2).    *)
AddOutstanding(o, id, events) ==
  /\ d_poll' = Append(d_poll, [fd |-> Lookup(d_sockets, id), events |-> events])
  /\ d_outstanding' = Append(d_outstanding, o)

(* poll(), accept(), receive(), send() *)
StartPolled(o, k, id, events, t) ==
  /\ CanStart(o, k, t) /\ k \in PolledKinds /\ events \in EventMasks(k)
  /\ IsLive(d_sockets, id)
  /\ Describe(o, k, id, events, 0, t)
  /\ sender' = [sender EXCEPT ![o] = Started(@)]
  /\ AddOutstanding(o, id, events)
  /\ UNCHANGED <<d_sockets, d_timeouts, d_tasks, loopVars, halted, stop, stopping, kernelVars>>

(* connect(): the descriptor is made non-blocking and connect(2) is        *)
(* called.  It is still in progress: the operation is queued.              *)
StartConnect(o, id, t) ==
  /\ CanStart(o, "connect", t)
  /\ IsLive(d_sockets, id)
  /\ Describe(o, "connect", id, {"in", "out"}, 0, t)
  /\ sender' = [sender EXCEPT ![o] = Started(@)]
  /\ AddOutstanding(o, id, {"in", "out"})
  /\ nonblocking' = nonblocking \cup {Lookup(d_sockets, id)}
  /\ UNCHANGED <<d_sockets, d_timeouts, d_tasks, loopVars, halted, stop, stopping, clock, ready>>

(* A function that completes the operation before it returns `ready': the  *)
(* caller, start(), then calls complete() once more.                       *)
CompletedInSubmit(s) == Complete(Complete(Started(s)))

(* connect() when fcntl(2) or connect(2) fails, or connect(2) succeeds at  *)
(* once.                                                                   *)
StartConnectInline(o, id, t) ==
  /\ CanStart(o, "connect", t)
  /\ IsLive(d_sockets, id)
  /\ Describe(o, "connect", id, {"in", "out"}, 0, t)
  /\ \/ /\ sender' = [sender EXCEPT ![o] = Error(Started(@))]
        /\ UNCHANGED nonblocking
     \/ /\ \/ sender' = [sender EXCEPT ![o] = CompletedInSubmit(@)]
           \/ sender' = [sender EXCEPT ![o] = Error(Started(@))]
        /\ nonblocking' = nonblocking \cup {Lookup(d_sockets, id)}
  /\ UNCHANGED <<d_sockets, queueVars, loopVars, halted, stop, stopping, clock, ready>>

(* resume_at(), resume_after(): a deadline in the future is put on the     *)
(* list, any other completes the operation at once.                        *)
StartTimer(o, d, t) ==
  /\ CanStart(o, "timer", t) /\ d \in Times
  /\ Describe(o, "timer", 0, {}, d, t)
  /\ IF clock < d
     THEN /\ sender' = [sender EXCEPT ![o] = Started(@)]
          /\ d_timeouts' = InsertTimer(d_timeouts, [Deadline EXCEPT ![o] = d], o)
     ELSE /\ sender' = [sender EXCEPT ![o] = CompletedInSubmit(@)]
          /\ UNCHANGED d_timeouts
  /\ UNCHANGED <<d_sockets, d_poll, d_outstanding, d_tasks, loopVars, halted, stop, stopping, kernelVars>>

(* io_context_scheduler::schedule() and context_base::schedule(): pushed   *)
(* on the stack of tasks.  A task has no stop callback.                    *)
StartTask(o) ==
  /\ ProgramRuns /\ op[o].kind = "none" /\ "task" \in Kinds
  /\ Describe(o, "task", 0, {}, 0, NoToken)
  /\ d_tasks' = <<o>> \o d_tasks
  /\ UNCHANGED <<sender, stop, stopping, d_sockets, d_poll, d_outstanding, d_timeouts,
                 loopVars, halted, kernelVars>>

(* start() with a token whose stop was already requested: constructing     *)
(* d_callback invokes it, which asks the context to cancel an operation    *)
(* that was never submitted.  cancel() finds it on neither list.           *)
StartStopped(o, t) ==
  /\ ProgramRuns
  /\ op[o].kind = "none" /\ Kinds \cap SenderKinds # {}
  /\ t \in stop
  /\ MustCancel([FreshState EXCEPT !.count = @ + 1])
  /\ halted' = "terminate"
  /\ UNCHANGED <<appVars, d_sockets, queueVars, loopVars, kernelVars>>

------------------------------------------------------------------------------
(* Stop requests *)

(* Faults of remove_outstanding(): the last element is dropped instead of   *)
(* moved; the vector is cut at i.                                          *)
RemoveLast(list, i) == [k \in 1 .. Len(list) - 1 |-> list[k]]
RemoveTail(list, i) == [k \in 1 .. i - 1 |-> list[k]]

(* remove_outstanding(i): the last element takes the place of the removed. *)
RemoveOutstanding(list, i) ==
  [k \in 1 .. Len(list) - 1 |-> IF k = i THEN list[Len(list)] ELSE list[k]]

(* Fault: the callbacks of every token are invoked. *)
RequestStopAll(t) ==
  /\ ProgramRuns
  /\ t \notin stop
  /\ stop' = stop \cup {t}
  /\ stopping' = stopping \cup {o \in Ops : sender[o].armed}
  /\ UNCHANGED <<op, sender, d_sockets, queueVars, loopVars, halted, kernelVars>>

(* request_stop() on the source of t: the callbacks registered with t are  *)
(* invoked one after the other.                                            *)
RequestStop(t) ==
  /\ ProgramRuns
  /\ t \notin stop
  /\ stop' = stop \cup {t}
  /\ stopping' = stopping \cup {o \in Ops : sender[o].armed /\ op[o].token = t}
  /\ UNCHANGED <<op, sender, d_sockets, queueVars, loopVars, halted, kernelVars>>

(* Fault: cancel() does not complete cancel_op. *)
CancelledHalf(s) == Cancel(CallbackEntered(s))

(* cancel(cancel_op, op) for an operation it finds: op->cancel() drops the *)
(* operation's own count, cancel_op->cancel() the callback's.              *)
Cancelled(s) == CallbackComplete(Cancel(CallbackEntered(s)))

(* cancel_callback::operator()() of one operation and the context's        *)
(* cancel(): the operation is waiting for a descriptor, ...                *)
CancelOutstanding(o) ==
  /\ ProgramRuns /\ o \in stopping
  /\ MustCancel(sender[o])
  /\ \E i \in 1 .. Len(d_outstanding) :
       /\ d_outstanding[i] = o
       /\ d_poll' = RemoveOutstanding(d_poll, i)
       /\ d_outstanding' = RemoveOutstanding(d_outstanding, i)
  /\ sender' = [sender EXCEPT ![o] = Cancelled(@)]
  /\ stopping' = stopping \ {o}
  /\ UNCHANGED <<op, stop, d_sockets, d_timeouts, d_tasks, loopVars, halted, kernelVars>>

(* ... for a timer, ... *)
CancelTimer(o) ==
  /\ ProgramRuns /\ o \in stopping
  /\ MustCancel(sender[o])
  /\ ~OnList(d_outstanding, o) /\ OnList(d_timeouts, o)
  /\ d_timeouts' = EraseTimer(d_timeouts, o)
  /\ sender' = [sender EXCEPT ![o] = Cancelled(@)]
  /\ stopping' = stopping \ {o}
  /\ UNCHANGED <<op, stop, d_sockets, d_poll, d_outstanding, d_tasks, loopVars, halted, kernelVars>>

(* ... or for neither. *)
CancelUnknown(o) ==
  /\ ProgramRuns /\ o \in stopping
  /\ MustCancel(sender[o])
  /\ ~OnList(d_outstanding, o) /\ ~OnList(d_timeouts, o)
  /\ halted' = "terminate"
  /\ UNCHANGED <<appVars, d_sockets, queueVars, loopVars, kernelVars>>

------------------------------------------------------------------------------
(* The loop: io_context::run() calls run_one() until it returns 0. *)

Run ==
  /\ halted = "no" /\ pc = "idle" /\ stopping = {}
  /\ pc' = "run"
  /\ UNCHANGED <<appVars, d_sockets, queueVars, now, left, intr, halted, kernelVars>>

LoopTurn == halted = "no" /\ pc = "run" /\ stopping = {}

(* Fault: the deadline is not compared. *)
TimerWaiting(t) == d_timeouts # << >>

(* The condition of process_timeout(t). *)
TimerDue(t) == d_timeouts # << >> /\ Deadline[d_timeouts[1]] <= t

FirstTimer == d_timeouts[1]

(* run_one(): process_timeout(now) completes the first timer when it is due. *)
RunOneTimeout ==
  /\ LoopTurn /\ TimerDue(clock)
  /\ d_timeouts' = PopTimer(d_timeouts)
  /\ sender' = [sender EXCEPT ![FirstTimer] = Complete(@)]
  /\ UNCHANGED <<op, stop, stopping, d_sockets, d_poll, d_outstanding, d_tasks,
                 loopVars, halted, kernelVars>>

(* run_one(): process_task() completes the task on top of the stack. *)
RunOneTask ==
  /\ LoopTurn /\ ~TimerDue(clock)
  /\ d_tasks # << >>
  /\ d_tasks' = Tail(d_tasks)
  /\ sender' = [sender EXCEPT ![d_tasks[1]] = TaskComplete(@)]
  /\ UNCHANGED <<op, stop, stopping, d_sockets, d_poll, d_outstanding, d_timeouts,
                 loopVars, halted, kernelVars>>

(* run_one() has nothing to wait for and returns 0, which ends run(). *)
RunOneEmpty ==
  /\ LoopTurn /\ ~TimerDue(clock) /\ d_tasks = << >>
  /\ d_poll = << >> /\ d_timeouts = << >>
  /\ pc' = "idle"
  /\ UNCHANGED <<appVars, d_sockets, queueVars, now, left, intr, halted, kernelVars>>

(* Fault: rounded up instead of down. *)
ToMillisecondsUp(ticks) ==
  (((ticks + TicksPerMs - 1) \div TicksPerMs + IntRange) % (2 * IntRange)) - IntRange

(* to_milliseconds(duration): whole milliseconds, converted to int. *)
ToMilliseconds(ticks) ==
  ((ticks \div TicksPerMs + IntRange) % (2 * IntRange)) - IntRange

(* How long poll(2) sleeps when run_one() computes its timeout from t: the *)
(* argument is in milliseconds and a negative one means for ever.          *)
SleepTicks(t) ==
  LET next == ValueOr(d_timeouts, Deadline, t)
      timeout == IF t = next THEN -1 ELSE ToMilliseconds(next - t)
  IN  IF timeout < 0 THEN -1 ELSE timeout * TicksPerMs

(* run_one() enters poll(2). *)
RunOnePoll ==
  /\ LoopTurn /\ ~TimerDue(clock) /\ d_tasks = << >>
  /\ d_poll # << >> \/ d_timeouts # << >>
  /\ pc' = "poll" /\ now' = clock /\ left' = SleepTicks(clock)
  /\ UNCHANGED <<appVars, d_sockets, queueVars, intr, halted, kernelVars>>

InPoll == halted = "no" /\ pc = "poll"

(* poll(2) was interrupted: the loop starts over.  `now' is not refreshed. *)
PollInterrupted ==
  /\ InPoll /\ intr < MaxIntr
  /\ intr' = intr + 1
  /\ left' = SleepTicks(now)
  /\ UNCHANGED <<appVars, d_sockets, queueVars, pc, now, halted, kernelVars>>

LeavePoll(to) == pc' = to /\ now' = 0 /\ left' = 0

(* Any other error of poll(2): run_one() returns 0. *)
PollFailed ==
  /\ InPoll /\ PollMayFail
  /\ LeavePoll("idle")
  /\ UNCHANGED <<appVars, d_sockets, queueVars, intr, halted, kernelVars>>

(* d_poll[i].revents & (d_poll[i].events | POLLERR): an error condition is *)
(* reported as readiness for every event; POLLNVAL, reported for a closed  *)
(* descriptor, is in neither mask.                                         *)
Signalled(i) == \E e \in d_poll[i].events : <<d_poll[i].fd, e>> \in ready

(* The entry the scan from the back of d_poll stops at. *)
Found(i) ==
  /\ i \in 1 .. Len(d_poll) /\ Signalled(i)
  /\ \A j \in i + 1 .. Len(d_poll) : ~Signalled(j)

(* How the work of an operation can end.  A would-block error needs a      *)
(* descriptor that connect() made non-blocking; accept(2) needs a free     *)
(* descriptor.  EINTR is retried; ECONNRESET and EPIPE complete a transfer *)
(* with zero bytes, which is a value.                                      *)
WorkResults(o) ==
  LET fd == Lookup(d_sockets, op[o].id)
  IN  CASE op[o].kind = "poll" -> {"value"}
        [] op[o].kind = "connect" -> {"value", "error"}
        [] OTHER -> {r \in {"value", "error", "submit"} :
                       /\ r = "submit" => Spurious /\ fd \in nonblocking
                       /\ r = "value" /\ op[o].kind = "accept" => FreeFds # {}}

(* The effect of a result on the operation: run_one() ignores the          *)
(* submit_result, so `submit' leaves the operation to nobody.              *)
Apply(s, r) ==
  CASE r = "value"  -> Complete(s)
    [] r = "error"  -> Error(s)
    [] r = "submit" -> s

(* run_one() takes the entry at i out of the vectors and calls the work of *)
(* its operation, which ends with r.                                       *)
Serve(i, r) ==
  LET o == d_outstanding[i]
  IN  /\ d_poll' = RemoveOutstanding(d_poll, i)
      /\ d_outstanding' = RemoveOutstanding(d_outstanding, i)
      /\ sender' = [sender EXCEPT ![o] = Apply(@, r)]
      /\ d_sockets' = IF op[o].kind = "accept" /\ r = "value"
                      THEN Insert(d_sockets, NewFd) ELSE d_sockets
      /\ ready' = ready \ {<<d_poll[i].fd, e>> : e \in d_poll[i].events}
      /\ LeavePoll("run")
      /\ UNCHANGED <<op, stop, stopping, d_timeouts, d_tasks, intr, halted, clock, nonblocking>>

(* run_one() found a ready entry.  The work looks the socket up again by   *)
(* its id (all but async_poll's).                                          *)
PollServe ==
  /\ InPoll
  /\ \E i \in 1 .. Len(d_poll) :
       /\ Found(i)
       /\ op[d_outstanding[i]].kind = "poll" \/ IsLive(d_sockets, op[d_outstanding[i]].id)
       /\ \E r \in WorkResults(d_outstanding[i]) : Serve(i, r)

(* The same with a socket_id that is no longer in the container.           *)
PollServeReleased ==
  /\ InPoll
  /\ \E i \in 1 .. Len(d_poll) :
       LET o == d_outstanding[i]
       IN  /\ Found(i)
           /\ op[o].kind # "poll" /\ ~IsLive(d_sockets, op[o].id)
  /\ halted' = "assert"
  /\ UNCHANGED <<appVars, d_sockets, queueVars, loopVars, kernelVars>>

(* poll(2) returned and no entry is ready: it timed out or reported a      *)
(* closed descriptor.                                                      *)
PollIdle ==
  /\ InPoll
  /\ left = 0 \/ \E i \in 1 .. Len(d_poll) : d_poll[i].fd \notin OpenFds
  /\ \A i \in 1 .. Len(d_poll) : ~Signalled(i)

(* process_timeout(system_clock::now()) finds a timer that is due, ... *)
PollTimeout ==
  /\ PollIdle /\ TimerDue(clock)
  /\ d_timeouts' = PopTimer(d_timeouts)
  /\ sender' = [sender EXCEPT ![FirstTimer] = Complete(@)]
  /\ LeavePoll("run")
  /\ UNCHANGED <<op, stop, stopping, d_sockets, d_poll, d_outstanding, d_tasks,
                 intr, halted, kernelVars>>

(* ... or none, and poll(2) is called with the same timeout again. *)
PollAgain ==
  /\ PollIdle /\ ~TimerDue(clock)
  /\ left' = SleepTicks(now)
  /\ UNCHANGED <<appVars, d_sockets, queueVars, pc, now, intr, halted, kernelVars>>

------------------------------------------------------------------------------
(* The environment: time and the kernel. *)

Tick ==
  /\ halted = "no"
  /\ clock < MaxClock \/ left > 0
  /\ clock' = IF clock < MaxClock THEN clock + 1 ELSE clock
  /\ left' = IF left > 0 THEN left - 1 ELSE left
  /\ UNCHANGED <<appVars, d_sockets, queueVars, pc, now, intr, halted, ready, nonblocking>>

(* A descriptor somebody waits for becomes ready.  It is looked at in      *)
(* poll(2) only, and readiness lasts until the operation is tried.         *)
KernelReady(fd, e) ==
  /\ InPoll
  /\ fd \in OpenFds /\ <<fd, e>> \notin ready
  /\ \E i \in 1 .. Len(d_poll) : d_poll[i].fd = fd /\ e \in d_poll[i].events
  /\ ready' = ready \cup {<<fd, e>>}
  /\ UNCHANGED <<appVars, d_sockets, queueVars, loopVars, halted, clock, nonblocking>>

(* std::terminate and a failed assert end the process. *)
Halted == halted # "no" /\ UNCHANGED vars

------------------------------------------------------------------------------

Events == {"in", "out"}

Start(o) ==
  \/ \E t \in Tokens :
       \/ \E k \in PolledKinds, id \in Ids(d_sockets) :
            \E events \in EventMasks(k) : StartPolled(o, k, id, events, t)
       \/ \E id \in Ids(d_sockets) : StartConnect(o, id, t) \/ StartConnectInline(o, id, t)
       \/ \E d \in Times : StartTimer(o, d, t)
       \/ StartStopped(o, t)
  \/ StartTask(o)

Callback(o) == CancelOutstanding(o) \/ CancelTimer(o) \/ CancelUnknown(o)

RunOne == RunOneTimeout \/ RunOneTask \/ RunOneEmpty \/ RunOnePoll

PollReturn ==
  PollServe \/ PollServeReleased \/ PollTimeout \/ PollAgain

Next ==
  \/ MakeSocket
  \/ \E id \in Ids(d_sockets) : Release(id)
  \/ \E o \in Ops : Start(o) \/ Callback(o)
  \/ \E t \in Tokens : RequestStop(t)
  \/ Run \/ RunOne
  \/ PollReturn \/ PollInterrupted \/ PollFailed
  \/ Tick
  \/ \E fd \in Handles, e \in Events : KernelReady(fd, e)
  \/ Halted

Spec == Init /\ [][Next]_vars

(* What liveness needs of the environment and of the program: the thread   *)
(* keeps executing, run() is called again after it returned, time passes,  *)
(* and a descriptor that is polled for becomes ready at some point.        *)
Fairness ==
  /\ WF_vars(Run) /\ WF_vars(RunOne) /\ WF_vars(PollReturn) /\ WF_vars(Tick)
  /\ \A o \in Ops : WF_vars(Callback(o))
  /\ \A fd \in Handles, e \in Events : WF_vars(KernelReady(fd, e))

FairSpec == Spec /\ Fairness

------------------------------------------------------------------------------
(* Properties *)

OpRecords == [kind : AllKinds \cup {"none"}, id : Nat, events : SUBSET Events,
              deadline : 0 .. MaxClock, token : Tokens \cup {NoToken}]

PollFds == [fd : Handles, events : SUBSET Events]

(* Every variable has the type of the data member or parameter it models.  *)
TypeOK ==
  /\ op \in [Ops -> OpRecords]
  /\ sender \in [Ops -> SenderStates]
  /\ d_sockets \in Containers
  /\ d_poll \in Seq(PollFds)
  /\ d_outstanding \in Seq(Ops) /\ d_timeouts \in Seq(Ops) /\ d_tasks \in Seq(Ops)
  /\ pc \in {"idle", "run", "poll"}
  /\ now \in 0 .. MaxClock /\ left \in Int /\ left >= -1 /\ intr \in Nat
  /\ halted \in {"no", "terminate", "assert"}
  /\ stop \subseteq Tokens /\ stopping \subseteq Ops
  /\ clock \in 0 .. MaxClock
  /\ ready \subseteq Handles \X Events /\ nonblocking \subseteq Handles

Pending(o) == op[o].kind # "none" /\ sender[o].signals = << >>
Finished(o) == sender[o].signals # << >>

(* No list holds an operation twice, and no operation is on two lists.     *)
OnOneList ==
  /\ \A list \in {d_outstanding, d_timeouts, d_tasks} :
       \A i, j \in 1 .. Len(list) : list[i] = list[j] => i = j
  /\ \A o \in Ops : ~(OnList(d_outstanding, o) /\ OnList(d_timeouts, o))
  /\ \A o \in Ops : OnList(d_tasks, o) => ~Cancellable(o)

(* The context holds no pointer to an operation state that may be gone:    *)
(* whatever is on one of its lists was started and has not been completed, *)
(* and is there once.  A receiver is free to destroy its operation state   *)
(* as soon as it is completed.                                             *)
NoDanglingOperation ==
  /\ OnOneList
  /\ \A o \in Ops : Queued(o) => Pending(o)

(* The vectors d_poll and d_outstanding describe the same operations, in   *)
(* spite of remove_outstanding() filling the hole from the back.           *)
VectorsParallel ==
  /\ Len(d_poll) = Len(d_outstanding)
  /\ \A i \in 1 .. Len(d_poll) :
       d_poll[i].events = op[d_outstanding[i]].events

(* The lists of the context are sound, whatever the descriptors do: what   *)
(* they hold is waited for, and entry and operation belong together.       *)
ListsSound == NoDanglingOperation /\ VectorsParallel

(* As long as sockets are not closed under their operations, the           *)
(* descriptor an entry is polled for is the one its work will use: the id  *)
(* of a queued operation stays live and is never recycled.                 *)
QueuedSocketLive ==
  \A i \in 1 .. Len(d_poll) :
    LET id == op[d_outstanding[i]].id
    IN  IsLive(d_sockets, id) /\ d_poll[i].fd = Lookup(d_sockets, id)

(* Without spurious readiness nothing is lost: an operation that was       *)
(* started and not completed is on one of the context's lists.             *)
PendingIsQueued == \A o \in Ops : Pending(o) => Queued(o)

(* A registered stop callback always finds its operation, so cancel()      *)
(* reaches std::terminate from start() only.                               *)
CancelFindsOperation ==
  \A o \in Ops : sender[o].armed \/ o \in stopping => Cancellable(o)

(* Without spurious readiness no operation is out of reach of the loop and *)
(* none of a stop request.                                                 *)
NothingLost == PendingIsQueued /\ CancelFindsOperation

(* d_outstanding counts what it should: 1 for an operation in flight, and  *)
(* after completion 0, or -1 when start() called complete() on an          *)
(* operation its submission had completed already; that happens to         *)
(* connect and timers only, and never to an operation that was queued.     *)
CountMatchesState ==
  \A o \in Ops :
    /\ Pending(o) /\ op[o].kind # "task" => sender[o].count = 1
    /\ Finished(o) => sender[o].count \in {0, -1} /\ Len(sender[o].signals) = 1
    /\ sender[o].count = -1 =>
         op[o].kind \in {"connect", "timer"} /\ sender[o].signals = <<"value">> /\ ~Queued(o)

(* d_timeouts is ordered by deadline. *)
TimersOrdered == Ordered(d_timeouts, Deadline)

(* A queued timer is completed with a value only at or after its deadline, *)
(* and before any queued timer with a later deadline.                      *)
TimersFireInOrder ==
  [][\A o \in Ops :
       /\ OnList(d_timeouts, o)
       /\ sender[o].signals = << >> /\ sender'[o].signals = <<"value">>
       => /\ Deadline[o] <= clock
          /\ \A i \in 1 .. Len(d_timeouts) : Deadline[d_timeouts[i]] >= Deadline[o]]_vars

(* poll(2) is never told to sleep for ever, or past the time that was left *)
(* when run_one() looked at the clock, while a timer is waiting.           *)
SleepBounded ==
  pc = "poll" /\ d_timeouts # << >> =>
    left >= 0 /\ left <= Deadline[d_timeouts[1]] - now

(* Unless poll(2) is interrupted, the sleep that precedes a timer ends at   *)
(* most one interval late.  The timeout is rounded down and recomputed from *)
(* the `now' run_one() began with, so the loop may sleep the whole interval *)
(* again when the timer was a fraction of a millisecond away.               *)
OversleepBounded ==
  pc = "poll" /\ d_timeouts # << >> /\ intr = 0 /\ left > 0 =>
    clock + left < 2 * Deadline[d_timeouts[1]] - now

(* What poll(2) is told to sleep while a timer waits is neither too long   *)
(* nor, for a deadline between two milliseconds, off by more than the      *)
(* interval.                                                               *)
SleepBounds == SleepBounded /\ OversleepBounded

(* The assert in container::operator[], which every work function reaches  *)
(* through native_handle(id), holds.                                       *)
AssertHolds == halted # "assert"

(* run() never returns to its caller while a receiver still waits: every   *)
(* operation started so far has been completed by then, those started by   *)
(* continuations and those taken out of the middle of a list by a stop     *)
(* request included.  It needs run_one() to look at every list, and the    *)
(* lists to have lost nothing.                                             *)
RunFinishesAll ==
  [][pc # "idle" /\ pc' = "idle" => \A o \in Ops : ~Pending(o)]_vars

(* The status of each operation as its receiver sees it. *)
Status ==
  [o \in Ops |->
     IF op[o].kind = "none" THEN "idle"
     ELSE IF sender[o].signals = << >> THEN "pending"
     ELSE IF Len(sender[o].signals) = 1 THEN sender[o].signals[1] ELSE "twice"]

Abstract == INSTANCE AsyncOps WITH status <- Status,
                                   tokenOf <- [o \in Ops |-> op[o].token],
                                   stopped <- stop

(* Receivers are completed at most once, and with set_stopped only after a *)
(* stop request on their token, whatever the descriptors, timers, stop     *)
(* requests and closed sockets do.                                         *)
ImplementsAsyncOps == Abstract!AsyncSpec

(* Every operation that is started is completed (unless the process ends). *)
EventuallyCompletes ==
  \A o \in Ops : Pending(o) ~> (Finished(o) \/ halted # "no")

==============================================================================
