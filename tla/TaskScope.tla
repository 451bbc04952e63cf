----------------------------- MODULE TaskScope -----------------------------
(* demo::task and demo::scope under the example programs: the jobs of a      *)
(* scope are coroutines, each owned by the job object that the scope's       *)
(* receiver deletes when the coroutine completes.  The programs are          *)
(* single-threaded; scope::stop() runs the tasks' stop callbacks one after   *)
(* the other, and an operation may answer inside the callback or later.      *)
EXTENDS Programs, Integers, Sequences, FiniteSets

CONSTANTS
  ProgramSet,  \* the programs to run, one of them is chosen
  MaxJobs,     \* bound: jobs spawned
  MayThrow     \* whether completions occur that make an exception leave a coroutine

Jobs == 1..MaxJobs

ASSUME JobsAssumption ==
  /\ \A p \in ProgramSet : WellFormed(p) /\ Len(FirstJobs(p)) <= MaxJobs
  /\ MaxJobs \in Nat /\ MayThrow \in BOOLEAN

VARIABLES
  program,
  role,        \* the coroutines of the jobs spawned so far
  op,          \* per job: the operation its coroutine awaits, or "none"
  frame,       \* per job: "none", "live", "deleted", and when an exception has
               \* left it "unwound", then "ruined" (used after its deletion)
  stop_state,  \* promise_type::stop_state
  armed,       \* task::state::callback is engaged
  asked,       \* promise_type::stop_source has requested stop
  signals,     \* per job: how often the scope's receiver was called
  count, source,
  stopping,    \* the thread is in scope::stop()
  callback     \* the job whose stop callback it is in, or 0

vars == <<program, role, op, frame, stop_state, armed, asked, signals, count, source, stopping, callback>>
thread == <<stopping, callback>>
promise == <<stop_state, armed, asked>>

Spawned == DOMAIN role
Table(j) == program[role[j]]
IsTask(j) == role[j] # "stopper"

InWhenAny(j, o) == o \in {"accept", "receive"} /\ "timeout" \in DOMAIN Table(j)

(* when_any hides the stop token of its receiver, schedule() ignores it.     *)
Listens(j, o) == IsTask(j) /\ ~InWhenAny(j, o)

Init ==
  /\ program \in ProgramSet
  /\ role = FirstJobs(program)
  /\ op = [j \in Jobs |-> IF j \in Spawned THEN FirstOp[role[j]] ELSE "none"]
  /\ frame = [j \in Jobs |-> IF j \in Spawned THEN "live" ELSE "none"]
  /\ stop_state = [j \in Jobs |-> "running"]
  /\ armed = [j \in Jobs |-> j \in Spawned]
  /\ asked = [j \in Jobs |-> FALSE]
  /\ signals = [j \in Jobs |-> 0]
  /\ count = Len(role)
  /\ source = FALSE
  /\ stopping = FALSE
  /\ callback = 0

-----------------------------------------------------------------------------
(* receiver::complete() of the scope: the job is deleted, then the count.    *)
Finish(j) ==
  /\ frame' = [frame EXCEPT ![j] = "deleted"]
  /\ signals' = [signals EXCEPT ![j] = @ + 1]
  /\ count' = count - 1
  /\ armed' = [armed EXCEPT ![j] = FALSE]

Alive == UNCHANGED <<frame, signals, count, armed>>

(* Fault: the job is completed at once, the callback being active or not.    *)
StoppedAtOnce(j) ==
  /\ op' = [op EXCEPT ![j] = "none"]
  /\ stop_state' = [stop_state EXCEPT ![j] = "stopped"]
  /\ Finish(j)

(* sender_awaiter::stop(): the job completes now, unless the stop callback   *)
(* is active and completes it when it returns.                               *)
Stopped(j) ==
  /\ op' = [op EXCEPT ![j] = "none"]
  /\ stop_state' = [stop_state EXCEPT ![j] = "stopped"]
  /\ IF stop_state[j] = "running" THEN Finish(j) ELSE Alive

(* The coroutine goes on to await o, which stops at once if it was asked to, *)
(* or ends: final_awaiter gives the value.  An exception that leaves it, or  *)
(* the task it awaits, has unhandled_exception() complete it, and the final  *)
(* suspension is still to come.                                              *)
GoOn(j, o) ==
  CASE o = "return" -> Finish(j) /\ op' = [op EXCEPT ![j] = "none"] /\ UNCHANGED stop_state
    [] o = "throw" -> /\ signals' = [signals EXCEPT ![j] = @ + 1]
                      /\ count' = count - 1
                      /\ frame' = [frame EXCEPT ![j] = "unwound"]
                      /\ armed' = [armed EXCEPT ![j] = FALSE]
                      /\ op' = [op EXCEPT ![j] = "none"]
                      /\ UNCHANGED stop_state
    [] OTHER -> IF asked[j] /\ Listens(j, o) THEN Stopped(j)
                ELSE op' = [op EXCEPT ![j] = o] /\ Alive /\ UNCHANGED stop_state

(* The body of a task resumes inside the completion, on the run loop.        *)
Event(j, e) ==
  \/ op[j] # "none" /\ e \in EventsOf[op[j]]
  \/ e = "timeout" /\ InWhenAny(j, op[j])

(* Two completions have the body spawn another job, and run scope::stop().   *)
Spawns(j, e) == e = "connection" \/ role[j] \in {"timer1", "stopper"}

Resume(j, e) ==
  /\ ~stopping
  /\ Event(j, e) /\ ~Spawns(j, e)
  /\ \E o \in Table(j)[e] : (o = "throw" => MayThrow) /\ GoOn(j, o)
  /\ UNCHANGED <<program, role, asked, source, thread>>

(* The receiver has deleted the job, coroutine and all, and the coroutine    *)
(* runs on: final_awaiter completes it once more.  What follows is undefined *)
(* (a count of -1 stands for the largest size_t).                            *)
FinalSuspend(j) ==
  /\ frame[j] = "unwound"
  /\ frame' = [frame EXCEPT ![j] = "ruined"]
  /\ signals' = [signals EXCEPT ![j] = @ + 1]
  /\ count' = count - 1
  /\ UNCHANGED <<program, role, op, promise, source, thread>>

(* scope::spawn() counts the job, allocates it and runs it up to its first   *)
(* operation.  No program spawns a job after stop().                         *)
Spawn(r) ==
  /\ Len(role) < MaxJobs
  /\ role' = Append(role, r)

NewJob == Len(role) + 1

(* Fault: the job is counted when it completes only.                         *)
AcceptedUncounted(j) ==
  /\ ~stopping
  /\ Event(j, "connection")
  /\ Spawn("client")
  /\ op' = [op EXCEPT ![j] = "accept", ![NewJob] = "receive"]
  /\ frame' = [frame EXCEPT ![NewJob] = "live"]
  /\ armed' = [armed EXCEPT ![NewJob] = TRUE]
  /\ UNCHANGED <<program, stop_state, asked, signals, count, source, thread>>

Accepted(j) ==
  /\ ~stopping
  /\ Event(j, "connection")
  /\ Spawn("client")
  /\ op' = [op EXCEPT ![j] = "accept", ![NewJob] = "receive"]
  /\ frame' = [frame EXCEPT ![NewJob] = "live"]
  /\ armed' = [armed EXCEPT ![NewJob] = TRUE]
  /\ count' = count + 1
  /\ UNCHANGED <<program, stop_state, asked, signals, source, thread>>

(* The one-second timer of client.cpp: it spawns the stopper and ends.       *)
TimerExpired(j) ==
  /\ ~stopping
  /\ role[j] = "timer1" /\ Event(j, "expired")
  /\ Spawn("stopper")
  /\ op' = [op EXCEPT ![j] = "none", ![NewJob] = "task"]
  /\ frame' = [frame EXCEPT ![j] = "deleted", ![NewJob] = "live"]
  /\ armed' = [armed EXCEPT ![j] = FALSE]
  /\ signals' = [signals EXCEPT ![j] = @ + 1]
  /\ count' = count + 1 - 1
  /\ UNCHANGED <<program, stop_state, asked, source, thread>>

(* The stopper is a plain sender: its task runs and calls scope::stop().     *)
CallStop(j) ==
  /\ ~stopping
  /\ role[j] = "stopper" /\ Event(j, "run")
  /\ stopping' = TRUE
  /\ source' = TRUE
  /\ op' = [op EXCEPT ![j] = "none"]
  /\ UNCHANGED <<program, role, frame, promise, signals, count, callback>>

(* callback_t: it takes itself out, and passes the request on to what the    *)
(* coroutine awaits.  Resetting the optional destroys the function object    *)
(* that is running, and `this->object' is read once more when it returns:    *)
(* the storage is part of the task's state and nothing reuses it, so what a  *)
(* build reads there is the pointer it held.                                 *)
StopCallback(j) ==
  /\ stopping /\ callback = 0 /\ armed[j]
  /\ callback' = j
  /\ armed' = [armed EXCEPT ![j] = FALSE]
  /\ stop_state' = [stop_state EXCEPT ![j] = "stopping"]
  /\ asked' = [asked EXCEPT ![j] = TRUE]
  /\ UNCHANGED <<program, role, op, frame, signals, count, source, stopping>>

(* The operation answers the request, inside the callback or on the loop.    *)
AnswerStop(j) ==
  /\ stopping => callback = j
  /\ op[j] # "none" /\ asked[j] /\ Listens(j, op[j])
  /\ Stopped(j)
  /\ UNCHANGED <<program, role, asked, source, thread>>

(* Fault: an operation that has not answered leaves the state "stopping".    *)
CallbackReturnsStopping(j) ==
  /\ callback = j
  /\ callback' = 0
  /\ IF stop_state[j] = "stopped" THEN Finish(j) ELSE Alive
  /\ UNCHANGED <<program, role, op, stop_state, asked, source, stopping>>

CallbackReturns(j) ==
  /\ callback = j
  /\ callback' = 0
  /\ IF stop_state[j] = "stopped"
     THEN Finish(j) /\ UNCHANGED stop_state
     ELSE Alive /\ stop_state' = [stop_state EXCEPT ![j] = "running"]
  /\ UNCHANGED <<program, role, op, asked, source, stopping>>

StopReturns(j) ==
  /\ stopping /\ callback = 0 /\ \A k \in Jobs : ~armed[k]
  /\ role[j] = "stopper"
  /\ stopping' = FALSE
  /\ Finish(j)
  /\ UNCHANGED <<program, role, op, stop_state, asked, source, callback>>

Events == {"connection", "data", "eof", "error", "sent", "lost", "connected", "refused", "expired", "timeout"}

Thread(j) == StopCallback(j) \/ CallbackReturns(j) \/ StopReturns(j) \/ FinalSuspend(j)

Next ==
  \E j \in Spawned :
    \/ \E e \in Events : Resume(j, e)
    \/ Accepted(j) \/ TimerExpired(j) \/ CallStop(j)
    \/ AnswerStop(j)
    \/ Thread(j)

Spec == Init /\ [][Next]_vars

(* The thread runs on, and an operation that was asked to stop completes.    *)
FairSpec ==
  /\ Spec
  /\ \A j \in Jobs : WF_vars(j \in Spawned /\ Thread(j)) /\ WF_vars(j \in Spawned /\ AnswerStop(j))

-----------------------------------------------------------------------------
Sound == \A j \in Jobs : frame[j] \notin {"unwound", "ruined"}

(* The scope's receiver is called once for a job: it deletes the job.        *)
CompletedOnce == \A j \in Jobs : signals[j] <= 1

(* As long as no exception leaves a coroutine, a job is completed once, with *)
(* nothing of it in use any more: no operation pending, no stop callback     *)
(* registered or running.                                                    *)
JobsEndOnce ==
  Sound => /\ CompletedOnce
           /\ \A j \in Jobs : frame[j] # "live" => op[j] = "none" /\ ~armed[j] /\ callback # j

(* The count is the number of jobs that are alive, jobs that end while they  *)
(* are being asked to stop or while they spawn others included.              *)
CountIsLiveJobs == Sound => count = Cardinality({j \in Jobs : frame[j] = "live"})

(* io_context::run() returns when nothing is pending.  Then no job is left,  *)
(* and main() can destroy the scope: none waits for a completion that was    *)
(* already delivered.                                                        *)
NoLiveJobsAtExit ==
  Sound /\ ~stopping /\ (\A j \in Jobs : op[j] = "none") => count = 0

(* After scope::stop() every job ends, also one whose operation was          *)
(* completing with a value when it was asked to stop.                        *)
StopEndsJobs == source ~> (count = 0 \/ ~Sound)
=============================================================================
