-------------------------- MODULE TaskScopeProofs --------------------------
(***************************************************************************)
(* The jobs of a demo::scope end once and are counted exactly, for every   *)
(* set of well-formed programs and any number of jobs.                     *)
(*                                                                         *)
(* None of the three properties is inductive.  What they rest on is where  *)
(* a job that awaits nothing can be: inside its own stop callback, which   *)
(* completes it when it returns, or in the one stopper, whose task is in   *)
(* scope::stop() and which cannot be stopped itself.                       *)
(***************************************************************************)
EXTENDS TaskScope, FiniteSetTheorems, TLAPS

TypeOK ==
  /\ program \in ProgramSet
  /\ role \in Seq(DOMAIN program) /\ Len(role) <= MaxJobs
  /\ op \in [Jobs -> DOMAIN EventsOf \cup {"none"}]
  /\ frame \in [Jobs -> {"none", "live", "deleted", "unwound", "ruined"}]
  /\ stop_state \in [Jobs -> {"running", "stopping", "stopped"}]
  /\ armed \in [Jobs -> BOOLEAN]
  /\ asked \in [Jobs -> BOOLEAN]
  /\ signals \in [Jobs -> Nat]
  /\ count \in Int
  /\ source \in BOOLEAN
  /\ stopping \in BOOLEAN
  /\ callback \in Jobs \cup {0}

(* How often the receiver of a job was called, by what is left of its frame. *)
Calls(f) == IF f \in {"none", "live"} THEN 0 ELSE IF f = "ruined" THEN 2 ELSE 1

JobInv(j) ==
  /\ frame[j] = "none" <=> j \notin Spawned
  /\ j \in Spawned => op[j] \in Awaitable(program, role[j]) \cup {"none"}
  /\ signals[j] = Calls(frame[j])
  \* A job that is not alive has nothing in use ...
  /\ frame[j] # "live" => op[j] = "none" /\ ~armed[j] /\ callback # j
  /\ frame[j] = "none" => stop_state[j] = "running"
  \* ... and one that is alive awaits an operation, with two exceptions.
  /\ frame[j] = "live" /\ op[j] = "none" =>
       \/ callback = j /\ stop_state[j] = "stopped"
       \/ j \in Spawned /\ role[j] = "stopper" /\ stopping
  \* The stop state is left by the stop callback only.
  /\ frame[j] = "live" /\ stop_state[j] = "stopped" => callback = j /\ op[j] = "none"
  /\ stop_state[j] = "stopping" => callback = j
  /\ callback = j => stopping /\ stop_state[j] # "running"
  /\ armed[j] => stop_state[j] = "running"

(* There is one timer that spawns one stopper, which lives while it is in    *)
(* scope::stop().                                                            *)
StopperInv ==
  /\ \A i, j \in Spawned : role[i] \in {"timer1", "stopper"} /\ role[i] = role[j] => i = j
  /\ \A i, j \in Spawned : role[i] = "stopper" /\ role[j] = "timer1" => op[j] = "none"
  /\ \A j \in Spawned : role[j] = "stopper" => stop_state[j] # "stopped"
  /\ stopping => \E j \in Spawned : role[j] = "stopper" /\ frame[j] = "live" /\ op[j] = "none"

LiveJobs == {j \in Jobs : frame[j] = "live"}

(* The inductive invariant. *)
IInv ==
  /\ TypeOK
  /\ \A j \in Jobs : JobInv(j)
  /\ StopperInv
  /\ CountIsLiveJobs

-----------------------------------------------------------------------------
(* Programs and jobs. *)

LEMMA JobsFinite ==
  /\ IsFiniteSet(Jobs)
  /\ \A S \in SUBSET Jobs : IsFiniteSet(S) /\ Cardinality(S) \in Nat
<1>1. IsFiniteSet(Jobs)
  BY JobsAssumption, FS_Interval DEF Jobs
<1>2. ASSUME NEW S \in SUBSET Jobs  PROVE IsFiniteSet(S) /\ Cardinality(S) \in Nat
  BY <1>1, FS_Subset, FS_CardinalityType
<1> QED BY <1>1, <1>2

LEMMA SpawnedAreJobs ==
  ASSUME TypeOK
  PROVE  /\ Len(role) \in Nat /\ Spawned = 1..Len(role) /\ Spawned \subseteq Jobs
         /\ \A j \in Spawned : j \in Int /\ role[j] \in DOMAIN program
BY JobsAssumption DEF TypeOK, Spawned, Jobs

(* What a completion of an operation that the table has answers for leads to *)
(* is an operation whose completions the table has answers for.              *)
LEMMA AnswersAwaitable ==
  ASSUME TypeOK, NEW j \in Spawned, JobInv(j), NEW e, Event(j, e),
         NEW o \in Table(j)[e]
  PROVE  o \in Awaitable(program, role[j]) \cup {"return", "throw"}
<1>1. WellFormed(program) /\ role[j] \in DOMAIN program
  BY JobsAssumption, SpawnedAreJobs DEF TypeOK
<1>2. e \in DOMAIN program[role[j]]
  <2>1. CASE op[j] # "none" /\ e \in EventsOf[op[j]]
    BY <2>1 DEF JobInv, Awaitable
  <2>2. CASE e = "timeout" /\ InWhenAny(j, op[j])
    BY <2>2 DEF InWhenAny, Table
  <2> QED BY <2>1, <2>2 DEF Event
<1> QED BY <1>1, <1>2 DEF WellFormed, Table

LEMMA AwaitableOps ==
  ASSUME NEW p, NEW r
  PROVE  Awaitable(p, r) \subseteq DOMAIN EventsOf /\ "none" \notin Awaitable(p, r)
         /\ "return" \notin Awaitable(p, r) /\ "throw" \notin Awaitable(p, r)
BY DEF Awaitable, EventsOf

(* The operation of an event is pending, and its job is alive.               *)
LEMMA EventsOfLiveJobs ==
  ASSUME NEW j \in Jobs, JobInv(j), NEW e, Event(j, e)
  PROVE  op[j] # "none" /\ frame[j] = "live"
BY DEF Event, InWhenAny, JobInv

(* A job that is alive and not in its stop callback has not been stopped.    *)
LEMMA RunningOutsideCallback ==
  ASSUME TypeOK, NEW j \in Jobs, JobInv(j), frame[j] = "live", callback # j
  PROVE  stop_state[j] = "running"
BY DEF TypeOK, JobInv

-----------------------------------------------------------------------------
(* Steps that disturb one job. *)

OthersKept(j) ==
  /\ UNCHANGED <<program, role, stopping>>
  /\ \A x \in Jobs \ {j} :
       /\ frame'[x] = frame[x] /\ op'[x] = op[x] /\ signals'[x] = signals[x]
       /\ stop_state'[x] = stop_state[x] /\ armed'[x] = armed[x]
       /\ callback' = x <=> callback = x

StopperKept(j) ==
  role[j] = "stopper" =>
    op'[j] = op[j] /\ stop_state'[j] # "stopped" /\ (frame[j] = "live" => frame'[j] = "live")

(* The job ends and is no longer counted, or it goes on, or it is lost.      *)
Accounted(j) ==
  \/ frame'[j] = frame[j] /\ count' = count
  \/ frame[j] = "live" /\ frame'[j] = "deleted" /\ count' = count - 1
  \/ frame'[j] \in {"unwound", "ruined"}

LEMMA OneJobCounted ==
  ASSUME TypeOK, TypeOK', CountIsLiveJobs, NEW j \in Jobs, frame[j] \in {"live", "unwound"},
         \A x \in Jobs \ {j} : frame'[x] = frame[x], Accounted(j)
  PROVE  CountIsLiveJobs'
<1> SUFFICES ASSUME Sound'  PROVE (count = Cardinality(LiveJobs))'
  BY DEF CountIsLiveJobs, LiveJobs
<1>1. CASE frame'[j] = frame[j] /\ count' = count
  <2>1. \A x \in Jobs : frame'[x] = frame[x]
    BY <1>1
  <2>2. LiveJobs' = LiveJobs /\ Sound
    BY <2>1 DEF LiveJobs, Sound
  <2> QED BY <1>1, <2>2 DEF CountIsLiveJobs, LiveJobs
<1>2. CASE frame[j] = "live" /\ frame'[j] = "deleted" /\ count' = count - 1
  <2>1. LiveJobs' = LiveJobs \ {j} /\ j \in LiveJobs
    BY <1>2 DEF LiveJobs
  <2>2. Sound
    BY <1>2 DEF Sound
  <2>3. count = Cardinality(LiveJobs)
    BY <2>2 DEF CountIsLiveJobs, LiveJobs
  <2>4. IsFiniteSet(LiveJobs) /\ Cardinality(LiveJobs) \in Nat
    BY JobsFinite DEF LiveJobs
  <2>5. Cardinality(LiveJobs \ {j}) = Cardinality(LiveJobs) - 1
    BY <2>1, <2>4, FS_RemoveElement
  <2> QED BY <1>2, <2>1, <2>3, <2>5
<1>3. CASE frame'[j] \in {"unwound", "ruined"}
  BY <1>3 DEF Sound
<1> QED BY <1>1, <1>2, <1>3 DEF Accounted

LEMMA OneJobKeeps ==
  ASSUME IInv, TypeOK', NEW j \in Spawned, OthersKept(j), JobInv(j)', StopperKept(j),
         op[j] = "none" => op'[j] = "none",
         frame[j] \in {"live", "unwound"}, Accounted(j)
  PROVE  IInv'
<1> USE DEF IInv
<1>1. Spawned' = Spawned /\ j \in Jobs /\ Spawned \subseteq Jobs
  BY SpawnedAreJobs DEF OthersKept, Spawned
<1>2. \A x \in Jobs : JobInv(x)'
  <2>1. ASSUME NEW x \in Jobs, x # j  PROVE JobInv(x)'
    <3>1. JobInv(x)
      OBVIOUS
    <3>2. /\ UNCHANGED <<program, role, stopping>>
          /\ frame'[x] = frame[x] /\ op'[x] = op[x] /\ signals'[x] = signals[x]
          /\ stop_state'[x] = stop_state[x] /\ armed'[x] = armed[x]
          /\ callback' = x <=> callback = x
      BY <2>1 DEF OthersKept
    <3> QED BY <1>1, <3>1, <3>2 DEF JobInv
  <2> QED BY <2>1
<1>3. StopperInv'
  <2>1. role' = role /\ stopping' = stopping
    BY DEF OthersKept
  <2>2. \A x \in Jobs : op[x] = "none" => op'[x] = "none"
    BY DEF OthersKept
  <2>3. \A x \in Spawned : role[x] = "stopper" =>
          op'[x] = op[x] /\ stop_state'[x] # "stopped" /\ (frame[x] = "live" => frame'[x] = "live")
    <3> SUFFICES ASSUME NEW x \in Spawned, role[x] = "stopper"
                 PROVE  /\ op'[x] = op[x] /\ stop_state'[x] # "stopped"
                        /\ frame[x] = "live" => frame'[x] = "live"
      OBVIOUS
    <3>1. CASE x = j
      BY <3>1 DEF StopperKept
    <3>2. CASE x # j
      BY <1>1, <3>2 DEF OthersKept, StopperInv
    <3> QED BY <3>1, <3>2
  <2> QED BY <1>1, <2>1, <2>2, <2>3 DEF StopperInv
<1>4. CountIsLiveJobs'
  BY <1>1, OneJobCounted DEF OthersKept
<1> QED BY <1>2, <1>3, <1>4

-----------------------------------------------------------------------------
(* The actions, one after the other. *)

(* A job that ends outside its stop callback, or when that returns.          *)
LEMMA FinishKeeps ==
  ASSUME IInv, NEW j \in Spawned, frame[j] = "live", role[j] # "stopper", Finish(j),
         op' = [op EXCEPT ![j] = "none"],
         NEW s \in {"running", "stopped"}, stop_state' = [stop_state EXCEPT ![j] = s],
         callback' # j, callback' \in {callback, 0}, callback \in {callback', j},
         UNCHANGED <<program, role, asked, source, stopping>>
  PROVE  IInv'
<1>1. j \in Jobs /\ Spawned' = Spawned /\ 0 \notin Jobs /\ TypeOK /\ JobInv(j)
  BY SpawnedAreJobs, JobsAssumption DEF IInv, Spawned, Jobs
<1>2. TypeOK'
  <2>1. signals' \in [Jobs -> Nat] /\ count' \in Int
    BY <1>1 DEF TypeOK, Finish
  <2>2. /\ frame' \in [Jobs -> {"none", "live", "deleted", "unwound", "ruined"}]
        /\ op' \in [Jobs -> DOMAIN EventsOf \cup {"none"}]
        /\ stop_state' \in [Jobs -> {"running", "stopping", "stopped"}]
        /\ armed' \in [Jobs -> BOOLEAN]
    BY <1>1 DEF TypeOK, Finish
  <2>3. callback' \in Jobs \cup {0}
    BY DEF TypeOK, IInv
  <2> QED BY <1>1, <2>1, <2>2, <2>3 DEF TypeOK
<1>3. frame'[j] = "deleted" /\ op'[j] = "none" /\ signals'[j] = 1 /\ ~armed'[j] /\ callback' # j
  BY <1>1 DEF TypeOK, Finish, JobInv, Calls
<1>4. OthersKept(j)
  BY <1>1 DEF OthersKept, Finish, TypeOK
<1>5. JobInv(j)'
  BY <1>1, <1>3 DEF JobInv, Calls, TypeOK
<1>6. StopperKept(j) /\ Accounted(j)
  BY <1>3 DEF StopperKept, Accounted, Finish
<1> QED BY <1>2, <1>3, <1>4, <1>5, <1>6, OneJobKeeps

(* A job that goes on, in whatever way, and stays alive.                     *)
LEMMA AliveKeeps ==
  ASSUME IInv, NEW j \in Spawned, frame[j] = "live", UNCHANGED <<frame, signals, count>>,
         NEW o \in Awaitable(program, role[j]) \cup {"none"}, op' = [op EXCEPT ![j] = o],
         op[j] = "none" => o = "none",
         NEW s \in {"running", "stopping", "stopped"},
         stop_state' = [stop_state EXCEPT ![j] = s],
         armed' \in [Jobs -> BOOLEAN], \A x \in Jobs \ {j} : armed'[x] = armed[x],
         armed'[j] => s = "running",
         s = "stopping" => callback' = j,
         s = "stopped" => callback' = j /\ o = "none",
         o = "none" => (callback' = j /\ s = "stopped") \/ (role[j] = "stopper" /\ stopping),
         callback' = j => stopping /\ s # "running",
         role[j] = "stopper" => o = op[j] /\ s # "stopped",
         callback' \in Jobs \cup {0},
         \A x \in Jobs \ {j} : callback' = x <=> callback = x,
         UNCHANGED <<program, role, source, stopping>>, asked' \in [Jobs -> BOOLEAN]
  PROVE  IInv'
<1>1. j \in Jobs /\ Spawned' = Spawned /\ TypeOK /\ JobInv(j)
  BY SpawnedAreJobs DEF IInv, Spawned
<1>2. TypeOK'
  <2>1. o \in DOMAIN EventsOf \cup {"none"}
    BY AwaitableOps
  <2>2. /\ op' \in [Jobs -> DOMAIN EventsOf \cup {"none"}]
        /\ stop_state' \in [Jobs -> {"running", "stopping", "stopped"}]
    BY <1>1, <2>1 DEF TypeOK
  <2> QED BY <1>1, <2>2 DEF TypeOK
<1>3. op'[j] = o /\ stop_state'[j] = s
  BY <1>1 DEF TypeOK
<1>4. OthersKept(j)
  BY <1>1 DEF OthersKept, TypeOK
<1>5. JobInv(j)'
  BY <1>1, <1>3 DEF JobInv
<1>6. StopperKept(j) /\ Accounted(j)
  BY <1>3 DEF StopperKept, Accounted
<1> QED BY <1>2, <1>3, <1>4, <1>5, <1>6, OneJobKeeps

LEMMA ThrowKeeps ==
  ASSUME IInv, NEW j \in Spawned, frame[j] = "live", role[j] # "stopper", callback # j,
         GoOn(j, "throw"), UNCHANGED <<program, role, asked, source, thread>>
  PROVE  IInv'
<1>1. j \in Jobs /\ Spawned' = Spawned /\ TypeOK /\ JobInv(j)
  BY SpawnedAreJobs DEF IInv, Spawned
<1>2. /\ frame' = [frame EXCEPT ![j] = "unwound"] /\ op' = [op EXCEPT ![j] = "none"]
      /\ armed' = [armed EXCEPT ![j] = FALSE] /\ signals' = [signals EXCEPT ![j] = @ + 1]
      /\ count' = count - 1 /\ stop_state' = stop_state
  BY DEF GoOn
<1>3. TypeOK'
  <2>1. signals' \in [Jobs -> Nat] /\ count' \in Int
    BY <1>1, <1>2 DEF TypeOK
  <2>2. /\ frame' \in [Jobs -> {"none", "live", "deleted", "unwound", "ruined"}]
        /\ op' \in [Jobs -> DOMAIN EventsOf \cup {"none"}] /\ armed' \in [Jobs -> BOOLEAN]
    BY <1>1, <1>2 DEF TypeOK
  <2> QED BY <1>1, <1>2, <2>1, <2>2 DEF TypeOK, thread
<1>4. frame'[j] = "unwound" /\ op'[j] = "none" /\ signals'[j] = 1 /\ ~armed'[j] /\ callback' # j
  BY <1>1, <1>2 DEF TypeOK, JobInv, Calls, thread
<1>5. OthersKept(j)
  BY <1>1, <1>2 DEF OthersKept, TypeOK, thread
<1>6. JobInv(j)'
  BY <1>1, <1>2, <1>4, RunningOutsideCallback DEF JobInv, Calls
<1>7. StopperKept(j) /\ Accounted(j)
  BY <1>4 DEF StopperKept, Accounted
<1> QED BY <1>3, <1>4, <1>5, <1>6, <1>7, OneJobKeeps

LEMMA ResumeKeeps ==
  ASSUME IInv, NEW j \in Spawned, NEW e, Resume(j, e)
  PROVE  IInv'
<1>1. j \in Jobs /\ TypeOK /\ JobInv(j)
  BY SpawnedAreJobs DEF IInv
<1>2. op[j] # "none" /\ frame[j] = "live" /\ role[j] # "stopper"
  BY <1>1, EventsOfLiveJobs DEF Resume, Spawns
<1>3. ~stopping /\ callback # j
  BY <1>1 DEF Resume, JobInv
<1>4. stop_state[j] = "running"
  BY <1>1, <1>2, <1>3, RunningOutsideCallback
<1>5. UNCHANGED <<program, role, asked, source, thread>>
  BY DEF Resume
<1>6. callback # j /\ callback' = callback /\ UNCHANGED <<program, role, asked, source, stopping>>
  BY <1>3, <1>5 DEF thread
<1>7. PICK o \in Table(j)[e] : GoOn(j, o)
  BY DEF Resume
<1>8. o \in Awaitable(program, role[j]) \cup {"return", "throw"}
  BY <1>1, AnswersAwaitable DEF Resume
<1>9. CASE o = "return"
  <2>1. Finish(j) /\ op' = [op EXCEPT ![j] = "none"] /\ stop_state' = stop_state
    BY <1>7, <1>9 DEF GoOn
  <2>2. stop_state' = [stop_state EXCEPT ![j] = "running"]
    BY <1>1, <1>4, <2>1 DEF TypeOK
  <2> QED BY <1>2, <1>6, <2>1, <2>2, FinishKeeps
<1>10. CASE o = "throw"
  BY <1>2, <1>3, <1>5, <1>7, <1>10, ThrowKeeps
<1>11. CASE o \in Awaitable(program, role[j])
  <2>1. o # "return" /\ o # "throw" /\ o # "none"
    BY <1>11, AwaitableOps
  <2>2. CASE asked[j] /\ Listens(j, o)
    <3>1. Stopped(j)
      BY <1>7, <2>1, <2>2 DEF GoOn
    <3>2. /\ Finish(j) /\ op' = [op EXCEPT ![j] = "none"]
          /\ stop_state' = [stop_state EXCEPT ![j] = "stopped"]
      BY <1>4, <3>1 DEF Stopped
    <3> QED BY <1>2, <1>6, <3>2, FinishKeeps
  <2>3. CASE ~(asked[j] /\ Listens(j, o))
    <3>1. op' = [op EXCEPT ![j] = o] /\ Alive /\ UNCHANGED stop_state
      BY <1>7, <2>1, <2>3 DEF GoOn
    <3>2. stop_state' = [stop_state EXCEPT ![j] = "running"]
      BY <1>1, <1>4, <3>1 DEF TypeOK
    <3>3. callback' = callback /\ callback \in Jobs \cup {0} /\ asked' \in [Jobs -> BOOLEAN]
          /\ UNCHANGED <<program, role, source, stopping>>
      BY <1>1, <1>5 DEF TypeOK, thread
    <3>4. armed' = armed /\ armed' \in [Jobs -> BOOLEAN] /\ UNCHANGED <<frame, signals, count>>
      BY <1>1, <3>1 DEF TypeOK, Alive
    <3> QED BY <1>2, <1>3, <1>11, <2>1, <3>1, <3>2, <3>3, <3>4, AliveKeeps
  <2> QED BY <2>2, <2>3
<1> QED BY <1>8, <1>9, <1>10, <1>11

LEMMA FinalSuspendKeeps ==
  ASSUME IInv, NEW j \in Spawned, FinalSuspend(j)
  PROVE  IInv'
<1>1. j \in Jobs /\ Spawned' = Spawned /\ TypeOK /\ JobInv(j) /\ frame[j] = "unwound"
  BY SpawnedAreJobs DEF IInv, Spawned, FinalSuspend
<1>2. /\ frame' = [frame EXCEPT ![j] = "ruined"] /\ signals' = [signals EXCEPT ![j] = @ + 1]
      /\ count' = count - 1
      /\ UNCHANGED <<program, role, op, stop_state, armed, asked, source, stopping, callback>>
  BY DEF FinalSuspend, promise, thread
<1>3. TypeOK'
  <2>1. signals' \in [Jobs -> Nat] /\ count' \in Int
    BY <1>1, <1>2 DEF TypeOK
  <2>2. frame' \in [Jobs -> {"none", "live", "deleted", "unwound", "ruined"}]
    BY <1>1, <1>2 DEF TypeOK
  <2> QED BY <1>1, <1>2, <2>1, <2>2 DEF TypeOK
<1>4. frame'[j] = "ruined" /\ signals'[j] = 2
  BY <1>1, <1>2 DEF TypeOK, JobInv, Calls
<1>5. OthersKept(j)
  BY <1>1, <1>2 DEF OthersKept, TypeOK
<1>6. JobInv(j)'
  BY <1>1, <1>2, <1>4 DEF JobInv, Calls
<1>7. Accounted(j)
  BY <1>4 DEF Accounted
<1>8. StopperKept(j)
  BY <1>1, <1>2 DEF StopperKept, IInv, StopperInv
<1> QED BY <1>1, <1>2, <1>3, <1>4, <1>5, <1>6, <1>7, <1>8, OneJobKeeps

LEMMA AnswerStopKeeps ==
  ASSUME IInv, NEW j \in Spawned, AnswerStop(j)
  PROVE  IInv'
<1>1. j \in Jobs /\ TypeOK /\ JobInv(j)
  BY SpawnedAreJobs DEF IInv
<1>2. Stopped(j) /\ op[j] # "none" /\ role[j] # "stopper" /\ frame[j] = "live"
  BY <1>1 DEF AnswerStop, Listens, IsTask, JobInv
<1>3. UNCHANGED <<program, role, asked, source, stopping>> /\ callback' = callback
  BY DEF AnswerStop, thread
<1>4. /\ op' = [op EXCEPT ![j] = "none"]
      /\ stop_state' = [stop_state EXCEPT ![j] = "stopped"]
  BY <1>2 DEF Stopped
<1>5. CASE stop_state[j] = "running"
  <2>1. callback # j
    BY <1>1, <1>5 DEF JobInv
  <2>2. Finish(j)
    BY <1>2, <1>5 DEF Stopped
  <2> QED BY <1>2, <1>3, <1>4, <2>1, <2>2, FinishKeeps
<1>6. CASE stop_state[j] # "running"
  <2>1. callback = j /\ stopping /\ ~armed[j]
    BY <1>1, <1>2, <1>6 DEF JobInv, TypeOK
  <2>2. UNCHANGED <<frame, signals, count, armed>>
    BY <1>2, <1>6 DEF Stopped, Alive
  <2>3. armed' \in [Jobs -> BOOLEAN] /\ asked' \in [Jobs -> BOOLEAN] /\ callback' \in Jobs \cup {0}
    BY <1>1, <1>3, <2>2 DEF TypeOK
  <2> QED BY <1>2, <1>3, <1>4, <2>1, <2>2, <2>3, AliveKeeps
<1> QED BY <1>5, <1>6

LEMMA StopCallbackKeeps ==
  ASSUME IInv, NEW j \in Spawned, StopCallback(j)
  PROVE  IInv'
<1>1. j \in Jobs /\ TypeOK /\ JobInv(j) /\ 0 \notin Jobs
  BY SpawnedAreJobs, JobsAssumption DEF IInv, Jobs
<1>2. stopping /\ callback = 0 /\ armed[j] /\ callback' = j
  BY DEF StopCallback
<1>3. frame[j] = "live" /\ op[j] \in Awaitable(program, role[j]) \cup {"none"}
  BY <1>1, <1>2 DEF JobInv
<1>4. op[j] = "none" => role[j] = "stopper"
  BY <1>1, <1>2, <1>3 DEF JobInv
<1>5. /\ op' = [op EXCEPT ![j] = op[j]]
      /\ stop_state' = [stop_state EXCEPT ![j] = "stopping"]
  BY <1>1 DEF StopCallback, TypeOK
<1>6. /\ armed' \in [Jobs -> BOOLEAN] /\ ~armed'[j]
      /\ \A x \in Jobs \ {j} : armed'[x] = armed[x]
      /\ asked' \in [Jobs -> BOOLEAN]
  BY <1>1 DEF StopCallback, TypeOK
<1>7. UNCHANGED <<frame, signals, count>> /\ UNCHANGED <<program, role, source, stopping>>
  BY DEF StopCallback
<1>8. \A x \in Jobs \ {j} : callback' = x <=> callback = x
  BY <1>1, <1>2
<1> QED BY <1>1, <1>2, <1>3, <1>4, <1>5, <1>6, <1>7, <1>8, AliveKeeps

LEMMA CallbackReturnsKeeps ==
  ASSUME IInv, NEW j \in Spawned, CallbackReturns(j)
  PROVE  IInv'
<1>1. j \in Jobs /\ TypeOK /\ JobInv(j) /\ 0 \notin Jobs
  BY SpawnedAreJobs, JobsAssumption DEF IInv, Jobs
<1>2. callback = j /\ callback' = 0 /\ frame[j] = "live" /\ stopping
  BY <1>1 DEF CallbackReturns, JobInv
<1>3. UNCHANGED <<program, role, asked, source, stopping>> /\ op' = op
  BY DEF CallbackReturns
<1>4. CASE stop_state[j] = "stopped"
  <2>1. Finish(j) /\ stop_state' = stop_state /\ op[j] = "none" /\ role[j] # "stopper"
    BY <1>1, <1>2, <1>4 DEF CallbackReturns, JobInv, IInv, StopperInv
  <2>2. op' = [op EXCEPT ![j] = "none"] /\ stop_state' = [stop_state EXCEPT ![j] = "stopped"]
    BY <1>1, <1>3, <1>4, <2>1 DEF TypeOK
  <2> QED BY <1>1, <1>2, <1>3, <2>1, <2>2, FinishKeeps
<1>5. CASE stop_state[j] # "stopped"
  <2>1. Alive /\ stop_state' = [stop_state EXCEPT ![j] = "running"]
    BY <1>5 DEF CallbackReturns
  <2>2. op' = [op EXCEPT ![j] = op[j]] /\ op[j] \in Awaitable(program, role[j]) \cup {"none"}
    BY <1>1, <1>3 DEF TypeOK, JobInv
  <2>3. op[j] = "none" => role[j] = "stopper" /\ stopping
    BY <1>1, <1>2, <1>5 DEF JobInv
  <2>4. UNCHANGED <<frame, signals, count, armed>>
    BY <2>1 DEF Alive
  <2>5. armed' \in [Jobs -> BOOLEAN] /\ asked' \in [Jobs -> BOOLEAN] /\ callback' \in Jobs \cup {0}
    BY <1>1, <1>2, <1>3, <2>4 DEF TypeOK
  <2>6. callback' # j /\ \A x \in Jobs \ {j} : callback' = x <=> callback = x
    BY <1>1, <1>2
  <2> QED BY <1>2, <1>3, <2>1, <2>2, <2>3, <2>4, <2>5, <2>6, AliveKeeps
<1> QED BY <1>4, <1>5

LEMMA CallStopKeeps ==
  ASSUME IInv, NEW j \in Spawned, CallStop(j)
  PROVE  IInv'
<1>1. j \in Jobs /\ Spawned' = Spawned /\ Spawned \subseteq Jobs /\ TypeOK
  BY SpawnedAreJobs DEF IInv, Spawned, CallStop
<1>2. role[j] = "stopper" /\ frame[j] = "live"
  BY <1>1, EventsOfLiveJobs DEF CallStop, IInv
<1>3. /\ stopping' = TRUE /\ source' = TRUE /\ op' = [op EXCEPT ![j] = "none"]
      /\ UNCHANGED <<program, role, frame, stop_state, armed, asked, signals, count, callback>>
  BY DEF CallStop, promise
<1>4. op'[j] = "none" /\ \A x \in Jobs \ {j} : op'[x] = op[x]
  BY <1>1, <1>3 DEF TypeOK
<1>5. TypeOK'
  <2>1. op' \in [Jobs -> DOMAIN EventsOf \cup {"none"}]
    BY <1>1, <1>3 DEF TypeOK
  <2> QED BY <1>1, <1>3, <2>1 DEF TypeOK
<1>6. \A x \in Jobs : JobInv(x)'
  <2>1. ASSUME NEW x \in Jobs, x # j  PROVE JobInv(x)'
    <3>1. JobInv(x) /\ op'[x] = op[x]
      BY <1>4, <2>1 DEF IInv
    <3> QED BY <1>1, <1>3, <3>1 DEF JobInv
  <2>2. JobInv(j)'
    <3>1. JobInv(j) /\ ~stopping
      BY <1>1 DEF IInv, CallStop
    <3>2. callback # j
      BY <3>1 DEF JobInv
    <3>3. stop_state[j] = "running"
      BY <1>1, <1>2, <3>1, <3>2, RunningOutsideCallback
    <3> QED BY <1>1, <1>2, <1>3, <1>4, <3>1, <3>2, <3>3 DEF JobInv
  <2> QED BY <2>1, <2>2
<1>7. StopperInv'
  BY <1>1, <1>2, <1>3, <1>4 DEF StopperInv, IInv
<1>8. CountIsLiveJobs'
  BY <1>3 DEF CountIsLiveJobs, Sound, IInv
<1> QED BY <1>5, <1>6, <1>7, <1>8 DEF IInv

LEMMA StopReturnsKeeps ==
  ASSUME IInv, NEW j \in Spawned, StopReturns(j)
  PROVE  IInv'
<1>1. j \in Jobs /\ Spawned' = Spawned /\ Spawned \subseteq Jobs /\ TypeOK /\ 0 \notin Jobs
  BY SpawnedAreJobs, JobsAssumption DEF IInv, Spawned, StopReturns, Jobs
<1>2. /\ stopping /\ callback = 0 /\ role[j] = "stopper" /\ stopping' = FALSE /\ Finish(j)
      /\ UNCHANGED <<program, role, op, stop_state, asked, source, callback>>
  BY DEF StopReturns
<1>3. frame[j] = "live" /\ op[j] = "none"
  BY <1>2 DEF IInv, StopperInv
<1>4. /\ frame'[j] = "deleted" /\ signals'[j] = 1 /\ ~armed'[j] /\ count' = count - 1
      /\ \A x \in Jobs \ {j} : /\ frame'[x] = frame[x] /\ signals'[x] = signals[x]
                               /\ armed'[x] = armed[x]
  BY <1>1, <1>2, <1>3 DEF Finish, TypeOK, IInv, JobInv, Calls
<1>5. TypeOK'
  <2>1. signals' \in [Jobs -> Nat] /\ count' \in Int
    BY <1>1, <1>2 DEF TypeOK, Finish
  <2>2. /\ frame' \in [Jobs -> {"none", "live", "deleted", "unwound", "ruined"}]
        /\ armed' \in [Jobs -> BOOLEAN]
    BY <1>1, <1>2 DEF TypeOK, Finish
  <2> QED BY <1>1, <1>2, <2>1, <2>2 DEF TypeOK
<1>6. \A x \in Jobs : JobInv(x)'
  <2>1. ASSUME NEW x \in Jobs, x # j  PROVE JobInv(x)'
    <3>1. JobInv(x) /\ callback # x
      BY <1>1, <1>2 DEF IInv
    <3>2. frame[x] = "live" => op[x] # "none"
      BY <1>2, <2>1, <3>1 DEF JobInv, IInv, StopperInv
    <3>3. frame'[x] = frame[x] /\ signals'[x] = signals[x] /\ armed'[x] = armed[x]
      BY <1>4, <2>1
    <3> QED BY <1>1, <1>2, <3>1, <3>2, <3>3 DEF JobInv
  <2>2. JobInv(j)'
    <3>1. JobInv(j) /\ callback # j
      BY <1>1, <1>2 DEF IInv
    <3>2. stop_state[j] = "running"
      BY <1>1, <1>3, <3>1, RunningOutsideCallback
    <3> QED BY <1>1, <1>2, <1>3, <1>4, <3>1, <3>2 DEF JobInv, Calls
  <2> QED BY <2>1, <2>2
<1>7. StopperInv'
  BY <1>1, <1>2 DEF StopperInv, IInv
<1>8. CountIsLiveJobs'
  BY <1>1, <1>3, <1>4, <1>5, OneJobCounted DEF Accounted, IInv
<1> QED BY <1>5, <1>6, <1>7, <1>8 DEF IInv

(* scope::spawn() has a job of its own, which was not used before.           *)
LEMMA SpawnedOne ==
  ASSUME TypeOK, NEW r \in DOMAIN program, Spawn(r), UNCHANGED program
  PROVE  /\ NewJob \in Jobs /\ NewJob \notin Spawned
         /\ Spawned' = Spawned \cup {NewJob}
         /\ \A x \in Spawned : role'[x] = role[x]
         /\ role'[NewJob] = r
         /\ role' \in Seq(DOMAIN program') /\ Len(role') <= MaxJobs
<1>1. Len(role) \in Nat /\ Len(role) < MaxJobs /\ Spawned = 1..Len(role)
  BY SpawnedAreJobs DEF Spawn
<1>2. role' = Append(role, r) /\ role \in Seq(DOMAIN program)
  BY DEF Spawn, TypeOK
<1>3. /\ role' \in Seq(DOMAIN program) /\ Len(role') = Len(role) + 1
      /\ \A x \in 1..Len(role) : role'[x] = role[x]
      /\ role'[Len(role) + 1] = r
  BY <1>2
<1>4. Spawned' = 1..(Len(role) + 1)
  BY <1>3 DEF Spawned
<1>5. 1..(Len(role) + 1) = 1..Len(role) \cup {Len(role) + 1} /\ Len(role) + 1 \notin 1..Len(role)
  BY <1>1
<1>6. NewJob \in Jobs
  BY <1>1, JobsAssumption DEF NewJob, Jobs
<1> QED BY <1>1, <1>3, <1>4, <1>5, <1>6, JobsAssumption DEF NewJob

(* A job that runs up to its first operation.                                *)
LEMMA NewJobSound ==
  ASSUME TypeOK, NEW n \in Jobs, JobInv(n), n \notin Spawned,
         n \in Spawned', op'[n] \in Awaitable(program', role'[n]), frame'[n] = "live",
         UNCHANGED <<stop_state, stopping, callback>>, signals'[n] = signals[n]
  PROVE  JobInv(n)'
<1>1. op'[n] # "none"
  BY AwaitableOps
<1>2. frame[n] = "none" /\ signals[n] = 0 /\ stop_state[n] = "running" /\ callback # n
  BY DEF JobInv, Calls
<1> QED BY <1>1, <1>2 DEF JobInv, Calls

(* What a spawn leaves alone.                                                *)
LEMMA OtherJobSound ==
  ASSUME NEW x \in Jobs, JobInv(x), x \in Spawned' <=> x \in Spawned,
         x \in Spawned => role'[x] = role[x],
         frame'[x] = frame[x] /\ op'[x] = op[x] /\ signals'[x] = signals[x] /\ armed'[x] = armed[x],
         UNCHANGED <<program, stop_state, stopping, callback>>
  PROVE  JobInv(x)'
BY DEF JobInv

LEMMA AcceptedKeeps ==
  ASSUME IInv, NEW j \in Spawned, Accepted(j)
  PROVE  IInv'
<1>0. PICK n : n = NewJob
  OBVIOUS
<1>1. TypeOK /\ j \in Jobs /\ Spawned \subseteq Jobs /\ role[j] \in DOMAIN program
  BY SpawnedAreJobs DEF IInv
<1>2. /\ Event(j, "connection") /\ Spawn("client") /\ ~stopping
      /\ op' = [op EXCEPT ![j] = "accept", ![NewJob] = "receive"]
      /\ frame' = [frame EXCEPT ![NewJob] = "live"]
      /\ armed' = [armed EXCEPT ![NewJob] = TRUE]
      /\ count' = count + 1
      /\ UNCHANGED <<program, stop_state, asked, signals, source, stopping, callback>>
  BY DEF Accepted, thread
<1>3. op[j] = "accept"
  <2>1. \A x \in DOMAIN EventsOf : "connection" \in EventsOf[x] => x = "accept"
    BY DEF EventsOf
  <2>2. op[j] \in DOMAIN EventsOf /\ "connection" \in EventsOf[op[j]]
    BY <1>1, <1>2 DEF Event, TypeOK
  <2> QED BY <2>1, <2>2
<1>4. WellFormed(program) /\ "accept" \in Awaitable(program, role[j])
  BY <1>1, <1>3, AwaitableOps, JobsAssumption DEF TypeOK, IInv, JobInv
<1>5. "client" \in DOMAIN program /\ "receive" \in Awaitable(program, "client")
  BY <1>1, <1>4 DEF WellFormed, FirstOp
<1>6. /\ n \in Jobs /\ n \notin Spawned /\ Spawned' = Spawned \cup {n}
      /\ \A x \in Spawned : role'[x] = role[x]
      /\ role'[n] = "client"
      /\ role' \in Seq(DOMAIN program') /\ Len(role') <= MaxJobs
  BY <1>0, <1>1, <1>2, <1>5, SpawnedOne
<1>7. j # n /\ frame[n] = "none"
  BY <1>6 DEF IInv, JobInv
<1>8. /\ op'[n] = "receive" /\ frame'[n] = "live" /\ armed'[n]
      /\ \A x \in Jobs \ {n} : op'[x] = op[x] /\ frame'[x] = frame[x] /\ armed'[x] = armed[x]
  BY <1>0, <1>1, <1>2, <1>3, <1>6, <1>7 DEF TypeOK
<1>9. TypeOK'
  <2>0. {"accept", "receive"} \subseteq DOMAIN EventsOf
    BY DEF EventsOf
  <2>1. op' \in [Jobs -> DOMAIN EventsOf \cup {"none"}]
    BY <1>1, <1>2, <2>0 DEF TypeOK
  <2>2. /\ frame' \in [Jobs -> {"none", "live", "deleted", "unwound", "ruined"}]
        /\ armed' \in [Jobs -> BOOLEAN]
    BY <1>1, <1>2 DEF TypeOK
  <2>3. count' \in Int /\ signals' \in [Jobs -> Nat]
    BY <1>1, <1>2 DEF TypeOK
  <2> QED BY <1>1, <1>2, <1>6, <2>1, <2>2, <2>3 DEF TypeOK
<1>10. \A x \in Jobs : JobInv(x)'
  <2>1. JobInv(n)'
    <3>1. JobInv(n) /\ signals'[n] = signals[n]
      BY <1>2, <1>6 DEF IInv
    <3>2. op'[n] \in Awaitable(program', role'[n])
      BY <1>2, <1>5, <1>6, <1>8
    <3>3. n \in Spawned' /\ UNCHANGED <<stop_state, stopping, callback>>
      BY <1>2, <1>6
    <3> QED BY <1>1, <1>6, <1>8, <3>1, <3>2, <3>3, NewJobSound
  <2>2. ASSUME NEW x \in Jobs, x # n  PROVE JobInv(x)'
    <3>1. JobInv(x) /\ (x \in Spawned' <=> x \in Spawned) /\ (x \in Spawned => role'[x] = role[x])
      BY <1>6, <2>2 DEF IInv
    <3>2. frame'[x] = frame[x] /\ op'[x] = op[x] /\ signals'[x] = signals[x] /\ armed'[x] = armed[x]
      BY <1>2, <1>8, <2>2
    <3>3. UNCHANGED <<program, stop_state, stopping, callback>>
      BY <1>2
    <3> QED BY <3>1, <3>2, <3>3, OtherJobSound
  <2> QED BY <2>1, <2>2
<1>11. StopperInv'
  <2>1. \A x \in Spawned' : role'[x] \in {"timer1", "stopper"} =>
          x \in Spawned /\ role'[x] = role[x] /\ op'[x] = op[x] /\ stop_state'[x] = stop_state[x]
    BY <1>1, <1>2, <1>6, <1>8
  <2>2. ~stopping'
    BY <1>2
  <2> QED BY <2>1, <2>2 DEF StopperInv, IInv
<1>12. CountIsLiveJobs'
  <2> SUFFICES ASSUME Sound'  PROVE (count = Cardinality(LiveJobs))'
    BY DEF CountIsLiveJobs, LiveJobs
  <2>1. Sound
    BY <1>7, <1>8 DEF Sound
  <2>2. count = Cardinality(LiveJobs)
    BY <2>1 DEF CountIsLiveJobs, LiveJobs, IInv
  <2>3. LiveJobs' = LiveJobs \cup {n} /\ n \notin LiveJobs
    BY <1>6, <1>7, <1>8 DEF LiveJobs
  <2>4. IsFiniteSet(LiveJobs)
    BY JobsFinite DEF LiveJobs
  <2> QED BY <1>2, <2>2, <2>3, <2>4, FS_AddElement
<1> QED BY <1>9, <1>10, <1>11, <1>12 DEF IInv

LEMMA TimerExpiredKeeps ==
  ASSUME IInv, NEW j \in Spawned, TimerExpired(j)
  PROVE  IInv'
<1>0. PICK n : n = NewJob
  OBVIOUS
<1>1. TypeOK /\ j \in Jobs /\ Spawned \subseteq Jobs /\ role[j] \in DOMAIN program /\ JobInv(j)
  BY SpawnedAreJobs DEF IInv
<1>2. /\ Event(j, "expired") /\ Spawn("stopper") /\ ~stopping /\ role[j] = "timer1"
      /\ op' = [op EXCEPT ![j] = "none", ![NewJob] = "task"]
      /\ frame' = [frame EXCEPT ![j] = "deleted", ![NewJob] = "live"]
      /\ armed' = [armed EXCEPT ![j] = FALSE]
      /\ signals' = [signals EXCEPT ![j] = @ + 1]
      /\ count' = count + 1 - 1
      /\ UNCHANGED <<program, stop_state, asked, source, stopping, callback>>
  BY DEF TimerExpired, thread
<1>3. op[j] # "none" /\ frame[j] = "live"
  BY <1>1, <1>2, EventsOfLiveJobs
<1>4. WellFormed(program)
  BY <1>1, JobsAssumption DEF TypeOK
<1>5. "stopper" \in DOMAIN program /\ "task" \in Awaitable(program, "stopper")
  BY <1>1, <1>2, <1>4 DEF WellFormed, FirstOp
<1>6. /\ n \in Jobs /\ n \notin Spawned /\ Spawned' = Spawned \cup {n}
      /\ \A x \in Spawned : role'[x] = role[x]
      /\ role'[n] = "stopper"
      /\ role' \in Seq(DOMAIN program') /\ Len(role') <= MaxJobs
  BY <1>0, <1>1, <1>2, <1>5, SpawnedOne
<1>7. j # n /\ frame[n] = "none" /\ JobInv(n)
  BY <1>6 DEF IInv, JobInv
<1>8. /\ op'[n] = "task" /\ frame'[n] = "live" /\ signals'[n] = signals[n]
      /\ op'[j] = "none" /\ frame'[j] = "deleted" /\ ~armed'[j] /\ signals'[j] = 1
      /\ \A x \in Jobs \ {n, j} : /\ op'[x] = op[x] /\ frame'[x] = frame[x]
                                  /\ armed'[x] = armed[x] /\ signals'[x] = signals[x]
  <2>1. /\ op'[n] = "task" /\ op'[j] = "none" /\ \A x \in Jobs \ {n, j} : op'[x] = op[x]
    BY <1>0, <1>1, <1>2, <1>6, <1>7 DEF TypeOK
  <2>2. /\ frame'[n] = "live" /\ frame'[j] = "deleted"
        /\ \A x \in Jobs \ {n, j} : frame'[x] = frame[x]
    BY <1>0, <1>1, <1>2, <1>6, <1>7 DEF TypeOK
  <2>3. /\ ~armed'[j] /\ signals'[j] = signals[j] + 1 /\ signals'[n] = signals[n]
        /\ \A x \in Jobs \ {n, j} : armed'[x] = armed[x] /\ signals'[x] = signals[x]
    BY <1>0, <1>1, <1>2, <1>6, <1>7 DEF TypeOK
  <2>4. signals[j] = 0
    BY <1>1, <1>3 DEF JobInv, Calls
  <2> QED BY <2>1, <2>2, <2>3, <2>4
<1>9. TypeOK'
  <2>1. op' \in [Jobs -> DOMAIN EventsOf \cup {"none"}]
    BY <1>1, <1>2 DEF TypeOK, EventsOf
  <2>2. frame' \in [Jobs -> {"none", "live", "deleted", "unwound", "ruined"}]
    BY <1>1, <1>2 DEF TypeOK
  <2>3. armed' \in [Jobs -> BOOLEAN] /\ signals' \in [Jobs -> Nat] /\ count' \in Int
    BY <1>1, <1>2 DEF TypeOK
  <2> QED BY <1>1, <1>2, <1>6, <2>1, <2>2, <2>3 DEF TypeOK
<1>10. stop_state[j] = "running" /\ callback # j
  <2>1. callback # j
    BY <1>1, <1>2 DEF JobInv
  <2> QED BY <1>1, <1>3, <2>1, RunningOutsideCallback
<1>11. \A x \in Jobs : JobInv(x)'
  <2>1. JobInv(n)'
    <3>1. op'[n] \in Awaitable(program', role'[n])
      BY <1>2, <1>5, <1>6, <1>8
    <3>2. n \in Spawned' /\ UNCHANGED <<stop_state, stopping, callback>>
      BY <1>2, <1>6
    <3> QED BY <1>1, <1>6, <1>7, <1>8, <3>1, <3>2, NewJobSound
  <2>2. JobInv(j)'
    <3>1. j \in Spawned' /\ stop_state' = stop_state /\ callback' = callback
      BY <1>2, <1>6
    <3> QED BY <1>8, <1>10, <3>1 DEF JobInv, Calls
  <2>3. ASSUME NEW x \in Jobs, x # n, x # j  PROVE JobInv(x)'
    <3>1. JobInv(x) /\ (x \in Spawned' <=> x \in Spawned) /\ (x \in Spawned => role'[x] = role[x])
      BY <1>6, <2>3 DEF IInv
    <3>2. frame'[x] = frame[x] /\ op'[x] = op[x] /\ signals'[x] = signals[x] /\ armed'[x] = armed[x]
      BY <1>8, <2>3
    <3>3. UNCHANGED <<program, stop_state, stopping, callback>>
      BY <1>2
    <3> QED BY <3>1, <3>2, <3>3, OtherJobSound
  <2> QED BY <2>1, <2>2, <2>3
<1>12. StopperInv'
  \* While the timer was running there was no stopper, and there is no other such timer.
  <2>1. \A x \in Spawned : role[x] # "stopper" /\ (role[x] = "timer1" => x = j)
    BY <1>2, <1>3 DEF StopperInv, IInv
  <2>2. \A x \in Spawned' : x = n \/ (x \in Spawned /\ role'[x] = role[x])
    BY <1>6
  <2>3. stop_state'[n] = "running" /\ ~stopping'
    BY <1>2, <1>7 DEF JobInv
  <2> QED BY <1>6, <1>8, <2>1, <2>2, <2>3 DEF StopperInv
<1>13. CountIsLiveJobs'
  <2> SUFFICES ASSUME Sound'  PROVE (count = Cardinality(LiveJobs))'
    BY DEF CountIsLiveJobs, LiveJobs
  <2>1. Sound
    <3>1. \A x \in Jobs : frame[x] \in {"none", "live", frame'[x]}
      BY <1>3, <1>7, <1>8
    <3> QED BY <3>1 DEF Sound
  <2>2. count = Cardinality(LiveJobs) /\ count \in Int
    BY <1>1, <2>1 DEF CountIsLiveJobs, LiveJobs, IInv, TypeOK
  <2>3. LiveJobs' = (LiveJobs \ {j}) \cup {n} /\ n \notin LiveJobs /\ j \in LiveJobs
    BY <1>1, <1>3, <1>6, <1>7, <1>8 DEF LiveJobs
  <2>4. IsFiniteSet(LiveJobs) /\ IsFiniteSet(LiveJobs \ {j}) /\ Cardinality(LiveJobs) \in Nat
    BY JobsFinite DEF LiveJobs
  <2>5. Cardinality(LiveJobs \ {j}) = Cardinality(LiveJobs) - 1
    BY <2>3, <2>4, FS_RemoveElement
  <2>6. Cardinality(LiveJobs') = Cardinality(LiveJobs \ {j}) + 1
    BY <2>3, <2>4, FS_AddElement
  <2> QED BY <1>2, <2>2, <2>4, <2>5, <2>6
<1> QED BY <1>9, <1>11, <1>12, <1>13 DEF IInv

-----------------------------------------------------------------------------
(* The theorems. *)

LEMMA InitIInv ==
  ASSUME Init
  PROVE  IInv
<1>1. /\ program \in ProgramSet /\ role = FirstJobs(program) /\ WellFormed(program)
      /\ Len(role) <= MaxJobs /\ role \in Seq(DOMAIN program)
  BY JobsAssumption DEF Init, WellFormed
<1>2. /\ Len(role) \in Nat /\ Spawned = 1..Len(role) /\ Spawned \subseteq Jobs
      /\ \A j \in Spawned : role[j] \in DOMAIN program
  BY <1>1, JobsAssumption DEF Spawned, Jobs
<1>3. \A j \in Spawned : FirstOp[role[j]] \in Awaitable(program, role[j])
  BY <1>1, <1>2 DEF WellFormed
<1>4. \A j \in Jobs : op[j] = IF j \in Spawned THEN FirstOp[role[j]] ELSE "none"
  BY DEF Init
<1>5. TypeOK
  <2>1. \A j \in Jobs : op[j] \in DOMAIN EventsOf \cup {"none"}
    BY <1>3, <1>4, AwaitableOps
  <2>2. op \in [Jobs -> DOMAIN EventsOf \cup {"none"}]
    BY <2>1 DEF Init
  <2>3. frame \in [Jobs -> {"none", "live", "deleted", "unwound", "ruined"}]
    BY DEF Init
  <2>4. /\ stop_state \in [Jobs -> {"running", "stopping", "stopped"}]
        /\ armed \in [Jobs -> BOOLEAN] /\ asked \in [Jobs -> BOOLEAN]
        /\ signals \in [Jobs -> Nat]
    BY DEF Init
  <2>5. source \in BOOLEAN /\ stopping \in BOOLEAN /\ callback = 0
    BY DEF Init
  <2>6. count \in Int
    BY <1>2 DEF Init
  <2> QED BY <1>1, <1>2, <2>2, <2>3, <2>4, <2>5, <2>6 DEF TypeOK
<1>6. \A j \in Jobs : JobInv(j)
  <2> SUFFICES ASSUME NEW j \in Jobs  PROVE JobInv(j)
    OBVIOUS
  <2>1. /\ frame[j] = IF j \in Spawned THEN "live" ELSE "none"
        /\ stop_state[j] = "running" /\ armed[j] = (j \in Spawned)
        /\ signals[j] = 0 /\ callback # j
    BY JobsAssumption DEF Init, Jobs
  <2>2. j \in Spawned => op[j] # "none" /\ op[j] \in Awaitable(program, role[j])
    BY <1>3, <1>4, AwaitableOps
  <2> QED BY <1>4, <2>1, <2>2 DEF JobInv, Calls
<1>7. StopperInv
  <2>1. \/ role = <<"acceptor">> \/ role = <<"timer5", "timer1", "connector">>
    BY <1>1 DEF FirstJobs
  <2>2. \A j \in Spawned : role[j] # "stopper" /\ (role[j] = "timer1" => j = 2)
    BY <1>2, <2>1
  <2> QED BY <2>2 DEF StopperInv, Init
<1>8. CountIsLiveJobs
  <2>1. {j \in Jobs : frame[j] = "live"} = 1..Len(role)
    BY <1>2 DEF Init
  <2>2. Cardinality(1..Len(role)) = Len(role)
    BY <1>2, FS_Interval
  <2>3. count = Len(role)
    BY DEF Init
  <2> QED BY <2>1, <2>2, <2>3 DEF CountIsLiveJobs
<1> QED BY <1>5, <1>6, <1>7, <1>8 DEF IInv

LEMMA NextIInv ==
  ASSUME IInv, [Next]_vars
  PROVE  IInv'
<1>1. CASE Next
  <2>1. PICK j \in Spawned :
          \/ \E e \in Events : Resume(j, e)
          \/ Accepted(j) \/ TimerExpired(j) \/ CallStop(j)
          \/ AnswerStop(j)
          \/ Thread(j)
    BY <1>1 DEF Next
  <2>2. CASE \E e \in Events : Resume(j, e)
    BY <2>2, ResumeKeeps
  <2>3. CASE Accepted(j)
    BY <2>3, AcceptedKeeps
  <2>4. CASE TimerExpired(j)
    BY <2>4, TimerExpiredKeeps
  <2>5. CASE CallStop(j)
    BY <2>5, CallStopKeeps
  <2>6. CASE AnswerStop(j)
    BY <2>6, AnswerStopKeeps
  <2>7. CASE Thread(j)
    BY <2>7, StopCallbackKeeps, CallbackReturnsKeeps, StopReturnsKeeps, FinalSuspendKeeps DEF Thread
  <2> QED BY <2>1, <2>2, <2>3, <2>4, <2>5, <2>6, <2>7
<1>2. CASE UNCHANGED vars
  BY <1>2 DEF vars, IInv, TypeOK, JobInv, StopperInv, CountIsLiveJobs, Sound, Spawned
<1> QED BY <1>1, <1>2

LEMMA IInvCorrect == Spec => []IInv
BY InitIInv, NextIInv, PTL DEF Spec

(* The variables of the scope and of its jobs keep their types.              *)
THEOREM TypeCorrect == Spec => []TypeOK
<1>1. IInv => TypeOK
  BY DEF IInv
<1> QED BY <1>1, IInvCorrect, PTL

(* As long as no exception leaves a coroutine, the scope's receiver is       *)
(* called once for a job, whether it returns, is stopped inside its stop     *)
(* callback, or answers the request later, and a job that has ended has no   *)
(* operation pending and no stop callback registered or running.             *)
THEOREM JobsCorrect == Spec => []JobsEndOnce
<1>1. ASSUME IInv  PROVE JobsEndOnce
  <2>1. \A j \in Jobs : /\ frame[j] = "ruined" \/ signals[j] <= 1
                        /\ frame[j] # "live" => op[j] = "none" /\ ~armed[j] /\ callback # j
    BY <1>1 DEF IInv, JobInv, Calls
  <2> QED BY <2>1 DEF JobsEndOnce, CompletedOnce, Sound
<1> QED BY <1>1, IInvCorrect, PTL

(* The count of the scope is the number of jobs alive, also after an accept  *)
(* or a timer that spawned a job, and after stop().                          *)
THEOREM CountCorrect == Spec => []CountIsLiveJobs
<1>1. IInv => CountIsLiveJobs
  BY DEF IInv
<1> QED BY <1>1, IInvCorrect, PTL

(* When io_context::run() returns, because nothing is pending any more, no   *)
(* job is left: main() can destroy the scope.                                *)
THEOREM ExitCorrect == Spec => []NoLiveJobsAtExit
<1>1. ASSUME IInv  PROVE NoLiveJobsAtExit
  <2> SUFFICES ASSUME Sound, ~stopping, \A j \in Jobs : op[j] = "none"  PROVE count = 0
    BY DEF NoLiveJobsAtExit
  <2>1. ASSUME NEW j \in Jobs  PROVE frame[j] # "live"
    BY <1>1 DEF IInv, JobInv
  <2>2. {j \in Jobs : frame[j] = "live"} = {}
    BY <2>1
  <2> QED BY <1>1, <2>2, FS_EmptySet DEF IInv, CountIsLiveJobs
<1> QED BY <1>1, IInvCorrect, PTL

=============================================================================
