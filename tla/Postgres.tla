------------------------------ MODULE Postgres ------------------------------
(* The postgres example programs: requests that share one connection through *)
(* pg::limit (pg::mutex in the talks' versions), the steps of a query on the *)
(* connection, and the run loop of io_context::async_run() beside a clock,   *)
(* all under sync_wait(when_any(async_run, clock, when_all(requests...))).   *)
(* One thread runs everything; a request that completes first starts the     *)
(* next one and only then passes its own completion on.                      *)
(*                                                                           *)
(* io_context is the poll_context here: run_one() also returns 0 when poll(2)*)
(* fails, and an operation that is started with a token whose stop was       *)
(* requested ends in std::terminate(), because cancel() does not find it.    *)
EXTENDS Naturals, Sequences

CONSTANTS
  Requests,   \* the requests that use the connection
  Paused,     \* those that sleep after their query, in the programs that do
  Programs,   \* the programs to run, one of them is chosen
  None

ASSUME RequestsAssumption == Paused \subseteq Requests /\ None \notin Requests

VARIABLES
  program,
  phase,       \* per request: "new", "waiting", "holding", "out", "in", "done", "pause", "over"
  outcome,     \* per request: how its query completed, or None
  got,         \* per request: the requests whose results it read
  in_use, head,      \* limit: the flag and the list of waiting states
  delivering,  \* the completions under way on the thread, innermost first
  owner, bad,  \* connection: the query in progress, and whether it was lost
  stop,        \* the requests have been asked to stop
  terminated,  \* std::terminate() was called
  clock,       \* the clock's timer is pending
  run, last_count    \* async_run(): "next", "scheduled" or "ended"

vars == <<program, phase, outcome, got, in_use, head, delivering, owner, bad, stop, terminated,
          clock, run, last_count>>
limit == <<in_use, head>>
conn == <<owner, bad>>
stops == <<stop, terminated>>
loop == <<clock, run, last_count>>

(* What distinguishes the programs' query functions: which of their waits    *)
(* can be stopped, and which failures end the query.                         *)
exec2 == [stoppable |-> {"out", "in"}, fatal |-> {"poll", "consume"}, pauses |-> FALSE]

exec1 == [stoppable |-> {"out", "in"}, fatal |-> {}, pauses |-> FALSE]

postgres_talk == [stoppable |-> {"out"}, fatal |-> {"send", "poll"}, pauses |-> FALSE]

postgres_talk_accuonsea == postgres_talk

postgres_talk_cppnow == [stoppable |-> {"pause"}, fatal |-> {"send", "poll", "consume"}, pauses |-> TRUE]

AllPrograms == {exec1, postgres_talk, postgres_talk_accuonsea, postgres_talk_cppnow}

Holding == {"holding", "out", "in"}

Init ==
  /\ program \in Programs
  /\ phase = [q \in Requests |-> "new"]
  /\ outcome = [q \in Requests |-> None]
  /\ got = [q \in Requests |-> {}]
  /\ in_use = FALSE /\ head = <<>>
  /\ delivering = <<>>
  /\ owner = None /\ bad = FALSE
  /\ stop = FALSE /\ terminated = FALSE
  /\ clock = TRUE
  /\ run = "next" /\ last_count = 1

(* The wait of q is being stopped: the callback is called by request_stop(). *)
Stopping(q) == stop /\ ~terminated /\ phase[q] \in program.stoppable

(* The children of when_any are started one after the other, then the thread *)
(* is in the run loop of sync_wait.                                          *)
Idle ==
  /\ ~terminated /\ delivering = <<>>
  /\ \A q \in Requests : phase[q] # "holding" /\ ~Stopping(q)

InLoop == Idle /\ \A q \in Requests : phase[q] # "new"

-----------------------------------------------------------------------------
(* state::start(): a request waits in front of the list, or runs.            *)
Start(q) ==
  /\ Idle
  /\ phase[q] = "new"
  /\ in_use' = TRUE
  /\ IF in_use
     THEN head' = <<q>> \o head /\ phase' = [phase EXCEPT ![q] = "waiting"]
     ELSE head' = head /\ phase' = [phase EXCEPT ![q] = "holding"]
  /\ UNCHANGED <<program, outcome, got, delivering, conn, stops, loop>>

(* Fault: the flag is reset although the next request runs.                  *)
HandOverFree(q) ==
  /\ in_use' = FALSE
  /\ IF head # <<>>
     THEN phase' = [phase EXCEPT ![q] = "done", ![Head(head)] = "holding"] /\ head' = Tail(head)
     ELSE phase' = [phase EXCEPT ![q] = "done"] /\ head' = head

(* The query is complete, state::complete() hands the connection on: the     *)
(* first of the list runs now, the completion of q is still to be passed on. *)
HandOver(q) ==
  IF head # <<>>
  THEN /\ phase' = [phase EXCEPT ![q] = "done", ![Head(head)] = "holding"]
       /\ head' = Tail(head)
       /\ in_use' = in_use
  ELSE /\ phase' = [phase EXCEPT ![q] = "done"]
       /\ head' = head
       /\ in_use' = FALSE

Finish(q, s) ==
  /\ HandOver(q)
  /\ outcome' = [outcome EXCEPT ![q] = s]
  /\ delivering' = <<q>> \o delivering

(* The request awaits the socket, or a timer.  An operation that can be      *)
(* stopped and finds its stop requested when it is started is not known to   *)
(* the context yet: std::terminate().                                        *)
Await(q, io) ==
  /\ phase' = [phase EXCEPT ![q] = io]
  /\ terminated' = (stop /\ io \in program.stoppable)

AwaitSocket(q, io) == Await(q, io) /\ UNCHANGED <<outcome, got, limit, delivering>>

(* The last result of the query o frees the connection for the next one.     *)
ReadResults(q, o) ==
  /\ Finish(q, "value")
  /\ got' = [got EXCEPT ![q] = @ \union ({o} \ {None})]
  /\ owner' = None
  /\ UNCHANGED terminated

(* After the query o was sent, PQflush() may want to write more, which is    *)
(* also how the programs read its -1 for a connection that is lost; when it  *)
(* is done, the results are awaited, or are there already and are read.      *)
GoOn(q, o) ==
  \/ AwaitSocket(q, "out") /\ owner' = o
  \/ o # None /\ AwaitSocket(q, "in") /\ owner' = o
  \/ ReadResults(q, o)

(* PQsendQuery() fails on a connection that is lost or has a query under way. *)
Send(q) ==
  /\ phase[q] = "holding" /\ ~terminated
  /\ IF owner = None /\ ~bad THEN GoOn(q, q)
     ELSE IF "send" \in program.fatal
     THEN Finish(q, "error") /\ UNCHANGED <<got, owner, terminated>>
     ELSE GoOn(q, owner)
  /\ UNCHANGED <<program, bad, stop, loop>>

(* io_context::run_one() inside async_run() completes one operation.         *)
RunOne ==
  /\ InLoop
  /\ run = "scheduled"
  /\ run' = "next"
  /\ last_count' = 1

(* A poll completes, or fails where the failure is ignored.                  *)
OutReady(q) ==
  /\ RunOne
  /\ phase[q] = "out"
  /\ GoOn(q, owner)
  /\ UNCHANGED <<program, bad, stop, clock>>

(* The connection is lost while the query is written: PQflush() returns -1,  *)
(* which asks for another poll.                                              *)
FlushFails(q) ==
  /\ RunOne
  /\ phase[q] = "out"
  /\ bad' = TRUE
  /\ owner' = None
  /\ AwaitSocket(q, "out")
  /\ UNCHANGED <<program, stop, clock>>

InReady(q) ==
  /\ RunOne
  /\ phase[q] = "in"
  /\ \/ AwaitSocket(q, "in") /\ UNCHANGED owner
     \/ ReadResults(q, owner)
  /\ UNCHANGED <<program, bad, stop, clock>>

(* The query ends in the middle: the connection still has it under way.      *)
PollFails(q) ==
  /\ RunOne
  /\ phase[q] \in {"out", "in"} /\ "poll" \in program.fatal
  /\ Finish(q, "error")
  /\ UNCHANGED <<program, got, conn, stops, clock>>

(* PQconsumeInput() fails: the connection is lost.  A query that goes on     *)
(* reads the error as its last result.                                       *)
ConsumeFails(q) ==
  /\ RunOne
  /\ phase[q] = "in"
  /\ bad' = TRUE
  /\ owner' = None
  /\ Finish(q, IF "consume" \in program.fatal THEN "error" ELSE "value")
  /\ UNCHANGED <<program, got, stops, clock>>

(* A stop request reaches the poll of q: its query completes with            *)
(* set_stopped, and the connection still has it under way.                   *)
PollStops(q) ==
  /\ phase[q] \in {"out", "in"} /\ Stopping(q)
  /\ Finish(q, "stopped")
  /\ UNCHANGED <<program, got, conn, stops, loop>>

-----------------------------------------------------------------------------
(* Fault: the clock runs on when the requests are over.                      *)
OverKeepsClock(q) ==
  /\ phase' = [phase EXCEPT ![q] = "over"]
  /\ clock' = clock

(* when_all has all its children: when_any asks the clock to stop.           *)
Over(q) ==
  /\ phase' = [phase EXCEPT ![q] = "over"]
  /\ clock' = (clock /\ \E p \in Requests \ {q} : phase[p] # "over")

(* Innermost first, the completions reach when_all, but for the requests     *)
(* that sleep; one that is not a value has when_all stop the others.         *)
Deliver ==
  /\ delivering # <<>> /\ ~terminated /\ \A q \in Requests : phase[q] # "holding"
  /\ delivering' = Tail(delivering)
  /\ LET q == Head(delivering) IN
     IF outcome[q] = "value" /\ program.pauses /\ q \in Paused
     THEN Await(q, "pause") /\ UNCHANGED <<stop, clock>>
     ELSE Over(q) /\ stop' = (stop \/ outcome[q] # "value") /\ UNCHANGED terminated
  /\ UNCHANGED <<program, outcome, got, limit, conn, run, last_count>>

PauseEnds(q) ==
  /\ phase[q] = "pause"
  /\ RunOne
  /\ Over(q)
  /\ UNCHANGED <<program, outcome, got, limit, delivering, conn, stops>>

PauseStops(q) ==
  /\ phase[q] = "pause" /\ Stopping(q)
  /\ Over(q)
  /\ UNCHANGED <<program, outcome, got, limit, delivering, conn, stops, run, last_count>>

ClockTicks ==
  /\ clock
  /\ RunOne
  /\ UNCHANGED <<program, phase, outcome, got, limit, delivering, conn, stops, clock>>

NothingPending == ~clock /\ \A q \in Requests : phase[q] \notin {"out", "in", "pause"}

RunOneEmpty ==
  /\ InLoop
  /\ run = "scheduled" /\ NothingPending
  /\ run' = "next"
  /\ last_count' = 0
  /\ UNCHANGED <<program, phase, outcome, got, limit, delivering, conn, stops, clock>>

(* poll(2) fails with another error than EINTR: run_one() returns 0 although *)
(* there are operations it could wait for.                                   *)
RunOneFails ==
  /\ InLoop
  /\ run = "scheduled" /\ ~NothingPending
  /\ run' = "next"
  /\ last_count' = 0
  /\ UNCHANGED <<program, phase, outcome, got, limit, delivering, conn, stops, clock>>

(* repeat_effect_until in async_run(): the predicate, then the body again,   *)
(* through the scheduler of sync_wait.  async_run() itself cannot be stopped;*)
(* when it ends, when_any asks the clock and the requests to stop.           *)
RunNext ==
  /\ InLoop
  /\ run = "next"
  /\ IF last_count = 0
     THEN run' = "ended" /\ stop' = TRUE /\ clock' = FALSE
     ELSE run' = "scheduled" /\ UNCHANGED <<stop, clock>>
  /\ UNCHANGED <<program, phase, outcome, got, limit, delivering, conn, terminated, last_count>>

Request(q) ==
  \/ Start(q) \/ Send(q) \/ OutReady(q) \/ FlushFails(q) \/ InReady(q) \/ PollFails(q)
  \/ ConsumeFails(q) \/ PollStops(q) \/ PauseEnds(q) \/ PauseStops(q)

Next ==
  \/ \E q \in Requests : Request(q)
  \/ Deliver \/ ClockTicks \/ RunOneEmpty \/ RunOneFails \/ RunNext

Spec == Init /\ [][Next]_vars

(* The thread runs on, and as long as the connection is not lost a query is  *)
(* written and the server answers in the end.                                *)
Leaves(q, io) == phase[q] = io /\ phase'[q] # io /\ ~bad

FairSpec ==
  /\ Spec
  /\ WF_vars(Deliver) /\ WF_vars(RunOneEmpty) /\ WF_vars(RunNext)
  /\ \A q \in Requests :
       /\ WF_vars(Start(q)) /\ WF_vars(Send(q)) /\ WF_vars(PollStops(q)) /\ WF_vars(PauseStops(q))
       /\ SF_vars(OutReady(q) /\ Leaves(q, "out")) /\ SF_vars(InReady(q) /\ Leaves(q, "in"))
       /\ SF_vars(PauseEnds(q))

-----------------------------------------------------------------------------
(* The connection has one user at a time, the flag says whether it has one,  *)
(* and the list holds the others once each: nobody waits for a connection    *)
(* that is free, also when requests complete inside each other's completion. *)
Users == {q \in Requests : phase[q] \in Holding}

LimitSound ==
  /\ in_use <=> Users # {}
  /\ \A p, q \in Users : p = q
  /\ Users = {} => head = <<>>
  /\ \A q \in Requests : phase[q] = "waiting" <=> \E i \in DOMAIN head : head[i] = q
  /\ \A i, j \in DOMAIN head : head[i] = head[j] => i = j

(* A request that completes with a value has read no other request's results, *)
(* whichever requests were stopped or failed in the middle of their query,   *)
(* with one exception: a program that does not look at what PQsendQuery()    *)
(* returns reads the results of a query that was stopped before.             *)
OwnResults ==
  \A q \in Requests : outcome[q] = "value" =>
    \A p \in got[q] \ {q} : "send" \notin program.fatal /\ outcome[p] = "stopped"

(* main() returns: async_run() and the requests have ended, and so the clock. *)
Returned == run = "ended" /\ \A q \in Requests : phase[q] = "over"

(* run_one() has failed under a poll that cannot be stopped.                 *)
Deserted == run = "ended" /\ \E q \in Requests : phase[q] \in {"out", "in"} \ program.stoppable

(* The connection is lost and PQflush() still asks for another poll.         *)
FlushesForEver == bad /\ \E q \in Requests : phase[q] = "out"

(* main() returns, unless one of three things keeps it from it: no request   *)
(* is left waiting for the connection by one that failed, was stopped or     *)
(* completed within another's completion, and the clock does not keep        *)
(* async_run() going when the requests are over.                             *)
ProgramEnds == <>[](Returned \/ terminated \/ Deserted \/ FlushesForEver)
=============================================================================
