------------------------------ MODULE Programs ------------------------------
(* The coroutines of the example programs.  A coroutine is a table: for each *)
(* completion it may be resumed with, where it can go on: to the next        *)
(* operation it awaits, to its end, or out of it with an exception ("throw", *)
(* also when it is a task awaited by the job that the exception leaves).     *)
(* What the request says and the response contains is abstracted to these    *)
(* choices.  A table with "timeout" awaits its accept or receive in a        *)
(* when_any with a timer.                                                    *)
EXTENDS Sequences

(* How an operation may complete, a stop request aside.                      *)
EventsOf ==
  [accept |-> {"connection", "error"}, receive |-> {"data", "eof", "error"},
   send |-> {"sent", "lost"}, connect |-> {"connected", "refused"},
   timer |-> {"expired"}, task |-> {"run"}]

FirstOp ==
  [acceptor |-> "accept", client |-> "receive", connector |-> "connect",
   timer5 |-> "timer", timer1 |-> "timer", stopper |-> "task"]

AcceptLoop == [connection |-> {"accept"}, error |-> {"throw"}]

(* The send is awaited by process_request, a task of its own, that           *)
(* make_client awaits.  A failing send leaves process_request with an        *)
(* exception: unhandled_exception() resumes make_client, which ends the      *)
(* expression that holds the frame of process_request, catches, ends and is  *)
(* deleted; process_request then goes on to its final suspension.  For the   *)
(* job it is what an exception leaving make_client would be.                 *)
http_server ==
  [acceptor |-> AcceptLoop,
   client |-> [data |-> {"receive", "send", "return"}, eof |-> {"return"}, error |-> {"return"},
               timeout |-> {"return"}, sent |-> {"return"}, lost |-> {"throw"}]]

(* The handler catches what when_any throws, a variant, and nothing else.    *)
cppcon_2024 ==
  [acceptor |-> AcceptLoop,
   client |-> [data |-> {"receive", "send"}, eof |-> {"return"}, error |-> {"return"},
               timeout |-> {"return"}, sent |-> {"return"}, lost |-> {"throw"}]]

milano ==
  [acceptor |-> AcceptLoop,
   client |-> [data |-> {"send", "return"}, eof |-> {"return"}, error |-> {"return"},
               timeout |-> {"return"}, sent |-> {"receive"}, lost |-> {"return"}]]

munich ==
  [acceptor |-> AcceptLoop,
   client |-> [data |-> {"send", "receive"}, eof |-> {"return"}, error |-> {"throw"},
               timeout |-> {"return"}, sent |-> {"receive"}, lost |-> {"throw"}]]

(* http_munich.cpp differs from munich.cpp in its formatting only.           *)
http_munich == munich

(* The errors of the library are error codes, not std::exceptions: they pass *)
(* through make_client's handler, not through the acceptor's catch (...).    *)
server ==
  [acceptor |-> [connection |-> {"accept"}, error |-> {"accept"}, timeout |-> {"accept"}],
   client |-> [data |-> {"send"}, eof |-> {"return"}, error |-> {"throw"},
               sent |-> {"receive"}, lost |-> {"throw"}]]

client ==
  [timer5 |-> [expired |-> {"return"}],
   timer1 |-> [expired |-> {"return"}],
   stopper |-> [run |-> {"return"}],
   connector |-> [connected |-> {"send"}, refused |-> {"return"}, sent |-> {"receive", "return"},
                  lost |-> {"throw"}, data |-> {"receive"}, eof |-> {"return"}, error |-> {"throw"}]]

(* The programs start one acceptor, or client.cpp's three jobs.              *)
FirstJobs(p) == IF "acceptor" \in DOMAIN p THEN <<"acceptor">> ELSE <<"timer5", "timer1", "connector">>

(* The operations whose completions the table of r has an answer for.        *)
Awaitable(p, r) == {o \in DOMAIN EventsOf : EventsOf[o] \subseteq DOMAIN p[r]}

(* A program whose coroutines await only such operations, and which has the  *)
(* coroutines that its completions spawn.                                    *)
WellFormed(p) ==
  /\ FirstJobs(p) \in Seq(DOMAIN p)
  /\ \A r \in DOMAIN p :
       /\ r \in DOMAIN FirstOp /\ FirstOp[r] \in Awaitable(p, r)
       /\ "accept" \in Awaitable(p, r) => "client" \in DOMAIN p
       /\ \A e \in DOMAIN p[r] : p[r][e] \subseteq Awaitable(p, r) \cup {"return", "throw"}
  /\ "timer1" \in DOMAIN p => "stopper" \in DOMAIN p

AllPrograms == {http_server, cppcon_2024, milano, munich, http_munich, server, client}
=============================================================================
