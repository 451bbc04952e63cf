----------------------------- MODULE SenderState -----------------------------
(***************************************************************************)
(* detail/sender.hpp: the part of sender_state that decides which signal   *)
(* the receiver gets and how often.  `count' is d_outstanding, `armed'     *)
(* says that d_callback is registered with the stop token and has not been *)
(* invoked, `signals' lists the completions the receiver has been given    *)
(* (the class keeps no such list: it is the observable effect of           *)
(* set_value, set_error and set_stopped).                                  *)
(***************************************************************************)
EXTENDS Integers, Sequences

Signals == {"value", "error", "stopped"}

SenderStates == [count : Int, armed : BOOLEAN, signals : Seq(Signals)]

FreshState == [count |-> 0, armed |-> FALSE, signals |-> << >>]

(* start(): ++d_outstanding and d_callback.emplace(token, this) with a     *)
(* token that has not been stopped.                                        *)
Started(s) == [count |-> s.count + 1, armed |-> TRUE, signals |-> s.signals]

(* Fault: the count does not guard the signal.                              *)
FinishAlways(s, sig) ==
  [count |-> s.count - 1, armed |-> FALSE, signals |-> Append(s.signals, sig)]

(* if (0 == --d_outstanding) { d_callback.reset(); signal the receiver }   *)
Finish(s, sig) ==
  IF s.count - 1 = 0
  THEN [count |-> 0, armed |-> FALSE, signals |-> Append(s.signals, sig)]
  ELSE [count |-> s.count - 1, armed |-> s.armed, signals |-> s.signals]

(* sender_state::complete(), ::error() *)
Complete(s) == Finish(s, "value")
Error(s) == Finish(s, "error")

(* sender_state::cancel() and cancel_callback::complete(): the same        *)
(* decrement, the callback is left in place.                               *)
Cancel(s) ==
  IF s.count - 1 = 0
  THEN [count |-> 0, armed |-> s.armed, signals |-> Append(s.signals, "stopped")]
  ELSE [count |-> s.count - 1, armed |-> s.armed, signals |-> s.signals]
CallbackComplete(s) == Cancel(s)

(* Fault: the callback does not count itself. *)
CallbackNotCounted(s) == [s EXCEPT !.armed = FALSE]

(* cancel_callback::operator()(): ++d_outstanding; the stop state has      *)
(* taken the callback off its list before it calls it.                     *)
CallbackEntered(s) == [count |-> s.count + 1, armed |-> FALSE, signals |-> s.signals]

(* complete() of the state behind io_context_scheduler::schedule(), which   *)
(* has neither count nor callback: it always signals the receiver.         *)
TaskComplete(s) ==
  [count |-> s.count, armed |-> s.armed, signals |-> Append(s.signals, "value")]

(* 1 < ++d_outstanding *)
MustCancel(s) == s.count + 1 > 1

==============================================================================
