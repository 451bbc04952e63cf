----------------------------- MODULE DemoStream -----------------------------
(* The buffered stream of the examples and the HTTP request read from it:    *)
(* memory_stream.cpp feeds the reader small pieces of a request through the  *)
(* turns of demo::context, the reader looks for the end of one field after   *)
(* the other in a buffer it moves along and compacts.  Bytes are "x" for     *)
(* text, "s" for a space, "r" and "n" for the end of a line.                 *)
EXTENDS Naturals, Sequences, SequencesExt, FiniteSetsExt

CONSTANTS
  Inputs,      \* the requests, one of them is sent
  Chunks,      \* the sizes of the pieces, one of them is used
  BufferSize   \* basic_buffered::buffer

Bytes == {"x", "s", "r", "n"}

ASSUME BufferAssumption ==
  /\ Inputs \subseteq Seq(Bytes) /\ Chunks \subseteq Nat \ {0}
  /\ BufferSize \in Nat /\ BufferSize > 3

VARIABLES
  input, chunk,  \* the request and the size of its pieces
  data,          \* the captured rest of it that the update has not passed on
  updates,       \* context::updates holds the update of the stream
  registered,    \* context::streams points to the pending receive
  it, held,      \* buffer: where the bytes not consumed begin, and these bytes
  reader,        \* "reading", "receiving" or "done"
  to,            \* the field being read
  fields         \* the fields that were read

streamVars == <<input, chunk, data, updates, registered, it, held, reader, to, fields>>
feed == <<input, chunk, data, updates>>

StreamInit ==
  /\ input \in Inputs /\ chunk \in Chunks
  /\ data = input
  /\ updates = TRUE /\ registered = FALSE
  /\ it = 0 /\ held = <<>>
  /\ reader = "reading"
  /\ to = <<>> /\ fields = <<>>

(* request() reads the method and the URL up to a space, then lines.         *)
Sentinel(k) == IF k <= 2 THEN <<"s">> ELSE <<"r", "n">>

Current == Sentinel(Len(fields) + 1)

Hits(s, t) == {i \in 1..(Len(s) - Len(t) + 1) : SubSeq(s, i, i + Len(t) - 1) = t}

-----------------------------------------------------------------------------
(* consume() finds the end of the field; request() goes on to the next one,  *)
(* and is done with an empty line.                                           *)
FindField ==
  /\ reader = "reading"
  /\ Hits(held, Current) # {}
  /\ LET i == Min(Hits(held, Current))
         field == to \o SubSeq(held, 1, i - 1)
         next == i + Len(Current) IN
     /\ fields' = Append(fields, field)
     /\ held' = SubSeq(held, next, Len(held))
     /\ it' = it + next - 1
     /\ reader' = IF Len(fields) >= 3 /\ field = <<>> THEN "done" ELSE "reading"
  /\ to' = <<>>
  /\ UNCHANGED <<feed, registered>>

(* Fault: the bytes of a line are all taken when its end is not found.       *)
KeptNone == 0

(* consume() does not find it: all that cannot be its beginning is taken.    *)
(* Size counts the sentinel's terminating zero.                              *)
Kept == IF Len(Current) = 1 THEN 0 ELSE Min({Len(held), Len(Current) + 1})

(* Fault: the buffer is never compacted.                                     *)
CompactsNever(free) == FALSE

Compacts(free) == free < BufferSize \div 2

StartReceive ==
  /\ reader = "reading"
  /\ Hits(held, Current) = {}
  /\ LET taken == Len(held) - Kept IN
     /\ to' = to \o SubSeq(held, 1, taken)
     /\ held' = SubSeq(held, taken + 1, Len(held))
     /\ it' = IF Compacts(BufferSize - (it + Len(held))) THEN 0 ELSE it + taken
  /\ registered' = TRUE
  /\ reader' = "receiving"
  /\ UNCHANGED <<feed, fields>>

Room == BufferSize - (it + Len(held))

(* context::next(): the update passes a piece on, as much as fits; the       *)
(* receive is taken out first, for the reader may start the next one.        *)
Feed ==
  /\ updates /\ registered /\ reader = "receiving"
  /\ LET n == Min({chunk, Len(data), Room}) IN
     /\ n > 0
     /\ held' = held \o SubSeq(data, 1, n)
     /\ data' = SubSeq(data, n + 1, Len(data))
  /\ registered' = FALSE
  /\ reader' = "reading"
  /\ UNCHANGED <<input, chunk, updates, it, to, fields>>

(* Fault: the update stays when nothing is left to feed.                     *)
FeedNothingStays ==
  /\ updates /\ registered /\ reader = "receiving"
  /\ Min({Len(data), Room}) = 0
  /\ registered' = TRUE
  /\ UNCHANGED <<feed, it, held, reader, to, fields>>

(* No byte is the end of the stream: the reader gives up and the update goes. *)
FeedNothing ==
  /\ updates /\ registered /\ reader = "receiving"
  /\ Min({Len(data), Room}) = 0
  /\ registered' = FALSE
  /\ reader' = "done"
  /\ updates' = FALSE
  /\ UNCHANGED <<input, chunk, data, it, held, to, fields>>

(* An update whose stream does not receive is dropped.  The reader has run   *)
(* as far as it can before the context's next turn on the same run loop.     *)
DropUpdate ==
  /\ updates /\ ~registered /\ reader = "done"
  /\ updates' = FALSE
  /\ UNCHANGED <<input, chunk, data, registered, it, held, reader, to, fields>>

StreamNext == FindField \/ StartReceive \/ Feed \/ FeedNothing \/ DropUpdate

StreamSpec == StreamInit /\ [][StreamNext]_streamVars

(* The run loop of sync_wait goes on as long as there is something to run.   *)
StreamFairSpec == StreamSpec /\ WF_streamVars(StreamNext)

-----------------------------------------------------------------------------
(* However the request is cut into pieces, and wherever the buffer is        *)
(* compacted, no byte is lost, repeated or moved: the fields with their      *)
(* ends, the field being read, the buffer and the rest are the request.      *)
Sent(k) == IF k = 0 THEN <<>> ELSE fields[k] \o Sentinel(k)

BytesAccounted ==
  FlattenSeq([k \in 1..Len(fields) |-> Sent(k)]) \o to \o held \o data = input

(* A field ends at the first occurrence of its sentinel, also when that was  *)
(* received in two pieces.                                                   *)
FieldsExact ==
  /\ BytesAccounted
  /\ \A k \in 1..Len(fields) : Hits(Sent(k), Sentinel(k)) = {Len(fields[k]) + 1}
  /\ Hits(to, Current) = {}

(* A receive is never given an empty buffer, whose zero bytes the reader     *)
(* would take for the end of the stream, and the bytes fit into the buffer.  *)
RoomToReceive == it + Len(held) <= BufferSize /\ (registered => Room > 0)

(* sync_wait returns: the reader ends and the context runs out of updates.   *)
ReaderReturns == <>(reader = "done" /\ ~updates)
=============================================================================
