# A TLA+ model of beman.net

beman.net (`beman-project/net29`) is a header-only C++ library of asynchronous
networking on senders and receivers. Its core is an event loop with three
implementations (poll(2), io_uring, Windows I/O completion ports) behind one
interface, the operation states that connect a receiver to the loop, and two
small containers below. Above are the socket classes, and, in `src/examples`,
a coroutine task, a scope, `when_any`, a buffered stream and the programs built
from them. This directory models all of these, model-checks them with TLC, and
proves the central properties of the container, the socket classes, the list of
timers, the three event loops, `when_any`, the scope, the stream and the postgres
programs with TLAPS.

Paths below are relative to `src/include/beman/net/detail/`, or to
`src/examples/` for the examples.

## 1. The system

### 1.1 Components

| component | state | operations | modules |
|---|---|---|---|
| `container` (`container.hpp`): `socket_id` to record | vector of variants, a free list threaded through the dead slots | `insert`, `erase`, `operator[]` | Container, SocketTable |
| sockets and acceptor (`basic_socket.hpp`, `basic_stream_socket.hpp`, `basic_socket_acceptor.hpp`) | a `socket_id` each | constructors, moves, `open`, `close`, destructors | Sockets |
| `sorted_list` (`sorted_list.hpp`): timers by deadline | intrusive singly linked list | `insert`, `erase`, `pop_front`, `front` | TimerList, SortedList |
| `sender_state` (`sender.hpp`): one asynchronous operation | counter `d_outstanding`, optional stop callback | `start`, `complete`, `error`, `cancel`, the callback | SenderState, AsyncOps |
| `poll_context` (`poll_context.hpp`) | sockets, parallel vectors `d_poll` / `d_outstanding`, timers, task stack | `make_socket`, `release`, the submissions, `cancel`, `schedule`, `run_one` | PollContext |
| `uring_context` (`uring_context.hpp`) | sockets, task stack, counters `submitting` / `outstanding`, the ring | the same | UringContext |
| `iocp_context` (`iocp_context.hpp`) | sockets with overlapped blocks, timers, task stack, counter `outstanding`, list `deferred` | the same | IocpContext |
| `io_context`, its scheduler (`io_context.hpp`, `io_context_scheduler.hpp`) | owns or refers to a context | `run`, `schedule`; `async_run` | the three context modules; Postgres |
| operation descriptors (`operations.hpp`, `timer.hpp`) | arguments and results | what each passes to the context, how it may complete | the three context modules, Programs |
| `repeat_effect_until` | operation state of the body | `start`, `run_next` | Postgres (its loop) |
| `when_any`, `into_error` (`demo_algorithm.hpp`) | two atomic counters, a stop source, the stored result | start, the children's completions | WhenAny, FirstWins |
| `demo::task`, `demo::scope` (`demo_task.hpp`, `demo_scope.hpp`) with seven programs | stop state and callback of a coroutine; count and stop source of a scope | `spawn`, `stop`, resumption, completion | TaskScope, Programs |
| the postgres programs (`postgres*.cpp`) | a connection shared through `pg::limit` / `pg::mutex` | queries, hand-over, `async_run` beside a clock | Postgres |
| the buffered stream (`demo_stream.hpp`, `demo_http.hpp`, `memory_stream.cpp`) | a buffer, the fields of a request, pending updates | `read`, `consume`, `next` | DemoStream |
| `scope.hpp`, `task.hpp`, `preconnection.hpp` and the connection helpers | environments, property objects | sequences of the calls above | not modelled: no state of their own |
| `internet.hpp`, `endpoint.hpp`, `buffer.hpp`, ... | values | conversions, formatting | not modelled: data only |

### 1.2 How they interact

Everything runs on one thread: the contexts take no lock and `wakeup()` is
empty. The interleaving that makes the code hard is the one of the program's
own continuations with the loop. `run()` calls `run_one()` until it returns 0;
`run_one()` completes one timer, task or descriptor, which calls `set_value`,
`set_error` or `set_stopped` of a receiver; that receiver's continuation starts
operations, requests stops, and opens and closes sockets, all of which change
the lists `run_one()` works on. A stop request calls the stop callback of every
operation registered with the token, the callback calls `cancel()` of the
context, and `cancel()` completes the operation or (io_uring, IOCP) asks the
kernel to. Below, the kernel reports readiness or completions in an order of
its own, and the clock moves.

### 1.3 What is hard in it

- Operation and stop callback share one counter; whichever of the two is
  completed last signals the receiver, and exactly one may (`sender.hpp:75`).
- A submission may complete the operation and still return `ready`, after which
  `start()` completes it again (`sender.hpp:113`).
- A pointer to an operation state must be off every list, or out of the ring,
  before its receiver is completed, because the receiver may destroy it.
- `socket_id`s and native descriptors are both recycled while operations that
  were prepared with them are waiting.
- Removal from the parallel vectors moves the last entry into the hole.
- `run()` ends when `run_one()` returns 0, so every early `return 0` counts.
- Rounding of deadlines, and a local `now` that is reused after `EINTR`.
- io_uring's submission queue may be full, or taken only in part, and an entry
  may point to memory of a function that has returned.
- A completion port's packets outlive the sockets they belong to.
- A socket's owner may throw in its constructor, be moved from, or be opened twice.
- The children of `when_any` complete on any thread, in `request_stop()` and inside
  their own `start()`; the last one to arrive destroys what all of them use.
- A coroutine may complete inside its own stop callback, or while `scope::stop()` is
  still going through the others; a request is handed the connection inside the
  completion of the one before it.
- The end of a line may be received in two pieces around a move of the buffer.

The complete list, with lines and the properties that cover each, is under
`hazards` in `PROJECT.json`.

### 1.4 What makes each component correct

- container: an id that is handed out is not in use, the records of other ids
  do not change, the free list reaches every dead slot.
- sorted_list: behaves as an ordered sequence in which equals stay in order of
  insertion, its loops end, and the head is never lost.
- sender_state with a context: a receiver is completed at most once; with
  set_stopped only after a stop request; a stop request or a finished operation
  leads to completion.
- sockets: an id has one owner until it is released, and a handle is released once.
- when_any: the first completion decides; the state lives until all children have left it.
- task and scope: a job ends once, nothing of it is in use then, the count is exact.
- postgres: one user of the connection at a time, nobody waits for a free one, a request
  reads its own results, the program ends when its requests have.
- stream: the fields are the request's, wherever it was cut.
- contexts: what they hold is exactly what is pending; they act on the
  descriptor of the operation's own socket; `run()` returns when nothing is left.

## 2. The modules

```
Container ----> SocketTable ----> Sockets
    |               \--implements--> HandleTable
    |   TimerList <--implements-- SortedList
    v       v
  PollContext  <---- SenderState           PollContextProofs EXTENDS PollContext,
  UringContext <---- SenderState             DataLemmas; UringContextProofs and
  IocpContext  <---- SenderState             IocpContextProofs likewise
       \--each implements--> AsyncOps      MC*: symmetry or inputs for TLC

  WhenAny --implements--> FirstWins        Sockets, SortedList ---> StructureProofs
  Programs ----> TaskScope                 DemoStream, Postgres --> ExampleProofs
  DemoStream    Postgres                   WhenAnyProofs, TaskScopeProofs likewise
```

**Container** holds the operators of `container.hpp`. A slot is `Live(h)` or
`Dead(next)`, as `std::variant<size_t, Record>` is; `free` is the head of the
free list. Ids are slot numbers from 0, sequences start at 1.
**SocketTable** is the component on its own: `MakeSocket` and `Release` as any
context calls them. **HandleTable** is the abstract partial map from ids to
handles it implements.

**Sockets** composes the classes that own ids with SocketTable: `Objects` are the
places in which a socket or an acceptor may live, `MakeSocket` and `Release` of
SocketTable are what their constructors and destructors call through
`io_context`, and `open` is the set of native handles the process holds. An id
whose owner threw in its constructor (`AcceptorThrows`), or was given another by
`open()` (`Open` on an open acceptor), is recorded in `orphans`: nothing closes it.

**TimerList** states insertion, erasure and pop as operators on sequences, which
is what the contexts use. **SortedList** is the pointer code: one step per loop
iteration of `insert` and `erase`, with `d_head` and the `next` members as the
variable. It refines TimerList's operators: the step that links or unlinks is
the abstract operation, every other step a stutter.

**SenderState** is the counter and the callback of `sender_state`. `signals` is
the list of completions the receiver was given; a correct operation ends with
one. **AsyncOps** is what every operation promises its receiver; the three
contexts are checked to implement it through one refinement mapping (`Status`).

**PollContext** has one action per function or branch: `StartPolled` (poll,
accept, receive, send), `StartConnect` / `StartConnectInline`, `StartTimer`,
`StartTask`, `StartStopped` (a token that was stopped before), `RequestStop`,
the three outcomes of `cancel()` (`CancelOutstanding`, `CancelTimer`,
`CancelUnknown` = `std::terminate`), and `run_one()` as the steps between its
system call and its returns (`RunOneTimeout`, `RunOneTask`, `RunOneEmpty`,
`RunOnePoll`, then `PollServe`, `PollServeReleased`, `PollIdle`, `PollTimeout`,
`PollInterrupted`, `PollFailed`, `PollAgain`). poll(2) is two steps because time
passes and descriptors become ready inside it.

**UringContext** adds the ring: `sq` is the submission queue, `kernel` what the
kernel has taken, `cq` the completions. An entry is an operation or the
cancellation of one. `get_sqe()` and `submit()` are the operators `GetSqe` and
`GetSqeAndSubmit`, which every submission contains, including the submissions
`get_sqe()` makes when the queue is full. `StartStopped` leads to an entry whose
callback was destroyed; reading it is undefined and modelled as either going
well or ending the run (`ReapDestroyed`). `PointersValid` names this as the one pointer
in the ring whose object is gone: the others point to an operation that was submitted and
not completed, or to its callback.

**IocpContext** gives each `make_socket()` a new handle which also stands for the
`iocp_socket_data` block, so that a freed block is recognised (`Owned`). A
completion is a packet in `queue`; `run_one()` is split at
`GetQueuedCompletionStatus` and again between the work function and the freeing
of a deferred block, because the receiver's continuation runs in between
(`pc = "work"`). `now` is the clock when the wait began, which is what a wait that is
cut to the longest possible one must be measured from.

**WhenAny** has one step per access to the shared counters and results, for any
number of children each of which may be on a thread of its own: `Complete`
(`done_count++`), `RequestStop`, `Store`, `Ready` (`++ready_count`), `NotifyDone`.
A child that completes inside `request_stop()` or `start()` is an
interleaving of these. **FirstWins** is what a user of `when_any` may expect, and is
implemented by it.

**TaskScope** has the coroutines of a scope as jobs. `op` is what a job awaits;
`Resume` is its completion followed by the body up to the next `co_await`, which
**Programs** gives as a table for each of the seven example programs. `scope::stop()`
is the steps `CallStop`, then per task `StopCallback`, possibly `AnswerStop` (the
operation completes inside `request_stop()`), `CallbackReturns`, and `StopReturns`.
An exception that leaves a coroutine is `GoOn(j, "throw")` and then `FinalSuspend`:
the receiver deletes the frame in the first and the second runs on it. `http_server.cpp` awaits
a nested task that does the sending; a failing send throws out of it and ends the client in
the same way, so the two coroutines are one job here.

**Postgres** has the requests of `postgres.cpp` and the three talks. `HandOver` is
`limit::state::complete()`: it runs the next request before the completion of the
last is passed on, which is what the stack `delivering` is for. The programs differ
in which awaits can be stopped and which failures end a query (`exec1`,
`postgres_talk`, `postgres_talk_cppnow`; `exec2` is in the source and used by no program).
A stop request reaches the awaits that can be stopped (`PollStops`, `PauseStops`, before the
loop turns again); one that is started with the stop already requested is unknown to the
context and ends in `std::terminate` (`Await`), because `io_context` is a `poll_context` in
this module. A lost connection is met while reading (`ConsumeFails`) and while writing
(`FlushFails`): `PQflush()` returns -1, which the programs read as a wish to poll again.
`RunNext`, `RunOne`, `RunOneEmpty` and `RunOneFails` are `async_run()`, that is `repeat_effect_until`
over `run_one()`, which returns 0 when nothing is pending and also when poll(2) fails; when
`async_run()` ends, when_any asks the requests and the clock to stop. `Over` is when_all and
when_any for the requests. The children of when_any are all started before the loop turns;
the connection is good at the start and the clock is taken as pending from the start.
The order of these starts is left out: in `postgres.cpp` the clock is started last, and if every
request completed while it was started the clock would find its stop requested.

**DemoStream** reads one request through `basic_buffered` from the memory stream of
`memory_stream.cpp`. A byte is text, a space, a carriage return or a newline; `consume`,
the compaction and the receive are modelled as they are, the buffer's size is a constant. It is
greater than 3 (it is 1024 in the code): with less, what is kept of a line may fill the buffer.

Why a continuation may be modelled as later steps: in `poll_context` and
`uring_context` every function that completes an operation does so last and
touches no member afterwards. `iocp_context::run_one()` is the exception, which
is why it has the extra location. `request_stop()` invokes callbacks one by one;
`stopping` holds those still to come, and the loop does not turn before it is
empty. `std::inplace_stop_source`, the sockets and the clock are external: they
are modelled from how this code uses them and marked so in the map.

### Abstractions

Addresses, buffers, byte counts and error codes are left out: an outcome is a
value, an error or a stop. accept and the other operations differ where the code
does (accept makes a socket). In UringContext connect, receive and send are one
kind. The receiver's program is arbitrary: any operation, stop or close may come
whenever control is with it, restricted by these constants:

- `CloseWithPending` FALSE: sockets are closed after their operations have ended.
- `Spurious` FALSE: a descriptor that was reported ready is ready when tried.
- `PollMayFail` / `SubmitMayFail` / `WaitMayFail`: system calls fail.
- `PartialSubmit`: `io_uring_submit()` may take only some entries.
- `StartAfterStop` (UringContext): operations are started with a stopped token.
  The other two contexts always allow it.

Every operation state is started at most once, as senders require.

## 3. The runs

Bounds that appear in guards: `MaxLive` (open sockets in SocketTable), `MaxJobs`
(jobs spawned in TaskScope), `MaxIntr` (interrupted poll(2) calls), `MaxClock` (the
clock saturates at it; every deadline is at or before it), `Handles` (descriptors
in the system). `TicksPerMs` is 2 where rounding matters, so that deadlines fall
between milliseconds.

| run | bounds | what it shows |
|---|---|---|
| `sockets` | 3 objects, 3 handles, 3 slots | one owner per id, no handle leaked or closed twice but those the code abandons; the table below keeps its free list and implements HandleTable |
| `sorted_list` | 4 nodes, 2 values; fair | the list stays well formed and implements TimerList; the loops end |
| `poll` | 2 of accept, receive, timer, task; 2 descriptors; deadlines 1.5 ms and 2 ms, one EINTR; fair | no operation is lost or loses its socket, callbacks find their operation, order and lower bound of firing, bounds on sleep and oversleep, `run()` returns only when every operation started so far is completed, and everything is completed in the end |
| `poll_rough` | 2 of connect, receive, poll; 2 tokens, sockets closed under them, spurious readiness, failing poll(2) | lists and vectors consistent, AsyncOps: no double completion, nothing completed stays listed |
| `uring` | 2 of accept, io, timer, task; 2 descriptors, queue of 1, failing calls, stopped tokens; fair | every pointer in the ring is valid but those to the callback of an operation started with a stopped token, exact counters, own descriptor submitted, AsyncOps, a stop request ends an operation whose peer never answers |
| `uring_partial` | 2 operations, queue of 2 | **violation**: a timer's entry is left in the queue with its timespec gone |
| `iocp_io` | 2 of accept, receive, timer, task; 2 handles; deadlines 1 and 2.5 ms with a wait of at most 1 ms; fair | lookups succeed, the three reasons for which `run()` returns early, with the time that was left when it began to wait, AsyncOps with the double `complete()`, a stop request ends an operation |
| `iocp_rough` | 3 of accept, receive, poll; closes under them, failing wait | `outstanding` and places stay right until the process halts; the block of an operation in flight is freed by `run_one()` only, after a completion and as the last one released |
| `when_any` | 4 children, 2 behind `into_error`; fair | no use of the state after its completion, FirstWins, the completion is delivered |
| `tasks` | 7 programs, 5 jobs, exceptions; fair | jobs end once with nothing in use, exact count, nothing left at exit, `stop()` ends every job |
| `postgres` | 3 requests, 4 programs; fair | one user and no forgotten waiter, own results with one exception, `main()` returns unless `std::terminate` was called, `run_one()` failed under a poll that cannot be stopped, or the connection was lost while a query is written |
| `stream` | requests of up to 9 bytes, pieces of 1 to 3, buffer of 5; fair | exact fields, room to receive, the reader returns |

Several invariants are conjunctions of named parts that belong together: `ListsSound`
and `NothingLost` and `SleepBounds` (PollContext), `CountersExact` and `PointersValid`
(UringContext), `AccountsExact` (IocpContext), `OneOwnerPerSocket` (Sockets).

Why these bounds are enough to be worth something: the contexts treat operations
alike, and the interactions are between an operation and its callback, between
two entries of a list or vector, or between a socket and its successor in the
same slot. Two operations give all pairs; four nodes in `sorted_list` give middles
and chains. Two handles give recycling of id and descriptor, and a block whose
socket is gone beside one in use; three objects give a move, a close and an
abandoned id at the same time. A submission queue of one makes every submission
after the first meet a full queue. Four children give a first, a last and two that
race between them; five jobs an acceptor with clients, or all of `client.cpp`. Three
requests give a hand-over inside a hand-over. A buffer of five bytes with a margin
of two is the 1024-byte one in small: the code compares with half of the size, and the
sentinel's two bytes and the terminating zero still fit. Each of poll and IOCP has a run in which
everything the switches allow goes wrong (`*_rough`), which carries the properties
that hold whatever happens, and one with the environment the other properties need.

`CHECK_DEADLOCK FALSE` stands in the four programs' configurations (`when_any`, `tasks`,
`postgres`, `stream`), which end.

### Fairness

`poll`: the thread keeps executing, `run()` is called again when it returned,
callbacks of a requested stop are invoked, the clock advances, and a descriptor
that is polled for becomes ready eventually. The last is an assumption on
the peer; without it an operation may rightly wait for ever. `uring` and
`iocp_io` assume nothing of peers: the kernel carries out cancellations and
ends what it has cancelled, found too far on, or was asked to abort. No fairness
is put on the program: it need not start or stop anything.

`when_any`: the starting thread and a receiver that was called run on, and a child
completes once it was asked to stop; before that it may never complete. `tasks`: the
thread runs on and an operation that was asked to stop, and listens, completes.
`postgres`: the thread runs on, and as long as the connection is not lost a query is written
and the server answers in the end (strong fairness on the completions that move a query forward,
because the run loop may serve the clock for ever otherwise; `Leaves`). Nothing is assumed once it
is lost, and poll(2) may fail at any time. `stream`: one thread with one thing to do at a time.

`uring` has every submission take all entries. With partial submissions and a
queue of two, `StopCompletes` is violated: `io_uring_submit_and_wait()` leaves the
cancellation in the queue, and the wait that follows in `run_one()` submits nothing,
so the loop blocks on the operation that was to be cancelled.

### Findings

`uring_context::resume_at()` (`uring_context.hpp:317`) calls `submit()` once so that
the timespec on its stack is read before it returns, as the comment above it
demands; `submit()` accepts a partial submission, which leaves the entry queued
(`uring_partial`).

Also visible in the models, without a run of their own:

- `poll_context::release()` (`poll_context.hpp:64`) does not look at the operations
  queued on the socket. The kernel recycles the descriptor, the stale `pollfd` becomes
  ready, and the operation's work looks up a dead id: set `CloseWithPending` to TRUE in
  `Poll.cfg` and check `AssertHolds`.
- `iocp_context::run_one()` (`iocp_context.hpp:280`) frees the head of `deferred` after
  any completion, whosever it was, while the comment at lines 73-74 promises that released data
  lives until its completions have drained. `BlocksFreedByCompletions` has exactly this free as
  its exception, the second disjunct of `FreesOnlyLastReleased`: without it `iocp_rough` fails.
- An exception that leaves a coroutine completes its job twice (`demo_task.hpp:167`):
  `unhandled_exception()` completes the receiver, which deletes the frame the
  coroutine then goes on to suspend in. Check `CompletedOnce` in `Tasks.cfg`; every one
  of the programs has such a path, through its acceptor or its client.
- Starting an operation with a stopped token ends in `std::terminate` with
  `poll_context` and in the use of a destroyed callback with `uring_context`.
- An operation whose readiness was spurious is dropped by `poll_context`; poll(2) may
  oversleep a timer by up to one interval.
- `iocp_context`'s `run()` may return with a timer or a task's successor pending
  (`RunReturns` lists exactly when); closing a socket under an IOCP operation completes
  its receiver with set_stopped although no stop was requested.
- An acceptor whose constructor throws after `open()`, or that is opened twice, leaves a
  socket nobody closes (`orphans`).
- A query that is stopped between two polls leaves the connection busy with it. `exec1` does not
  look at what `PQsendQuery()` returns, so the next request reads the stopped one's results
  (the exception in `OwnResults`); with `exec2`, which no program uses, a failed one's too.
- When a request fails, the others are asked to stop, and one whose turn comes next polls with a
  stopped token: `std::terminate`, as above (`terminated`).
- A failing poll(2) ends `async_run()` although requests are waiting; the polls that cannot be stopped
  (those for input in two of the talks, both kinds in the third) are then never completed, and
  `main()` does not return (`Deserted`).
- After a lost connection `not PQflush(conn)` (`postgres.cpp:178`) and `while (PQflush(conn))`
  (`postgres_talk.cpp:70`) are asked to go on for ever by the -1 (`FlushesForEver`).
- The children of `when_any` do not hear a stop request made to its receiver (`InWhenAny`).

## 4. What is proved

All proofs are for arbitrary values of the constants under the assumption of their module:
any number of operations, tokens, sockets, any deadlines, and every setting of the
switches unless a theorem names one.

**DataLemmas** states what the operators of Container and TimerList and the lists and
vectors of the contexts do: insertion and erasure keep the free list sound and touch one
record, a list without duplicates keeps its members, removing by swapping keeps vectors
parallel, a condition that holds for one index counts once. The proofs below cite them.

**StructureProofs**, on the table: type correctness, `FreeListComplete`, `GrowsOnlyWhenFull`, and
that SocketTable implements HandleTable.
The inductive invariant says that following the free list from `free` visits every dead
slot exactly once and ends at the size of the vector. It is stated with a witness, an injective
sequence of dead slots whose members are linked by `next`, because a recursive
reachability predicate is out of the prover's reach; insertion removes its head and
erasure adds one.

**StructureProofs**, on the objects: they use the table as its specification says
(`ObjectsUseTable`: every step of Sockets is a step of SocketTable or leaves it
alone), so `FreeListComplete` and `HandleTable` carry over without being proved again
(`ObjectsKeepFreeList`, `ObjectsSeeTable`). `OwnershipCorrect` proves `OneOwnerPerSocket`
for any number of objects and handles. Its invariant adds the types and the soundness of
the free list, from which it follows that the id a constructor gets is held by nobody.

**StructureProofs**, on the list of timers, for any finite set of nodes and any values: `WellFormedCorrect` (`WellFormed`) and `ListCorrect`
(`ImplementsTimerList`), so what DataLemmas and the contexts' proofs say of timers as sequences holds of the
pointers. The invariant has the sequence as its witness: a list without duplicates that `d_head` and the
`next` members link, in order (`Links`), of which the loop of the call in progress has passed the first k
nodes for a reason, that their values are smaller or that they are not the node to be erased (`Passed`).
`SortedList` names the list by a function that is recursive along the pointers; that it is the witness
follows without induction: the two are equal at every place, for a first place where they differed would
not be the first.

**WhenAnyProofs**, for any number of children: `NothingUsesTheState` (`NoUseAfterCompletion`)
and `FirstCompletionWins` (`ImplementsFirstWins`). The invariant ties the counters to the places of the children: `ready_count` is the number of children that
have arrived (a cardinality, which `OneMoreArrives` steps), `done_count` is 0 exactly
before the first completion, only the first completion is ever in "stop" or "store", and
the stored result is its result.

**PollContextProofs** proves:

| theorem | property | assumption |
|---|---|---|
| `TypeCorrect` | `TypeOK` | |
| `ListsCorrect` | `ListsSound` (vectors parallel, nothing completed is listed) | |
| `CountCorrect` | `CountMatchesState` | |
| `AsyncOpsCorrect` | `ImplementsAsyncOps` (initial states and steps) | |
| `FireOrderCorrect` | `TimersFireInOrder` | |
| `NothingLostCorrect` | `NothingLost` (pending is queued, callbacks find their operation) | `~Spurious` |
| `RunFinishesAllCorrect` | `RunFinishesAll` | `~PollMayFail`, `~Spurious` |
| `SocketsCorrect` | `QueuedSocketLive` | `~CloseWithPending` |
| `SleepCorrect` | `SleepBounds` | `IntervalsFit` |

The argument: `IInv` adds to the type invariant that the lists have no duplicates,
that timers are ordered, that the vectors are parallel, that the free list of the sockets is sound, and
`OpInv(o)` for each operation. `OpInv` is the heart: the pair of kind and
sender_state is one of few phases (`Phases`: fresh, in flight, done with 0, done with
-1), an operation is on a list only while it is in flight and only on the list of its
kind, a registered or pending callback belongs to an operation in flight. None of the
properties is inductive without it: that a completion from the queue does not
hit a counter of 0, for instance, needs that what is queued was never completed.
Every action either leaves the operations alone (`LoopStepsKeep`, `SocketsKeep`,
`RequestStopKeeps`), starts one (`Starts`) or completes one (`CompletionKeeps`), and the
lemmas of these names carry the common part. `StartsOne` and `CompletesOne` are also what the refinement
of AsyncOps is derived from. The assumptions are needed: each
property fails in the model without its own (`NothingLost` is what spurious
readiness breaks).

`SleepBounds` is about the numbers of `run_one()`. Inside poll(2) time passes and what is
left of the sleep shrinks by as much, so `SleepInv` bounds their sum: by the deadline in
the first call, and by less than one interval beyond it when the call is repeated after an
EINTR, because the loop then takes the interval again from the `now` of the first call. The
conversion to whole milliseconds rounds down and never exceeds the interval
(`MillisecondsFit`). `IntervalsFit` says that no interval has more milliseconds than an
`int` holds (24 days); beyond it the conversion wraps around and the property is false.

**UringContextProofs** proves, for every depth of the ring:

| theorem | property | assumption |
|---|---|---|
| `TypeCorrect` | `TypeOK` | |
| `CountersCorrect` | `CountersExact` | |
| `DrainCorrect` | `RunDrains` (no run) | |
| `AsyncOpsCorrect` | `ImplementsAsyncOps` (initial states and steps) | |
| `PointersCorrect` | `PointersValid` | |
| `DescriptorCorrect` | `SubmitsOwnDescriptor` | `~CloseWithPending` |

Its `IInv` is about the ring as a whole. `RingInv` says that an entry is in one of the three
queues and there once, and that the counters of the context are the sizes of the queues;
`EnqueueFirst` is what lets a submission inside `get_sqe()` and the one after it be treated as one.
`OpInv(o)` ties the counter of an operation to the ring: it is the number of the operation's
entries there, its own and its cancellation's, and as long as the stop callback is registered its own is
there, no cancellation is, and its result is open. From it follows that the entry that takes
the counter to 0 is the last one, which is what the refinement of AsyncOps needs. The assumption is
needed: a socket closed under an operation whose entry is still to be prepared gives it another's
descriptor. `PointersValid` needs none, and says what the code leaves: an operation started with a
stopped token has only its cancellation in the ring, and the callback that points to is gone. It is
about operations and callbacks; that the timespec of a timer outlives its entry is false
(`uring_partial`).

**IocpContextProofs** proves:

| theorem | property | assumption |
|---|---|---|
| `TypeCorrect` | `TypeOK` | |
| `AccountsCorrect` | `AccountsExact` | |
| `BlocksCorrect` | `BlocksFreedByCompletions` | |
| `LookupsCorrect` | `LookupsSucceed` | `~CloseWithPending` |
| `AsyncOpsCorrect` | `ImplementsAsyncOps` (initial states and steps) | `~CloseWithPending` |
| `RunReturnsCorrect` | `RunReturns` | `~WaitMayFail` |

`IInv` has the same shape as that of `poll_context`, with the kernel and the completion port in
place of the vectors. `PortInv` says that an operation is in the kernel or has one packet,
and that `outstanding` is the number of such operations; every packet the loop takes is
then one the count has accounted for. `OpInv(o)` has a phase more than `poll_context`: an
operation whose handle was closed has had its completion while its callback is still registered
(`Aborted`), and the callback may run before the packet arrives. `LookupsSucceed`, the
refinement and `RunReturns` add one invariant each to it. `BlocksFreedByCompletions` follows from `IInv`: `release()`
puts a block on `deferred` as long as anything is outstanding, which by `PortInv` is as long as an
operation is in flight, so only the loop is left to free it, and it frees the head. That the head may be the block
of another operation in flight is the code's. `LInv`: with sockets closed after their operations, the
id of an operation in flight still names the block it was started with, and the process does not halt.
`AInv`: the kernel aborts only on behalf of a stop request, which is what AsyncOps
allows set_stopped for. `WInv` ties what is left of a wait to the
time since `now`: the wait was the whole milliseconds to the first deadline or the longest one, so a
wait that is over has either less than a millisecond to go or was cut.

**TaskScopeProofs**, for any number of jobs and every set of programs that are `WellFormed`:
`TypeCorrect`, `JobsCorrect` (`JobsEndOnce`), `CountCorrect` (`CountIsLiveJobs`) and `ExitCorrect`
(`NoLiveJobsAtExit`). `WellFormed` says that a coroutine awaits only operations whose
completions its program has an answer for, and that the coroutines which are spawned exist; TLC
evaluates it for the seven programs. The properties rest on where a job that awaits nothing
can be: inside its own stop callback, which completes it when it returns, or in the one
stopper, whose task is in `scope::stop()` and which cannot be stopped itself (`JobInv`,
`StopperInv`). So a completion always finds its job alive, a stop callback never runs for a job
that has ended, and the loop of `scope::stop()` has its stopper to return to. `CountIsLiveJobs` is a
cardinality that a spawn steps up and an end steps down. Like the properties, the count's
part of the invariant claims nothing once an exception has left a coroutine; `JobInv` is kept
then too, with a frame that is `ruined` as one whose receiver was called twice.

The postgres programs (**ExampleProofs**), for any number of requests: `LimitCorrect` (`LimitSound`)
and `OwnResultsCorrect` (`OwnResults`, for `Programs \subseteq AllPrograms`; with `exec2` it
is false). `LInv` adds to `LimitSound` that a request whose completion is still to be passed on has left
the limit for good, which is what makes the nesting harmless. `OInv` says whose query the connection is
busy with when a request awaits the socket: its own, nobody's, or, in `exec1`, one that was stopped and has left
the limit (`Readable`, `GivenUp`). It is inductive because a program in which a query can fail in the
middle also gives up one that could not be sent (`FatalPrograms`), and because in `exec1` nothing but a stop ends a
query with results left on the connection.

The buffered stream (**ExampleProofs**), for every request, every size of its pieces and every size of the
buffer: `FieldsCorrect` (`FieldsExact`) and `RoomCorrect` (`RoomToReceive`). That a field ends at the first
occurrence of its sentinel rests on `Scanned`: for every place in the field being read there is a byte, in
the field or in the buffer behind it, that shows that the sentinel does not begin there. It is what
`Kept` is for: `consume()` takes a byte only when the buffer has all that a sentinel beginning at it would
need, so it is decided when the search goes on with more bytes. That no byte is lost is stated with a
fold over the fields; the invariant has a function as its witness, the fields up to each of them
(`Flat`), which the fold equals by the argument used for the list. For the room, `RoomInv`: a buffer
that is not compacted has half of its size left, one that is compacted holds three bytes at most.

**Only model-checked.** Liveness (`EventuallyCompletes`, `StopCompletes`,
`CallsReturn`, `FirstLeadsToOutcome`, `StopEndsJobs`, `ProgramEnds`, `ReaderReturns`):
temporal proofs with fairness are not supported by the prover. Every invariant and every action
property the passing runs check is a theorem; one that needs an assumption on the environment names
it in its statement, and its run gives the constants the values that satisfy it.

## 5. Not modelled, and what is left

Not modelled: addresses, endpoints and buffers (pure data), option and endpoint property
classes, sender adaptors without state, `scope.hpp` and `task.hpp` of the library (forwarding
to beman.execution), the example programs that only print. Threads: the contexts are written
for one thread, and data races of several are left out. `demo::context` is modelled with
one stream; with several, erasing the last update leaves `next_index` past the end, and an update
whose stream is not receiving is dropped (`demo_stream.hpp:45-46`), which no program meets. A `demo::task`'s
stop callback reads `this->object` once more after `callback.reset()` has destroyed it
(`demo_task.hpp:184-188`): TaskScope goes on as if the read went well.

Left for later:

1. A re-arming program (operations started again after completion) over PollContext: the
   order in which the scan of `d_poll` serves descriptors and tasks, and the fairness between them.
2. `repeat_effect_until` on its own: its body destroyed from inside its own completion, and
   bodies that complete in `start()`.
3. The accepted socket that loses its race with a cancellation, as a composition of a context
   with Sockets.
4. `demo::context` with several streams.

## 6. Files

`MC<Module>.tla` adds symmetry or input sets to a module (no symmetry where liveness is checked);
`<Name>.cfg` is the configuration of the run of that name. Definitions whose comment starts with "Fault" are variants of an
operation with a plausible mistake, used to check that the properties notice;
no specification uses them. `PROJECT.json` lists components, runs, the lines each
definition models, hazards, findings and theorems.
