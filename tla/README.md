# AegisNet in TLA+

AegisNet is a Linux network library in C++ (one epoll loop per thread, a main
reactor that accepts and sub-reactors that serve connections) with a small web
chat on top. This directory models it in TLA+ from the loop up to the chat server,
checks the models with TLC on small instances and proves their safety properties with
TLAPS, for every value of the constants.

Source paths below are relative to the repository (`src/net/...`, `main.cpp`).

## 1. The system

| Component | State it keeps | Operations | Works with |
|---|---|---|---|
| `EventLoop`, `Epoll` | `quit_`, `callingPendingFunctors_`, `pendingFunctors_` (under `mutex_`), eventfd, `activeChannels_` | `loop`, `quit`, `runInLoop`, `queueInLoop`, `wakeup`, `doPendingFunctors` | every other part runs on it; foreign threads hand it functors |
| `Channel` | `events_`, `revents_`, `inEpoll_`, `tie_` | enable/disable, `handleEvent`, `remove` | dispatched by the loop, calls its owner back |
| `TimerQueue` | `timers_`, `activeTimers_`, the timerfd | `addTimer`, `cancel`, `handleRead` | a channel of the loop; foreign calls go through functors |
| `Buffer` | `buffer_`, `readIndex_`, `writeIndex_` | `append`, `retrieve*`, `prepend`, `readFd` | input and output of a connection |
| `TcpConnection` | `state_`, `outputBuffer_`, `fileFd_`, watermark flag, its channel and socket | handlers, `send`, `sendFile`, `shutdown`, `forceClose`, `connectEstablished`, `connectDestroyed` | one loop; the server's map; calls from any thread |
| `TcpServer`, `Acceptor` | `connections_`, `nextConnId_` | `newConnection`, the close callback, destructor | base loop, worker loops |
| `EventLoopThread(Pool)` | `loop_`, `next_` | `startLoop`, `threadFunc`, destructor, `getNextLoop` | worker threads |
| `HttpParser` | parser state, headers, body | `parseRequest`, `reset` | reads from a `Buffer` in pieces |
| `WebChatServer` (`main.cpp`) | connections, idle timers, parsers | `onConnection`, `onMessage`, `broadcast`, the two timeouts | all of the above |
| `AsyncLogging`, `LogFile` | two spare buffers, `buffers_`, `running_`, the file | `append`, `start`, `stop`, `threadFunc` | producers on every thread, one background thread |

What is hard here: a functor handed over between two statements of the loop; a
signal handler on the loop's own thread; a connection that is closed by its peer,
its owner, a timer and its server at the same time, with sends still queued; partial
writes and the order of bytes; timers cancelled from callbacks of the running batch
or from other threads; the log's buffers changing hands without a lock; shutdown of
all of it. `PROJECT.json` lists these hazards at their lines, with the properties
that would notice them going wrong.

What makes each part correct:

- loop: no wakeup is lost; functors run once each, in order; `quit()` ends it;
- buffer: it is a byte queue, its indices stay inside the vector, its size is bounded;
- connection: bytes leave in order and exactly once; whatever is queued is watched
  for; shutdown drains first; going down is reported once; the channel leaves epoll
  before the connection is let go; the watermark flag follows the queue;
- timers: never early, never after a cancel, never slept over;
- log: order kept, nothing lost while the file is open, buffers always returned;
- threads and server: the start and stop handshakes terminate; a loop that is handed
  out exists and they are handed out in turn; what epoll may report is kept alive; a
  closed connection is released everywhere; no worker outlives the server;
- parser: the same requests for every split of the input, and no bytes of one request
  taken for another;
- chat: a connection is closed for idleness only after the timeout, and in the end;
  no timer is left behind; broadcasts and answers keep the order of the requests.

## 2. Modules

| Module | Models | Status |
|---|---|---|
| `TaskQueue` | abstract: a first-in first-out queue of tasks | refined by `EventLoop` |
| `EventLoop` | `EventLoop.cpp`, `Epoll::poll`, the signal handler | checked, proved (`EventLoopProofs`) |
| `EventLoopThreadPool` | `EventLoopThread.cpp`, `EventLoopThreadPool.cpp`, `Thread.cpp` | checked as a part of `TcpServer` |
| `TcpServer` | `TcpServer.cpp`, the accept loop of `Acceptor.cpp`, the life of its connections; composes `EventLoopThreadPool` | checked, proved (`TcpServerProofs`) |
| `ByteQueue` | abstract: a queue of bytes with a put-back at the front | refined by `Buffer` |
| `Buffer` | `Buffer.cpp` | checked, proved (`BufferProofs`) |
| `TcpConnection`, `MCTcpConnection` | `TcpConnection.cpp`, its `Channel`, `Epoll::updateChannel`/`removeChannel`, removal and destruction by `TcpServer` | checked, proved (`TcpConnectionProofs`) |
| `TimerQueue`, `MCTimerQueue` | `TimerQueue.cpp` | checked, proved (`TimerQueueProofs`) |
| `AsyncLogging`, `MCAsyncLogging` | `AsyncLogging.cpp`, `FixedBuffer`, `LogFile::append`/`rollFile` | checked, proved (`AsyncLoggingProofs`) |
| `HttpParser`, `MCHttpParser` | `HttpParser.cpp` under the parse loop of `WebChatServer::onMessage` | checked, proved (`HttpParserProofs`) |
| `WebChat`, `MCWebChat` | `WebChatServer` (`main.cpp`) on several loops | checked, proved (`WebChatProofs`) |

How they fit together: `TcpConnection`, `TcpServer` and `WebChat` treat a loop as the
first-in first-out queue of functors that `EventLoop` implements (`TaskQueue`);
`TcpConnection` treats its output buffer as the byte queue `Buffer` implements
(`ByteQueue`); `WebChat` takes a connection for its `state_`, a parser for whether it is in
`Error`, and timers for what `TimerQueue` shows of them (never early, gone once
cancelled, run in the end).

**EventLoop.** `loopPc` is the position of the loop's thread in `loop()` and
`doPendingFunctors()`; a foreign `queueInLoop()` or `quit()` is two steps (change
the state, then `Wakeup`). `SignalQuit` is `signalHandler()` on the loop's thread at
any statement; a blocked `epoll_wait` returns with `EINTR`. I/O channels are
level-triggered and a poll returns at most `MaxEvents` of them. `early` and `stop`
are history variables that say which functors and quit requests preceded `loop()`.
`looping_` and the asserts on the thread id have no effect on the state and are left
out.

**EventLoopThreadPool.** The owner is the thread of the base loop, in `start()`,
serving, or in the destructors; each worker is a position in `threadFunc()`. What
`mutex_` protects is one step, and `cond_.wait()` may return spuriously. Of a worker's
loop there is `quit_`, the eventfd and whether the object exists. `quit()` from the
destructor is two steps, so the worker can be gone before the second one: the late
`wakeup()` is then lost or hits another loop's eventfd. `forgotten` records the workers
told to quit before `loop()` reset `quit_`. The module has the steps and the properties
of the pool and no specification of its own.

**TcpServer.** Extends the pool: the owner also runs the base loop. `acceptConnection`
is one turn of the accept loop, which calls `newConnection()` and with it `getNextLoop()`. `handleClose()` on a worker is two
steps, the state and the callbacks, because `~TcpServer()` may replace the callbacks in
between (`replaced`); the close callback queues `RunRemove` on the base loop, which queues
`connectDestroyed()` on the worker. A worker swaps out its functors (`batch`), runs them one
by one and drops what is left when its loop ends. `DestroyServer` comes after the base loop
has ended, as in `main()`: what is queued on the base loop is not run any more. The shared
pointers are who holds a connection: the map, a queued functor, or the handler that runs.

**Buffer.** `buf` holds the vector and the two indices, byte for byte; `makeSpace`,
`append`, `retrieve`, `prepend` and `readFd` compute what the code computes,
including the copy inside the vector, whose undefined direction would show up as
`Poison`. `call` records what went in or came out, so that the refinement of
`ByteQueue` also speaks of the results. `retrieveUntil`, `retrieveAsString`,
`readInt32` and `prependInt32` are these operations with particular arguments.

**TcpConnection.** One connection on its loop. A handler is one step: only the
loop's thread changes what it works on, and the interleavings with foreign threads
are kept where they exist, at `state_` (tested in one step, set in another) and at
the functor queue. A callback of the application is a place where `Own...` calls
may follow. The output buffer is the sequence of queued units, which is what
`Buffer` implements. The socket is external: a send buffer of `SndBuf` units, a peer
that reads, sends, closes or resets, and the readiness epoll derives from it
(HUP and ERR whatever was asked for). `ServerRemoves` is the functor of the close
callback, `ServerDestroyed` the destructor of `TcpServer`. The bytes of files and
the input data are counted or flagged, not represented.

**TimerQueue.** Time is ticks of the monotonic clock, and `armed` the expiration in
the timerfd. `handleRead()` is split into its batch: `PollReports` (other handlers
may still run), `HandleReadBegin`, one `NextCallback` per timer, with adds and
cancels from inside the callback, and `HandleReadEnd`. Foreign calls queue functors.
A tie in the ordered set is broken either way.

**AsyncLogging.** What runs under `mutex_` is one step; writing without the lock is
one step per buffer. Buffers are sequences of records and a moved pointer is `NULL`,
so that the refill of `threadFunc()` can really run out of buffers. The day may
change at any append to the file, and any roll may fail to open the next one.
Records are shorter than a buffer, as `Logger` builds them.

**HttpParser.** A peer picks a stream, and every read hands some more of it to the
parser. A stream is made of units (the text of a request line or of a header, other text, CR,
LF); in a body each unit counts as one byte, whatever it is, so that bodies may contain line
ends and request lines. One action is one turn of the `while` in `parseRequest()`. Whether a
line is well formed is decided by its units, not by its characters; a length is a number,
digits too large for `size_t` (`SizeMax`), or something else. The reference is a definition over the whole
stream (`Malformed`, `IsRequest`, `Complete`), which finds the lines of a request without
the state machine.

**WebChat.** Connections live on their loops, whose handlers run in parallel with those of
other loops; `Free` says that a loop is between two handlers. What is done under `mutex_` or
`parserMutex_` is one step, and so is a read up to the answers (`onMessage`); the answers come one by one,
with broadcasts that reach a connection of the same loop at once and another one through
its functor queue. `handleClose()` is two steps: other loops can see `kDisconnected`
before `onConnection()` has emptied the tables. A timer may run late. `quiet` counts the
ticks since a read that refreshed the idle timer, which a read that brings only a fragment of
a request does too: `SilentIsClosed` therefore says that a silent connection is heard of again
or is closed. `rejected` marks the connections that
were sent a 400.

## 3. What is checked

Passing runs (each takes between a few seconds and two minutes alone):

| Run | Instance | Shows |
|---|---|---|
| `event_loop` | 2 threads, 3 functors, 1 channel, eventfd limit 1, 1 event per poll | no lost wakeup, `ImplementsTaskQueue`, queued functors run, `quit()` ends the loop |
| `tcp_server` | up to 3 workers, 2 connections | collected loops serve, round robin, workers end before the server, registered channels are held, connections are established and released, `start()` and the destructors return |
| `buffer` | 2 byte values, 2 prepend bytes, vector of 1, extrabuf of 2, 3 readable | indices, capacity, `ImplementsByteQueue` |
| `tcp_connection_safety` | 2 messages of 2 units, 1 file, send buffer of 1, marks 1 and 2, 1 foreign thread that sends and closes, calls made while no functor is queued (a call in progress can still queue a second one) | order of the bytes, watermarks, watching of output, one close, removal before release, drain before shutdown, whole files |
| `tcp_connection_liveness` | 2 messages, 1 file, loop's thread only | shutdown completes, a closed peer is removed, producers resume, a file transfer ends |
| `timer_queue` | 2 one-shot timers, 1 repeating, 3 ticks, 1 queued functor | the two sets agree, the timerfd is armed, never early, cancel is final, a waiting timer fires or is cancelled |
| `async_logging` | 4 records (one long), buffers of 3, roll after 2 | buffers returned, order without a gap, records reach the file, `stop()` returns |
| `http_parser` | 44 heads and bodies, 8 unusual starts, two of them behind each other, every cut; lengths up to 2 | requests are those sent, nothing complete is left waiting, `Error` exactly for malformed input |
| `web_chat` | 2 connections on 2 loops, 2 requests, timeout of 1 tick | timers are known, order of broadcasts and answers, patience, silent peers are closed |

The bounds make the corner cases happen: a message is larger than the send buffer,
so writes are partial; two messages cross the high mark and one write can cross the
low one; the eventfd is full after one wakeup; a poll cannot return both
ready channels; the long record does not fit next to a short one; more than two
buffers queue up, so that `resize(2)` drops some; delays reach past `MaxInt` close to the
end of time; there are more workers than connections and fewer, and none at all; a second
request arrives with the first, inside its body's bytes or in pieces; two chats come in one
read while the other loop answers or closes. `MaxQueue`, `MaxReadable`, `MaxChunk`, `MaxTime`,
`MaxThreads` and `MaxRequests` are bounds of the
model and appear only in guards of calls. Deadlock is not checked where the
instance may come to rest (no message, record or tick left and nothing queued).

The types that the proofs need are part of their inductive invariants; the runs spend
their time on the other properties.

Each property has a mutant: an operator next to the definition it replaces that
changes it as a plausible bug would (a wakeup left out, a mark missed by one, a
buffer not reset), under which TLC finds the property violated.

Fairness: weak fairness of the steps a thread takes by itself, which the scheduler
gives it. For the loop that is each step between two callbacks (`LoopStep`), for a
foreign thread the second half of a call it has begun, for the timers the clock and
the phases of an iteration (poll, functors, `handleRead()`, which alternate in
`loop()`), for the log the background thread, whose wait has a timeout, for the server the base
thread inside `start()`, its loop and the destructors and every worker, for the chat the clock and what is
queued or due on each loop. Nobody has to call anything, and no peer has to do anything. `ShutdownCompletes`,
`ProducersResume` and `TransferEnds` also assume that the peer keeps reading, which they need: a
peer that stops reading holds its connection up until a timer of the application
closes it.

### Where the code and the documentation differ

Runs that expect a violation state what a document or comment says:

| Run | Says | The code |
|---|---|---|
| `event_loop_signal` | `README.md:108`, signals "break the loop via `EventLoop::quit()`" | `quit()` on the loop's thread writes no eventfd; a signal between the test of `quit_` and `epoll_wait` is slept over |
| `web_chat_idle` | `README.md:107`, "cleaning up 15-second inactive zombie connections" | after a malformed request the connection is `kDisconnecting`; `handleIdleTimeout()` returns at once for it and schedules no forced close, so a silent peer stays (`SilentIsClosed` shows that these are the only ones) |
| `async_logging_flush_on_stop` | `README.md:108`, `stop()` is there "to ensure all buffered logs are safely flushed to disk" | the thread leaves its loop without a last swap |

More facts about the code are recorded as hazards only:

- `shutdown()` and `forceClose()` test and set `state_` in two steps. On a foreign
  thread they can bring a connection back from `kDisconnected`; the model marks it as
  `revived`, and from then on it may register its channel or report its close again.
  `StreamOrder` and `WatermarksAgree` hold of such connections too; `DownOnce`,
  `OutputIsWatched`, `RemovedBeforeRelease` and `ShutdownAfterDrain` are stated of the
  others (`NotRevived`). The callers in this repository close on the loop's thread
  (`main.cpp`), or while the loop does not run (`tests/tcp_connection_tests.cpp:85`).
- A `quit()` or a functor that the loop's thread issues before `loop()` is entered:
  `loop()` resets `quit_`, and such a functor writes no eventfd. `early` and the origin
  `"early"` of `stop` keep them apart, and the properties name them as exceptions. For a worker the same
  race leaves `~EventLoopThread()` in `join()` (`forgotten` in `EventLoopThreadPool`).
- `cancel()` on the loop's thread overtakes the queued add of a foreign thread, finds
  nothing and is lost; `CancelIsFinal` speaks of cancels that found their timer.
- A request in front of a malformed one in the same read is neither answered nor broadcast;
  `RequestOrder` is about what is answered.
- After a roll that could not open its file everything later is dropped; `LogOrder` only
  says that nothing is written behind the hole.
- Two receivers may get the broadcasts of two senders in different orders; `RequestOrder`
  holds for each sender.
- `~TcpServer()` replaces callbacks that a worker may be reading: a data race, of which
  the model has the two clean outcomes.
- A file descriptor that is being sent is not closed by `connectDestroyed()` or by a
  second `sendFile()`; `FileSentWhole` is about closing too early, `TransferEnds` about the
  transfer under way.

## 4. What is proved

Every safety invariant and every action property of the passing runs is a theorem; the
refinements of `TaskQueue` and `ByteQueue` are too. Each proof
module states its inductive invariant as a conjunction of named parts, has one lemma per
action, and ends with the theorems. TLC checked the invariants on the small instances
before they were proved.

`EventLoopProofs` (any sets of threads, functors and channels, any eventfd limit):

- `TypeCorrect`: `TypeOK` is inductive by itself.
- `FunctorPhaseInvariant`: `callingPendingFunctors_` is set exactly while the swapped
  functors are run; inductive together with the type invariant.
- `NoLostWakeupInvariant`: the argument is about who may leave a functor in
  `pendingFunctors_`. A foreign thread leaves it with `caller[t] = "wakeup"`, and the
  write that follows makes the eventfd readable, or finds it so when it is at its limit. The
  loop's own thread leaves it without a wakeup only outside the functor phase, and
  then it is on its way to the swap; that is where `FunctorPhase` is needed, since the test
  reads `callingPendingFunctors_`. The eventfd is only cleared during the dispatch, from
  which every path leads to the swap.
- `TaskQueueRefinement`: with `functors \o pendingFunctors_` as the queue every step
  is a step of `TaskQueue` or leaves its variables alone. The swap is a stutter because
  `functors` is empty before it, again `FunctorPhase`.

`BufferProofs` (any sizes): `BufferSafety` proves `TypeOK`, `IndexOrder` and
`CapacityBounded` together, `CapacityBoundedHolds` names the last of them, and `ByteQueueRefinement` follows from it and from lemmas
that say what each operation does to the readable bytes. The compaction needs
`readIndex_ >= kCheapPrepend`, which holds when it is chosen and not always, as
`prepend()` eats into that area.

`TcpServerProofs` (any number of workers and connections): `RoundRobinHolds`,
`CollectedLoopsServeHolds` and `WorkersEndFirstHolds` follow from one invariant,
`PoolInv`. Worker `k` is the `k`-th that is collected (`LoopsInOrder`), so that "handed out
once more" can be said of the workers up to `next_` (`EvenlyHanded`: some `q` with `q + 1`
hand-outs up to `next_` and `q` behind it; where `next_` wraps, `q + 1` is the new `q`).
`StartPhase` ties the number of collected loops to `cur`. `DestroyPhase` says that no `quit_`
is set before the destructors, so no worker can have left its loop by then, and that the
destructors leave only ended workers behind; `ThreadsStarted` that there are no other
workers. `LoopLife` is needed because `startLoop()` returns on `loop_`, and what is
promised is about the worker's position.

`RegisteredIsHeldHolds` needs a second invariant, `ServerInv`. What is to be shown of a
connection that has left the map is that `connectDestroyed()` waits in the queue of its loop
(`DestroyedLast`). A connection may leave the map before it was established, and then
becomes registered only later; so `connectDestroyed()` must also wait *behind* the
`connectEstablished()` (`EstablishedFirst`), which is the order in which the base loop queues
them. `Unaccepted` says that nothing is queued for a connection number that is not in use yet.
`Batches` says that what a worker has swapped out is still in its queue, so that there is a
functor to run, and that a connection closes only while its worker is in its loop; the queue is
dropped when that loop ends, and the channels registered with it go with it.

`TimerQueueProofs` (any timers, delays and intervals): all four theorems follow from
`QueueInv`. `SetsAgree` and `TimerfdArmed` are parts of it and lean on each other: the timerfd
is set when the earliest timer changes, and which one that is is read from `timers_`.
`AddedOnce` says that an id is added once, so that a queued add meets no timer of its own;
`Batch` where the timers of the running batch are, `DeadIsOut` that a cancelled timer is in
neither set and flagged if it is in the batch, which is `CancelIsFinal`. `Expirations` says that
what is stored is not before the time allowed or clamped to `MaxInt`; that a clamped timer is
not early needs a clock that does not reach `MaxInt`, which is `TimeAssumption`
(the clock counts microseconds, `MaxInt` is `INT64_MAX`).

`AsyncLoggingProofs` (any records and sizes): `LogInv`. `BuffersReturnedHolds` rests on
`SpareIsQueued`: `nextBuffer_` is missing only while a full buffer is queued, so that the swap
takes at least two buffers out when two are to be given back. `LogOrderHolds` rests on
`WholeLog`: the file, the buffers being written, the queued ones and the current one, put
together, are what was logged. The steps move records between these places, and for that the proof
has lemmas about `FlattenSeq`, proved by induction over the number of buffers.
That the file is a prefix needs `Gapless` besides, since `WholeLog` stops to hold with the file that could not be
opened, and nothing is written from then on.

`TcpConnectionProofs` (any messages, files, threads, marks and send buffers): `ConnectionInv`
has two parts. `ConnInv` is about what the handlers work on: the types, the stream, the
watermarks, `OutputIsWatched`, that a channel outside epoll asks for nothing
(`ChannelInEpoll`, without which `enableWriting()` could not be told from a registration), and that a
connection that was reported down stays down (`ToldDown`). `QueueInv` is about what is
queued: before `connectEstablished()` nothing has happened to the connection
(`Untouched`), that functor is the first and comes once (`EstablishedOnce`), and a connection
in epoll that has left the map has a removal under way, on the base loop or in its own
queue (`RemovalOwed`), which gives `RemovedBeforeReleaseHolds`. Each handler is proved
once, for any queue it may be run with (`Fine`), and used where the loop dispatches an event,
runs a functor, or the application calls it directly. The action properties
`ShutdownAfterDrain` and `FileSentWhole` are parts of `Fine`. Where a foreign thread brought a
connection back (`revived`) the properties say what they said in section 3, and no more is proved.

`WebChatProofs` (any connections, loops, timeout and reads): `TimersAreKnownHolds` and
`PatienceHolds` follow from `TimerInv`. A connection has at most one timer of each kind, the
one in the table (`OneTimer`), so a refresh cancels the only one there is; what the timer has left and
the ticks without a read add up to a whole timeout, or two for the forced close
(`Waited`), so it is not due before. `RequestOrderHolds` follows from `OutInv`: what is
queued for a connection comes from other loops, so that what one sender causes on a
connection takes one way only; and the requests a sender has yet to answer are later than all it
caused.

`HttpParserProofs` (any streams, any cut into reads, any largest `size_t`):
`RequestsAsSentHolds` and `RestIsUnfinishedHolds` follow from `ParserInv`. The state machine is
not compared with the whole stream but with `Used`, the part of it that was taken for the
current request, to which the reference definitions apply as they stand: in
`ExpectHeaders` it ends behind a line (`Cut`), is not `Malformed`, has no blank line, and
`headers_` is what its header lines say (`Known`); in `ExpectBody` it ends behind the blank
line, and `expectedBodyLength_` is its `BodyLength`; in `GotAll` it is the request. `Positions` says
that `Used` and the buffer together are what was read (`Rest`), and `Waiting` that
`parseRequest()` returns only when there is no line, or no body, in the buffer. What makes the
invariant inductive is how the reference behaves when a sequence grows (`Longer`), which the lemmas
before the actions show:

- a line, once there, stays the same line (`LongerLines`), so that malformed input stays
  malformed (`MalformedStays`), which the parser relies on when it refuses a request before it
  has read it all;
- the first CRLF in the buffer adds exactly one line to those of `Used`, whose text is what the
  parser takes for the line (`LineFound`, `LineText`); no CRLF adds none (`NoLineFound`).
  A CRLF cannot lie across the end of `Used`, which ends with a LF;
- a line that is not blank is one header more (`HeaderAdded`), and the blank line ends the head
  (`BlankAdded`);
- behind the blank line nothing changes the head (`BodyFollows`), so that a body may contain
  line ends and request lines.

The assumptions are the `ASSUME`s of the modules, which TLC evaluates on every run: the wakeup
channel and the null values are none of the others; limits and sizes are natural numbers and
the eventfd can count to one; a record is shorter than a buffer; the low mark is below
the high one, as `setOutputBufferWatermarks()` asserts; the clock stays below `MaxInt`; every
connection of the chat has a loop, and the timeout is not 0; a stream is a sequence of the units
of `HttpParser`.

Only model-checked:

- all liveness, since the prover has no support for fairness and `ENABLED`;
- the properties of the runs that expect a violation, which do not hold.

## 5. Not modelled

- `HttpContext`, `HttpRequest`: superseded by `HttpParser`, used by nothing.
- `HttpResponse`, `LogStream`, `Logger`: formatting.
- `Timestamp`, `Any`, `InetAddress`, `noncopyable`, `Callbacks.h`: values and
  declarations.
- `CurrentThread`, `Singleton`: thin wrappers; their effect is in the
  modules that use them.
- `Socket`, and of `Acceptor` all but the accept that succeeds: socket calls and their
  options. A failing `accept()` (`EMFILE`) leaves the socket readable; descriptors are not counted.
- A file that shrinks while it is sent, short `fwrite`s, failing `epoll_ctl`,
  `timerfd_settime` and `readv`: the code logs them or ignores them.

## 6. Plan

The components that carry the program's logic are modelled, and all that the runs check of
their safety is proved. What is left to TLC is liveness. Worth adding when the code changes: the
descriptors of `Acceptor` and of `sendFile()`, which are recorded as hazards only.
