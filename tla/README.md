# TLA+ models of mymuduo

mymuduo is a reactor network library in C++ (one event loop per thread), with an
asynchronous logger and a small HTTP server on top.  This directory holds TLA+
modules translated from its source, TLC configurations that check them on small
instances, and proofs checked by TLAPS.  Paths below are relative to the
repository; `PROJECT.json` maps every definition to the lines it models.

## 1. The system

| Part | State | Operations | Talks to |
|---|---|---|---|
| `net/EventLoop` | `looping_`, `quit_`, `callingPendingFunctors_`, `pendingFunctors_` (mutex), `wakeupFd_`, `activeChannels_` | `loop`, `quit`, `runInLoop`, `queueInLoop`, `wakeup`, `handleRead`, `doPendingFunctors` | poller, channels; called by every thread |
| `net/Channel`, `net/EPollPoller` | `events_`, `revents_`, `index_`, `addedToLoop_`, `tie_`; `channels_` | `update`, `remove`, `handleEvent`, `poll` | owned by connection, timer queue, acceptor; calls them back |
| `net/TcpConnection` | `state_` (atomic), `channel_`, `outputBuffer_`, `inputBuffer_`, its reference count | `send`, `shutdown`, `forceClose` (any thread), `handleRead/Write/Close/Error`, `connectEstablished`, `connectDestroyed` | io loop by functors, server by the close callback, user callbacks |
| `net/TcpServer`, `Acceptor` | `connections_`, `nextConnId_`; listening socket, `idleFd_` | `start`, `newConnection`, `removeConnection(InLoop)`, destructor; `listen`, `handleRead` | base loop and io loops, the descriptor table |
| `net/Buffer` | `buffer_`, `readerIndex_`, `writerIndex_` | `append`, `readFd`, `retrieve*`, `makeSpace` | its connection |
| `net/TimerQueue`, `Timer` | `timers_`, `activeTimers_`, `cancelingTimers_`, the timerfd | `addTimer`, `cancel`, `handleRead`, `getExpired`, `reset`, `insert` | its loop, both clocks |
| `logger/AsyncLogging`, `FixedBuffer` | `currentBuffer_`, `nextBuffer_`, `buffers_` (mutex), `running_`, the back end's locals | `append`, `start`, `stop`, `threadFunc` | every thread that logs; `LogFile` |
| `http/HttpConnection` | `parseState_`, the request, `post_`, `keepAlive_` | `onConnection`, `onMessage`, `timeoutCallback`, `parseRequest...`, `makeResponse` | its TcpConnection, a timer |
| `net/Connector` | `state_`, `connect_`, `retryDelayMs_`, `channel_` | `start`, `stop` (any thread), `restart`, `connect`, `handleWrite`, `handleError`, `retry` | its loop by functors and timers, `TcpClient` by a callback |
| `net/TcpClient` | `connect_`, `retry_`, `connection_` (mutex) | `connect`, `disconnect`, `stop` (any thread), `newConnection`, `removeConnection`, destructor | Connector, its connection |
| `net/EventLoopThread` | `loop_` (mutex), `thread_` | `startLoop`, `threadFunc`, destructor | the loop on its thread's stack, `base/Thread` |
| `net/EventLoopThreadPool` | `loops_`, `next_`, `numThreads_` | `start`, `getNextLoop` | TcpServer |
| `logger/LogFile`, `FileUtil` | file, `writtenBytes_`, `count_`, `lastRoll_`, `lastFlush_`, `startOfPeriod_` | `append`, `rollFile`, `flush` | AsyncLogging, `time()` |
| `net/Socket`, `InetAddress`, `base/`, `Logging`, `LogStream` | one descriptor; text on a stack | wrappers of system calls, formatting | |

What is hard in this code: stores and wakeups of other threads against the loop's
poll and swap; functors that outlive what they refer to; the close of a
connection, which passes through three queues while the peer, the user and the
server act; the output buffer under partial and refused writes; timers added and
cancelled inside the batch being run, on two clocks; the exchange of buffers
between front end and back end of the logger; requests cut into messages at any
place, and state left over from one request to the next; a loop that is published,
used, quit, joined and destroyed by two threads; connection attempts, retries and
reconnects against `stop()`; the process running out of descriptors; the order in
which server, pool, loops and connections end.  The list `hazards` of
`PROJECT.json` names each at its line, with the properties that cover it or the
reason why none does yet.

Asserts count.  `CMakeLists.txt` sets no build type, so that by default a failed
assert ends the process.  Two asserts have side effects, `channels_.erase` at
EPollPoller.cc:104 and `connections_.erase` at TcpServer.cc:106, which a build with
`NDEBUG` drops.  `TcpConnection` models the asserting build, `TcpServer` both (`ndebug`),
and `Connector` either (`Asserts`), since in the asserting build no attempt survives.

## 2. The modules

| Module | Models | Shown to be |
|---|---|---|
| `TaskQueue` | what `queueInLoop()` promises: FIFO, one at a time, each once | abstract |
| `EventLoop` | EventLoop.cc, the eventfd, `EPollPoller::poll` | implements `TaskQueue` |
| `EventLoopThread` | EventLoopThread.cc and Thread.cc over `EventLoop` | implements `EventLoop` |
| `TcpConnection` | TcpConnection.cc, its Channel, the owning part of TcpServer.cc, the socket | |
| `TcpServer` | TcpServer.cc, Acceptor.cc, EventLoopThreadPool.cc, the descriptor table | |
| `Connector` | Connector.cc and the loop's turn | |
| `TcpClient` | TcpClient.cc over `Connector` | |
| `TimerQueue` | TimerQueue.cc, Timer.cc, the timerfd, two clocks | |
| `LogFile` | LogFile.cc over FileUtil.cc | |
| `AsyncLogging` | AsyncLogging.cc and FixedBuffer.h over `LogFile` | |
| `ByteQueue` | a FIFO of bytes | abstract |
| `Buffer` | Buffer.h, Buffer.cc | implements `ByteQueue` |
| `HttpConnection` | HttpConnection.cc over a connection reduced to its state | |
| `EventLoopProofs` (with `EventLoopThread`), `TcpConnectionProofs`, `TcpServerProofs`, `TcpClientProofs`, `TimerQueueProofs`, `AsyncLoggingProofs`, `BufferProofs`, `HttpConnectionProofs` | the theorems about the module of that name (section 5) | |
| `MC...` | the module above, and definitions its configurations need | |

Definitions keep the names of the source.  An operator marked "mutant of X" is a
wrong version of X, used to confirm that a property notices it; no action uses one.

**EventLoop.**  `pc` is the loop thread's place in `loop()`.  Other threads act in two
steps, the store (`pendingFunctors_` under the mutex, or `quit_`) and then `wakeup()`;
`waking` is the set of threads in between.  The loop's own posts, from callbacks,
functors and outside `loop()`, are `QueueInOwnLoop`, `RunInOwnLoop` and
`QuitOwnLoop`.  The eventfd saturates at `EventFdMax`, as the kernel's does.
`posted`, `ran`, `inlined` and `early` are history.

**EventLoopThread.**  Extends `EventLoop`.  Initially the loop is either the base loop
of `main()`, which then behaves as `EventLoop` says, or one that an `EventLoopThread` is
about to start.  `threadPc` follows `threadFunc()`, `ownerPc` the thread that calls
`startLoop()` and later the destructor; both are split wherever `loop_` is read or
written, with or without the lock.  Other threads get the loop when `startLoop()` has
returned and are done with it when the destructor runs: that is the user's part.

**TcpConnection.**  Four actors: the io loop, the base loop, a user thread that
holds a reference, the kernel with the peer.  Loops are what `TaskQueue` promises.
A handler is one step, split only where the user's message callback runs in the
middle of it; a call of the user thread is split where it reads or writes `state_`
or pushes a functor.  Ownership is explicit: `Owning` functors hold a
`shared_ptr`, `Borrowing` ones a raw `this`; `Freed` says that no reference is left.
`fault` records how the process died (assert, SIGPIPE, use after free).  Data are
units `<<message, i>>`; a unit outside the message is `Garbage`.

**TcpServer.**  Loop 0 is the base loop, the others are the pool's.  A loop is a FIFO
of functors, as `EventLoop` is proved to be; one that ends drops what was posted after
its last swap.  A connection is its state, its descriptor and its registration, and is
freed by the step after which neither the map nor a functor refers to it (`settle`).
`Acceptor::handleRead()` on EMFILE is four steps, one per system call, between which
other threads open and close descriptors.  Connections are ended by their peers and by
`~TcpServer` only: the module has no `forceClose()`, no `shutdown()` (`kDisconnecting`) and
no references of the user's, which are in `TcpConnection`.  What the module says of faults
is about that.

**Connector, TcpClient.**  The loop takes turns: the event of a poll, then the functors
that were pending at the swap.  `open` are the sockets, `connState` what the client sees
of the connection on each of them.  A call from another thread is a step per store,
lock and post.  `connect()` of a socket has three outcomes: under way, refused and
retried, failed for good.  `overlap` records that the user mixed calls (a `connect()`
while an attempt, a retry, a connection or another call is there), which the code does
not order.  `connect_` and `retry_` of the client are never initialised, hence any
Boolean at first.

**TimerQueue.**  Sets as in the code; addresses are never reused, a timer is its
own identity.  `wall` and `mono` advance together with `Tick`; `StepClock` moves
`wall` alone.  One tick is the 100 microseconds below which
`howMuchTimeFromNow()` never goes.  `cancelled` and `stopped` are history: the timers on
which `cancelInLoop()` has run, and those of them that were in the batch being called.
`CancelInBatch` is about `stopped` and not about `cancelingTimers_`, so that it notices a
cancel that was never marked as well as a mark that `reset()` ignores.

**AsyncLogging.**  A buffer is the sequence of its lines, a pointer a sequence of
at most one buffer, so that a `std::move` leaves null behind.  `append()` is one
critical section.  `notify_one()` sets `notified` if the back end is waiting and is lost
otherwise; the wait ends by `Notified`, or by `TimedOut`, which stands for the three seconds
and for spurious wakeups.  `stop()` is a store without the mutex and, a step later, its
notify, which may fall between the back end's test of `running_` and its wait.

**LogFile.**  A file is the second it was opened in, its name and its lines.  The name is
the local time of that second, by the constant `localtime`: a function that need not be
one-to-one, since local time is set back where summer time ends.  The run has two seconds
with one local time (`SummerTimeEnds`).  `append()` is one step, since its only caller is
the back end; `time()` may return less than before.  `overdue` and `wroteLater` are history.

**Buffer.**  Each method is an operator on the record of the three fields; the
actions are the public calls.  `call` records what a call was given: the bytes passed to
`append()` or that `readv` found in the socket, or the number of bytes asked for.
`ByteQueue` demands that exactly these bytes come behind the waiting ones and that exactly so
many of the oldest go, so that bytes lost or altered on their way in, at the boundary of
`extrabuf` for one, show.  `resize()` fills with `Zero`.  A failed `readv` changes nothing and
is not an action.

**HttpConnection.**  A byte stream is a sequence of tokens: a line's text, a CRLF,
a unit of a body.  `OnMessage(n)` delivers any piece; every turn of the loop in
`parseRequest()` is an action.  Pages stand for paths, `<<code, page>>` for a
response.  `send()` takes a response only when the connection is `kConnected`; one that is
made later stays in the output buffer (`stray`), and leaves the socket only if earlier output
was still waiting there for `handleWrite()`.  No property speaks of `stray`.  A
Content-Length is a natural number: `stoi()` and `stoul()` throw on other text or on a number
too large (HttpConnection.cc:107, 190, 212), nothing catches it, and the model leaves that
out.  Regular expressions, MIME types and the bytes of responses are abstracted.

## 3. The runs

Passing runs, with the states TLC reaches:

| Run | Bounds | States | Shows |
|---|---|---|---|
| `EventLoopThread` | 2 threads, 2 functors, 1 channel, eventfd max 2; base loop and threaded loop | 23,785 | `TypeOK` (the flags follow the loop's place), `NothingLost`, `NoLostWakeup`, `NoLostQuit`, `PostedRuns`, refinement `SerialExecutor`, `StartLoopReturns`, `LoopOutlivesUse`, `JoinReturns` |
| `TcpConnection` | 2 messages of 2 units; send and shutdown from both threads | 10,119 | `WireIntact`, `GracefulShutdown`, `PeerCloseEndsConnection`, `ShutdownEndsConnection` |
| `TcpConnectionAll` | the same with forceClose, refused writes, dropped references, `~TcpServer` | 916,927 | `CallbackOrder`, `NoDanglingChannel`, `WatchesOutput`, `FaultsExplained` |
| `TcpServer` | 0 or 2 io threads, 3 descriptors, 3 clients, 1 descriptor of another thread; both builds | 58,457 | `FdOwnership`, `FaultsOnlyAtShutdown`, `BacklogDrains`, `ClosedIsFreed` |
| `TcpClient` | 3 calls from two threads, 4 sockets, delays 500 and 1500; build without assert | 59,111 | `SocketsOwned`, `OneAtATime`, `FaultsExplained`, `StopEndsAttempt`, `ConnectReaches` |
| `TimerQueue` | 2 timers, one repeating; 1 clock step; 2 queued calls | 138,017 | `OwnedOnce`, `AlarmInTime`, `CancelInBatch`, `AddedFires` |
| `AsyncLogging` | buffers of 4 units, lines of 1 or 3, 4 lines; files of 3 units, days of 2 seconds, 3 seconds, two of them with one local time, a check every 2 appends | 179,176 | `NoLineLost`, `NoNullBuffer`, `LineIsFlushed`, `StopReturns`, `FilesRoll` |
| `Buffer` | 2 byte values, prepend 2, initial 2, extra 2, at most 5 readable | 128,906 | `AssertsHold`, `SpaceBounded`, refinement `ByteQueueSpec` |
| `HttpConnection` | 2 requests out of 10 kinds, cut anywhere | 37,626 | `AnswersMatch`, `EveryRequestAnswered` |

Where a module's types are not an invariant of their own, they are the first conjunct
of one of its other invariants.

Why the bounds are enough.  Two threads and two functors give a post during the
swap, during a functor and during another thread's wakeup, a full eventfd, and a quit
against a post.
Two messages of two units give a partial write followed by a queued send, and
pending output at shutdown.  Two timers give a batch in which one cancels the
other, a timer inserted before the earliest, and a repetition.  Four lines in
buffers that hold one long line or three short ones give the current, the spare
and an allocated buffer filled during one write, and more than two buffers to
recycle; three seconds with days of two give a roll by size, one by day, one that is
refused in the same second, one after the clock was set back, and one that comes back to
the name of an earlier file.  Three descriptors,
one of them the idle one, run out with two clients, so that the third meets EMFILE
while another thread may steal the number; two io threads give a close that crosses
the quit of one thread and not of the other.  Three calls give connect, stop and
connect again, or a disconnect in between, and the delay reaches its cap after two
failures.  A buffer of four with five readable reaches both branches of
`makeSpace()` at their boundary, and `readFd()` exactly at, below and above the
writable space.  Two requests are what it takes for state to leak from one to the
next; each is cut in every possible way.

Deadlock is not checked where the model may rightly stop: the constants bound the
number of messages, lines, ticks or requests.

Each property of a passing run has a mutant in `PROJECT.json`, a plausible slip in
the code that makes the property fail under the same configuration.

### Known failures

Three runs expect a violation: the code does not do what a comment of the
repository says.

- `TcpRefusedWrite`: `sendInLoop()` keeps n = -1 after a refused `write()` and
  buffers `message.data() + n` (TcpConnection.cc:107): a byte from before the
  message is sent and the last byte is not.
- `TimerCancel`: `insert()` never fills `activeTimers_`, so `cancel()` works only inside
  a batch of expired timers (TimerQueue.cc:95, 157): a timer that is cancelled before
  `handleRead()` takes it runs all the same.
- `ClientConnect`: `Connector` removes its channel inside `handleEvent()`, which the
  assert in `EventLoop::removeChannel()` (EventLoop.cc:156) forbids: with asserts on, the
  first attempt that ends aborts the process.

Other failures are part of what a passing run states, as the only causes there are:

- `FaultsExplained` of `TcpConnectionAll`: after `forceClose()`, which stores
  `kDisconnected` before it queues `forceCloseInLoop()`, nothing is closed, and the close
  by the peer fails the assert at TcpConnection.cc:221; functors queued by `send()` and
  `shutdown()` of another thread hold a raw `this` (TcpConnection.cc:69, 75, 118);
  `connectDestroyed()` from `~TcpServer` on a `kDisconnecting` connection fails the assert of
  `Channel::remove()` (Channel.cc:32).
- `FaultsExplained` of `TcpClient`: `stopInLoop()` uses a null `channel_` when it comes
  between `restart()` and its attempt; a second `connect()` during an attempt destroys a
  registered Channel; functors bound to the connector run after `~TcpClient`.
- `FaultsOnlyAtShutdown` (connections without `forceClose()`, `shutdown()` and references of
  the user's): a loop that quits drops `connectDestroyed` functors and frees
  connections with their Channels registered; `removeConnectionInLoop` runs on a
  destroyed server when the base loop goes on.
- `ClosedIsFreed`: without asserts a closed connection is never erased from
  `connections_` (TcpServer.cc:106) and keeps its descriptor until the server is destroyed.
- `JoinReturns`, `LoopOutlivesUse`: a destructor that quits between the publishing of
  `loop_` and the reset of `quit_` (EventLoop.cc:72) joins for ever; the wakeup of its
  `quit()` may touch a destroyed loop (EventLoop.cc:99); a loop that quits itself early
  makes `startLoop()` return null or wait for ever.
- `BacklogDrains`, `FdOwnership`: a thread that takes the number `handleRead()` gave up
  leaves the acceptor without an idle descriptor, and a full process then spins on the
  listening socket.  `~Acceptor` does not close `idleFd_`.
- `FilesRoll`: a clock set back stops all rolling until it has caught up; when local time
  is set back, a roll may go on with an older file (LogFile.cc:89, and FileUtil.cc opens to
  append).
- `AddedFires` lets a timer that was cancelled go without running, although today it runs
  (`TimerCancel`): a repaired `cancel()` would not break it.

The passing runs exclude what is known to fail, and say so in their constants:
`TcpConnection` has no refused write, no forceClose and no dropped reference;
`TcpConnectionAll` has them all and checks what holds in spite of them.  Other
behaviours met while modelling, not run for want of a line that promises the
contrary: a form that lacks a field is completed from an earlier request, since
`resetState()` leaves `post_`; a malformed header after `Connection: keep-alive` is
answered 400 and the rest of the request is then read as new requests, which is why
the malformed header of the run comes before it; data after a response without
keep-alive meets `kFinish` and is answered again, at a place HttpConnection.cc:149
calls "seems unreachable"; pipelined requests wait for more data; lines in the front
buffers at `stop()` are not written; producers faster than the back end fill
`buffers_` without limit; a functor the loop thread queues before it calls `loop()` waits
for the first poll to end; `FileUtil::append()` spins as long as `fwrite` fails
(FileUtil.cc:20); LogFile.h:26 gives `flushInterval_` in milliseconds and the code
takes seconds; LogFile.cc:78 promises a host name and pid in the file name.

## 4. Fairness

- `EventLoop`: the loop thread goes on, `epoll_wait` returns when the eventfd is
  readable, a thread that stored goes on to its wakeup.  Nothing is assumed of the
  poll timeout, so `PostedRuns` and `JoinReturns` rest on the wakeups alone.
- `EventLoopThread`: the same, and that a thread that was started runs and the user's
  init callback returns; no spurious wakeup is counted on, and nobody has to start,
  call or destroy anything.
- `TcpServer`: each loop keeps turning and runs its functors in each turn, however often
  the listening socket is reported (strong fairness of the functors); clients,
  peers and other threads need not do anything.
- `TcpClient`: the loop and a thread inside a call go on, an expired timer is handled,
  and a server that is tried again and again is under way one time and accepts in the
  end: an assumption about the server, needed by `ConnectReaches` alone.
- `TcpConnection`: each turn of the io loop polls and then runs the functors, so
  neither starves (strong fairness of both); handlers return, the base loop runs
  while the process lives.  The peer drains its end often enough that a poll
  reports room for output: an assumption about the peer.
- `TimerQueue`: time passes, and the loop handles what is reported and queued.
- `AsyncLogging`: the back-end thread goes on, and its wait ends after three seconds at the
  latest, as `wait_for()` has it.  Producers need not do anything, nor need anyone call
  `stop()`, nor need a `stop()` get to its notify: since that may be lost, `StopReturns` rests
  on the timeout.
- `HttpConnection`: the io loop reads what has arrived, and `onMessage()` returns.

## 5. What is proved

The runs check small instances; the theorems below hold for every value of the
constants that the `ASSUME`s of the modules allow.  These say that numbers are natural
numbers and sets are of the right kind, and in four places a little more, each time
what the code has: an eventfd counts to 1 at least, a log line is shorter than the
buffer it goes into (`LengthsAssumption`, from the size of a LogStream's buffer), the
first retry delay is no longer than the cap, and a pool has at most `MaxLoop` loops.
The bounds of the runs (messages, clients, sockets, calls, lines, time) are parameters
of the theorems like any other.

Each module proves one inductive invariant (`Invariance`) and takes the properties from
it; what is needed beyond the properties is described here.

**EventLoopProofs** (`TypeCorrect`, `QueueSafety`, `WakeupSafety`, `QuitSafety`,
`Refinement`).  `IInv == Types /\ Position /\ NothingLost /\ WakeupInv /\ NoLostQuit`.
`NoLostWakeup` is not inductive: it speaks of the poll only, and a step into the poll
needs to know that what is pending was signalled.  `WakeupInv` says so for the whole
way from the swap, round the loop, to the return of the poll; between the poll's return
and the swap the eventfd may have been drained, but the swap is still to come and takes
everything.  `Position`, the part of `TypeOK` beyond the types, ties
`callingPendingFunctors_`, which `queueInLoop()` reads, to
the place where the loop is: it is why a functor posted by a functor is signalled (its
batch was swapped already) while one posted by a channel's callback need not be.

The same module has the theorems about `EventLoopThread` (`ThreadRunsEventLoop`,
`ThreadedLoopSafety`, `ThreadedLoopRefines`, `LoopLifetimeSafety`).  Every step of the
composition is a step of
`EventLoop` or leaves the loop alone, so that the theorems above carry over to a loop that
is started, published, quit and destroyed in a thread of its own.  `LoopOutlivesUse`
needs in addition that, without a quit of the user's, only the destructor's `quit()`
lets `loop()` return, and that `loop_` is set from the publishing to the end.

**TcpConnectionProofs** (`CallbackSafety`, `ChannelSafety`, `OutputSafety`,
`FaultSafety`, `WireSafety`, `ShutdownIsGraceful`).  The invariant has three views of the
connection's life, `state_`, what the user was told (`seen`) and the Channel's place in
the poller, and says of each stage what the others are (`EarlyInv`, `UpInv`, `DownInv`).
`QueueInv` has the functors: `connectEstablished` is at the head of the io queue as long
as the state is `kConnecting`, and `connectDestroyed` is posted once, by whoever takes the
connection out of the map (`OwnerInv`).  That is what orders the callbacks, and what
keeps the object until the Channel has left the poller.  `WireSafety` and
`ShutdownIsGraceful` have the hypothesis `~WriteMayRefuse`, without which the run
`TcpRefusedWrite` shows them to be false; the other four have none.

**TcpServerProofs** (`FdSafety`, `ShutdownFaultSafety`, `EntriesStay`).  `OwnInv`: a descriptor is a
connection's exactly as long as the map or a functor refers to it.  `IdleInv` follows the
idle descriptor through the four calls of `handleRead()`; a number it gave up is free or
was taken by a thread that set `stolen`.  For a living server (`AliveInv`) no functor is
queued twice and each excludes the others: a removal in the base loop means that
`connectDestroyed` is not queued yet and the entry is there.  That is why neither the
assert in `removeConnectionInLoop()` nor the one in `EPollPoller::removeChannel()` fails.
For a dying one there remain `QueuedInv` (functors are in the connection's loop,
`connectEstablished` before `connectDestroyed`) and `AddedInv` (a registered Channel has an
owner or its loop has ended); from these, that nothing is left behind but removals in
the base loop.

**TcpClientProofs** (`SocketSafety`, `ExclusionSafety`, `FaultSafety`).  The invariant has
two parts.  `Sound` holds whatever the calls: each open socket has one owner, a closed
connection has one functor that will free it, the Channel waits for `resetChannel`.
`Orderly` holds as long as calls do not overlap: of attempt, retry, connection, queued
`startInLoop` and call of `connect()` at most one is there, a queued `stopInLoop` means that
`connect_` is false, and no attempt begins before `resetChannel` has run.

**TimerQueueProofs** (`OwnershipSafety`, `AlarmSafety`, `CancelSafety`).  A timer's
life (queued, live, deleted) is tied to the one set or functor it is in; the clocks
differ by the steps only.  The `std::set` of the code is a set of entries here, so
that `earliestChanged()` and the alarm rest on lemmas about minima and cardinalities.
`CancelSafety` is of the timers cancelled while they were in the batch: such a timer is in
`cancelingTimers_` as long as the batch lasts, whether it was marked before, in or after its
own callback, and `reset()` therefore deletes it; a deleted timer is never inserted.

**AsyncLoggingProofs** (`LineSafety`, `PointerSafety`, `RollSafety`), with `LogFile`.
`LineInv` adds to `NoLineLost` where the back end is within its batch; `PointerInv` is the
balance of buffers: where the second of a pair of pointers is null, there is one filled
buffer more to take its place.  `FitInv` (every buffer has a byte left) is what makes
`append()` to a fresh buffer succeed.  `RollInv` gives the second and day of
the last file, says that files were opened in ever later seconds, whatever `time()`
returned, and that the late appends of `FilesRoll` are counted by `count_`.  `RollSafety`
holds for every `localtime`: two files have one name only where that function was set back
(or stood still) between the seconds they were opened in.  Concatenation of
buffers and the bytes used in them are recursive; their laws are proved by an induction
over the set of lengths for which they hold (`SetInduction`), since the library's
induction theorems cannot be instantiated here.

**BufferProofs** (`AssertSafety`, `SpaceSafety`, `Refinement`).  The lemmas say of each
method which bytes are readable afterwards and how far the array has grown; the
refinement of `ByteQueue`, with the bytes each call was given, then goes call by call.  `SpaceBounded` needs
`readableBytes <= peak` to be inductive.

**HttpConnectionProofs** (`TypeCorrect`, `ResponsesMatch`, `ParserInStep`).  `TypeCorrect`
has no hypothesis about the peer: whatever it sends, a body is awaited only with its
Content-Length known, as the assert in `parseRequest()` demands.  The other two have the
hypothesis that every request `Conforms`, which the module `MCHttpConnection` has TLC
check of the run's requests.  Its clauses are the places where the code does not give a
request what that request alone deserves: a type or length given twice, a Content-Length that is
not the body's, a malformed header after `Connection: keep-alive` (the answer is 400, the
connection stays and the rest of the request is parsed as the next one), and a login that
does not fill in every field, because `post_` is never cleared.  Of each clause there are
requests that break it alone and make TLC find `AnswersMatch` violated.  The invariant
says where the parser is: while the connection is open, the unread tokens (buffer and
flight together) are those of the requests not yet answered, in order, less a prefix
of the first one, and `parseState_`, `header_` and `body_` are what that prefix makes of a
fresh parser (`Synced`).  The place of each request in the unread tokens is a function
that the invariant asserts to exist (`Layout`); a recursive definition of the concatenated
requests could not be reasoned about here.  A read changes nothing that is unread
(`ReadKeeps`), which is why it does not matter where the stream is cut; a parsed line or
body moves the parser by its tokens (`TakeTokens`); an answer either shuts the connection
down, after which no response is added, or resets the parser exactly at the end of the
request (`RespondMatched`).

Only model-checked: the liveness properties (fairness and ENABLED are out of the
prover's reach; of `ClosedIsFreed` the part that is an invariant, `EntriesKept`, is
proved).

## 6. Plan

Done: all modules of section 2, and the proofs of section 5, which cover every
invariant and safety property of the passing runs.

Left: an invariant of `Connector` on its own, which is now proved as part of `TcpClient`.

## 7. Not modelled

- `InetAddress`, `Logging`, `LogStream`, `Timestamp`, `CurrentThread` and most of `Socket`
  wrap system calls or format text on one thread's stack: no state is shared and no
  order of steps matters.
- The high-water mark of `TcpConnection`, which no code reads; `Buffer::swap()`; `~TimerQueue`;
  `Thread`'s detach; setters of callbacks.
- Several ready channels in one poll: `TcpConnection` and `Connector` let an event be
  followed by the functors of the same turn.
- Failing system calls that the code answers with `LOG_FATAL`, and a failing `fwrite`.
- The tests and the example.
