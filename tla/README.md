# A TLA+ model of serverlite

serverlite (`src/src/slite`) is a C++17 networking library in the style of muduo: one
event loop per thread, callbacks on file descriptors, functors queued between threads,
and on top of them TCP servers and clients, HTTP, protobuf messages and RPC.  This
directory holds TLA+ models of its core and of the layers above it, the TLC
configurations that check them, and proofs that TLAPS checks.

## Inventory

| component | state | operations | talks to |
|---|---|---|---|
| `EventLoop` | `quit_`, `doingTask_`, `taskQueue_`, eventfd, `channels_`, `timers_` | `loop`, `runTask`, `pushTask`, `quit`, `updateChannel`, `removeChannel`, `runAfter`, `runEvery`, `cancel` | every other thread, by `pushTask` and the eventfd; channels, by raw pointer |
| `Channel` | `state_`, `events_`, `tie_` | enable, disable, `remove`, `handleEvents` | its loop and epoll; its owner, by callbacks |
| `Timer` | a timerfd and its channel | `addTimer`, destruction | the loop's `timers_` |
| `EventLoopThread`, `EventLoopThreadPool` | `loop_`, `thread_`; `loops_`, `next_` | `startLoop`, destruction; `start`, `getNextLoop` | the loop on the other thread's stack |
| `Acceptor`, `TCPServer` | listening channel; `connections_` | `listen`, `handleRecv`; `newConnection`, `removeConnection(InLoop)`, destruction | base loop, I/O loops, connections |
| `TCPConnection` | `state_`, channel, buffers | `send`, `shutdown`, `forceClose`, event handlers, `connectEstablished`, `connectDestroyed` | its loop, the user, the server or client |
| `Connector`, `TCPClient` | `state_`, `connect_`, retry delay; `connection_` | `start`, `restart`, `stop`, retry; `connect`, `disconnect`, `stop` | loop timers, `TCPConnection` |
| `ThreadPool` | queue, two condition variables, `running_` | `start`, `run`, `stop` | worker threads |
| `AsyncLogger`, `Logging`, `Logger` | two buffers, a list of full buffers; a log file | `append`, backend thread, `stop`; roll, flush | every thread that logs |
| `http` | parser state, request | `onMessage`, `onRequest` | `TCPServer` |
| `protobuf` | none | frame and parse messages, dispatch by type | `TCPConnection` buffers |
| `protorpc` | outstanding calls by id | `CallMethod`, `onRpcMessage`, `doneCallback` | codec, connection |
| `TCPHandle` | a socket descriptor, the idle descriptor `nullFd_` | system calls | kernel |
| `examples/memdb.cc` | `db_`, a parser context per connection | `onMessage` | `TCPServer` |
| `examples/subpub.cc` | `conns`, the topics of each connection | `sub`, `unsub`, `pub`, end of a connection | `TCPServer` with several loops |

The whole library hangs on one scheme: an object belongs to one
loop, its state is touched by that loop's thread only, and other threads reach it by
queueing a functor with `runTask`/`pushTask`.  The exceptions to the scheme are where
the code is hard, and where the models look:

- **Between threads.** A push and its wakeup are two steps; `quit_` and `doingTask_` are
  plain bools; `state_` of a `TCPConnection` and `connect_` of a `Connector` are read and
  written by foreign threads without a lock; `startLoop()` and `~EventLoopThread()` meet
  the loop's thread at its start and at its end.
- **Within one thread.** `epoll_wait` returns raw pointers to channels, and a callback of
  the same batch may remove or destroy the channel of a later event; a functor bound to
  `this` may outlive its object; one descriptor passes from the connector's channel to
  the connection's.
- **Between the network and the user.** The peer's end of stream, a reset, a partial
  write, and the user's `shutdown()` and `forceClose()` arrive in any order.
- **What must eventually happen.** Queued functors run, `quit()` ends a loop, a
  destructor's `join()` returns, a postponed `shutdown()` is done, a client reconnects.
  No unit test of the repository waits for any of these under a chosen schedule.

What makes each part correct:

- `EventLoop`: a functor runs once, in the order of the pushes, and is never slept upon;
  a quit ends the loop.
- `Channel`, `Timer`: the channel, the loop's map and epoll agree; no event reaches a
  destroyed channel; a registered channel that loses its last event leaves epoll.
- `EventLoopThread`: `loop_` never dangles; start and destruction return.
- `TCPServer`, `TCPConnection`: a connection is announced, reported as disconnected and
  destroyed, once each and in this order; nothing runs on it afterwards; accepted bytes
  reach the kernel in order, and the end of the stream follows the last of them.
- `Connector`, `TCPClient`: one attempt at a time; a stop is heeded; a lost connection is
  replaced.
- `ThreadPool`: a task runs at most once, and sleeps no longer than it has to; a stop
  releases everybody.
- `AsyncLogger`: what was appended is written, once and in order, unless it is dropped
  with a notice.
- `http`, `protobuf`: the messages delivered depend on the stream and not on how it was
  split or on other connections.
- `protorpc`: each call's `done` runs at most once, with the answer to its id.
- `Acceptor`: the idle descriptor is closed and reopened by its owner only.
- the examples: `memdb` serves one map to all clients; in `subpub` the two tables of
  subscriptions agree, and nothing is sent to a connection that is destroyed.

`PROJECT.json` lists each hazard at its line with the properties that watch it.  Of some
hazards the code has no defence, and no property of a run is about them: their notes say
so, and the section on facts beyond the runs says what follows from them.

## Modules

| module | models | how |
|---|---|---|
| `Executor` | what a loop promises for functors | abstract specification |
| `EventLoop` | `EventLoop.cc/.h` | loop thread, foreign threads, eventfd |
| `EventLoopThread` | `EventLoopThread.cc/.h` | extends `EventLoop`; owner and thread function |
| `Channel` | `Channel.cc/.h`, `updateChannel`, `removeChannel`, timers' channels | one loop thread, epoll |
| `ConnectionLifecycle` | what a server promises for its connections | abstract specification |
| `TCPServer` | `TCPServer`, `TCPConnection`, `EventLoopThreadPool`, `Acceptor` callback | several loops, one foreign thread |
| `ByteStream` | what a connection promises for accepted bytes | abstract specification |
| `TCPSend` | the sending half of `TCPConnection.cc` | one loop, foreign threads, the kernel |
| `ThreadPool` | `ThreadPool.cc/.h` | workers, callers, the owner |
| `Connector`, `TCPClient` | `Connector.cc/.h`, `TCPClient.cc/.h` | `TCPClient` extends `Connector` with the loop, the connection and the user |
| `AsyncLogger`, `Logging` | `AsyncLogger.cc/.h`, `Logging.cc/.h`, the end of `Logger.cc` | `AsyncLogger` extends `Logging`, whose object is a value; threads, backend, owner, clock |
| `HTTPServer` | `http/` | connections of several loops and one codec |
| `ProtobufCodec` | `protobuf/` | one connection, the peer's frames |
| `RpcChannel` | `protorpc/` | one client, one server, their connections |
| `MemDB`, `SubPub` | `examples/memdb.cc`, `examples/subpub.cc` | clients of a `TCPServer` |
| `Acceptor` | `Acceptor.cc/.h`, `TCPHandle::accept` | one loop, the descriptors of the process, other threads, peers |
| `Timer` | `Timer.cc/.h`, `runAfter`, `runEvery`, `cancel` | one loop, a clock |
| `MC...` | constants of the TLC instances | extend the modules they instantiate |
| `...Proofs` | theorems | extend the module they are about and `TLAPS` |

The modules divide the system at the functor queue.  `EventLoop` shows that the queue
keeps order, loses nothing and is not slept upon (it implements `Executor`); `TCPServer`,
`TCPSend` and `TCPClient` then use a plain sequence of functors per loop and leave the
eventfd out.  They keep the part of the loop that matters to them: the functors taken by
`doTask()` are a vector of their own, and what is queued meanwhile waits for the next
round.  `TCPServer` and `TCPSend` are two views of one `TCPConnection`: its life and
ownership, and its bytes.

The modules from `AsyncLogger` on are layers that stand on what the others show: a handler
runs to its end on its loop, handlers of different loops interleave, a connection hands
over its bytes in any pieces.  Where a layer shares something between loops (the parser
state of `HTTPCodec`, the table of `subpub`) the handler is cut where the other loop can
come between.  `MCLayers` puts them side by side: they have no state in common, so a
behaviour is one of the layer that `layer` names from the start, and a single instance
checks all of them.

Definitions headed "Mutant:" are plausible bugs of the definition that follows them.
They are in no specification; each is put in the place of the real definition to see
that a property notices.

### Correspondence with the code

**EventLoop.** `pc` is the place of the loop's thread in `loop()` and `doTask()`; `quit`,
`doingTask`, `taskQueue`, `functors` are the variables of these names; `eventfd` is
whether the counter is positive, `batch` the filled part of `events_`.  `CheckQuit`,
`Poll`, `PollTimeout`, `PollError` are the head of the loop with its three outcomes of
`epoll_wait`; `HandleWakeup`, `HandleIO`/`HandlerReturns` the dispatch; `BeginTasks`,
`SwapTasks`, `RunFunctor`, `FunctorReturns`, `EndTasks` are `doTask()`.  `LoopPush` and
`LoopQuit` are calls on the loop's thread.  A foreign `pushTask()` is `ForeignPush` (the
critical section) and `ForeignWakeup`; a foreign `quit()` is `ForeignQuit`,
`ForeignQuitReads` and perhaps `ForeignWakeup`, or, when the store is delayed,
`ForeignQuitEarlyRead` and `ForeignQuitLateStore`.  `runTask()` on the loop's thread calls
the functor at once and changes nothing here.  `pushed` and `ran` are histories.

**EventLoopThread.** `opc` follows the owner through `startLoop()` and the destructor,
`tpc` the thread through `threadFunc()`; `published` is `loop_ != nullptr`, `alive` the
life of the `EventLoop` on the thread's stack.  The destructor reads `loop_`
(`DestructorReads`) before it calls through it (`DestructorQuits`), as the code does
without holding `mutex_`.

**Channel.** `state` and `events` are the fields of the channel; `channels` the loop's
map; `watched`/`interest` what epoll has.  `Ctl*` model `epoll_ctl` with its failures,
which the code ignores; `ctlFailed` remembers one.  `UpdateChannel` is
`EventLoop::updateChannel`, `RemoveChannel` is `removeChannel`.  `Delete`, `Cancel` and
`DestroyTimer` are the ways a channel is destroyed: by its owner in a functor, by
`cancel()`, by a one-shot timer that forgets itself in its own callback (`doomed`: only
the guard of `handleEvents()` keeps it alive).

**TCPServer.** One record of functions over connections (`cstate`, `reg`, `recving`,
`loopOf`, histories `up`/`down`) and one over loops (`mode`, `batch`, `queue`, `functors`,
`idx`).  `NewConnection` is the acceptor's callback with `newConnection()` and
`getNextLoop()`; `HandleMessage`/`HandleEof` are `handleRecv()`; `CloseConnection` is
`handleClose()` with the connection callback and `removeConnection()`; `Run*` are the
functors.  `Alive` is reference counting made explicit: the server's list, a foreign
thread's pointer, and the functors that own a `shared_ptr`, which live until the vector
of `doTask()` is destroyed.  A callback may call back into the connection: `Calls` gives
the possible effects, and `Context` the places, so that a run says who may call what.

**TCPSend.** `buffer` is `sendBuffer_`, `sending` is `isSending()`, `wire` what the kernel
took.  `SendInLoop` has the four paths of `sendInLoop()`; the kernel takes any prefix.
`HandleSend` contains the disabling of the write event, the queued callback and the
postponed `shutdownInLoop()`.

**ThreadPool.** `pc` is the place of each thread; "empty" and "full" are waits on the
two condition variables, and "take" and "push" the places right before the lock, fresh
or after a wakeup.  `NotifyOne` picks any waiting thread; `SpuriousWakeup` needs none.
Without workers `run()` calls the task at once, and the task's own `run()` the next:
`RunInline` takes all `Descendants` in one step.

**Connector, TCPClient.** Each operator of `Connector` is one path through the code, with
the functions it calls; `fault` remembers a failed assertion or a bad pointer.
`TCPClient` adds an iteration of the loop: events in any order, then the functors queued
so far.  A refused attempt is two steps, `Refused` (`handleError`) and `RefusedWrite`
(`handleWrite`, which the same event triggers and for which `getSocketError` never
reports an error), because a foreign `stop()` may come between.  `Destroy` is
`~TCPClient()` on the loop, in the place of a callback; `alive` is FALSE afterwards, and
a callback bound to the client that still comes is a fault.

**AsyncLogger, Logging.** `buffer`, `buffers`, `running` are the fields, `toWrite` is
`buffersToWrite`, `bpc` the place of the thread in `backend()` and `Locked` those places
where it holds `mutex_`, which is all of an iteration but the wait.  `Test` and `Block`
are the two halves of `wait_for()` between which `stop()` may notify in vain;
`TimeOut`/`LateSwap` is its timeout.  `opc` follows the owner through `stop()`.  A record
is its number in the order of `append()`, so that the properties can say where each is.
`logging` is the local `Logging`: a record of the files, what stdio holds, and the
counters; `AppendUnlocked`, `RollFile`, `Flushed` are its member functions.  `LogRecord`
is `~Logger()`, `Abort` what follows a FATAL record.

**HTTPServer.** `Receive` is `handleRecv()` up to the call of `onMessage()`, with any
number of further lines; `RequestLine`, `RequestHeader`, `Respond`, `Incomplete` are one
iteration of its loop each.  `request` is the local copy of the context, `codecState`
the `state_` that all connections share.  `closing` distinguishes a `shutdown()` that was
asked for from one that took effect: until buffered bytes are gone, answers still follow.  `Responses` is `onRequest()`: rules, files, the
callback for missing pages.  `whole` and `single` remember whether the code's unstated
assumptions held so far.

**ProtobufCodec.** `wire` is what the peer sends, `came` how many bytes of it have
arrived; a frame begins at an `Offset`, and the three conditions of the loop in
`onMessage()` are `Header`, `LengthOK` and `Frame`.  `taken` counts the frames erased from
the receive buffer, `scan` those erased from the buffer the call works on, which for
`ProtobufCodecLiteT` is a copy.  `Parse` and `ParseLite` are the two `parse()`.

**RpcChannel.** `CallMethod` begins a call, `loopPc` is the loop that runs inside it.
`conns` are all connections the client has had, each with the request and response on it;
the pointers of `TCPClient` and `RpcChannel` are to the last one while it is open.
`ConnectedCallback`, `OnResponse`, `OnRequest` are the callbacks; `Connect` is
`Connector::connect()` with its assertion and, if it fails at once, its `retry()`.  What a
later call destroys before its end, the previous connection (`LetGo`) or an attempt
("dead"), leaves a closed descriptor in `channels_` (`stale`), whose number the next
channel may get; `aborted` is the end of the program, by an assertion or by the use of a
destroyed `Channel`.

**MemDB, SubPub.** `ParseLine` is one line in `parse()`, `Execute` a complete command.
In `SubPub` a handler takes one line at a time, `Unsub` and `UnsubLocked` are before and
under the lock, and a closing connection passes through its steps on its loop while
other loops may still send to it.

**Acceptor.** `AcceptPolled` to `ReopenNull` are the system calls of `handleRecv()` and
`TCPHandle::accept()`, one action each, because other threads of the process open and
close descriptors in between; `holder` is the table of descriptors.

**Timer.** `nextAt` is when the timerfd expires, `Interval` and `Howlong` the conversion
of a delay with the factor the code uses; `Elapse` is the clock, `HandleTimer` and
`CallbackReturns` are `handleRead()` around the callback.

## Runs

`tlc -config <cfg> <module>`; states are distinct states.

| run | configuration | states | what it shows |
|---|---|---|---|
| `loop` | `MCEventLoop` | 88,158 | Two foreign threads and callbacks push three functors and quit, in every interleaving and with the store to `quit_` delayed: nothing is lost, doubled, overtaken or slept upon (`LoopSafety`), a quit ends the loop (`QuitEnds`), and the loop implements `Executor` with its fairness. `NoLostQuit` is not listed: with the delay only the ten second timeout saves the quit. |
| `loop_early_push` | `MCEventLoopEarly` | violation | A functor pushed by the loop's own thread outside `loop()` may wait for ever. |
| `thread_lifecycle` | `MCEventLoopThread` | 4,488 | `loop_` never dangles, the object outlives its thread (`ThreadSafety`), `startLoop()` and the destructor return (`CallsReturn`). |
| `thread_quit_before_loop` | `MCEventLoopThreadHang` | violation | `quit()` between the publication of `loop_` and `quit_ = false` is forgotten, and `join()` hangs. |
| `channel_registration` | `MCChannel` | 2,759 | Channel, map and epoll agree and no `epoll_ctl` fails (`RegistrationSound`), also for channels that are disabled twice; a descriptor comes to be watched for no events only with a channel that was not registered (`NoneNotRegistered`); no event reaches a destroyed channel. |
| `tcp_server` | `MCTCPServer` | 9,937 | Assertions hold, no functor runs on a destroyed connection and a registered connection is alive (`ServerSafety`), and each connection lives the life of `ConnectionLifecycle`: announced once, reported as disconnected once, then destroyed. |
| `tcp_server_any_caller` | `MCTCPServerAny` | 27,146 | What survives any caller of `forceClose()` and `shutdown()`, up to the first fault: `ReportedInOrder`. |
| `force_close_twice` | `MCTCPServerForce` | violation | `forceClose()` from the connection callback on an I/O loop, then the peer's end of stream: `connectDestroyed()` runs twice. |
| `tcp_send` | `MCTCPSend` | 291,593 | Bytes keep their order and have no gap, the write event is right, `shutdown()` and the write complete callback are not forgotten; the connection implements `ByteStream`. |
| `thread_pool` | `MCThreadPool` | 40,986 | `notify_one()` per task is enough (`PoolSafety`), no task runs twice, queued tasks begin, `stop()` releases everybody. |
| `client` | `MCTCPClient` | 419 | One attempt at a time, channels reset in time (`ClientSafety`), `stop()` and the client's death heeded, the client reconnects. |
| `layers` | `MCLayers` | 384,503 | Each layer above the core, as in the next table. |

The properties of `layers`, with the states of each layer alone:

| layer | states | properties |
|---|---|---|
| `AsyncLogger` | about 222,000 | `RecordsConserved`: every record is in one place, in order, across swaps, drops, rolled files and restarts. `RollsWhenFull`: an append that finds or leaves the file too long is followed by a file of the current second, so a file that is too long gets one more append at most once its second is over. `RecordsWritten`: also a record in a buffer that never fills reaches the file. `StopReturns`: although its notification may be lost. |
| `HTTPServer` | 10,500 | `RightAnswers`, `AllAnswered`: with complete requests and calls that do not overlap, each connection gets the answers to its requests, once, in order and without waiting. |
| `ProtobufCodec` | 41,000 | `FramesDelivered`, `BadFramesRefused`: every usable message once and in order, and the first unusable one ends the connection, for any split. |
| `RpcChannel` | 16,500 | `CallsRight`: `done` runs once, after the server has executed or refused the call, however often it is sent again. `CallReturns`: the first `CallMethod()` returns; a later one returns, or what the call before it left behind ends the program. |
| `MemDB` | 5,000 | `ServesAMap`: clients that wait for their answers see one map. |
| `SubPub` | 60,000 | `SubscriptionsAgree`: the table and the contexts hold the same. `SendsReachTheLiving`: a queued `sendInLoop()` finds its connection alive. |
| `Acceptor` | 3,000 | `IdleFdOwned`: whatever other threads do between the system calls, only own descriptors are closed. |
| `Timer` | 26,000 | `TimersKeepTime`: delays of whole seconds are kept, a one-shot timer runs once. |

`LayersTypeOK` is the conjunction of their type invariants.

### Bounds, and why they are enough

- **EventLoop.** Each functor is pushed once.  Three of them fill the local vector, the
  queue and a push on its way at once; two foreign threads let one thread's wakeup hide
  another's.  `loop_early_push` uses two functors.  `EarlyPush`, `StoreDelay` and `Signals` switch
  on one behaviour each, so a run can say which one a property depends on.
- **EventLoopThread.** One owner, who is also the only foreign thread: the class gives
  `loop_` to nobody else.  `Settled` keeps the destructor away from a loop that has not
  reached its `while`; without it the hang above is found.  `Signals` is off, since a
  signal that ends the loop before `startLoop()` has looked leaves the owner waiting.
- **Channel.** Two channels on one descriptor (the connector and the connection) and two
  timers (one cancels the other); nothing in the code involves three channels at a time.
- **TCPServer.** Two connections and pools of none, one and two loops: a connection on
  the base loop, two on one loop, two on two loops, and the wrap of `next_`.  A connection
  is opened once; nothing of it is shared with a later one but its place in the queues.
- **TCPSend.** Two bytes per sender and calls of one or two bytes: a partial write, a
  full one, one buffered behind another.
- **ThreadPool.** Five tasks, a queue of two, two workers, two callers: the queue can be
  full while both callers wait, or one caller and a task.  One task calls `run()`
  itself; two would be as many as there are workers (see below).
- **TCPClient.** `connect()` and `stop()` are called once each, from every place; the
  attempts, timers, connections and losses in between are not bounded.  `MayDestroy` says
  when the client may die without a fault: in an event callback with no event of the
  connector behind it, not after a stopped attempt, and with a connection that somebody
  else holds too.
- **AsyncLogger.** A buffer of three, records of one and two: a record that fits, one that
  does not, and one that fits behind a shorter one.  Two buffers are already too many for
  one round (25 in the code), so four records can be dropped, kept and written together.
  Files of two roll on most writes; three seconds and days of two give a roll by length,
  one by date, and one that the second forbids.  Two starts show records that one
  backend leaves to the next.
- **HTTPServer.** One connection with two requests, one with one, on two loops; a rule
  that applies to one of them, one request that asks to close.
- **ProtobufCodec.** Two frames of every kind, good and damaged in each field, in every
  split into pieces; a third frame meets nothing new, since a call leaves only `taken`
  and the pieces behind.
- **RpcChannel.** Three calls, one of an unknown method; one loss and two refused
  attempts: a request that is sent twice, a retry that meets an attempt, and a later call
  that meets what an earlier one left.
- **MemDB.** Two clients with three commands each that share a key; `MaxReplies` bounds a
  client that is answered again because the context was not reset.
- **SubPub.** Two connections on two loops and two lines each: one subscribes, the other
  publishes, unsubscribes or leaves.  The second topic is there for the two entries of a
  connection that ends.
- **Acceptor.** Three descriptors: the idle one, an accepted one and another thread's.
  Four peers and a backlog of two exhaust them twice.
- **Timer.** `Base` stands for the 1000 of the code's units and is two, so that a delay of
  one and a half seconds exists (3); two timers, of which one cancels the other.

`CHECK_DEADLOCK FALSE` is set where the system may really stop: all connections closed
and the server gone, all bytes sent, the pool stopped, the client stopped, everything
logged and all requests answered.

### Fairness, and why the code justifies it

Threads are scheduled: a loop that was entered keeps executing (`LoopProgress`, without
the signal), a foreign thread finishes the call it has begun, workers and callers of
`ThreadPool` go on when they can, and `epoll_wait` returns at the latest after its ten
seconds (`PollTimeout`).  No fairness is put on what a user, a peer or a signal may do.
Exceptions, each stated in its module:

- `TCPSend`: the peer reads on unless it closes or resets the connection
  (`WF(HandleSend)`), and epoll reports a reset.
- `ThreadPool`: tasks return.
- `TCPClient`: strong fairness on an attempt that does not fail at once and on one that
  succeeds.  Without them a client whose server never listens retries for ever, which is
  what the code is meant to do.
- `AsyncLogger`: the backend and a `stop()` that has begun go on (`LoggerFairness`), and
  the backend's wait times out; nobody has to log, start or stop.
- `RpcChannel`: both loops go on (`RpcFairness`).  Losses and refusals are bounded, which
  says that the network is good again in the end.

## Proofs

Eight modules hold theorems; each is checked by `tlapm <module>.tla`, for every value of
the constants that satisfies the named `ASSUME` of the module.

**EventLoopProofs.** `TypeCorrect`; `TaskPhase` ties `doingTask_` and the local vector to
the place in `doTask()`.  `NoLostWakeup` is not inductive: it speaks of the loop before
and inside `epoll_wait`, and says nothing of a functor pushed while functors run, which
only later waits there.  `WakeupOwed` extends it to those phases and to a loop that has
ended (`WakeupNotLost`, for `~EarlyPush`).  `NoLostQuit` needs that nobody has read
`doingTask_` early (`QuitNotLost`, for `~StoreDelay`).  `Conservation` is inductive, and
with it `LoopImplementsExecutor` maps every step to a step or a stutter of `Executor`;
the freshness of a pushed functor in the abstraction is where it is needed.
`LoopIsSafe` puts type, wakeup and order together, the property of the run.

A second part of the module is about `EventLoopThread`: `Lifetime` ties `published` and
`alive` to the place of the thread; `LoopPtrAlwaysValid`, `ThreadAlwaysDiesFirst` and with
them `ThreadIsSafe` follow.  The type invariant of the loop inside is not needed.

**ChannelProofs.** `TypeCorrect`, then two invariants.  `Registration` is
`RegistrationAgrees` strengthened: map and epoll hold a channel only under its own
descriptor, and no `epoll_ctl` has failed; without these the hand-over of a descriptor
cannot be shown to find it free.  `Allocation` says that what is registered is allocated.
`RegistrationAlwaysAgrees`, `CtlAlwaysSucceeds` (together `RegistrationIsSound`) and
`WatchedAlwaysAlive` follow, and hold whatever `CancelInHandler` is.
`NoEventIsStale` is for `~CancelInHandler`: `Dispatch` says that outside of the handling
of a batch no event is pending, and inside it the channels of the pending events are
allocated and the one whose callback runs is not among them, so that the callback may
destroy it.  `NoneIsNeverRegistered` (`NoneNotRegistered`) is for owners that disable in
any state and needs no hypothesis: by `UpdateLeavesNoneIdle` the descriptor that
`updateChannel()` adds was free, one that it modifies keeps events, and one whose channel
loses the last event is no longer watched.

**TCPSendProofs.** `StreamInv` = `TypeOK`, `InOrder` (accepted = wire, then buffer),
`WritesWatched`, and `NothingAfterFin` (an open connection whose stream was ended has no
bytes buffered).  `WritesWatched` is needed because `shutdownInLoop()` tests the write
event and not the buffer; `NothingAfterFin` because a `send()` after the end must find
the socket idle and fail instead of being buffered.  `WritesAlwaysWatched` is read off;
`SendingImplementsStream` shows each step to be one of `ByteStream`.  `NoGaps` counts,
for each sender, the bytes `sendInLoop()` has accepted: `GapInv` says that the accepted
bytes are exactly those, in order (`Orderly`), and that the queued functors hold the
others up to the last byte sent, in runs of one sender whose order is that of the bytes.
It holds until bytes are given up, or dropped because the socket cannot be written; then
nothing is accepted any more (`Dead` is never left), and no byte can follow the lost.

**ThreadPoolProofs.** `NobodySleepsInVain` is `PoolSafety`: `NoIdleWorker` compares the
length of the queue with the number of workers on their way to it, `NoBlockedCaller` the
free room with the number of callers on their way.  `PoolInv` adds `Places`: who pushes
has a task, only workers sleep on `notEmpty_`, and before `start()` nobody waits.  The
lemmas `OneMore`, `OneLess` and `NoFewer` say how a thread that moves changes the number
at a place, `Notified` what `notify_one()` does; `OneMove` then covers every step that
leaves the queue alone, spurious wakeups included, and `PushKeeps` and
`DequeueKeepsSafe` the two that do not: a push that wakes nobody finds nobody asleep.
`NoTaskRunsTwice` is `RunsOnce`: `OnePlace` says that a task is in the queue at one
index at most, in the hands of one thread at most, has begun at most once, and only one
of these; a task nobody has passed to `run()` is nowhere.  A pool without threads runs a
task within `run()`, and the tasks that it passes on with it, so `InlineClosed` says
that whatever was called then is a root or was passed on by a task that was called, too.
Both rest on the assumption on `Child` that no task is passed on by two others.

**TCPServerProofs.** `TypeCorrect`, and then two invariants of different strength.

- `AnnouncedFirst` is `ReportedInOrder` for any caller: however often `forceClose()` and
`shutdown()` are called, and from wherever, no connection is reported as lost before it
was announced.  `OrderInv` has three cases: a connection nobody has accepted has no
functor (`Fresh`); one that is accepted and not announced has one, `connectEstablished`
(`Accepted`); one that was announced never has that one again, and leaves the list of
the server, or is about to, only after it was reported as lost (`Announced`).  Batches
and foreign threads hold announced connections only.
- `NothingDangles`
(`ServerSafety`), `RemoveIsLegal` (`AssertionsHold`) and `FollowsLifecycle` are for
servers that call `forceClose()` only from the message callback and call `shutdown()`
from no foreign thread.  Each restriction is necessary: `force_close_twice` and the
facts below show what happens without it.  `CloseInv` gives each announced connection a
stage, by the one functor that leads to the next: open (none), closing
(`forceCloseInLoop`), down (`removeConnectionInLoop` on the base loop), removed
(`connectDestroyed` on its own loop), gone (none).  As the stage is tied to the exact
counts of reports, `FollowsLifecycle` says that there is one of each kind.  `OnceInv` says that no functor is
twice in a loop's queue and vector; `BatchInv` that an event of a batch is of an open
connection of that loop; `CloseQueueInv` that a `forceCloseInLoop` is in a queue only
while its loop handles events; `NoForeign` that no foreign thread is in a call.  The
closing stage is the delicate one: its loop must not be polling, or the next batch could
hold the peer's end of stream and close the connection a second time.

Where functors can be, and that they are there once, is reasoned about with `Moves`: a
step runs one functor at most and appends new ones to queues, and the lemmas on it say
which functors each loop has afterwards, so that the cases of a step need only name the
functors they run and push.  Only the end of a round drops references, so it is the one
step that maps to the destruction in `ConnectionLifecycle`; every other step maps to one
step of it or to none.  `TCPServerAssumption` asks that a pool be a sequence over its
own range, which every sequence is.

**LayersProofs.** A section for each of four layers.

- `RpcChannel`: `CallsAlwaysRight`.  `CallInv` says that a call is outstanding exactly
  while `CallMethod()` runs its loop, and that done has run once for the calls before it
  and for no other.  `AnswerInv` counts the connections whose request was handled: a
  response is only for one of these, and the server has not executed the call more often.
  That the first call does not end the program is `FirstCall`: until a second call there is
  one pending timer, one attempt or one open connection, the last one, so that no retry
  can fire into a connected client, and nothing is destroyed before its end (`~stale`).  `RetryInv` bounds the timers by the refused attempts.
- `Timer`: `TimersAlwaysKeepTime`.  `OnceInv` ties the next expiry of a timer for once to
  whether it has run; `RepeatInv` says that for some `k` the next expiry of a repeated one
  is the `k + 1`-st, that `k` intervals have gone by and that it ran at most `k` times,
  once at least if `k` is positive: one expiration is read for several that are missed.
  `k` is then the quotient that the property computes from the clock.
- `HTTPServer`: `AnswersAlwaysRight` and `NoRequestWaits`.  `HTTPInv` is about the data
  and holds whatever the parser does: what is left in a buffer is what the stream of the
  peer goes on with.  `WholeInv` is what makes the shared `state_` right as long as calls
  see complete requests and do not overlap: one call runs at most, `state_` is at the
  request line when none does, and otherwise it agrees with the place that the running
  connection has in its stream (`Starts`, `InHeaders`, `Parsed`), whose request it has
  read and whose earlier requests are answered.  So a buffer never ends within a request
  (`NeverIncomplete`).  `SingleInv` adds that each call has but one request before it.
- `Acceptor`: `IdleFdAlwaysOwned`.  `IdleFdOwned` alone is not inductive: between two
  system calls of `accept()` the idle descriptor is closed, its number may be another
  thread's, or a second connection is open.  `Ownership` says for each system call which
  of the descriptors the acceptor holds are its own in the table of the process;
  `OwnershipStep` has one step per action.  That `accept()` and `open()` return the lowest
  free number, which nobody owns, is `MinFree`, from the well-foundedness of the naturals.

**TCPClientProofs.** `ClientAlwaysSafe` (`ClientSafety`) and `StopAlwaysHeeded`
(`StopIsHeeded`), for a client that is told to connect at most once and to stop at most
once, from any thread, and destroyed where `MayDestroy` allows it (`CalledOnce`); what
happens to others is told below.  Nothing bounds the attempts, losses and timers.  The
invariant follows the one `start()`, the one `stop()` and the channel through the queue:
`StartInv` says that before the start has run nothing has happened, so that it cannot meet
a later attempt; `StopInv` that stop functors come from that `stop()` or from the
destructor; `OneInv` that a timer, an attempt and a connection exclude one another and
that a removed channel has its `resetChannel()` in the queue; `LoopInv` that an event of a
batch still has the source it was reported for.  The delicate state is an attempt that was
stopped: `stopInLoop()` leaves `CONNECTING` behind, and a second stop functor would find
the null channel.  `HalfInv` says that none can follow, `WriteInv` treats the moment
between the error and the write callback of one event, and `DeadInv` says that a client
that dies during an attempt leaves the functor that takes the attempt down, and nothing
that could begin one.  `In`, `AppendIn` and `TailIn` speak of the functors in a queue.

**FoldProofs.** Four layers whose properties count, add up or collect over sequences, and
the induction they need.  The library's induction rules cannot be used, since they take an
operator; `Induction` is about a set of numbers instead, from the well-foundedness of the
naturals (`Least`).  `Recursion` and `RecursionUpTo` give recursive functions the value of
their body, and `FlattenAppend`, `FlattenConcat`, `SetOfFlatten` what `FlattenSeq` does.

- `SubPub`: `TablesAlwaysAgree` (`SubscriptionsAgree`) and `SendsAlwaysReach`
  (`SendsReachTheLiving`).  `QueueInv` says that a connection's functors are on
  its own loop, and that it is disconnected while its `close` and has left its topics while
  its `destroy` is queued, so that nobody finds it in the table any more and no send can
  come behind; `CloseOnce` that a connection is closed once; `HandlerInv` ties the
  handler on a loop to the connection it works on.  `Agrees` is the agreement of the two
  tables but for the topics that a running handler is about to take out; it holds while
  no lookup outside the lock has gone wrong (`tidy`).
- `ProtobufCodec`: `FramesAlwaysDelivered` and `BadFramesAlwaysRefused`.  `CodecInv`:
  the peer has sent frames of the kinds it can send (`Stream`), a call has consumed whole
  frames that had come (`Position`), all of them usable and the callbacks were given exactly
  these (`Outcome`), and a call that returns has stopped at a frame that is incomplete or refused (`Stopped`).
  `EndsGrow` and `OffsetsGrow` order the frames along the stream; `OwnFrame` and
  `UsableTaken` say that the parser takes a frame that a peer has sealed, and no other.
- `AsyncLogger`, `Logging`: `RecordsAlwaysConserved` and the action property
  `FilesAlwaysRoll`.  `FlushKeeps`, `RollKeeps` and `AppendKeeps` say that the member
  functions of `Logging` keep what was written and add what they are given.  `LogInv`: the
  log is well formed with a length that is a number (`TotalTyped`, by induction over the
  records), stdio holds nothing outside of a round, and the last file is named
  after the last roll; `ThreadsInv` ties the phases of backend and owner to each other.
  Then `RecordsConserved` is carried along the chain of places a record passes through,
  written, `toWrite`, `buffers`, `buffer`: one lemma for each link that moves
  (`RecordAppended`, `BuffersSwapped`, `BufferWritten`, `BuffersDropped`).  After
  `abort()` the files hold a beginning of the records.
- `MemDB`: `MapAlwaysServed` (`ServesAMap`), for any clients and commands.  `LinesOfCommand`
  and `LinesInStream` say which line of a client's stream is which line of a command,
  `ContextAt` what the context is after `k` lines of a command.  `LineParsed` shows that
  `parse()` goes from one to the next, and `ParsedOrderly`, by induction, that a call with
  several lines goes as far as one call for each.  `MemInv` says of each client that its
  context is the one after the lines sent since its last answer (`ParserAt`), and, with the
  sequence of stores as a witness, that store and replies are those of the commands
  answered so far (`Served`).  `ServedMore` adds one reply to it; `OneStore` says that the
  recursive function `Store` is that sequence.

`TypesCorrect`, `SubTypesCorrect`, `CodecTypesCorrect`, `LoggerTypesCorrect` and
`AcceptTypeCorrect` state the type invariants.  `RpcAssumption`, `TimerAssumption`,
`HTTPAssumption`, `SubAssumption`, `CodecAssumption`, `LoggerAssumption`,
`LoggingAssumption`, `MemAssumption` and `TCPClientAssumption` ask for numbers where
numbers are meant (the logger's list of buffers has room for one), for lists over their own
range, which every list is, and that no request has the method "unset", which stands for
the one that was never read.

Only model-checked: all liveness properties and the fairness part of `Executor` and
`ConnectionLifecycle` (temporal reasoning with fairness and ENABLED is out of the prover's
reach), and of the layers the part of `LayersTypeOK` that is about
`HTTPServer` and `MemDB`; the types of `RpcChannel` and `Timer` are parts of the
invariants `RpcInv` and `TimerInv`.  `QuitNotLost` and
`WakeupNotLost` are proved for the switches under which they hold and need no run.

## What the models say of the code beyond the runs

Facts a reader can reproduce by changing a constant of a configuration.  They are the
reason for the restrictions of the runs.

- `MCChannel`, `CancelInHandler = TRUE`: `cancel()` of another timer, or any destruction
  of another channel, from a callback leaves a raw pointer in the rest of the batch
  (`EventLoop.cc:104`).  `NoStaleEvent` fails.
- `MCChannel`, with the definition `NeverIdle == Idle = {}` as an invariant: disabling a
  channel that is not added registers it with no events (`EventLoop.cc:147`), which
  `Problems.md` warns of as a busy loop.  The `~Acceptor` of a server that was never started
  and the second `handleClose()` of a connection do this; both then remove the channel.
- `MCEventLoopThread`, `Signals = TRUE`: a signal that interrupts `epoll_wait` ends the
  loop; if that is before `startLoop()` has looked, `loop_` is null again and the owner
  waits for ever (`EventLoopThread.cc:35`).  `CallsReturn` fails.
- `MCTCPServer`, `ShutdownFrom = {"foreign"}`: the queued `shutdownInLoop()` is bound to
  `this`, and may run after the last reference is gone.  `NoDangling`, and with it `ServerSafety`, fails.
- `MCTCPServer`, `ExitBusy = TRUE`: `~TCPServer` with open connections resets its pointer
  and calls through it (`TCPServer.cc:31`); `fault` becomes "null", which no property of
  a run forbids.
- `MCEventLoopThread`: the destructor loads `loop_` without `mutex_`.  When a callback
  quits the loop at that moment the destructor calls `quit()` on a loop being destroyed;
  the model has the interleaving and no memory to show the effect on.
- `MCThreadPool`, `MaxQueue = 1` and as many tasks that call `run()` as workers: all
  workers wait for room and nobody is left to make it.  `TasksBegin` fails.
- `ThreadPool`: tasks in the queue when `stop()` is called are dropped although their
  `run()` has returned, and a second `stop()` finds joined threads in `threads_`.
- `MCTCPClient`, `MaxStops = 2`: `stop()` leaves `state_` at `CONNECTING`; the second one,
  for instance `~TCPClient`'s, dereferences the null channel (`Connector.cc:67`).
  `MaxStarts = 2`: a second `connect()` fails the assertion at `Connector.cc:86`, or
  drops a live connection.
- `MCTCPClient`, `DestroyAnywhere = TRUE`: a client that is destroyed in a functor, or in
  front of its connector's event, is called back by `handleWrite()` after its death; one
  that holds its connection alone queues `handleClose()` with a pointer to a connection
  that is gone when the destructor returns.  `TCPClientTest02.cc` does this on another
  thread, where it works only if the loop takes that functor together with the one that
  sets the close callback.
- `TCPClient`: `removeConnection()` calls `restart()`, which sets `connect_` again, so a
  client that was stopped, or whose user called `disconnect()`, connects again once its
  connection is lost.  `StopIsHeeded` says "unless a connection was lost" for this.  A
  `stop()` on a foreign thread between the error and the write callback of one event
  keeps `CONNECTING`, and the dead socket becomes a connection (`RefusedWrite`).
- `TCPSend`: `GapFree` holds until `sendInLoop()` has refused bytes (`gaveUp`).  A foreign
  `shutdown()` that stores `DISCONNECTING` over `DISCONNECTED` lets a later `send()`
  through; its bytes follow the refused ones.
- `TCPClient` and its timers: the model lets no retry timer fire while the functor of
  the attempt that set it is queued.  The code relies on it too: the delay is at least a
  second, and the functor is taken in the same iteration.

Of the layers, where the code does something a reader would not expect and the module
follows it (no property of a run forbids it):

- `AsyncLogger`: `while (running_)` ends without a last swap (`AsyncLogger.cc:66`), so the
  records after it reach a file only if the logger is started again.  `append_unlocked()`
  writes before it looks at the length, so a file that is too long, and was in its second
  when it became so, gets one more append in a later second (`Logging.cc:39-41`).  Of more than 25
  full buffers all but two are dropped, with a notice, in the middle of the log.
- `HTTPServer`: a page made by a rule is answered as NOT_FOUND (`HTTPServer.cc:74`), and
  with a callback for missing pages `status_` is never initialized.  A request that comes
  in two pieces loses the first one, since it is kept in a local copy of the context; a
  connection on another loop goes on in the parser state this one left.  The second
  of two requests in one piece waits until more bytes come.  A request behind one that
  asked to close is still answered if the `shutdown()` waits for buffered bytes.
- `ProtobufCodec`: the tag check of `ProtobufCodecLite` compares the wrong bytes and takes
  equality for an error: a wrong tag passes, and a payload that begins like the tag is
  refused.  After an error the frame stays in the buffer.  By value
  (`ProtobufCodecLiteT`), every message is handed over again with the next bytes.
- `RpcChannel`: a second `CallMethod()` on a channel may find the connection of the first
  one still there.  If that ends while the new attempt is under way, an assertion fails
  (`Connector.cc:86`).  If the new connection comes first, `connection_ = conn` and
  `conn_ = conn` (`TCPClient.cc:93`, `RpcChannel.cc:172`) destroy the old one with its
  channel registered: an event of it in the same batch uses the freed `Channel`
  (`EventLoop.cc:104`), and the next channel that gets its descriptor fails an assertion
  (`EventLoop.cc:150`).  So the properties let calls after the first end the program.  A
  request may be executed more than once.
- `MemDB`: commands sent without waiting are merged into one.  A GET without a key
  returns before the context is reset, and is answered again with each further piece.
  The end of any connection stops the server.
- `SubPub`: a client that subscribes twice gets everything twice; `unsub` of a topic that
  others have subscribed to erases `end()`; a `pub` to an unknown topic leaves the lines
  behind it in the buffer; `conns.count()` is read without the lock.  `tidy` remembers
  that none of this has happened; after a read that met another loop adding the topic
  nothing is said of the tables.  A line of exactly "unsub" makes `substr(6)` throw
  (`subpub.cc:113`) and ends the server, which is a behaviour of the module that stops.
- `Acceptor`: every failure of `accept()`, EAGAIN included, closes the idle descriptor,
  and a peer that arrives in between is dropped.  When the reopening fails `nullFd_` is
  -1, and later failures have nothing to give up.
- `Timer`: a delay of one and a half seconds lasts 1.0005 (`Timer.cc:79`), and a positive
  one below a millisecond disarms the timer.

## Not modelled, and why

- Formatting in `Logger`, `HTTPRequest` and `HTTPResponse` (what is asked for and answered
  is in `HTTPServer`), `google-inl.h`, which is vendored, and serialization, which is
  libprotobuf's: data, no state to go wrong between steps.
- Failing writes of a log file: the error branch drops the rest of a record and goes on.
- `TCPHandle`: options, addresses and `tcp_info` are wrappers of system calls.  What a
  call may return is chosen in the module that calls it; `accept` is in `Acceptor`.
- `threadInitCallback_`, log messages, contexts of connections where no layer uses them.
- In `TCPClient` a foreign `disconnect()` and a foreign destructor: they read
  `connection_` while the loop replaces it, a race on a `shared_ptr` with no outcome to
  model.  `addTimer()` from a foreign thread is one on a `std::map`.
- In `RpcChannel` several threads that call on one channel, whose pointers are not
  guarded at all, a `done` that is NULL, and a service that answers after its connection
  is gone.
- The other examples, the client half of `subpub.cc` and the tests: they hold little state
  and were read for the calls that users make.
- In `TCPServer` the bytes (see `TCPSend`) and the death of the process by SIGPIPE, which
  `EventLoop` ignores.
- Memory as such: a use of a destroyed object or a null pointer is recorded in `fault`,
  and the model says nothing of what follows.

## Plan

1. An abstract log, of which `AsyncLogger` is an implementation, in place of
   `RecordsConserved`.
2. `RpcChannel` with `TCPClient` and `Connector` instead of their reduction.
3. The client half of `subpub.cc`, and a service that answers late.
