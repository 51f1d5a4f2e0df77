# TurboCore-AiGateway in TLA+

TLA+ models of TurboCore-AiGateway (C++17): the reactor with its server, its client
and its pollers (`Net/`), the thread pool, the logger and the configuration (`Base/`),
the node registry (`registry_manager.cpp`, `registry_server.cpp`) and the framing of its
packets (`protocol.h`). The modules are checked with TLC on small instances. Every safety
property and every refinement that the passing runs check is also proved with TLAPS, for
all values of the constants; the liveness properties are model-checked.
`PROJECT.json` lists the components, the runs, the source lines each definition
translates, the hazards of the code, and the disagreements found between the code
and what its comments say.

Paths below are relative to `src/`.

1. [Inventory](#1-inventory)
2. [Modules](#2-modules)
3. [Runs](#3-runs)
4. [Fairness](#4-fairness)
5. [Proofs](#5-proofs)
6. [What the models show about the code](#6-what-the-models-show-about-the-code)
7. [Not modelled](#7-not-modelled)
8. [Plan](#8-plan)

## 1. Inventory

TurboCore follows "one loop per thread". A `TcpServer` owns a main `EventLoop` that
accepts and N sub loops that serve connections. All I/O of a connection happens on its
sub loop; whoever wants something from a loop of another thread posts a functor with
`QueueInLoop`. On top of that sits a registry of inference nodes. The logger and the
thread pool are independent of the network.

| component | state | operations | interacts with |
|---|---|---|---|
| `EventLoop` | `m_quit`, `m_threadId`, `m_callingPendingFunctors`, `m_pendingFunctors`, `m_delayed_tasks` (heap), wakeup descriptor, `m_thread` | `Loop`, `Quit`, `RunInLoop`, `QueueInLoop`, `RunAfter`, `Wakeup`, `HandleWakeupRead`, `DoPendingFunctors`, `ProcessDelayedTasks`, constructor, destructor | Poller (owned), Channel (callbacks), every thread of the process |
| `Poller`, `EpollPoller` (Linux), `WSPollPoller` (Windows) | the descriptors watched and a raw pointer to the `Channel` of each | `Poll`, `UpdateChannel`, `RemoveChannel` | one loop |
| `Channel` | `m_fd`, `m_events`, `m_revents`, callbacks | `EnableX`, `DisableX`, `HandleEvent`, `Remove` | its loop, its owner through callbacks and a weak `Tie` |
| `Acceptor` | listening socket, its channel | `Listen`, `HandleAccept` | `TcpServer` callback |
| `TcpServer` | `m_connections` (fd to `shared_ptr`), `m_sub_loops`, `m_next_loop_idx` | `Start`, `HandleNewConnection`, the removal lambda, `NextLoop`, destructor | Acceptor, TcpConnection, every loop |
| `TcpConnection` | `m_state`, socket, channel, two Buffers | `ConnectEstablished`, `ConnectDestroyed`, `Send`, `Shutdown`, `ForceClose`, `HandleRead/Write/Close/Error` | its loop, its owner through the close callback, the application through callbacks and from its own threads |
| `TcpClient` | `m_connection`, `m_started`, `m_auto_reconnect`, retry timer | `Connect`, `Disconnect`, `Send`, `HandleConnect`, `HandleRemoveConnection`, `DoReconnect`, destructor | loop, TcpConnection, the application |
| `Buffer` | byte vector, read and write index | `Append`, `Retrieve`, `Prepend`, `EnsureWritableBytes`, `ReadFromFd`, `WriteToFd`, `FindCRLF` | the socket, TcpConnection |
| `ThreadPool` | `m_workers`, `m_tasks`, `m_is_running`, `m_thread_num`, one mutex, one condition variable | `Commit`, `Resize`, `Shutdown`, `WorkerLoop`, `CleanupExitedThreads` | any client thread |
| `Logger` | `m_log_queue`, `m_is_running`, `m_appenders`, the log thread | `Init`, `Log`, `Shutdown`, `AddAppender`, `LogLoop` | any thread |
| `Config` | `m_configs`, `m_callbacks` under one recursive mutex | `LoadFromFile`, `Reload`, `OnChange`, `Get` | any thread; its callbacks call it again |
| `RegistryManager` | `m_nodes`, `m_model_to_nodes` under one mutex | `RegisterWorker`, `UpdateHeartbeat`, `RemoveWorker`, `GetOnlineNodesByModel`, `ScanTimeoutNodes` | `RegistryServer`'s packet handlers, on the sub loops |
| `RegistryServer` | one `m_parser` for all connections | `OnConnection`, `OnMessage`, the dispatch to four packet handlers, `SendResponse` | RegistryManager, TcpServer |
| wire protocol (`protocol.h`) | none | framing, checksum, JSON fields | RegistryServer |
| `JobManager`, `Address`, `Socket_Utils`, log appenders | small tables or none | look-ups and conversions | |

**Behaviours that are hard.** A reader of the code has to keep in mind:

- the window between the push of a functor and the `Wakeup` for it, between the start
  of a loop's thread and the store of its id, and between the test of that id and what
  is done on the strength of it;
- a connection shared by two threads (main loop and sub loop), by pointers of three
  kinds (`shared_ptr` in the map and in functors, raw pointers in the poller), and
  by a number, the descriptor, that the kernel reuses at once;
- flags that are stored, and condition variables that are notified, outside the mutex
  that the waiter holds;
- mutexes held across calls that wait (`join`) or lock again;
- two tables of the registry that refer to each other and are updated separately;
- callbacks that call back into the object that calls them: a client that is told of a
  close and connects again inside it, a subscriber that reloads the configuration while
  it is being reloaded;
- one packet parser for the byte streams of all connections.

**What makes each component correct** is the list of properties in section 3; the
hazard each one is aimed at, with its line, is in `PROJECT.json` under `hazards`.

## 2. Modules

| module | models | state that is not in the code |
|---|---|---|
| `SerialExecutor` | what an event loop promises to users of `QueueInLoop`: a FIFO in which everything runs once | |
| `EventLoop` | `Net/Eventloop.{h,cpp}` | `queued`, `done`, `origin`, `inline`, `fired` (what happened so far), `op` (the calls under way) |
| `EventLoopProofs` | the theorems about `EventLoop` | |
| `EpollPoller` | `Net/EPollPoller.cpp` as operators on a record `[map, epoll]` | |
| `TcpServer` | `Net/TcpServer.cpp`, `TcpConnection.cpp`, `Chanenel.cpp`, `Acceptor.cpp`, `Socket.cpp` together, on `EpollPoller` | `kernel` (who owns a descriptor), `holds` (the application's pointer), `freed`, `torn`, `lost`, `late`, `revived`, `fault`, `closeCalls`, `calls` |
| `TcpClient` | `Net/TcpClient.cpp` and the `TcpConnection` it owns, on `EpollPoller` | `stack` (which callback is inside which), `kept`, `closes`, `clashed`, `careless`, `fault` |
| `PollSet` | what a loop expects of a poller: a set of descriptors with the events each is watched for | |
| `WSPollPoller` | `Net/WSPollPoller.cpp`, the parallel vectors of the Windows build | |
| `WSPollPollerProofs` | the theorems about `WSPollPoller` | |
| `ByteQueue` | what a buffer promises: bytes come out in the order they went in | |
| `Buffer` | `Net/Buffer.{h,cpp}` | `out` (the last bytes taken out), `crashed` |
| `BufferProofs` | the theorems about `Buffer` | |
| `ThreadPool` | `Base/Threadpool.{h,cpp}` | `pushed`, `started`, `discarded`, `late`, `grewLate`, `drained`, `terminated` |
| `TcpServerProofs` | the theorems about `TcpServer`: the life of one connection; who refers to it, and who owns a descriptor | |
| `TcpClientProofs` | the theorems about `TcpClient` | |
| `ThreadPoolProofs` | the theorems about `ThreadPool` | |
| `Logger` | the asynchronous part of `Base/Log.cpp` | `written`, `unflushed`, `owed`, `lost`, `tested` |
| `Config` | `Base/Config.{h,cpp}` | `told`, `skipped`, `fault`; `reloads` is the call stack |
| `BaseProofs` | the theorems about `Logger` and about `Config` | |
| `Registry` | `registry_manager.cpp` as called from `registry_server.cpp` | `removed`, `changed`, `answer`, `stuck` |
| `Wire` | the framing of `protocol.h` as operators | |
| `RegistryServer` | `registry_server.cpp` between the connections and the manager, on `Wire` | `handled`, `answers`, `undefined`, `disturbed` |
| `RegistryProofs` | the theorems about `Registry` and about `RegistryServer` | |
| `MC*` | the instances TLC checks | |

How they fit together: `TcpServer` and `TcpClient` take a loop to be what `EventLoop` is
shown to be, a FIFO of functors (`SerialExecutor`), and both use the operators of
`EpollPoller`. `RegistryServer` sees a connection as a stream that arrives in pieces,
which is what `TcpServer` and `Buffer` (`ByteQueue`) provide, and leaves what the four
handlers do to the tables to `Registry`. `WSPollPoller` is the other implementation of
the poller's interface; it is shown to implement `PollSet`.

### Granularity

A section under a mutex in which the thread does not wait is one step. What a thread
does before it takes the mutex and after it released it are steps of their own, so
a flag that was tested early can be stale at the push. Stores to atomics, calls of
`notify`, `join`, `write` on the wakeup descriptor and `close` are separate steps
wherever another thread can tell. Waiting on a condition variable is three steps
(test the predicate, block and release, reacquire), with spurious wakeups.

Plain fields that two threads use without synchronisation (`Socket::m_sockfd` while
`HandleClose` closes it; `TcpConnection::m_state`) are read and written in atomic
steps: the reader sees the value from before or from after.

### EventLoop

The loop thread's `pc` follows `Loop()`: `start` (the `std::thread` exists, its lambda
has not run), `enter` (`m_quit = false`), `check`, `poll`, `events` (one active channel
at a time, the wakeup descriptor or another), `run` and `take` (`DoPendingFunctors` from the swap on, and the moment
before `ProcessDelayedTasks` locks), `fire` (the expired tasks one by one), `stopped`. Each callback may call
`RunInLoop`, `QueueInLoop`, `RunAfter` or `Quit` of its own loop. Each other thread may
do so at any moment, with `op` holding what it still has to do: the `Wakeup` after a
push, the push after the clock was read, the `Wakeup` after `m_quit`. `RunAfter`
computes the deadline before it locks, which is why `FinishRunAfter` is a separate
step. `RunInLoop` tests `m_threadId` in one step and runs the callback in another
(`RunInline`): the creator may pass the test before the new thread has stored its id,
and run the callback when the loop is under way. Both uses of the class are covered: `auto_start` (own thread) and a loop run by
its creator. `Destroy` aborts when `AssertInLoopThread` would.

A functor or timer identity is passed once: a second call with the same callback is
the same as a call with another one.

### TcpServer

One action per handler. `Accept` is `HandleAccept` with `NewConnection` to the end;
`PostEstablished` is the `RunInLoop` that comes after. `ConnectEstablished` and
`ConnectDestroyed` run as functors of the sub loops, `Remove` is the removal lambda
on the main loop. A close is the sequence `HandleClose` (state, channel, close
callback, which posts the lambda), `CloseSocket` (`::close`, after which the kernel
gives the number to the next client), `InvalidateSocket` (`m_sockfd` stored), with the
second call for `POLLERR | POLLHUP` as `CloseAgain`. `Destruct` is the destructor on
whatever thread dropped the last `shared_ptr`; who holds one is computed from the map,
the queued functors, the handlers under way and the application's pointer (`holds`).

The application calls `Send`, `Shutdown` and `ForceClose` from the callbacks of the
connection. A callback may also hand its `TcpConnectionPtr` to one thread of the
application (`Worker`), which makes these calls from outside: the test of `m_state` on
that thread is one step, the functor it posts (`SendInLoop`, `ShutdownInLoop`,
`ForceCloseInLoop`, each with a bare `this`) runs later on the loop, and the thread may
drop its pointer in between. The history variables name the ways such a call can come
at the wrong time: `late` are the connections called after `ConnectDestroyed`, `revived`
those a call put to work again after their close; `lost` are those whose entry in
`m_connections` another connection took.

Assumptions, each stated where it is used:

- the sub loops run already (their start is the subject of `EventLoop`);
- an error in a read reaches `HandleClose`. On Linux `Buffer::ReadFromFd` fails first
  (section 6); the model takes what `TcpConnection` is written for;
- ready channels are looked up when they are handled;
- `Asserts = FALSE`, the build with `NDEBUG`. With assertions on,
  `assert(erased == 1)` at `Net/TcpServer.cpp:130` already fails in an ordinary close,
  when the sub loop has stored `INVALID_SOCKET_VALUE` before the lambda reads it.

### TcpClient

Everything runs on one thread, and what is hard is which call is inside which: `stack`
holds the callbacks under way, innermost last, and every call of the application may
come from the loop or from within any of them. A connection goes when the last of
`m_connection`, the application's pointer (`kept`) and the handlers under way lets go of
it; a frame that returns into a destroyed object sets `fault`. The kernel gives a new
socket the number an old one has closed, and the poller may still have the old one's
channel under it. `Connect()` tests `ret == 0` where `ret` is the `bool` of
`Socket::Connect`: the branch for an established connection is taken when `connect()`
failed or is under way, the branch that closes when it succeeded, and the branch
for `EINPROGRESS` (lines 49 to 85) never, so that it is not modelled.

The application is free to call anything anywhere. `careless` records when it let go of
an object the loop may still call into; `CarefulIsSafe` says that nothing else goes wrong.

### WSPollPoller and PollSet

`m_pollfds` and `m_channels` are sequences, `m_fd_to_idx` a function. `RemoveChannel`
swaps the last element into the gap, `Poll` fills the active list from `revents`. The
refinement maps the sequences to the set of triples they hold.

### Config

`Reload` is a sequence of steps under a recursive mutex: the load (with its
rollback), then one key after the other, in any order, since the map is unordered, and
for a key that changed one callback after the other, in the order of the vector. A
callback may call `Reload`, `LoadFromFile`, `OnChange` or throw. `reloads` is the stack
of the calls under way, each with its copy of the old configuration, the keys it has
still to visit and the callbacks it has still to call at the present one. A throw ends
the loops up to a callback that catches (`CallbackThrows`).

`OnChange` appends to the callbacks of a key, and may do so while the loops iterate.
Where the vector must move or the map rehash, the iteration is undefined and the model
stops (`fault`); where they need not, it goes on.

A scalar is what `std::stoi` and `std::stod` make of its text: "1.5" is the integer 1 for
`ParseYamlNode`, and `Throws` stands for a throw. `Near` is the set of pairs of doubles for
which `std::abs(old - new) > 1e-9` is false: equal ones, close ones, and NaN with any. It
need not be transitive. A file may be unreadable, or end in an exception half-way.

`told` is what each callback read last at each of its keys. When a `Reload` takes a close
double for unchanged, `CarriedOver` moves `told` along: what the subscriber misses then
passes for the configured value. A callback passed over by a throw or by `LoadFromFile`
is in `skipped` until it is called again. A callback is registered once with a key.

### RegistryServer and Wire

A packet is a sequence of units: the common half of the header, the half with length
and checksum, the units of the body. A read delivers any number of units; `Feed`,
`Parse` and the handling of each parsed packet are steps of the connection's thread. The
class `PacketParser` is not in the repository: it is any parser with the interface
`registry_server.cpp` uses that cuts packets off its buffer with
`AiSchedulePacket::deserialize`, and may skip one unit or all of its buffer at something
that is no packet. Its calls are not synchronised: where two threads are inside it at
the same time the outcome is undefined, and nothing is claimed from there on
(`undefined`).

### Buffer

The two indices, the vector and its growth with `size_t` arithmetic (`% Modulus`). The
C++ constants (1024 bytes, 64 KiB of `extrabuf`) are parameters: only the comparisons
between them matter. `FindCRLF` is a recursive function over the unread bytes.

### ThreadPool and Logger

Program counters per worker, per client, for the log thread and for the thread that
runs `Init` and `Shutdown`. The mutex is a variable where a thread keeps it across
steps (the wait's predicate, and `CleanupExitedThreads`, which joins with the mutex
held). Concurrent use of `m_workers` without the mutex is modelled as atomic accesses,
and a thread is joined by one client only. The log event is its number in the order of
the pushes.

### Registry

Every operation is one critical section of `RegistryManager::m_mutex`, hence one step.
The clock advances freely. Node ids are the ones `RegisterWorker` generates, taken to
be distinct. `GetOnlineNodes` may return any order that `std::sort` may leave (nodes of
equal memory in either order). `answer` names the nodes by id, although `HandleQuery`
leaves the field `node_id` of its reply empty (`registry_server.cpp:183`).
`Scan` with a timed-out node sets `stuck`: the thread locks a `std::mutex` it holds.

## 3. Runs

`expect: violation` marks a run that exhibits a disagreement between the code and
what the repository says of it (section 6). All bounds are constants of the modules.

| run | instance | what it shows |
|---|---|---|
| `eventloop` | 2 threads and the loop, 2 functors, 1 timer, clock to 1, both values of `auto_start`; 549 000 states | `FIFO`, `NoLostWakeup`, `InlineOnlyInWindow`, refinement of `SerialExecutor`; liveness `QueuedRuns`, `QuitStops` |
| `tcpserver` | 2 connections, 2 descriptors, 2 sub loops, every call from every callback, one call from outside; 1.66 million states up to the symmetry of the connections and of the numbers | `DiesTornDown`, `ClosedOnce`, `PollerConsistent`, `OwnsDescriptor`, `RemovalUnderway`, `PostedCallsSafe`, `NoOtherUseAfterFree` |
| `tcpserver_reuse` | the same without application calls | violation of `NoUseAfterFree` |
| `tcpclient` | 2 connections, 2 descriptors, callbacks three deep; 369 000 states | `Served`, `NoLeak`, `CarefulIsSafe`; liveness `FailureReported` |
| `tcpclient_reconnect` | 2 connections, 1 descriptor, callbacks two deep | violation of `Reconnects` |
| `wspoll` | 4 channels on 3 numbers, one number used by two channels, 2 events; 23 700 states | `InStep`, refinement of `PollSet` |
| `threadpool` | 2 clients, 2 tasks, 2 workers that may become 3 or 1; 27 000 states | `NoPopEmpty`, `InOrder`, `NoTerminate`, `GracefulShutdown`; liveness `CallsHangOnlyInJoin` |
| `logger` | 2 callers, 3 events, 2 `Init`s; 33 000 states | `WrittenInOrder`, `NothingVanishes`, `OwedWritten`; liveness `EventuallyWritten`, `StopHangsOnlyInWait` |
| `config` | 2 threads, 2 keys, two callbacks at one of them, reloads two deep, 3 contents of the file in every state of repair; 267 000 states | `Informed`; liveness `MutexReleased` |
| `buffer` | 3 byte values (CR, LF, another), 2 to 4 bytes; 317 000 states | refinement of `ByteQueue`, `FindsFirstCRLF` |
| `registry` | 2 models, 2 nodes, timeout 1, clock to 2; 671 000 states | `RemovedStaysGone`, `IndexClean`, `SupportersFound` |
| `registry_server` | 2 connections, two packets from each peer, one of them lacking a field; 360 000 states | `ServedAsAlone`, `NothingForged` |

Each module also has one type invariant, `TypeOK`. The runs of `eventloop` and `buffer`
list it, since their proofs rest on it; the others were checked on the same instances.
The deadlock check is off in every run: each model has states in which nothing is left
to do (all functors passed, the clock at its bound, the loop destroyed) or in which the
program itself hangs, and the liveness properties tell the bad ones from the good ones.

**Why the bounds are enough.**

- `eventloop`: a lost wakeup needs one thread that pushes and one loop; the second
  thread adds a push between the other's push and its `Wakeup`; the second functor adds
  order, and a functor pushed by a functor. The creator and a foreign thread differ
  only in the start window, so both are there. The one timer runs functors and quits; the
  order of several timers is a theorem, not a run.
- `tcpserver`: everything that goes wrong with reuse needs one connection that closes
  and one that gets its number; the second descriptor lets both live at once, the second
  sub loop lets them live on different threads. One call from outside may come at
  any moment of the connection's life and stay in the queue for as long as it likes; two
  differ from it only where `revived` already gives up. Without calls from outside the
  invariants were also checked with three connections (8.6 million states) without a
  new result. `Conns` and `Fds` are symmetric: no action names an element of either.
- `tcpclient`: the second connection is the one that meets what the first left behind
  (its number, its channel, `m_connection`). Two numbers: the same one again, or another,
  when the first is still open. Three frames: a close callback inside a `ForceClose` or
  destructor inside a message callback, and a `Connect` with its connection callback
  inside any of these.
- `wspoll`: three numbers make the removal of the first, a middle and the last element
  different; the fourth channel comes back under a number that is registered.
- `threadpool`: two workers, so that one can take the task another was woken for; two
  tasks for the order; sizes 1 and 3 make `Resize` shrink and grow; two clients, so
  that a `Commit` or a `Resize` races with a `Shutdown`. That a task can run after a later
  one was thrown away takes four clients (two that commit, one that resizes, one that
  stops): the safety properties were checked with four as well, and are theorems.
- `logger`: two callers race with each other and with the stop; the second `Init` finds
  what the first left behind; three events make a queue of two with one in hand.
- `config`: a key that is ".5", ".7" or "nan": two doubles that differ and one that passes for
  either, so that a change is reported, or tolerated, or tolerated twice until what was read
  and what is configured differ; another key that may be absent until a file was read far
  enough; two callbacks at one key, so that the first can throw, reload or subscribe before the
  second; a nested `Reload` while the other key is still to visit, or has been visited. A third
  level of `Reload` repeats the second. Two integers, a change of type and a key that a file no
  longer has need more values than liveness can be checked with: see below.
- `buffer`: the boundary between moving and growing is met with vectors of two to four
  bytes, with every split of the space before and after the unread bytes; a length of
  three exceeds both the free space and a whole vector. Every content of up to four
  bytes over CR, LF and one more value contains all the prefixes `FindCRLF` tells apart.
- `registry`: a node that names a model twice, two nodes in one list with equal and with
  different memory, a node that times out while the other is fresh.
- `registry_server`: bodies of one and of two units, so that a stream is cut inside a
  header, inside a body and between packets; a request that is answered, one that is
  not, one that fails; two streams are what mixing needs.

Larger instances were checked once, without a new result:

- `tcpclient` with callbacks four deep (411 000 states);
- `config` with two integers at one key and a change of type at the other, one callback at each
  key (72 000 states) and two at the first (924 000), both properties;
- `Informed` of `config` with a second key that may be absent, the string "x", or "1.5", which is
  the integer 1 (3 million states up to the symmetry of the threads);
- not to the end, `tcpclient` with three connections, `registry` with three nodes and
  `tcpserver` with two calls from outside (14 to 18 million states each).

## 4. Fairness

- **EventLoop.** `WF(Unprompted)`: the loop thread is scheduled and `Poll` returns at
  the latest after ten milliseconds, with or without the wakeup descriptor. Steps in
  which a peer's bytes make another channel ready are not assumed. A call that was
  begun is finished (`WF(Finish(t))`), and time passes. No thread has to call anything.
- **TcpServer** has safety properties only.
- **TcpClient.** A callback that was called returns (`WF(Return)`). The loop polls and
  runs expired timers in every iteration, so a connection that is gone and a timer are
  got to although other handlers come in between (`SF`). The application need not call
  anything, and no peer need connect, send or close.
- **Config.** A `Reload` that has the mutex goes on (`WF`), and each callback returns
  sooner or later, at every depth, however often it calls `Reload` (`SF`: while the inner
  call runs the outer callback cannot return). A `Reload` that a callback called is
  executed. Nobody has to call the first one.
- **ThreadPool, Logger.** Every thread that can go on does. Taking the mutex has strong
  fairness: it is free again and again, and no implementation of `std::mutex` in use
  starves a waiter for ever. Nobody has to call `Commit`, `Log` or `Shutdown`, and
  spurious wakeups are allowed but not assumed.
- **Buffer, Registry, RegistryServer, WSPollPoller** only have safety properties.

## 5. Proofs

`EventLoopProofs` proves, for any sets of threads, functors and timers, any delays and
any bound of the clock (the only assumption is `EventLoopAssumption`, which types the
constants):

| theorem | property | inductive invariant |
|---|---|---|
| `TypeCorrect` | `TypeOK` | itself |
| `FIFOCorrect` | `FIFO` | `FIFO` with `TypeOK` and `Shape` |
| `NoLostWakeupCorrect` | `NoLostWakeup` | `WakeInv` with `KnownOrigin`, `Shape`, `TypeOK` |
| `QuitWakesCorrect` | `QuitWakes` | `QuitWakes` with `Shape`, `TypeOK` |
| `InlineOnlyInWindowCorrect` | `InlineOnlyInWindow` | `InlineInv` with `Shape`, `TypeOK` |
| `TimersInOrderCorrect`, `NoEarlyTimerCorrect` | `TimersInOrder`, `NoEarlyTimer` | `TimerInv` with `Shape`, `TypeOK` |
| `ExecutorCorrect` | `ImplementsExecutor` | `KnownOrigin`, `Shape`, `TypeOK` |

- `Shape` ties the program counter to the rest: `calling` is true exactly while functors
  run, the batch is empty at every other point, `ready` is empty except while timers
  fire, and `m_threadId` names the creator until the thread has left `start` and the
  loop's thread from then on.
- `NoLostWakeup` speaks of a loop that sleeps and is not inductive: it must be known
  before the loop goes to sleep. `WakeInv` claims it at every point of the loop but the
  handling of events: each functor in the queue that a thread, an I/O callback or
  another functor pushed has the eventfd readable, or *its own* `QueueInLoop` between
  push and `Wakeup`. While events are handled the eventfd may have been drained, but the
  swap that ends this phase takes every functor that is waiting then, whoever pushed
  it. A push by a functor comes while `calling` is true, and so with a wakeup. Functors
  that a delayed task pushes are the exception the property names: no wakeup is sent
  for them. `KnownOrigin` says that every functor in a queue has a pusher, so a functor
  that is passed for the first time cannot change the origin of one that waits.
- `InlineInv`: whoever is about to run a callback on the spot off the loop's thread is the
  creator, of whom there is one, busy with one call at a time. After the store his test
  fails, so no second callback can follow a late one.
- `TimerInv` extends the order of what fired to what the loop has popped and to what is
  still in the heap, with the moment of the push, because a late push may carry a
  deadline that has passed.
- The refinement maps the abstract queue to the rest of the batch followed by the
  pending functors. A swap is a stutter; taking a functor is a step of the abstract
  executor, and so is a push.

Lemmas about callbacks (`CallbackType`, `CallbackPushes`, `CallbackWakes`,
`CallbackTimers`) say once what a call made inside a callback
may do, and every action that runs a callback cites them.

`BufferProofs` proves, for any set of byte values, any initial size and any bounds
(`BufferAssumption` types the constants, and says that there is a byte other than CR and
LF for `resize()` to put):

| theorem | property | inductive invariant |
|---|---|---|
| `TypeCorrect` | `TypeOK` | itself |
| `GrowsOnlyWhenFullCorrect` | `GrowsOnlyWhenFull` | `TypeOK` |
| `QueueCorrect` | `ImplementsByteQueue` | `TypeOK` |
| `FindsFirstCRLFCorrect` | `FindsFirstCRLF` | `TypeOK` |

The argument is about the relation `Keeps(s, t)`: the unread bytes of `s` are the first
unread bytes of `t`. Making room keeps them, whether it moves them or lengthens the
vector; so does copying behind them; the relation is transitive, which gives
`ReadFromFd`, a copy and perhaps an `Append`. A step that keeps them puts bytes at the
end of the abstract queue (`KeepsPuts`), one that moves the read index takes bytes from
its front (`TakeStep`), and `Prepend` puts bytes before it. `Outcome` says for one step
what all three theorems need. A failed `readv` ends the life of the buffer in the model
(`crashed`), so the theorems are about everything before it. `FindCRLF` goes from one CR to
the next: `MemchrProperties` says what one search finds, and `FindCRLFFirst`, from the
last place backwards, what the search from each place comes to.

`QuitWakes`, `TimersInOrder`, `NoEarlyTimer` and `GrowsOnlyWhenFull` are theorems
without a run of their own: an instance of `EventLoop` with two timers beside the functors
is too large for one, and without the functors they were checked once before the proofs.

`TcpServerProofs` proves, for any connections, descriptor numbers and sub loops, any calls
from inside and outside, and with or without `assert()` (`TcpServerAssumption` types the
constants and says that no connection is the placeholder for none):

| theorem | property | inductive invariant |
|---|---|---|
| `TypeCorrect` | `TypeOK` | `TypeOK` with `Named`, `Establishing` |
| `ClosedOnceCorrect` | `ClosedOnce` | `Once` with all of the above |
| `RemovalUnderwayCorrect` | `RemovalUnderway` | itself, with all of the above |

- `Named`: what waits in a queue, is in a thread's hands, in a poller or held by the
  application is about a connection whose `ConnectEstablished` has run, the
  `ConnectEstablished` itself apart. So nobody updates a channel before the connection has
  a number, and the main loop's queue holds removals only. `Establishing`: there is one
  `ConnectEstablished` for a connection, while its state is `Connecting`; taking it cannot
  put back to `Connected` a connection that has gone on.
- `Once` says when a connection must already be closed: after its close callback, and from
  the moment `ForceCloseInLoop` has set the state until it runs the callback, which one
  thread does. `HandleClose` tests the state, so it adds no second callback; a call from
  outside that stores the state anew is what `revived` excludes.
- `RemovalUnderway` goes from stage to stage: the close callback posts to the main loop,
  taking that functor puts `destroy` into the main loop's hands, which posts
  `ConnectDestroyed`, which marks the connection `torn`. A functor that waits goes on
  waiting unless it is the one taken (`Waits`).
- Most steps are on behalf of one connection that has begun: `StepOf` and `SubQuiet` say
  once what such a step may change, and each action is shown to be one.

The second half of the module builds on that invariant (`IInv`) and proves the properties
that tie a connection to everything that may still refer to it. It needs one more assumption,
`InvalidAssumption`: `INVALID_SOCKET_VALUE` is no descriptor.

| theorem | property | inductive invariant |
|---|---|---|
| `DiesTornDownCorrect` | `DiesTornDown` | `Inv`: `IInv` with the ten parts of `SInv` |
| `PollerConsistentCorrect` | `PollerConsistent` | `Inv` |
| `OwnsDescriptorCorrect` | `OwnsDescriptor` | `Inv` |
| `PostedCallsSafeCorrect` | `PostedCallsSafe` | `Inv` |
| `NoOtherUseAfterFreeCorrect` | `NoOtherUseAfterFree` | `Inv` |

- `Owned`: what a pointer holds is not destroyed and is in no destructor's hands, unless
  it is one of the connections the three races excuse (`Excused`); what is destroyed is
  torn down or has lost its entry, once. The step that matters is the one that drops a
  pointer. It starts a destructor only if no other pointer is left, and
  the lemma `Anchored` says what that means: before the close callback the entry in
  `m_connections` owns the connection (`EntryKept`), after it each stage of the removal
  does, the `Remove` functor, the main loop's own copy, the `ConnectDestroyed` functor
  (`RemovalUnderway` again, with `Counted`: nothing of a removal exists before the
  callback). So the last pointer goes only after `ConnectDestroyed`, or after the entry
  went to another connection.
- That nothing without a pointer is left at that moment takes three parts. `Behind`: the
  calls posted with a bare `this` are in front of `ConnectDestroyed` in the queue of the same
  loop, and a queue is first in, first out. `TornQuiet`: the loop does nothing for a connection after
  it. `Quieted` with `Mapped`: from the close callback on its channel wants no events, and
  a channel that wants none is not in the poller.
- `Sockets` is what descriptors need: a number that is set is an open socket of this
  connection, unless its loop is between `::close` and the assignment (`HalfClosed`) or the
  destructor of a connection without an entry closed it (`Stolen`). `HalfClosed` is exactly
  the window in which the kernel gives the number out again, and `PastConnected` says that a
  connection in it is no longer in service.
- `Placed` and `Mapped` keep the bookkeeping: work and functors are on the loop of their
  connection, entries and channels stand under their own number.
- `StepForm(t, l, c)` says what a step of thread `t` on behalf of connection `c` of loop `l`
  may do to all of this, and `StepKeeps` that such a step keeps `SInv`. Every action is shown
  to be one, except an accept, the posting of `ConnectEstablished`, the erasure
  of an entry and a destructor, which have proofs of their own.

The excuses in these properties are not there to get the proofs through: run
`tcpserver_reuse` shows the first of the three races, and section 6 describes the others.

`ThreadPoolProofs` proves, for any clients and tasks, any number of workers and any
arguments of `Resize` (`ThreadPoolAssumption` types the constants and says that threads
and clients are different and that no task is the placeholder for none):

| theorem | property | inductive invariant |
|---|---|---|
| `TypeCorrect` | `TypeOK` | `TypeOK` with `Counting`, `Fresh` |
| `NoPopEmptyCorrect` | `NoPopEmpty` | `Woken` with `Holders`, `Fresh`, `TypeOK` |
| `InOrderCorrect` | `InOrder` | `Books` with `Fresh`, `TypeOK` |
| `NoTerminateCorrect` | `NoTerminate` | `Passed` with `TypeOK` |
| `GracefulShutdownCorrect` | `GracefulShutdown` | `Left` with `Fresh`, `TypeOK` |

- `NoPopEmpty` speaks of the worker that is about to pop. What it found when it left the
  wait must still be so: `Woken` says it for the test before, and it lasts because the
  worker holds the mutex from the predicate on (`Holders`), and whoever shortens the
  queue needs the mutex, and `m_is_running` is never set again.
- `Books` is `InOrder` with the queue given place by place. That nothing is taken twice
  needs `Fresh`: a task is pushed once, so the one at the front is not among those
  before it.
- `Passed`: `Shutdown` has joined every thread its loop over `m_workers` has passed. A late
  `emplace_back` of a `Resize` breaks this, and sets `grewLate`; an erase makes
  the vector shorter and breaks nothing.
- `Left`: a worker leaves because the work is done only when the queue is empty and the
  pool has stopped, so what is in the queue after that is what late `Commit`s push. A
  worker that `Resize` tells to go leaves with tasks waiting, and proves nothing about
  them.

`TcpClientProofs` proves, for any number of connections, descriptor numbers and nested
callbacks (`TcpClientAssumption` types the constants and says that the placeholders for
no connection and for no descriptor are neither):

| theorem | property | inductive invariant |
|---|---|---|
| `TypeCorrect` | `TypeOK` | `IInv` |
| `ServedCorrect` | `Served` | `Sound` with `Standing`, `Closing` |
| `NoLeakCorrect` | `NoLeak` | the same |
| `CarefulIsSafeCorrect` | `CarefulIsSafe` | `Careful` with `Leaving` and all of the above |

- `Sound(n, cl)` is a predicate of the connections, the poller and the kernel, because most
  actions go through two or three values of them before the step ends. `Numbered`: a
  socket has the number of its channel until it is closed, and a connection that has ended has left the
  poller or closed its socket. `Agreed`: the kernel and the connections agree on who has a number; a
  channel in the poller wants events, and what epoll watches is the socket of the channel that
  stands there. `ServedAlone`: no other channel with the number of an open connection wants
  events, unless the connection was established beside one (`cl`, the variable `clashed`).
- The case that matters: `Disconnect` closes the socket and leaves the channel registered, so
  the next connection may get its number while the old one still stands in the poller.
  `HandleConnect` lets go of the old connection before it watches the new socket, and the
  destructor takes the old channel out (`DestroyedSound`, then `WatchedSound`); in the other
  order the destructor would take the new one out. `Touches(m, n, c)` says what may be done
  to one connection without another noticing: a connection without events and without a socket
  leaves the poller alone, which is why an old one that ends does no harm to the new owner of its number.
- `Standing`: what anybody holds a pointer to is there. `Closing` and `Leaving`: a
  connection in its close callback has ended; a client on its way out has no connection.
- `Careful` is what the application's discipline amounts to: what is open is kept, or its
  connection callback is under way; what a handler or a close callback is busy with is
  kept; once the client goes, nothing is open and no timer waits. So the pointer a
  frame returns into is not the last one, and no close callback or timer reaches a client
  that is gone.
- `QuietStep`, `ConnectStep`, `RemoveStep` and `ReturnStep` are the four kinds of step: one that
  calls nothing back, a new connection, a close callback, a return. `ControlKeeps` says once
  what all of them owe the stack of callbacks.

`BaseProofs` proves of `Logger`, for any callers, any number of events and any number of calls of
`Init` (`LoggerAssumption` types the constants):

| theorem | property | inductive invariant |
|---|---|---|
| `TypeCorrect` | `TypeOK` | `TypeOK` |
| `WrittenInOrderCorrect` | `WrittenInOrder` | `Ordered` with `Control`, `TypeOK` |
| `NothingVanishesCorrect` | `NothingVanishes` | itself, `LostIsLost`, `Ordered`, `Control`, `TypeOK` |
| `OwedWrittenCorrect` | `OwedWritten` | `Owing` with all of the above |

- `Ordered` extends the order of what was written to the event in hand and to the queue.
- `NothingVanishes` adds numbers up, so the places an event can be in must be disjoint;
  `LostIsLost` and the strict order in `Ordered` say so.
- `Control` says where the log thread is when it has the mutex, an event in hand or an
  empty queue, and that there is none outside the time between start and join.
- `Owing`: an event that waited at the stop keeps the log thread between the head of its
  loop and the drained queue.

and of `Config`, for any keys, subscribers, values, contents of the file and threads, any
relation `Near` that is reflexive, and any depth of callbacks that call `Reload`
(`ConfigAssumption`):

| theorem | property | inductive invariant |
|---|---|---|
| `ConfigTypeCorrect` | `ConfigTypeOK` | `ConfigInv` |
| `InformedCorrect` | `Informed` | `ConfigInv` |

- `Informed` speaks of the moments when nobody holds the mutex. In between a callback may be
  behind, and `Owed(k, s)` says what is owed to it then: some `Reload` on the stack is at `k` and
  has the callback still to call, or will still come to `k` and compares with a copy that
  holds the value the callback has (`Awaited`). So that `Reload` sees a change, unless the value
  has come back, or come close, and then there is nothing to tell (`UnchangedIsClose`).
- A nested `Reload` makes its copy from a configuration the outer one has already changed. It
  owes the key the change from there on, and the outer one the change before: either the
  callback has read the value of the inner copy, or the outer frame still has to come to it.
  A `Reload` that fails puts its copy back, which leaves every debt as it was. `Keeps` says when
  a frame that changes owes as much as before.

`WSPollPollerProofs` proves, for any channels and numbers (`WSPollPollerAssumption`: each
channel has a number, and the placeholder for no entry is not an entry):

| theorem | property | inductive invariant |
|---|---|---|
| `InStepCorrect` | `InStep` | `IInv`: `InStep` with the types of the two vectors and the index |
| `TypeCorrect` | `TypeOK` | `TypeOK` with `IInv` |
| `PollSetImplemented` | `ImplementsPollSet` | `IInv` |

- The case that matters for `InStep` is the removal: the last element takes the place of the
  one that goes (`SwappedOutElements`), its entry in the index is changed with it
  (`RemovedInStep`), and the two coincide when the last is removed.
- The refinement reads off the vectors, number by number, which channel is watched for
  which events (`WatchedAt`). `RemovedWatched` and `UpdatedWatched` say that the swap and the
  two ways of `UpdateChannel` change one number only. `PollFills` is about the loop of `Poll`:
  after the i-th turn the active list has the channels that are ready among the first i.

`RegistryProofs` proves of `Registry`, for any models, any number of registrations and any
timeout:

| theorem | property | inductive invariant |
|---|---|---|
| `RegistryTypeCorrect` | `RegistryTypeOK` | `RegistryInv` |
| `RemovedStaysGoneCorrect` | `RemovedStaysGone` | `RegistryInv` |
| `IndexCleanCorrect` | `IndexClean` | `RegistryInv` |
| `SupportersFoundCorrect` | `SupportersFound` | `RegistryInv` |

- `RegistryInv` is the three properties with the types and `Numbered`: the ids in use, removed
  or changed are below the next one, so a registration takes none of them, and its id is in
  no list yet.
- `RemoveWorker` looks at the models the node has *now*. `IndexClean` holds because of
  `SupportersFound`: unless a heartbeat changed them, the node is in no other list. And
  `SupportersFound` counts: `KeptProperties` says how often an entry occurs in what
  `std::remove` leaves, `CountAppend` how often in what a registration appends to.

and of `RegistryServer`, for any connections, any packets on them and any cutting of the
streams into reads (`RegistryServerAssumption`: each peer sends packets):

| theorem | property | inductive invariant |
|---|---|---|
| `ServerTypeCorrect` | `TypeOK` | `ServerTypes` |
| `NothingForgedCorrect` | `NothingForged` | `ForgeryInv` |
| `ServedAsAloneCorrect` | `ServedAsAlone` | `AloneInv` and `AnswersInv` |

- `NothingForged` counts packets, so it has the hypothesis `PacketsDistinct`: no packet is sent
  twice (the instance of the run is checked for it). The argument is about the half of a
  header that has the length. It is at one place of one stream (`LengthUnique`), so it
  enters the parser once. `ForgeryInv` follows it: what is in the parser was read (`Genuine`), a
  length is in the parser at one place (`LengthOnce`) and then in no pipe, that is, the packet
  was not parsed yet (`NotBoth`), and a packet is in one pipe, once (`PipedOnce`). A round of
  `ParseAll` that cuts a packet off takes its length out for good, wherever the bytes around
  it came from, and the checksum leaves no other body to it (`CutOff`).
- `ServedAsAlone`: `Served(c, k)` says that the thread of `c` has parsed the first k packets of
  its peer, and that the parser holds what was read after them and nothing else, or that
  there is nothing of `c` in it. `AloneRound` is the step that matters: from there the
  parser waits for the rest of packet k + 1, or parses it, and never takes it for garbage
  (`DeserializeAlone`). Another connection may go through the parser in between; it leaves `c`
  undisturbed only if nothing of `c` is there (`AloneOther`). At the end k is the number of
  packets that are whole (`WholeServed`), because packets end at increasing places of the stream.

**Recursive functions.** `FlattenSeq`, `FindCRLF`, the loop of `Poll` and `Kept` are defined by
recursion, and what they compute is proved without induction theorems: a set of numbers that
is not empty has a least element (`LeastNat`, from the well-founded order of the numbers). A
solution of the recursive equation up to n exists, since there is no least n without one
(`FlattenedExists`, `LooksExist`, `UpToExists`, `KeptExists`); solutions agree; and
a property that fails somewhere fails at a first place, where the equation contradicts it.

**Assumptions.** Each is an `ASSUME` of the module that declares the constants, but for
`PacketsDistinct`, a hypothesis of `NothingForgedCorrect` alone. TLC evaluates each in the
run of its module, `PacketsDistinct` too (`MCSentAssumption`).

**Names.** `BaseProofs` extends `Logger` and `Config`, and `RegistryProofs` extends
`RegistryServer` and `Registry`. `Config` and `Registry` therefore put their own name before
`Init`, `Next`, `Spec` and `TypeOK` (`ConfigSpec`, `RegistrySpec`).

**Only model-checked:** the liveness properties (`QueuedRuns`, `QuitStops`,
`CallsHangOnlyInJoin`, `EventuallyWritten`, `StopHangsOnlyInWait`, `FailureReported`,
`MutexReleased`). They need reasoning about fairness and `ENABLED`, which the provers do not
have.

## 6. What the models show about the code

What holds: functors are never lost, repeated or reordered, and never sleep behind a
`Poll` unless a delayed task pushed them; a `Quit` on a running loop works; callbacks
run on the loop's thread but for one window at the start, which one callback of the
creator may outlast; the ownership of connections
is sound as long as `m_connections` keeps its entries and nobody calls a connection from
outside at the wrong time; the poller of a server never holds a dangling channel; a
client that is connected is served, although `Disconnect` leaves the old channel
registered; the Windows poller is a set of watched descriptors; the pool's and the
logger's queues lose nothing but what a stop discards; the buffer is a byte queue;
subscribers of the configuration end up with what is configured, or what is compared as
equal to it, through any nesting of reloads; the registry's index is exact except for nodes whose heartbeats change their
models; the checksum keeps mixed streams from being taken for packets.

What contradicts the repository's own words (each is a `violation` run):

1. **`tcpserver_reuse`** (`Net/TcpServer.cpp:125`): the removal lambda identifies the
   connection by a descriptor that may already be the next connection's, and drops that
   one while its own loop uses it.
2. **`tcpclient_reconnect`** (`Net/TcpClient.cpp:142`): the timer's `DoReconnect` runs into
   `m_started.exchange(true)` at line 31 and returns: the automatic reconnection never
   reconnects.

What the properties name as their exceptions, because the code does it:

- `NoOtherUseAfterFree`: besides the lost entry there are two more ways to use a
  destroyed `TcpConnection`. A call posted after `ConnectDestroyed` (`late`) runs with
  a bare `this` that nothing keeps alive; the `ForceClose` of `~TcpServer` is such a call.
  And `ShutdownInLoop` does not test `m_state` (`Net/TcpConnection.cpp:226`): run after
  `HandleClose` with output left, it puts the closed channel back into the poller
  (`revived`). The test of `m_state` and the store of another thread may also overlap, so
  that the close callback runs twice.
- `CallsHangOnlyInJoin`: `CleanupExitedThreads` takes `joinable()` for "has exited" and joins
  a working thread with the mutex held (`Base/Threadpool.cpp:73`), and `Shutdown` notifies
  without the mutex (`:151`), so that it may wait for a worker nobody wakes. These are the
  only two ways a call of the pool can hang.
- `StopHangsOnlyInWait`: the logger has the second pattern as well (`Base/Log.cpp:184`).
- `Served`, `CarefulIsSafe`: an old connection that the application keeps after
  `Disconnect` may share its number with the new one (`clashed`). `HandleRemoveConnection`
  resets whatever `m_connection` is, which may already be the next connection. The
  reconnection timer and the close callback capture a bare `this` (`careless`).
- `InlineOnlyInWindow`: `RunInLoop` by the creator of a loop may run its callback beside the
  running loop, when its test (`Net/Eventloop.cpp:249`) comes before the new thread's store of
  its id (`:147`) and its call (`:252`) after it. At most one callback does.
- `Informed`: a callback that throws ends the loops, so that those behind it, at the same key
  too, keep the old value, and `LoadFromFile` calls no callback. Doubles are compared with a
  tolerance (`Base/Config.cpp:117`), each time with the value before: differences below it may
  add up unreported, and a change to or from NaN is never reported. An `OnChange` inside a
  callback may move the container `Reload` iterates over (`fault`).
- `ServedAsAlone`: the streams of two connections meet in one parser; `OnConnection`
  resets it for everybody; and the callback is not called when a connection ends, so what
  that left in the parser stays.

Seen while modelling, and part of the models without a property of their own:

- `Loop()` stores `m_quit = false`, so a `Quit()` before that is lost
  (`Net/Eventloop.cpp:197`).
- On Linux a failing `readv` is taken for a very long read (`Net/Buffer.cpp:211`).
- `Shutdown()` with pending output never completes: `HandleWrite` returns unless the
  state is `Connected` (`Net/TcpConnection.cpp:126`).
- `ShutdownInLoop` with an empty output buffer closes the descriptor and leaves channel,
  poller and `m_connections` as they are (`Net/TcpConnection.cpp:238`).
- `ScanTimeoutNodes` calls `RemoveWorker` with the mutex held (`registry_manager.cpp:93`).
- `ret == 0` compares a `bool` (`Net/TcpClient.cpp:43`): a `connect()` that succeeds at
  once is closed as a failure, one that failed is reported as a connection.
- A thread that a late `Resize` adds while `Shutdown` throws the queue away runs tasks that
  are pushed after those that were thrown away (`Base/Threadpool.cpp`, `Resize` tests
  `m_is_running` once).
- An auto-started `EventLoop` destroyed by its creator aborts (`Net/Eventloop.cpp:163`).

## 7. Not modelled

| part | why |
|---|---|
| `~TcpServer`, `Start`, the server without sub loops; `Acceptor::Listen` and its destructor | start and end of a server, planned as an extension of `TcpServer`; what the destructor's `ForceClose` does to a connection is among the calls from outside |
| bytes of `Send` | the models know whether output is pending; the bytes themselves are `Buffer`'s |
| growth of the event array of `EpollPoller` | it decides only how many of the ready channels one `Poll` reports |
| the branch of `TcpClient::Connect` for a connection in progress | cannot be reached (section 6) |
| `JobManager` | two maps under one mutex, each call one critical section and none calling another: a model would restate the assignments |
| `PacketParser` | the class is not in the repository; `RegistryServer` models any parser with its interface |
| values of JSON fields, messages nothing in the repository receives | no control depends on them |
| log appenders, `Log_Utils`, `SetMinLevel`, `Address`, `Socket_Utils` | formatting and thin wrappers of system calls |
| `DistServer`, `InferenceGateway`, `ProtocolCodec` | described in the repository's README, no code exists |
| the C++ memory model | steps are sequentially consistent; races on plain fields see the old or the new value |

## 8. Plan

Models: all parts of the plan but `~TcpServer` and the mode without sub loops are there.

Proofs: the safety properties and the refinements of all runs are theorems. Whoever adds
`~TcpServer` to `TcpServer` has to extend `Owned` and `Behind` in `TcpServerProofs` by what
its `ForceClose` calls post.
