# ServerDevLib in TLA+

ServerDevLib is a header-only C++ library for servers: a thread pool, an
asynchronous logger, a reactor over epoll, and I/O devices (a buffered base
class, files and TCP sockets).  This directory holds TLA+ models of it, the
instances TLC checks, and proofs checked by TLAPS.  All paths below are
relative to `include/server/` of the repository unless they start with `doc/`
or `example/`.

- [1. The system](#1-the-system)
- [2. The modules](#2-the-modules)
- [3. How the models correspond to the code](#3-how-the-models-correspond-to-the-code)
- [4. The runs](#4-the-runs)
- [5. Bounds](#5-bounds)
- [6. Fairness](#6-fairness)
- [7. What is proved](#7-what-is-proved)
- [8. What is not modelled](#8-what-is-not-modelled)
- [9. What we learned about the code](#9-what-we-learned-about-the-code)
- [10. Plan](#10-plan)

To repeat the checks, in this directory:

    tlc -workers 2 -config threadpool.cfg MCThreadPool     # likewise the others
    tlapm ThreadPoolProof.tla          # likewise LoggerProof, NotificationProof,
                                       # ChannelProof, DispatcherProof,
                                       # EventLoopsProof, PartsProof,
                                       # DescriptorsProof

## 1. The system

### Components

| Component | State | Operations |
|---|---|---|
| **ThreadPool** (`threadpool/ThreadPool.h`) | the queue `_tasks` under `_queueMutex` and `_cv`; `_workerStat` (EMPTY, ACTIVE, DEAD per thread, no lock); `_stop`; the threads; a Timer | construct, `EnqueueTask`, `WorkerThread`, `Shutdown`, destroy; `Monitor`/`Adjust` by timer; `GetGlobalThreadPool` |
| **Timer** (`threadpool/Timer.h`) | `_stop`, interval, callback | `Start` (in a thread of its own), `Stop` |
| **Logger** (`logging/Logging.h`) | `_buf` and `_backup_buf`, `_mx`, `_cv`, `_stop`, `_log_with_waiting`, `_dest_vec`; the flush thread | `Buffering`, `Flush`, `AddLogSink`, `LogWithWaiting`, destroy |
| **LogMessage, LogStream** (`logging/LogMessage.h`, `LogStream.h`) | a text buffer of bounded size, the callback `_sendto` | stream, flush from the destructor |
| **LogFile** (`logging/LogFile.h`) | `_file`, `_filename`, `_total_size`; the limit in `GlobalConfig` | `Flush`, `Rotate`, `InitFileName`, destroy |
| **SysLog** (`logging/SysLog.h`) | none | a sink: `Flush` |
| **NotificationCenter** (`reactor/NotificationCenter.h`) | `_waitToHandleFD` (descriptor → ONE, MORE, MOREPLUS), `_barrier`, `_mx` | `NotifyDataReady`, `NotifyClose`, `HandleReadyData` |
| **Channel, EventsHandler** (`reactor/Channel.h`, `EventsHandler.h`) | `_receivedBuf`/`_receiveMutex`, `_sendingBuf`/`_sendMutex`, `_active`, the descriptor | `Read`, `Write`, `NotifyWriteEvent`, `GetReceivedData`, `HandleEvent` |
| **Dispatcher** (`reactor/Dispatcher.h`) | `_handlers`, `_allChannel`, `_waitToRemovedChannel`, `_pendingFn`, `_slaves`, `_stop` | `Dispatch`, `RegisterHandler`, `RemoveHandler`, `HandleUnexpected`, `HandleNewConnection`, `ExtractExistedChannel`, `RestoreAllChannel`, `AddPendingFunctor`, `AddSlaveDispatcher`, `Shutdown` |
| **AcceptHandler** (`reactor/AcceptHandler.h`) | the listening descriptor | `HandleEvent`: one `accept()` |
| **Demultiplexer** (`reactor/Demultiplexer.h`) | the epoll descriptor | `RegisterFd`, `ModifyEvent`, `RemoveFd`, `WaitForEvents`, `Shutdown` |
| **IODevice** (`IODevice.h`) | a ring of BUFSIZE bytes, `_head`, `_tail`, `_size`; the open mode | `Read`, `Peek`, `Skip`, `Seek`, `Write`, over the subclass's `ReadData`/`WriteData` |
| **File** (`File.h`) | `_file` with its one position, `_mx`, `_cv`, `_writing`, `_mode` | `write`, `read`, `ReadAll`, `Open`, `Close`, `SetOpenMode` |
| **TcpSocket** (`TcpSocket.h`) | `_fd`, `_valid`; copyable | construct from a number or anew, `Close`, destroy; an IODevice |
| **TcpServer** (`TcpServer.h`) | `_fd`, `_access`, `_saveAllConnection`, `_allAccepted` | `Init`, `Bind`, `Listen`, `Accept`, `AutoSaveAcceptedFD`, `CloseCilent`, `GetAllClient`, `Shutdown` |
| **Address** (`Address.h`) | a `sockaddr_in` | conversions |

### How they interact

    clients ──connect, send, close──▶ kernel: sockets, epoll set
                                         │ EPOLLIN / EPOLLOUT / EPOLLHUP, edge-triggered
                                         ▼
      Dispatcher::Dispatch (one thread; slaves: one pool thread each)
          │ listening socket                │ connection
          ▼                                 ▼
      AcceptHandler → HandleNewConnection   EventsHandler → task of the global ThreadPool
          │                                                     │
          ▼ RegisterHandler (own or a slave's)                  ▼ Channel::HandleEvent
      _handlers, _allChannel                         Read → NotificationCenter
                                                     Write ← NotifyWriteEvent
      application thread: HandleReadyData → callback → GetReceivedData,
                          NotifyWriteEvent, ExtractExistedChannel …

      any thread: LOG(...) → LogMessage → Logger::Buffering ⇒ flush thread → sinks

The reactor thread, the threads of the pool and the application share the
channels; the pool is the only thing between an event and its handler.  The
logger and the I/O devices stand by themselves.

### What is hard in it

- *Interleavings*: flags and maps are used without the mutex that protects
  them elsewhere (`_workerStat`, `_stop`, `_waitToHandleFD`, `_dest_vec`,
  `_active`), notifications come after the mutex is released, and several pool
  threads can handle the same connection at once.
- *Ordering*: edge-triggered events are reported once; what arrives between a
  read and a notification, or with another event, must not be forgotten.
- *Stale state*: the kernel reuses descriptor numbers; tasks in the pool, copies
  of sockets and the server's list of connections still carry the old ones.
- *Termination*: `ThreadPool::Shutdown`, `~Logger` and `Dispatcher::Shutdown`
  join threads that sleep in condition variables, timers or `epoll_wait`.
- *Failure*: `write()` with EAGAIN, connections that are reset, an `accept()` that
  fails, sinks that throw, FATAL messages, disks that fail under a `File` or a
  `LogFile`, `ReadData` returning -1.  Nothing is persisted that is read again, so there
  is no crash recovery.
- *Bounds*: the receive buffer of a channel, the ring of a device.

`PROJECT.json` lists 40 hazards with the line where each bites and the
properties that would catch it.

### What makes each component correct

| Component | Correctness |
|---|---|
| ThreadPool | a task is queued, running or finished in exactly one place; no wakeup is lost; at most `min_core_thread` tasks run, in the order of acceptance; `Shutdown` returns |
| Logger | messages reach each sink once and in order; the flush thread does not sleep through an announced message; FATAL ends the process; `~Logger` returns |
| NotificationCenter | data that was read, up to the size of the buffer, is handed to the application |
| Channel | bytes are sent in order and once, no data is forgotten, only a peer's close kills a channel, a close is answered |
| Dispatcher | the maps follow the kernel's table of descriptors; a reused number never reaches the old channel; events find their handlers; functors run once and in order; `Shutdown` returns |
| Dispatcher, listening | nobody waits to be accepted without an event that says so |
| IODevice | the ring is a FIFO of the device's stream |
| File | a reader waits only for a write that is under way |
| LogFile | nothing is written that was not logged, and rotation and the end of the process lose no text unless the disk fails; files keep to the limit |
| TcpServer, TcpSocket, Demultiplexer | what a holder closes is what it was given |
| `GetGlobalThreadPool`, `GetLogger` | one object is built, and everybody gets it |

## 2. The modules

| Module | Models | Uses |
|---|---|---|
| `TaskExecutor` | abstract: what a pool promises | |
| `ThreadPool` | ThreadPool.h, Timer.h | implements `TaskExecutor` |
| `LogQueue` | abstract: what a logging back end promises | |
| `Logger` | Logging.h, the hand-over of LogMessage.h, LogSink.h | implements `LogQueue` |
| `NotificationCenter` | NotificationCenter.h with the receiving half of Channel.h | |
| `Channel` | Channel.h, EventsHandler.h, Demultiplexer.h for one connection | |
| `Dispatcher` | Dispatcher.h with one loop, AcceptHandler.h, descriptor numbers | |
| `EventLoops` | Dispatcher.h with slaves, functors and Shutdown | composed with `TaskExecutor` as its pool |
| `IODevice` | IODevice.h | |
| `GlobalInstance` | the creation of the pool in ThreadPool.h and of the logger in Logging.h | |
| `File` | File.h | |
| `LogFile` | LogFile.h, with the bounded text of LogMessage.h and LogStream.h, and how Logging.h ends | |
| `Descriptors` | TcpServer.h, TcpSocket.h, the descriptor of Demultiplexer.h | |
| `MCThreadPool`, `MCLogger`, `MCNotificationCenter`, `MCChannel`, `MCDispatcher`, `MCEventLoops` | instances for TLC | EXTENDS the module of that name |
| `MCParts` | one instance of five parts that share nothing | EXTENDS `IODevice`, `GlobalInstance`, `File`, `LogFile`, `Descriptors` |
| `ThreadPoolProof`, `LoggerProof`, `NotificationProof`, `ChannelProof`, `DispatcherProof`, `EventLoopsProof`, `DescriptorsProof` | theorems about the module of that name | EXTENDS it and TLAPS |
| `PartsProof` | theorems about `IODevice`, `GlobalInstance`, `File`, `LogFile`, and about `MCParts` | EXTENDS `MCParts`, `DescriptorsProof` and TLAPS |

The last five models have names of their own for everything (`GetNext`,
`FileNext`, `LogNext`, `NumbersNext` beside `Next` of `IODevice`), so that
`MCParts` and `PartsProof` can extend them all.

`EventLoops` uses the *abstract* executor in the place of the thread pool:
`ThreadPoolProof` proves that `ThreadPool` implements it, so what `EventLoops`
assumes of its pool's safety is what the real pool provides (its fairness is
discussed in section 6).

At the end of several modules there are *seeded faults*: alternative forms of an
operator, as a plausible bug would write it.  `PROJECT.json` ("mutants") names
for every property a fault that breaks it.  They are never part of `Next`.

## 3. How the models correspond to the code

`PROJECT.json` ("map") gives the lines of every definition.  This section gives
the state and the decisions about atomicity.

General rules: a critical section of a mutex is one action if everything it
touches is protected by that mutex; every access outside is an action of its own
when another thread can tell.  A thread's place between actions is its `pc`.
Data races are choices over what the build can produce, and steps that are
undefined behaviour without a usable outcome set `crashed` (or `ended`), after
which nothing happens.

### ThreadPool

`tasks`, `workerStat`, `stop`, `timerStop` are the members of that name.
`notifying` holds the tasks whose `EnqueueTask` has pushed but not called
`notify_one`; a sleeping worker is one with `pc = "asleep"`.  The worker's loop
(`WorkerThread`) is `WorkerFind` (unlocked look-up), `WorkerTest` (unlocked test
for ACTIVE), `WorkerMarkEmpty` (unlocked store), the wait with its predicate,
`WorkerTake` and `WorkerRun`.  `Shutdown` is `ShutdownTest`,
`ShutdownStop` (stores `_stop` outside the mutex), `ShutdownClear` (the critical
section: drops the queue, marks the workers DEAD), `ShutdownNotifyAll`, and the
joins.  `SpuriousWakeup` is always possible.  `MonitorOn` is
the condition under which the timer is started (line 169).

### Logger

`buf`, `backup`, `destVec`, `waiting`, `stop` are the members.  The flush thread
starts before the body of the constructor sets the callback (member
initialiser), so `sendto` may still be unset when messages are logged.  One
mutex section is split, "blocking": between the predicate and the block of
`_cv.wait` the thread holds the mutex, but `~Logger` stores `_stop` and notifies
without it.  `FlushThrows(k)` is a sink that throws after `k` sinks were served;
a race between `AddLogSink` and the loop over `_dest_vec` ends the process.

A message is announced by the notification that follows its `Buffering`; `open`
of the abstract queue lasts until a FATAL message or a sink that throws ends the
process.

### NotificationCenter

Chunks are counted: `sent` by the peer, `got` into `_receivedCount` by `Read`,
`taken` out of it by `HandleReadyData`.  `Read` fills the buffer up to its capacity,
but the `size()` of the string stays BUFSIZE, `Room` chunks: `substr` in
`GetReceivedData` stops there (`Substr`), and the count is zeroed all the same.
`handed` is what the application got, `beyond` what `Read` had to store behind
`size()`; what was taken is the one or the other.  The two exchange loops of `_barrier` around the load and the
store of a state are separate actions; `overlapped` remembers that two threads
were inside together.  The loop's part (`edge`, `queued`) makes HandleEvent
tasks of edges, so that two threads can read one connection.

### Channel

One connection; the socket is `inq`/`outq` with `SockBuf` units of room; the
epoll entry is `rdy` (on the ready list) and `armOut`.  What is sent is
numbered, so loss, doubling and overtaking are visible; what is received is
counted against `cap`, because the room left is what matters.  `reading` names
the thread in the loop of `Read`, which holds `_receiveMutex` over many system
calls.  `passedOver` remembers that an event with EPOLLIN and EPOLLOUT was only
read.  A peer can close or reset (`PeerReset`): `rst` is pending until a `read()`
or `write()` fails because of it (`Tell`), which happens once.  `Read` takes the
ECONNRESET for the end of what is there, not for the end of the stream.

`HandleNewConnection` gives every channel the Demultiplexer of the master
(`Dispatcher.h:233`), also when it registers the descriptor with a slave (243-244).
`ownSet` is whether the descriptor is in the set the channel's Demultiplexer is for,
and `Init` takes both; if it is not, `ModifyEvent` fails and changes nothing.

### Dispatcher

`owner` is the kernel's table of descriptors; a number is free again after
`close` and `accept` takes the lowest free one.  `handlers` and `allChannel` are
the maps; `held`/`holding` is the map given to the application by
`ExtractExistedChannel`; `waitRemoved` is `_waitToRemovedChannel`.  The loop's
work on one event is split where the pool or the application can look:
`emplace` and `register`, `close` and `unlink`.  A client can close or reset
(`ClientReset`), also while it waits to be accepted, and `accept()` can fail
(`AcceptFails`), which consumes the edge all the same.  `removed`, `spared`,
`dropped` and `overtaken` remember the calls after which weaker promises hold;
`overtaken` are those who waited when `accept()` took another one, or failed.

### EventLoops

A master loop and `NumSlaves` slave loops, which are tasks of the pool.
`RegisterHandler` is two steps (arming, then inserting into `_handlers`), so a
slave's loop can look in between (`DropEvent`).  `Shutdown` is in its order: the
master's flag and sockets, the `Shutdown` of each slave (which closes its epoll
descriptor), the clearing of `_slaves`, the pool's `Shutdown`, which joins, and
the master's epoll descriptor.  A thread that goes on in a slave after the
clearing is a `UseDestroyed`.  `_handlers` is searched without a mutex
(`Dispatcher.h:58`): when the master is about to insert into the map of a slave, or
`Shutdown` about to clear one, while the loop of that map is about to look there,
`HandlersRace` may end the process; the two may also go by in either order.

A functor is the number of the call that adds it.  `EnableSlave` says whether slaves are enabled, with or without
one added; `NoFunctorSlot` is the case in which `AddPendingFunctor` divides by
zero, and nothing else follows from it than the crash (`DivideByZero`).

### IODevice

`buf` holds positions of the device's stream instead of bytes; `Modulus` is
2^64 scaled down (`-1` is `Modulus - 1`, and a multiple of BUFSIZE as 2^64 is).
The subclass is the environment: `ReadData` stores any number of bytes up to
what it was asked for, or returns -1.

### GlobalInstance

`instance` is the static pointer, `holder` the holder of the static mutex.  The
unlocked `Test` is a data race with `Publish`; since the object is built by a
constructor that starts threads, the pointer is stored after it in every build,
so the racing thread sees none or a whole one.  `Build` and `Publish` are two
steps all the same.

### File

Bytes are counted.  The fstream has one position (`pos`) and a failbit that
nothing clears (`good`).  `write` is one action, since its wait is for a flag the
line before has set: it succeeds (`WriteDone`), with the flush that the preceding
`seekg` makes, or fails (`WriteFails`) with `_writing` left set.  `read` is
`CallRead`, `ReadWaits`, `FileRead`, because the wait gives the mutex up.

### LogFile

Text is counted, and the sink is a record (`out`): the name, which is the second
it was made in or always the same one when the time is cut off; the counter; what
is in the buffer of the stream; and for each name the length on the disk and how
often it was opened.  `AfterFlush(n)` is `Flush` of `n` bytes, with the rotation
before it.  `Closed(r, lost)` is the flush and close of `InitFileName` and of
`~LogFile`: neither looks at the result, and the buffer is on the disk (`Emptied`) or
gone (`Forgone`); `hushed` counts the latter.  The logger is the environment: `Log`,
`Fatal` (which lets its sinks go before it aborts), `Exit`, and `FlushThrows` for a
disk that fails where the code looks at it.

### Descriptors

The kernel's `table` says which file is open under each number; a file stands
for itself, so a number that has come to mean something else shows.  Holders are
the server with its own number, each number in `_allAccepted`, each TcpSocket, a
Demultiplexer and the rest of the program.  `meant` remembers the file a holder's
number was given out for, `undercut` the holders whose file somebody else has
closed, `sharing` how numbers came to have two holders.

### MCParts

In a behaviour one part moves, the one `part` names, and the others stay in an
initial state; the states of the parts add up and do not multiply.

## 4. The runs

| Run | Instance | Shows |
|---|---|---|
| `threadpool` | 2 workers, 2 tasks, 2 callers of `Shutdown`, timer | Tasks are in one place (`TaskAccounting`), no wakeup is lost while open (`WorkConserving`), nobody sleeps while `Shutdown` joins (`NobodySleepsThroughShutdown`), the abstract executor is implemented, queued tasks are run (`TaskServed`) and `Shutdown` returns (`ShutdownReturns`) |
| `threadpool_graceful` | 1 caller of `Shutdown` | **violated**: a worker calls `front()` of an empty queue |
| `threadpool_startup` | same | **violated**: a worker faster than the constructor ends at once |
| `logger` | 3 messages, 1 FATAL, 2 sinks | `SleepsOnlyOnQuiet`; the two buffers implement the abstract queue (`ImplementsLogQueue`: in order, once per sink, up to a FATAL message or a sink that throws); announced messages are written (`AnnouncedIsWritten`) and `~Logger` returns (`DestructorReturns`) unless its `notify_all` fell between predicate and block |
| `notification` | 1 connection, 2 pool threads, 3 chunks, a buffer of 2 | data is visible to `HandleReadyData` (`ReadyIsSeen`) and handed over unless it lay behind the buffer's `size()` (`DataIsTaken`), and that alone is missing (`TypeOK`); a thread spins on leaving `_barrier` only after two met in it (`SpinsOnlyAfterOverlap`) |
| `notify_barrier` | 1 pool thread, 2 chunks | **violated**: two threads inside `_barrier` |
| `channel` | 1 pool thread, 2 senders, 2 units each way, BUFSIZE 2, socket 1 | what is sent goes out in order and once (`WrittenInOrder`), is never forgotten (`NoForgottenData`) and is written (`QueuedIsWritten`), but a connection a slave watches sends nothing (`SlaveNeverWrites`); only the peer's end is taken for one (`DeadOnlyAtEnd`), and is answered by `close` (`CloseIsAnswered`) |
| `channel_full` | 1 sender | **violated**: a full socket ends sending |
| `dispatcher` | 2 connections, 2 numbers, 2 pool threads, 1 extraction, resets, failing `accept()` | events find their handler (`HandlerIsOwn`); both maps follow the table of descriptors, and a channel is inactive before its number is used again (`ChannelsFollowTable`); who waits to be accepted has an event to say so, unless overtaken (`NobodyWaitsUnseen`) |
| `dispatcher_reuse` | no extraction | **violated**: a task uses the number of the next connection |
| `loops` | master, 1 slave, 2 pool threads, 2 connections, 2 functors, `Shutdown` | functors run once and in order (`FunctorsInOrder`), also one added while the loop calls the one before, and are called (`FunctorIsCalled`); a raised event whose handler is in the map is handled (`RaisedIsHandled`); `ShutdownReturns` |
| `parts` | five parts, one per behaviour | the ring is a FIFO (`RingIsFifo`, `ReadDeliversNext`); one global object (`OneInstance`); readers of a File sleep only behind a failed write (`SleepsOnlyBehindFailure`); rotation and the end of the process lose a buffer of log text at most for each failure nobody looks at (`OnlyBuffersAreLost`), and files keep to the limit (`FilesFollowLimit`); descriptor numbers are true until shared (`NumbersAreTrue`) |

Every property says in its text which circumstances it excludes.  The exclusions
are facts the model reaches, not assumptions of the model: for instance
`DataIsTaken` excludes runs in which two threads met inside `_barrier`, and
`notify_barrier` shows that they do meet.  The five runs that are violated are
described in section 9.

`loops` runs without deadlock checking: the system may really stop, when
`Shutdown` joins a slave that sleeps in `epoll_wait`; `ShutdownReturns` says so
exactly.  All other runs check for deadlock; a part that has come to its end
(`Stuck` readers of a File, an ended process) has an explicit stuttering step, and
its properties say what is then true.

## 5. Bounds

| Bound | Value | Why it is enough |
|---|---|---|
| workers (ThreadPool) | 2 | a wakeup can go to the wrong worker, a worker can be late while another runs; the theorems of section 7 hold for any number |
| tasks | 2 | order and double execution need two |
| callers of `Shutdown` | 2 | the second join of a thread |
| messages, sinks (Logger) | 3 with 1 FATAL, 2 | one in each buffer and one in between; a failure between two sinks |
| `MaxModeCalls` | 1 | calls of `LogWithWaiting(int)`: each one switches or does not, and a second only repeats the race |
| `MaxChunks`, `Room` (NotificationCenter) | 3, 2 | ONE, MORE and MOREPLUS are all reached, and one more notification in MOREPLUS; all at once do not fit into the buffer, one after the other they do |
| `MaxIn`, `MaxOut`, `BufSize`, `SockBuf` (Channel) | 2, 2, 2, 1 | the receive buffer fills and grows, a write is partial, a socket is full |
| pool threads (Channel) | 1 in the run | two threads are checked in `NotificationCenter` and `Dispatcher`; for `Channel` the safety part with two has 2.3 million states and holds, but with liveness it is too slow for a run |
| connections, `MaxSends`, `MaxExtract` (Dispatcher) | 2, 1, 1 | the second connection gets the number of the first; closing while the map is extracted; the theorems hold for any |
| connections, slaves, pool threads, `NumFunctors` (EventLoops) | 2, 1, 2, 2 | a slave leaves one worker for events; order needs two functors; `EnableSlave` without slaves only reaches `DivideByZero`, which `Shutdown` reaches in the run |
| `MaxBytes`, `MaxAsked`, `BufSize`, `Modulus` (IODevice) | 6, 4, 3, 12 | the ring is filled twice and wraps; a read asks for more than the ring holds; the unsigned indices go below 0 and beyond; the theorems hold for any |
| `Callers` (GlobalInstance) | 3 | one builds, one waits for the mutex, one races with the store |
| `Threads`, `MaxSize` (File) | 2, 3 | a reader sleeps while another thread writes and fails |
| `Limit`, `TextRoom`, `MaxText`, `TraceLen`, `FileBuf`, `MaxClock`, `MaxLogged` (LogFile) | 2, 3, 4, 2, 4, 2, 14 | texts are cut; a message alone passes the limit, or stays below it; the buffer is written out in the middle of a file; two rotations fall into one second or three files are used |
| `Fds`, `Sockets`, `MaxFiles` (Descriptors) | 0 … 2, 2, 4 | number 0 is given out, numbers run out and are given out again; one socket is a copy of the other; the theorems hold for any |

Symmetry is used only in `dispatcher` and `dispatcher_reuse` (connections and
workers), which check no liveness.

## 6. Fairness

All liveness properties are checked under weak fairness of *threads*: a thread
that can take a step eventually does.  That is what the scheduler of the
operating system gives.  No thread is given strong fairness, and no fairness is
assumed of a choice within a thread.

- `ThreadPool`: the constructor, each worker, each `EnqueueTask` between its push
  and its `notify_one`, each caller of `Shutdown`, and the timer thread; a task
  returns.  Spurious wakeups, and whether a client enqueues or shuts down, are
  not fair.
- `Logger`: the flush thread, a `LOG` statement that has begun, a destructor that
  has begun.
- `NotificationCenter`: each thread, and the application keeps calling
  `HandleReadyData`, as `example/ReactorExample.cpp` does.
- `Channel`: the loop, each pool thread, a sender between its two halves, and a
  peer that keeps taking what was sent to it (the property is about such peers).
- `EventLoops`: each loop, the caller of `Shutdown`, starting of queued tasks by
  the pool and the end of each `HandleEvent`.  That the pool starts queued tasks
  is `TaskServed` of `ThreadPool`, with its exceptions: the pool is stopped (the
  abstract pool is closed then, and tasks are discarded) or all workers lost the
  race with the constructor.

`dispatcher` and `parts` check safety alone and state no fairness.

## 7. What is proved

Each theorem holds for all values of the constants that the module's ASSUME
allows: any threads, connections, messages, tasks, sizes.  `Spec` is the safety
specification, without fairness.

| Module | Theorem | States of every behaviour |
|---|---|---|
| `ThreadPoolProof` | `TypeCorrect`, `TasksAccountedFor`, `NoWakeupLost`, `NobodyMissesShutdown`, `PoolImplementsExecutor` | `TypeOK`, `TaskAccounting`, `WorkConserving`, `NobodySleepsThroughShutdown`, the abstract `TaskExecutor` |
| | `EndsOnlyByStartupRace`, `DiesOnlyInShutdown` | the only causes of what `threadpool_startup` and `threadpool_graceful` show |
| `LoggerProof` | `LoggerTypeCorrect`, `FlushThreadIsWoken`, `LoggerImplementsQueue` | `TypeOK`, `SleepsOnlyOnQuiet`, the abstract `LogQueue` |
| | `JoinsTheAwake` | `NotifyAllIsHeard` |
| `NotificationProof` | `CenterTypeCorrect`, `SpinNeedsOverlap`, `WaitingDataIsSeen` | `TypeOK`, `SpinsOnlyAfterOverlap`, `ReadyIsSeen` |
| `ChannelProof` | `ChannelTypeCorrect`, `BytesWrittenInOrder`, `DeadOnlyAtPeersEnd`, `DataIsNotForgotten` | `TypeOK`, `WrittenInOrder`, `DeadOnlyAtEnd`, `NoForgottenData` |
| | `SlavesWriteNothing` | `SlaveNeverWrites` |
| | `CloseIsNotForgotten` | `CloseIsDue` |
| `DispatcherProof` | `DispatcherTypeCorrect`, `EventsFindTheirHandler`, `ChannelsFollowTheTable`, `WaitingIsSeen` | `TypeOK`, `HandlerIsOwn`, `ChannelsFollowTable`, `NobodyWaitsUnseen` |
| `EventLoopsProof` | `LoopsTypeCorrect`, `FunctorsCalledInOrder` | `TypeOK`, `FunctorsInOrder` |
| | `LoopsUseExecutor` | every step is one of `TaskExecutor`, or leaves it alone |
| | `EventsAccountedFor` | `EventAccounting` |
| | `JoinsOnlyStopped`, `ForsakenForEver` | `JoinsStoppedLoops`; `Forsaken` is for ever, and Shutdown does not return |
| `PartsProof` | `RingTypeCorrect`, `RingIsAFifo`, `ReadInOrder` | types of the ring, `RingIsFifo`, `ReadDeliversNext` |
| | `OneInstanceOnly` | `OneInstance` |
| | `FileTypeCorrect`, `ReadersSleepBehindFailure`, `ReadersSleepForEver` | types, `SleepsOnlyBehindFailure`, `SleepIsForEver` |
| | `LogTypeCorrect`, `LimitIsKept`, `LossIsBounded` | types, `FilesFollowLimit`, `OnlyBuffersAreLost` |
| | `EachPartIsItself`, `PartsTypeCorrect` | the specification of each part, so that its theorems hold side by side; `PartsTypeOK` |
| `DescriptorsProof` | `NumbersTypeCorrect`, `NumbersStayTrue` | types, `NumbersAreTrue` |

The arguments, by the invariants that carry them:

**ThreadPool.**  `TypeOK` is inductive by itself.  `TaskAccounting` is not: nothing
in it says that what a running worker holds is a task, so `AccountingInv` adds
`RunnerHolds`.  Only four steps disturb it (`EnqueueTask`, `WorkerTake`,
`WorkerRun`, `ShutdownClear`), each with a lemma; `Frame` covers the others, and
`HeadLeaves` is the fact about sequences behind `WorkerTake`.
`NobodySleepsThroughShutdown` needs that a caller past its first step has stored
`_stop` (`ClosingInv`): a worker goes to sleep only if the predicate is false,
hence before `_stop`, and `notify_all` wakes the others.  `WorkConserving` rests on
`ConserveInv`: while a task is queued, a worker is on its way to it or a
notification is still to come.  *Refinement*: `backlog`, `status` and `open` of
`TaskExecutor` are `_tasks`, the states of the tasks and `~_stop`; that `Start`
respects the capacity follows from the accounting, since each running task has a
worker of its own.  *The findings bounded*: until `_stop` is stored no entry of
`_workerStat` is DEAD and a worker at the test of its loop is ACTIVE (`OpenStat`),
so only the look-up can end one; a worker at the predicate has EMPTY or DEAD
(`WaitStat`), and who has joined a thread has passed the test of `_stop`
(`JoinersStopped`), so the process dies of nothing but the two races of Shutdown.

**Logger.**  A flush thread that is about to block holds the mutex, so nothing was
added since it saw the buffer empty (`BlocksOnEmpty`); what comes later notifies.
For the refinement the abstract queue is the unwritten rest of `_backup_buf`
followed by `_buf`; the swap moves the border and is invisible, and a sink's step
is a `Deliver`.  A message is new when it is accepted (`NewIsUnseen`).  The
destructor stores `_stop` first (`DtorHasStopped`): from then on the predicate lets
the flush thread through, and `notify_all` wakes it, unless it is about to block.

**NotificationCenter.**  Until two threads meet inside `_barrier`, who is inside
is alone and has it raised (`AloneInside`).  Then no store is lost, and the state
of an entry is high enough for the data that waits, also after the step down that
`HandleReadyData` still has to make for what it took (`SeenInv`, with `Lowering`
for that step and `Coming` for a thread about to notify).

**Channel.**  `RoomInv`: the buffer has room for two, so a doubled half is never
without room.  `EndInv`: who is about to declare the channel dead has seen a
`read()` of zero or a hang-up, which the peer alone causes.  `ArmedInv` and
`DueInv`: `Write` disarms EPOLLOUT over an empty buffer only, and who fills one
arms it next.  `AnswerInv`: as long as the sending direction of a socket whose peer
has closed is open, a report is due, queued, or being read (`Answering`); the channel
is marked dead only after that direction was shut (`DeadIsShut`), and a socket shut
on both sides is reported as hung up to the loop, which closes it (`HangUpIsSeen`).
`SlaveInv`: on a slave's connection EPOLLOUT stays unarmed, so no event with it is
reported and no thread comes to `Write` (`Unasked`).

**Dispatcher.**  `BacklogInv` and `OpenInv` give the accept queue and the numbers
their meaning; `accept()` finds a free number because there are as many as
connections, by a pigeonhole argument (`LeastNumber`, `FreeNumber`).
`HandlerInv` follows a handler between `emplace` and `register`, and between
`close` and `unlink`; `MapsInv` says what the two maps hold while the application
has one of them, and `ClosedInv` that closed channels are inactive.

**EventLoops.**  A loop has functors of its own only while it calls them, and no
other loop is given any (`FunctorInv`); without that the next ones it takes would
overwrite them.  `SocketInv`: each report of the listening socket has a
connection that waits, so `Accept` takes the head of a queue that is not empty.
`EventInv`: a loop has a batch only inside its for_each (`BatchIsDone`), only what
was sent is reported, and nothing is known of a connection before it is registered
(`UnknownBefore`); then `EventAccounting` survives every step.  Being accounted for
is not being handled: the latter needs fairness, and `RaisedIsHandled` stays with
TLC.  `CloseInv` ties each slave's loop to its task in the pool (`LoopIsTask`) and
gives the order of Shutdown (`StopsFirst`).

**IODevice.**  `Holds(h, t, s, b, e)` says that `s` bytes of the stream, from
position `e` on, stand in buffer `b` from cell `h` to `t`, around the end.
`FilledHolds`: what `ReadData` stores, in one piece or two, continues them;
`HandedOut`: taking some away leaves the rest; `CopiedIsNext`: `Peek` of a ring that
is not full shows them.  `FifoInv` is `Holds` for the ring, as long as the head was
not moved and `ReadData` did not fail.

**GlobalInstance.**  Who is between lock and unlock is the holder of the mutex,
and what was built is stored or carried by the holder (`GetInv`).

**File.**  `SleepInv`: `_writing` is seen by others, and a reader sleeps, only when
the stream has failed; then no write succeeds, and only one that does notifies.
That nobody is ever woken is stated by the proof alone, as a run could only repeat
it.

**LogFile.**  `Follows`: the counter bounds what was written since the last
opening, and each earlier opening left one portion at most, the limit and a message
(`CounterFollows`); a file opened once has all that was counted, and one that was
left is longer than the limit (`LeftWhenLong`).  `Accounted`: the sum of the files
and the buffer is at most what was logged, and short of it by less than a buffer for
each silent failure; writing makes both grow alike and emptying leaves the sum
(`WholeGrows`, `EmptiedWhole`), and a flush or close costs what was buffered at most
(`ClosedAccounted`).  `AccountInv` adds that nothing is buffered in a sink that was
let go, so that the files alone account for it.  The sum of a function over a
finite set is recursive; that the recursion has exactly one solution, whatever
order the elements are chosen in, is shown by a smallest counterexample
(`SmallestSet`, `SumsAgree`, `SumsExist`, `AnyOrder`), and `SumChanges` is the law
the rest uses.

**Descriptors.**  The proof looks at the holders only through `Numbers`, what each
would close, and `meant`.  A file is open under one number (`OneNumberEach`), and a
holder's number is true unless the holder was undercut (`True`).  As long as nothing
was handed on, no two holders mean one file (`OneEach`), so nobody can be undercut;
as long as each number went to one socket at most and the server closed none of
them, only an accepted number and its socket do (`OneSocketEach`), so that only the
server can be.  Every step does one of four things, each with its lemma: a holder
gets a free number with a new file (`OpenTrue`), is left without one
(`NobodyTrue`), closes (`CloseTrue`), or a socket takes over what another holder has
(`TakeTrue`).  That there is a lowest free number follows from the
well-foundedness of the subsets of a finite set (`GivenIsFree`).

Only model-checked: all liveness, because TLAPS does not handle ENABLED and hence
neither fairness.  Every invariant the runs check, and both refinements, are
proved.  Of most liveness properties the part that is about states is proved too:

| Liveness, by TLC | What is proved of it |
|---|---|
| `TaskServed` | `WorkConserving`: no wakeup is lost; `EndsOnlyByStartupRace`: nor a worker |
| `ShutdownReturns` (pool) | `NobodySleepsThroughShutdown` |
| `AnnouncedIsWritten` | `SleepsOnlyOnQuiet` |
| `DestructorReturns` | `NotifyAllIsHeard` |
| `DataIsTaken` | `ReadyIsSeen` |
| `QueuedIsWritten` | `NoForgottenData`; `SlaveNeverWrites` for the exception of slaves |
| `CloseIsAnswered` | `CloseIsDue` |
| `RaisedIsHandled` | `EventAccounting` |
| `FunctorIsCalled` | `FunctorsInOrder`, `EventAccounting` |
| `ShutdownReturns` (loops) | `JoinsStoppedLoops` |

`NotifyAllIsHeard`, `CloseIsDue`, `EventAccounting`, `JoinsStoppedLoops`,
`LoopsUseExecutor` and the two theorems that bound the findings are stated in the
proof modules only; TLC found no violation of them on the instances of section 5
before they were proved, and no run repeats that.

## 8. What is not modelled

| Part | Why |
|---|---|
| `ThreadPool::Adjust`, `GetCPUStats` | unreachable (section 9); the guard of `Monitor` is in the model, and `sampled` would show that it opens |
| `Logger::SetLogLevel` | stores a level that nothing reads |
| the text of `LogMessage`, and what `LogStream` makes of values | formatting; the length at which a text is cut is in `LogFile` |
| `SysLog` | copies text to standard output and keeps nothing |
| `NotificationCenter::NotifyResponseReady` | no state of its own: looks the channel up and calls its `NotifyWriteEvent` (`NotificationCenter.h:75`), so its caller is one of the `Senders` of `Channel` |
| `Timer::Reset`, `SetInterval`, the starting constructor | unused in the repository |
| `Bind`, `ReuseAddress`, `DisableNagle`, `Nonblocking` and the like of `TcpServer` and `TcpSocket` | one system call each, no state of the library |
| a `File` that could not be opened | refuses every call |
| what an `ofstream` does with one write longer than its buffer when some of it is already full | of the two orders only the length on the disk matters here |
| failing `epoll_ctl` | reported to the caller, who ignores it; of its causes the descriptor that is closed or in another set is in the model (`ModifyEvent`), a lack of memory or watches is not |
| slaves whose connections close | planned (section 10): in `EventLoops` connections stay open |
| `Address` | a value class |
| `example/`, `benchmark/` | clients; they tell which callers the models have to allow |

## 9. What we learned about the code

### Violated by a run

- **`threadpool_graceful`** (`threadpool/ThreadPool.h:140`).  `Shutdown` stores
  `_stop` before it takes the mutex and marks the workers DEAD.  A worker woken by
  `_stop` in between finds an empty queue and EMPTY instead of DEAD, and calls
  `front()` and `pop()`.  So does one that overwrites DEAD with EMPTY (line 182).
  `doc/ThreadPool.md:19` promises to "Gracefully shut down threads".
- **`threadpool_startup`** (`ThreadPool.h:161`).  The constructor starts a thread
  before it enters it in `_workerStat`; a thread that looks itself up first ends
  at once.  `doc/ThreadPool.md:17`: "Create a fixed number of threads at startup".
- **`notify_barrier`** (`reactor/NotificationCenter.h:112`).  `while (
  !_barrier.exchange(true) )` ends when the barrier was *already* raised.  The
  comment at line 110 says "lock-free, avoiding compietition".  Afterwards an
  update can be lost (data waits unseen) and a thread can spin on leaving;
  `ReadyIsSeen`, `SpinsOnlyAfterOverlap` and `DataIsTaken` show that nothing else
  goes wrong there.
- **`channel_full`** (`reactor/Channel.h:116`).  A `write()` that fails with EAGAIN
  closes the sending direction with data in the buffer.  `doc/Question.md:56`: "you
  may need to try writing again later".
- **`dispatcher_reuse`** (`reactor/Dispatcher.h:212`).  The loop closes a descriptor
  while a pool thread that has tested `_active` is about to use its number.
  `doc/Reactor.md:14`: "invokes the appropriate handler when an event is raised".

### Seen while modelling, in the model but without a run of its own

- The pool never adjusts itself: the timer is started only if `min_core_thread <
  max_thread` (`ThreadPool.h:169`), and under the same condition `Monitor` returns
  at once (`:223`).  `doc/ThreadPool.md:55` advises to "Adjust the number of threads
  based on workload".
- `ThreadPool::Shutdown` drops what is queued, where the example in
  `doc/ThreadPool.md:119` runs it first; a task enqueued after `Shutdown` is never
  run.  `TaskServed` excludes both.
- Between `RegisterFd` and `try_emplace` (`Dispatcher.h:89`–`91`) a slave's loop can
  receive an event, find no handler and drop it (`DropEvent`).  `RaisedIsHandled`
  therefore speaks of handlers that are in the map.
- `Dispatcher::Shutdown` with slaves joins pool threads that sleep in `epoll_wait`
  on a closed descriptor (`Stuck`), and otherwise may destroy slaves that the master
  still uses (`UseDestroyed`).
- `AddPendingFunctor` goes to `DispatchToSlave` when slaves are enabled, and that
  divides by their number (`Dispatcher.h:201`, `253`): zero after `Shutdown` cleared
  them, and from the start with `EnableSlave(true)` and none added, as in
  `example/ReactorExample.cpp:76` (`NoFunctorSlot`, `DivideByZero`).
- A loop looks in its `_handlers` without a mutex (`Dispatcher.h:58`), while the
  master inserts into a slave's and `Shutdown` clears it (`HandlersRace`).
- The channel of a connection that a slave watches has the master's Demultiplexer
  (`Dispatcher.h:233`): `ModifyEvent` fails with ENOENT, and what `NotifyWriteEvent`
  was given stays in `_sendingBuf` (`SlaveNeverWrites`).
- `GetReceivedData` and the receive callback hand out 128 bytes at most: `Read`
  stores beyond `_receivedBuf.size()`, which never changes, `substr` stops there and
  the count is zeroed (`Channel.h:68`, `160`).  The same size is all `reserve` has to
  copy when the buffer grows.  `DataIsTaken` names what lay behind as its exception.
- A pending functor is called only after an event that finds its handler;
  `epoll_wait` has no timeout.  `FunctorIsCalled` says what is left.
- As many slaves as pool threads leave no thread for `HandleEvent`
  (`NumSlaves < NumWorkers` in `RaisedIsHandled`).
- `RemoveHandler` leaves the descriptor open and armed.
- One `accept()` per edge of the listening socket: of two connections that arrive
  together the second waits for a third.
- An `accept()` that fails consumes the edge, too, and its -1 is registered and
  entered in `_allChannel` (`AcceptFails`).
- `Read` takes ECONNRESET for "no more data now" and notifies; the channel is
  declared dead by a later `read()` (`Channel.h:74`–`80`).
- A full ring of IODevice has `_tail = _head`, and `Peek` copies nothing; `Read`
  copies nothing from a sequential device; `Skip` and `Seek` leave `_size` alone;
  the -1 of `ReadData` is added to unsigned members.  `ReadDeliversNext` names all
  four.  After a -1 the size of a sequential device's ring can never be used up:
  a TcpSocket whose `read()` failed once may not read again.
- `File::write` that fails leaves `_writing` set and the stream failed, nothing
  clears either, and readers wait for ever (`ReadersSleepForEver`).  Reading past
  the end fails the stream as well.  The open mode is never consulted; a write
  without an offset goes where the position was left.
- `LogFile` tests the limit before it writes, so a file is longer by up to one
  message (`FilesFollowLimit`).  File names have a resolution of a second and may
  lose the time altogether (60 bytes, and no NUL at their end): the same file is
  then opened again, for appending, so what it has stays.  A disk that fails in the
  flush or close of a rotation, or of `~LogFile`, is noticed by nobody (`hushed`);
  `OnlyBuffersAreLost` says that this costs one buffer each time.
- A FATAL message is on the disk only because `_dest_vec.clear()` destroys the
  sink before `abort()`; not if somebody else holds the sink, or the last flush fails
  (`Losses`).
- The text of a message that fills the buffer loses its newline, for which
  `LogStream.h:13` reserves room (`TextLen`).
- `TcpServer` keeps every accepted number, whatever `AutoSaveAcceptedFD` said,
  which only decides whether `Shutdown` closes them.  `Init` takes -1 for a
  descriptor and 0 for an error; so does `Demultiplexer::Valid` (`ServerInit`,
  `EpollInit`).
- Copies of a TcpSocket, and a TcpSocket made from a number of `GetAllClient`,
  close one number twice; `~TcpSocket` closes nothing; `Demultiplexer::Shutdown`
  keeps the number, and the destructor closes it again.  `NumbersAreTrue` says
  that nothing else makes a number mean something else.

### Only read

- `DispatchToSlave` always chooses the first slave; `_allChannel` is static but its
  mutex is a member of each dispatcher.
- `ThreadPoolConfig::monitor_period` is in microseconds by its comment
  (`ThreadPool.h:29`) and used in milliseconds (`Timer.h:39`).
- The limit of a log file is in kilobytes by the comment in `LogFile.h:29` and the
  parameter `maxkb` (`Logging.h:188`), and compared with bytes (`LogFile.h:89`).
- The handler `SetLogFileBaseName` stores (`LogFile.h:100`) is never called.
- `File::Close` takes no mutex and leaves `_access` as it is.
- `~Channel` clears `_active` first, so that its own shutdowns do nothing.

## 10. Plan

Done: all modules of section 2 and the theorems of section 7.

Left, in this order:

1. Slaves whose connections close: the descriptor numbers of `Dispatcher` with the
   several loops of `EventLoops`.
2. `TcpSocket` as the subclass of `IODevice` in one model, with the failures of
   `read()` that end in its ring.
