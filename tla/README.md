# A TLA+ verification of libeventdisp

libeventdisp is a small C++ event dispatching library (`lib/`) and a web server
built on it (`webserver/`). This directory holds TLA+ models of the parts that
carry its logic, TLC runs that check them on small instances, and TLAPS proofs
of the most important properties for every size.

## 1. Inventory

### Components

| component | source | state | operations |
|---|---|---|---|
| EventDispatcher | `lib/event_dispatcher.cc` | task queue, per-group counters, `isExecuting_`, `isStopped_`, `isDying_`, three mutexes, a condition variable, one loop thread | constructor, destructor, `enqueueTask`, `stop`, `resume`, `busy`, `pendingTasks`, the event loop |
| MPEventDispatcher | `lib/mp_event_dispatcher.cc` | a vector of EventDispatchers; group table and round-robin token, or a hash | constructor, destructor, `enqueueTask`, `busy` (`stop` and `resume` are empty) |
| Dispatcher | `lib/dispatcher.cc` | the chosen dispatcher | `init`, `enqueue`: a forwarding facade |
| DelayedTask | `lib/delayed_task.cc` | task, POSIX timer, `hasCompleted_`, a mutex | constructor, destructor, `resetTimer`, `timeoutHandler` on a timer thread |
| AIO wrapper | `lib/aio_wrapper.cc` | one control block and one callback per operation | `aio_read`, `aio_write`, completion by polling tasks or by a signal handler |
| locks | `lib/inc/lock.h` | recursive mutexes, condition variables, a semaphore that may start below zero | `lock`, `unlock`, `wait`, `timedWait`, `signal`, `up`, `down` |
| threads | `lib/thread.cc` | - | start a thread |
| FastFIFO | `webserver/fast_fifo.h` | doubly linked list with a sentinel | `push`, `pop`, `removeNode`, destructor |
| Cache | `webserver/cache.cc` | map of entries (data, size, reference count, reservation, waiting callbacks), free list, size | `put`, `get`, `reserve`, `cancelReservation`, `doneWith`, destructor |
| HTTP server | `webserver/svr_http.cc` | per connection: request packages with their buffers, state, locks | parse, cache look-up, disk read, body write, close |
| TCP server | `webserver/svr_tcp_ip.cc` | listener, connection pool | listen, accept, create and close a connection |
| websvrd | `webserver/websvrd.cc` | - | start-up and the accept loop |

### How they interact

Everything is a `UnitTask` in a *group*. Tasks of one group run one at a time in
the order in which they were enqueued; groups may run on different dispatchers.
The web server uses this instead of locks: the cache is only called from tasks of
the group `CacheTaskID`, sockets are read and polled by tasks of the group
`ReadTaskID`, and so on. A request goes socket -> parser -> cache task -> (on a
miss) `reserve` and an asynchronous disk read -> the I/O callback enqueues a cache
task that calls `put` or `cancelReservation` -> these call the callbacks queued in
the slot -> each enqueues a write. The AIO wrapper polls by re-enqueueing its own
task, or enqueues from a signal handler, which runs on top of whatever call of the
dispatcher its thread is in. A `DelayedTask` enqueues from a thread
that the C library starts when a timer expires.

### What is hard, and which properties matter

* **EventDispatcher.** `isStopped_` and `isDying_` are read outside the mutex that
  guards their writes; a task is executed with the queue unlocked while it is still
  the queue's front; the destructor joins a loop that nobody wakes; queue and
  counters have different mutexes. It must run every accepted task once, in order,
  leave none behind, free each task once, and end its destructor.
* **MPEventDispatcher.** Routing races between threads, a `busy` that is a scan, a
  destructor that removes dispatchers while others still run tasks. Tasks of a group
  must never overlap or overtake each other.
* **DelayedTask.** Several timer threads, resets and the destructor race for one
  task: it must be handed over or deleted exactly once.
* **FastFIFO.** A wrong link after a removal shows many operations later.
* **Cache.** References, reservations, waiting callbacks and the quota are four
  views of one set of entries that must stay in agreement over long call sequences.
* **Signal handler and dispatcher.** A handler that calls `enqueueTask` takes the
  dispatcher's mutexes on a thread that may already hold one of them: deadlock, lost
  wake-ups and containers modified under a call of the same thread.
* **Semaphore.** Woken threads are overtaken and signals without a sleeper are lost:
  `down` must neither return early nor sleep beside a unit it could take.
* **AIO, HTTP server.** Exactly one completion per operation; one thread of control
  per connection without a lock; two sides of a connection that close it; requests of
  several connections that wait for one read.

`PROJECT.json` lists each hazard at its line with the property that covers it.

## 2. Modules

| module | models |
|---|---|
| `TaskExecutor` | what a dispatcher promises: an abstract serial executor, stated from the interface documentation |
| `EventDispatcher` | `lib/event_dispatcher.cc` with its threads and locks; implements `TaskExecutor` |
| `EventDispatcherProofs` | TLAPS proofs about it |
| `MPEventDispatcher`, `MPEventDispatcherProofs` | `lib/mp_event_dispatcher.cc` over dispatchers at the level proved for `EventDispatcher`, and proofs |
| `DelayedTask`, `DelayedTaskProofs` | `lib/delayed_task.cc` with timer threads, and proofs |
| `AIOWrapper`, `AIOWrapperProofs` | `lib/aio_wrapper.cc`, polling and signal build, and proofs |
| `DispatcherSignals`, `DispatcherSignalsProofs` | `EventDispatcher` composed with the SIGIO handler `aio_done` that interrupts its threads, and proofs |
| `Semaphore` | `base::Semaphore` of `lib/inc/lock.h`; proofs in `DispatcherSignalsProofs` |
| `FastFIFO` | `webserver/fast_fifo.h`; proofs in `CacheProofs` |
| `Cache`, `CacheProofs` | `webserver/cache.cc`, and proofs |
| `HttpServer` | `webserver/svr_http.cc`, `webserver/svr_tcp_ip.cc` and `webserver/websvrd.cc`, over the cache and the AIO wrapper; implements `HttpSession` |
| `HttpServerLemmas`, `HttpServerProofs` | the inductive invariant of `HttpServer` with lemmas on the parts of its handlers, and the theorems, the refinement of `HttpSession` among them |
| `HttpSession` | what a client sees of its connection: an abstract session |
| `MC*` | constants for TLC |

Operators whose comment begins with "Mutant:" are deliberately wrong variants of the
definition that follows them; no specification uses them. Replacing the definition
by its variant makes TLC violate the property that `PROJECT.json` names, which shows
that the property depends on that piece of code.

### EventDispatcher

A step is what one thread does between two points at which another could observe or
change something it uses. `queueMutex` is the owner of `queueMutex_`; `ScopedLock`
and the release inside `timedWait` set it. The critical sections of
`taskCountMutex_` contain a single access, so each is part of one step; but pushing
and counting are different steps, as `pendingTasks` may run between them.
`isStopped_` and `isDying_` are read without a lock, so every read is a step and so
is each of the two writes of the destructor. The model takes these stores to become
visible in program order, which the x86 hardware the library targets gives and the
compiler keeps across the calls around them; C++98 itself promises nothing here.

`EnqueueLock ... EnqueueCount` are `enqueueTask` (lines 37-64), with one action per
branch: accept, refuse (deletes the task) and NULL. `Stop`, `Resume`,
`DtorSetStopped`, `DtorSetDying`, `DtorJoin` are lines 26-35 and 66-76.
`LoopLock ... LoopDelete` are `eventLoop` (83-153). Calls come from any client
thread and, while a task executes, from the loop thread itself; clients own the tasks
they have not yet handed over. `heap` and `outcome` are history: memory and fate of
each task. There is no bound other than the sets `Tasks` and `Callers`.

### MPEventDispatcher

Both builds are in one module: `useHashing` is chosen in `Init`. `Route` is the
critical section that assigns a group, `Forward` the call of the chosen dispatcher's
`enqueueTask`, a separate step because no lock covers both. Each dispatcher is an
atomic queue with a mode, except where the difference matters: a task is popped
after it has ended (`LoopEnd`, `LoopPop`), and its destructor stops, kills and joins
it. Clients follow the documented assumption that nobody calls from outside while
`busy` or the destructor runs; tasks do call. A task of a later dispatcher may do so
when the destructor has already deleted the one its argument belongs to: `enqueueTask`
then uses freed memory (line 56 after line 26). `Forward` records that in `badAccess`
and loses the task; what the code does from there is undefined, and
`GroupsAreSequential` and `DestructionSettlesTasks` promise nothing for such a run.

### DelayedTask

The constructor is `Init`. Each expiry (`Expire`, external: the timer has no interval,
so it expires once per arming) starts a thread of its own that runs `timeoutHandler`.
`resetTimer` takes no lock and asserts that `timer_settime` succeeds. It and the
constructor pass any delay on: `SetTime` says that a positive one arms the timer and
that zero disarms it, so that the task waits until a further reset, or for good. A
handler that reaches the object after its destruction uses freed memory; that is
recorded in `badAccess`, and the properties promise nothing for such a run.
`MaxResets` bounds the resets; the number of handler threads is one more.

### AIOWrapper

Both builds are in one module (`signalBuild`). `stage` says how far the code has come
with an operation, `kernel` how far the system has. The thread that starts an
operation, the loop of its group, the signal handler and the system interleave between
the system call, each check, the notification and the deletes. The dispatcher is a
serial queue per group, external; system and signals are external too: while a SIGIO is
pending a further one is discarded, which is what POSIX and Linux do with a standard
signal. `aioDone`, for SIGEV_THREAD, is not used by the code and is left out.

### DispatcherSignals

In the LIBEVENT_USE_SIG build `aio_done` calls `enqueueTask` in the middle of whatever
the thread that takes the signal is doing. A thread is therefore a stack of calls, and
each mutex has an owner and a depth: `Mutex` asks for recursive mutexes, so the handler
enters a section that the call below it is in. (The attribute object is not initialised
before its type is set; the model takes the type that the code asks for.) Both mutexes
of the dispatcher are taken one by one, because here their order matters, and
`pendingTasks` holds `taskCountMutex_` while it walks the map. If the handler modifies
the queue or the map while a call below it on the same stack is inside the same
container, `corrupted` ends the behaviour. The handler itself runs with SIGIO blocked.
Flags and destruction are left out: the `Dispatcher` singleton is neither stopped nor
destroyed. A task, and a thread outside, may call `enqueueTask` and `pendingTasks`
(through `getSize`, which the web server's measuring code calls in every handler).

### Semaphore

All of `up`, and all of `down` between two waits, runs with the mutex held, so each is
one step. A sleeper that is signalled, or wakes without a signal, is in `woken` until
it has the mutex back; meanwhile another caller of `down` may take the unit. `MaxUps`
bounds the calls of `up` and keeps the value below the overflow that the code's comment
warns of.

### FastFIFO

`before` and `next` are functions on addresses; freed addresses keep their links and
may be reused, so a dangling link would be noticed. `queue` is the reference: the
sequence that a textbook queue would hold after the same calls. The sentinel is none
of the nodes: the destructor (lines 90-93) pops every node and leaves it allocated.

### Cache

All operations run in tasks of one group, so each is one step, including the
callbacks it calls. There is one action per outcome of each operation. A key is a
model value and a buffer is a size. `currentSize_` wraps at `SizeMod`. `holds` counts
the references clients have been given and have not returned. Clients behave as
`svr_http.cc` and the unit tests do: `doneWith` is called for a reference that is
held and not for a slot that is still reserved. In addition they may reserve an
occupied key (`reserveOccupied`), at most `MaxMisuses` times per instance; from then
on they may also return references to reserved slots. `cache.h:175` documents that
call as failing, `cache.cc:149-152` lets it succeed: the entry keeps its place in the
free list and the pointers of deleted callbacks in its queue, which the next `put` or
`cancelReservation` calls. `broken` records that, a failed assertion of `cleanup`, and a
free list left with an entry that `cleanup` erased; nothing is followed after it.
`FreeListIsUnreferenced`, `CallbacksCalledOnce` and `WaiterIsAnswered` name the call as
their exception (`ProperUse`), `ReferencesProtectEntries` only what comes after
`broken`. `MaxRefs` bounds the references of an entry that `get` hands out. Callbacks
do not call the cache.

### HttpServer

A connection is a root package that reads and a list of GET packages, its children,
which are answered one after the other before the root reads again. The handlers of
`svr_http.cc` call each other, so each is an operator from state to state with the
name of its function, and calls compose as in the code; an action takes one pending
callback, chooses what the system answers, and applies the operator. `pending` holds
the tasks of the dispatcher and the operations of the AIO wrapper, the latter under the
name of their success callback; any of them may be next, which covers every order of
completions and more orders of tasks than the queue allows. What `AIOWrapper` shows is
assumed: every operation calls one of its two callbacks once. Every operation may fail,
`open` and `close` too, and a write may be short: the rest of a block is written later,
the rest of a header never (`svr_http_header_to_body_aio` ignores `nbytes`; `hsent`
records what was sent). A failed assertion, or a branch whose
behaviour is undefined, sets `abort` and ends the program.

`svr_start` (in `Next`) listens and then accepts for ever; listening, `accept` and
`setsockopt` may fail. A package remembers the block it read last (`cbody`) and whether
`cached` says that the cache owns it: its destructor (`Delete`) frees the block
otherwise, and a block that is freed while the cache holds it sets `abort`.

`HttpSession` states what one connection promises its client: GETs are answered in the
order in which they were sent, one at a time; a response is a header and then the blocks
of the file, each byte once and in order, or a 404 or 400; the header gets one write,
which may send a part of it (that a 404 or 400 may be cut as well shows in the code,
not in the session, where the answer and its end are one event); the body may be cut
short only by an error or by a block whose read has failed; and after an error nothing
more is sent.
`SessionOf` computes the session of a connection from its packages, and
`ImplementsSession` says that every connection behaves like one at every step of the
server, whatever the other connections do to the packages and slots they share.

*Keys.* The keys of the cache are texts: the uri cut to 255 characters for a header
(`svr_http.cc:484`), `uri#offset` cut to 255 for a block (line 772), in one map. Two keys
may therefore be the same text: `/f#0` is the header of the file `/f#0` and the first
block of `/f`, and a uri of 255 or more characters leaves no room for `#offset`, so
that all its keys are equal. `Key` is the text of a key, represented by one of the pairs
of a uri and an offset that have this text. `Aliases` is a set of uris with such keys, so
large that the keys of all other uris differ: every too long uri, and of `/f` and `/f#0`
one is enough. `KeyText` chooses the representative for their keys, and every other pair
stands for itself. What follows from equal keys is then what the handlers do
with them: after a failed read of the first block of the directory `/.` a request for
`/.#0` is given the NULL of the cancelled slot and `svr_http_header_wio` reads it (lines
427-428, `abort = "null"`); the 404 for `/f#0` is sent as the first bytes of `/f`; a
block is taken for a header (`BlockStatus` is what stands at byte 9 of it); and a long
uri of an existing file is answered with its header again and again. `aliased` records
that a uri of `Aliases` was asked for. `OnlyBadRequestsFailAssertions`,
`BlockReferencesAreWriters` and `ImplementsSession` name it as their exception, without
which TLC finds them violated within the bounds of the run `http`. `RequestEnds` names it
for the long uris: with one, the bytes sent pass the size of the file and every bound.
`OneThingAtATime` and `ClosingConnectionCloses` do not name it.

The cache is kept at the level of what the server can tell apart. The server fills
slots only after reserving them, so `currentSize_` stays 0 and `cleanup` never runs:
entries are never evicted, and the free list needs no model. The reserver's own
reference and those to headers that were written are never returned, so the entries of
the server are in fact never free.

Addresses are the lowest free numbers. Requests are abstracted to the GETs that a read
contains: for a file, or bad (no URI, no version or an unknown one). `MaxPipeline` and
`MaxGets` bound what clients send. `svr_conn_accept` waits while more than `MaxACCEPT`
connections exist. With `NDISPATCHER` above 1 reads run on another thread than the
cache tasks; they touch only their own connection, so a handler is one step either way.

## 3. Runs

| run | bounds | what it shows |
|---|---|---|
| `dispatcher` | 2 clients, loop, 3 tasks, 2 groups | all safety properties, the refinement of `TaskExecutor`, every accepted task settles, the destructor ends |
| `mp` | 2 dispatchers, 2 clients, 3 tasks, 2 groups, both builds | groups run serially and in order; `busy` is right when tasks do not spread; destruction settles everything and ends unless a task calls a deleted dispatcher |
| `delayed` | 3 resets, 4 timer threads, delays of zero or more | the task is settled exactly once, and eventually unless a zero delay stops the timer before it expires; an assertion in `resetTimer` fails only after the hand-over |
| `aio` | 2 operations of one group, every kind of callback, both builds | the blocks outlive every use, each operation is reported exactly once, and is reported once it has ended unless its signal was merged with another |
| `fifo` | 5 nodes, symmetric | links spell the queue; no node is leaked |
| `cache` | 2 keys, 2 callbacks, sizes 1 and 3, quota 1, 2 references, 1 reservation of an occupied key, 3-bit `size_t` | references protect entries until the program breaks; without that reservation the free list is exact and each callback is called once and eventually; the quota holds until a reserved slot is filled |
| `http` | 2 connections, 2 GETs; a file of one full block of 2 bytes, an empty file whose header key is that of the block, headers of 2 bytes, short writes | each connection waits for exactly one thing and nothing deleted is used; connections that met an error close; and until the second file is asked for block references are exact, no block is freed under the cache, one assertion can fail, and only for a bad request, every connection is a session of `HttpSession`, and every GET ends |
| `semaphore` | 4 threads, initial value -1, 6 calls of `up` | no unit lies unused while everybody sleeps; `down` returns only when calls of `up` cover it; callers of `down` are served while there are units |
| `signals` | 2 clients, loop, 2 completions, 1 other task | threads deadlock only if the handler interrupted `pendingTasks`; a completion whose signal was taken is executed unless threads deadlock or a container is corrupted |

Why the bounds are enough to be interesting. Three tasks let one run, one be queued
and one be in the middle of an enqueue when `stop`, `resume` or the destructor acts,
and let a task enqueue another; two clients compete with each other and with the loop
for the mutex; two groups, one with two tasks, let the counters be wrong in one group
and right in another. Two dispatchers are the least for which routing, scanning and
partial destruction differ. Two operations of one group are enough for one to be polled
for ever while the other ends, and for two signals to meet. Five nodes cover removal at the head, at the end, in the
middle, next to either end, and reuse. In `cache` the sums of
sizes lie below (nothing), at and above the quota, so that cleanup stops early or runs out of
entries, and an object that was never counted can be larger than the whole count, so
that `currentSize_` wraps around. In `http` the two GETs come pipelined, one after the
other, or on both connections for the same block, with one waiting for the other's
read; the file is a full block and the empty block at its end, or more if writes are
short, so a later block can fail after an earlier one was sent; headers and blocks of
two bytes are cut by a short write. The second file has the key of a block before, while
and after that block is read, filled or cancelled. A uri too long for its offsets is in
reach of the definitions but of no run: its request never ends, and `tr_offset` grows
without bound. In `semaphore` two
threads can sleep while a third is woken and a fourth overtakes it, and the value goes
from below zero to above one. In `signals` a completion can interrupt a client in
`enqueueTask` or `pendingTasks` or the loop anywhere, while a second client and the loop
contend for both mutexes, and a second completion can be merged with the first.

Three runs state what the documentation, or an assertion, says and show that the code does otherwise:

| run | documented | shown |
|---|---|---|
| `aio_signal` | a callback is called when the I/O was performed | two operations end before the first SIGIO is taken: the second is never reported |
| `cache_quota` | the quota is the maximum size of the data | data put into a reserved slot is never added to `currentSize_` but is subtracted by `cleanup` |
| `http_assert` | `assert(pk->headkey.p != NULL)` in `svr_http_final_aio` | the write of a 400 response fails, and the server ends |

More disagreements have no run of their own:

* `event_dispatcher.cc:12-14` prescribes the order `queueMutex_`, `taskCountMutex_`. The
  handler `aio_done` takes `queueMutex_` on a thread that it may have interrupted in
  `pendingTasks`, with `taskCountMutex_` held. This is the one case in which threads
  deadlock (`DeadlockNeedsPendingTasks`), and TLC does reach it, as it reaches a queue
  that is modified under a `push` of the same thread.
* `enqueueTask` returns true on every path, also when it has deleted the task;
  `event_dispatcher.h:40-42` lists a stopped and a dying dispatcher as failure cases.
* `~DelayedTask` "also cancels the future task if not yet performed"
  (`delayed_task.h:42`), but leaves a task that the handler has enqueued, and a timer
  thread that has not reached the mutex uses the destroyed object (`HandlerTooLate`).
* `svr_start` tests for a failed listen by `< 0`, which no `ErrConn` is.
* `busy` of `MPEventDispatcher` may return false although a job is pending, when a
  running task enqueues into a dispatcher that was already scanned (the exception in
  `FalseMeansNoPendingJobsIfNoSpread`).
* `Cache::reserve` succeeds on an occupied key (`cache.cc:149-152`) although
  `cache.h:175` lists that case as failing, and the next `put` or `cancelReservation`
  calls callbacks that were deleted. The run `cache` contains these states; they are why
  `CallbacksCalledOnce` needs its exception, without which TLC finds such a call.
* Keys of headers and blocks collide (see *Keys* above), with the reading of NULL at
  `svr_http.cc:428`, wrong bodies and requests without end as consequences.
* The rest of a header that was written in part is never sent.
* A delay of zero disarms the timer of a `DelayedTask` instead of performing the task at
  once.
* `~FastFIFO` never deletes its sentinel.
* After a failed read of a block the cancelled slot stays in the cache without data, so
  that the response of every other connection that waits for it, and every later
  response, ends there with the connection left open (`HttpSession` allows it by name).

### Fairness

Fairness says that threads run and nothing more: nobody is obliged to enqueue, stop,
resume, reset or destroy.

* `EventDispatcher`: weak fairness of the loop, of each call in progress and of a
  started destructor; `LoopTimeout` is part of the loop, because `timedWait` returns
  after `WAIT_TIMEOUT`. Strong fairness of the loop's mutex acquisitions (clients may
  take and release it in between: the mutex is assumed not to starve a thread for
  ever) and of the end of a task (a task terminates, however often it enqueues).
* `MPEventDispatcher`: the same at its level.
* `DelayedTask`: an armed timer expires, its thread runs, the dispatcher serves.
* `AIOWrapper`: threads run, a pending signal is taken, the dispatcher serves every
  group. An operation need not end.
* `DispatcherSignals`: threads run, no mutex starves a thread, a pending signal is taken,
  the timed wait times out, and a task ends however often it makes calls.
* `Semaphore`: a woken thread gets the mutex and goes on. Nobody has to call `up`, and
  nobody wakes without a signal.
* `Cache`: the I/O of whoever reserved a slot ends, with data or an error.
* `HttpServer`: every pending callback is called. Reads end because the socket has a
  receive timeout; there is no timeout for writes, so that they end is an assumption on
  clients: they read or go away. Nobody has to connect.

`dispatcher`, `mp`, `delayed`, `aio` and `cache` check deadlock: the only states in which
they stop are the finished ones (`Gone`, `Terminated`), which stutter explicitly. The
web server stops when an assertion fails, or for good when leaked connections fill the
pool, so the `http` runs do not check deadlock; nor does `signals`, whose threads may
really deadlock. In both the safety and liveness properties say when that may happen.

## 4. Proofs

`EventDispatcherProofs` proves, for any sets of tasks, groups and clients, the safety
properties of the `dispatcher` run and the refinement `SafetySpec => Executor!Spec`.
The assumptions are those of the module: every task has a group, the loop is not a
client, and the two "nothing" values are not threads or tasks.

None of the properties is inductive. The invariant has three layers, each proved with
the help of those before it:

1. `CoreInv` ties control to the lock and the flags: whoever is inside a critical
   section owns `queueMutex`, `isDying` implies `isStopped`, the loop's location
   determines `isExecuting` and `nextTask`, and `NoTaskStranded`. The argument for the
   last one is the heart of the matter: a caller past the test of `isStopped` owns the
   mutex, so the loop cannot be in its final test; when the loop is, `isStopped` has
   been set for good, since `resume` has no effect on a dying dispatcher.
2. `DataInv` ties the queue to memory and to the fate of the tasks: the running task
   is the head from `front` to `pop`; queued tasks are distinct, live and accepted; a
   task is in the hands of a client, a call, the queue or the loop, or freed; and
   `NoLostWakeup`.
3. `CountInv` says that each counter is the number of counted tasks of its group,
   where the one task between its push and its count, or its pop and its count, is
   accounted for. `CountsMatchQueue` follows with facts on finite cardinalities.

The refinement maps `pending` to the queue without a task that is running or was
skipped and with the task that has passed the test but is not yet pushed; the
linearisation point of `enqueueTask` is the test of `isStopped_`. Every step of the
dispatcher is a step of the executor or leaves the mapped variables unchanged.

`DelayedTaskProofs` proves `TypeOK` and `SettledOnce` for any number of timer threads
and resets with any delays, the second until a timer thread enters the destroyed object
(an exception for the code's sake: in the model such a thread does nothing more). `LockInv`
says that `mutex_` is held by exactly the thread inside its
critical section; `PhaseInv` what task, timer and `hasCompleted_` may be at each
location: they agree except between the settling of the task and the write of
`hasCompleted_`, by the owner of the mutex. `FateInv` counts the deletions of the timer
and ties a deleted task to the end of the object, which is why the assertion of the
unlocked `resetTimer` can fail only after the hand-over.

`MPEventDispatcherProofs` proves `TypeOK`, `GroupsAreSequential` and
`FalseMeansNoPendingJobsIfNoSpread` for any number of dispatchers, clients, groups and
tasks and for both builds. The heart is that a group has one home (`RouteInv`): the
hash of the group, or its entry in the table, which `Route` writes once under the mutex.
A call that has routed but not yet forwarded its task, and every queued task, agree with
it, so two dispatchers never execute tasks of one group. `LoopInv` keeps what a loop
executes at the front of its queue and `TaskInv` has a task forwarded once. `OrderInv`
gives the order: what has begun of a group is a prefix of what has arrived; the home's
queue holds tasks in the order of arrival, those not begun among them; and none that has
not begun is missing, unless the home is dying and discards. The last part is what makes
`LoopBegin` take the next one, not a later one. `BusyInv` says that an accepted task is
in some queue, and that the queues which the scan of `busy` has passed stay empty unless
a task of another dispatcher fills one. A call on a deleted dispatcher is outside what
`GroupsAreSequential` claims, because the code is undefined there.

`AIOWrapperProofs` proves `TypeOK`, `BlocksOutliveOperation` and `ReportedExactlyOnce`
for any number of operations and groups, any callbacks and both builds. `StageInv` says
how far the system is at each stage of the code, so that nothing that frees the blocks
runs while the operation is in progress; `SignalInv` ties a pending signal to an
operation that still waits for it; `CheckInv` allows one queued check per operation, and
only while its stage is "queued"; `NotifyInv` counts a notification as queued or called,
never both, from the moment the blocks are about to be freed and not before.

`CacheProofs` proves `TypeOK`, `ReferencesProtectEntries`, `FreeListIsUnreferenced` and
`CallbacksCalledOnce` for any keys, callbacks, sizes, quota and width of `size_t`. The
invariant has two layers. `Intact` holds until the program breaks, whatever is reserved:
the counters are exact, the free list leads only to entries that exist, and a callback is
not called twice. `Proper` holds as long as no occupied key was reserved: a reserved slot
is referenced, so `cleanup` never meets one; the free list is exact; and the queues of the
reserved slots are disjoint, without repetition, and together are the waiting callbacks,
none of which has been called. It is what shows that the program is not broken: `put`
and `cancelReservation` meet no pointer of a deleted callback, because a slot is reserved
only when its entry is created. `cleanup` needs more than its
step: it removes as many entries as bring `currentSize_` under the quota, which the
model computes from partial sums along the free list (`SpaceFreed`, `CleanupCount`).
That these exist is an induction, which the module does with sets: a set of naturals
that holds 0 and the successor of each member holds all (`Induction`, from the library's
theorem on minimal elements). With that, `cleanup` removes a prefix of the free list
whatever the sizes are and however the count has wrapped around.

`CacheProofs` also proves `LinksSpellQueue` and `AllocatedAreQueued` of `FastFIFO`, the
cache's free list, for any set of nodes. The invariant is their conjunction with the types; the step is a case split
over the position of the removed node, with the neighbours' links as a lemma.

`DispatcherSignalsProofs` proves `TypeOK` and `DeadlockNeedsPendingTasks` for any number
of clients, completions and tasks. `Shape` bounds the stacks: a thread's own call, at
most one call of a method on it, and at most one handler on top, which is itself not
interrupted as SIGIO is blocked. `LockInv` says that a mutex belongs to the thread whose
calls are in its critical sections, and that its depth is their number, so a recursive
mutex is released exactly when the last of them leaves. `QueueInv` keeps the task that
is executed in the queue. `CountInv` says that the sum of the counters is the length of
the queue but for what the owner of `queueMutex_` has pushed and not counted, or popped
and not uncounted: it keeps the sum from falling below zero, which is part of `TypeOK`.
The deadlock theorem follows from one lemma: a thread that waits for `queueMutex_` while
it owns `taskCountMutex_`, and not `queueMutex_` itself, has a handler on top of a call
that sums the counters (`AgainstPrecedence`). With two mutexes, threads that wait for
each other are two, and one of them waits in this order.

`DispatcherSignalsProofs` also proves `UnitsHaveTakers` and `DownsAreCovered` of
`Semaphore`, for any finite set of threads and any initial value. The invariant adds to the first that the value is the
initial one plus the calls of `up` minus those of `down`, and that it is not negative
once a `down` has returned. The step for `up` uses that the signal moves a sleeper to
`woken` whenever there is one, so both sides of `UnitsHaveTakers` grow together; a
caller of `down` that overtakes lowers the value, and a woken thread that finds nothing
goes back to sleep only at a value of zero or less.

`HttpServerLemmas` and `HttpServerProofs` prove `TypeOK`, `OneThingAtATime`,
`BlockReferencesAreWriters` and `OnlyBadRequestsFailAssertions`, for any files, block
sizes and bounds on connections, requests and pipelining, until a uri of `Aliases` is
asked for: the invariant is `aliased \/ Sound`, and nothing is assumed of `KeyText`. The
proof needs that the packages' uris are then no aliases, so that `HeadKey` and `BodyKey`
are pairs and differ. With `Aliases` containing every uri whose keys meet those of others
or each other, that says what holds for the texts of the code. None of the properties is
inductive:
that a handler may be called at all depends on everything the package's earlier
callbacks have done. As handlers call each other, the invariant is a predicate
`Good(s, R)` of a state and of the set `R` of packages that a handler is working for and
that wait for nothing at the moment; between steps `R` is empty. A lemma on a handler
says: from a state that is good for `R` with the package in `R`, the handler leads to
one that is good for `R` without it. Lemmas then compose as the calls do. Its parts:

* `Linked`: a connection has one root, the children of a root are one list in the order
  of their addresses, links never leave the connection.
* `Waiting`: a package outside `R` is waited for by exactly one pending callback or
  queued callback of a slot, if it is its turn, and by none if it is not; this is where
  two callbacks for one package, or none, would show.
* `Phases`: what the fields of a package are while a given callback is pending.
* `Slots`, `Blocks`, `Counts`: a reserved slot has one reader, its queue holds packages
  without repetition that wait for it; an entry that is not reserved counts the packages
  that write from it; a block in use is owned by the cache or by the package.
* `Sizes`: a connection has at most `MaxPipeline` children, and the pool at most
  `MaxACCEPT + 1` connections, so `new` always finds a free address of the model.

`put` and `cancelReservation` call the callbacks of a queue of any length in one step.
The proof is an induction over the queue, done with sets as in `CacheProofs`: the state
after `i` callbacks is good for the packages of the rest of the queue. Along any handler
`abort` may become nothing but the failed assertion on `headkey`, which the run
`http_assert` exhibits, and only for a bad request.

`SessionsImplemented` is the refinement `SafetySpec => ImplementsSession`. The proof
follows what the client of a connection sees, its `View`: the requests of the children in
the order of their addresses, and the status, the bytes of header and body that were sent
and the error flag of the first of them. `SessionIsView` shows that this is `SessionOf`, which sorts the children.
Each lemma on a handler says, beside what it keeps of the invariant, how it leads on
(`Leads`): it goes on with the package on turn, after at most one visible change (the
status, the part of the header that was sent, or some bytes of the body), or it ends the package with `svr_http_final` at a state where the
response is over (`Over`): complete, or on a broken connection, or of a file with a
cancelled block. `LeadsServes` turns that into one step of the session of that connection
and none of the others (`Serves`). One handler moves several sessions at once: a failed
read of a block ends a response on every connection in the queue of the slot, the reader's
among them (`FinalsServe`, again by induction over the queue, where the packages still to
come are as they were). The invariant is needed for the premises: the queue has
no two packages of one connection, a child whose turn has not come has sent nothing, and
a root that reads has no children left.

Only model-checked:

* Liveness: `AcceptedTaskSettles`, `DestructorEnds`, `DestructionSettlesTasks`,
  `TaskSettles`, `EndedIsReported`, `CompletionRuns`, `DownReturns`, `WaiterIsAnswered`,
  `RequestEnds`, `ClosingConnectionCloses`. Fairness and `ENABLED` are out of the
  prover's reach.
* `QuotaEnforcedWithoutReservations` of `Cache`. It relates the sum of the sizes of a set
  of entries, a fold with an operator as parameter, to partial sums along the free list,
  and it holds only while the sum of all sizes stays below `SizeMod`, as it does in the run.

## 5. Not modelled

* The Dispatcher facade, which forwards to the dispatcher that `init` chose, thread
  creation, and the sample program, a client of the AIO wrapper.
* `RWMutex`, `signalAll`, `svr_conn_connect` and `aioDone`: nothing calls them. `svr_stop`:
  its only call is behind the test that is never true.
* `HashCharPtr`: a hash decides where an entry lies, not what the cache answers.
* A reservation of an occupied key together with clients that call the cache from a
  callback; the web server does neither.
* In `DispatcherSignals`, the allocations that the handler makes: a handler that
  interrupts `malloc` is undefined before it reaches the dispatcher.
* The text of requests and headers, and the measuring blocks that `DBGL` disables.
* Memory slips inside one statement (the terminator written by `strCpy`, the read of
  an erased entry in `Cache::cleanup`) lie below the models; the hazards list them.
* What happens after a call on an object that is already deleted: a task that enqueues
  into a deleted dispatcher while `~MPEventDispatcher` runs, or a call of `enqueueTask`
  blocked on the mutex of an object whose destructor ends. The same holds for a timer
  thread in a destroyed `DelayedTask` and for a cache that has called a deleted callback.
* The bytes of a cached block beside its size and, where a header has its status, what
  `BlockStatus` says; the text of a key beside which other keys it equals.

## 6. Plan

1. **Proofs**: for `Cache`, the quota for a total below `SizeMod`, with the sum as a
   recursive function over the free list in place of the fold.
2. **Model**: `HttpServer` with `Cache` in place of its own view of the cache, as a
   refinement that splits a handler at its calls of the cache.
