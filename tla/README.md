# A TLA+ verification of Dmf-Server

Dmf-Server (`src/moudles/server`) is a pre-forking, edge-triggered epoll server
in C: it serves files over HTTP and relays requests to back ends. This directory
holds TLA+ models of it and of webbench, the load generator kept beside it, the
TLC instances that check them, and proofs that the TLA+ proof system (TLAPS)
verifies for every value of the constants.

## 1. Inventory

| Component | State | Operations | Modelled by |
|---|---|---|---|
| Worker event loop (`dm_server.c` `server_make`, `dm_events.c`) | epoll instance, `evs[]`, a `req_t` per connection, the descriptor table | `handle_accept`, `handle_read`, `handle_write`, `handle_close`, `event_accept_http`, `event_http_read`, `event_http_write` | `Worker` |
| HTTP reverse proxy (`event_http_reverse`, `client_socket`) | the socket to the back end | drain, connect, send, blocking `recv`, answer | `Worker` |
| TCP reverse proxy | a listener | none: `handle_accept` drops its events | `Worker` |
| Shared counters (`dm_shm`) | `shm_data_t`: four `_Atomic` counters | `+= 1` in the handlers | `Worker`, variable `sd` |
| Master (`dm_master.c`) | `worker[]`, `server_running_flag` | fork, poll with `waitpid(WNOHANG)`, restart, `SIGUSR1` | `Master` |
| HTTPS and HTTPS proxy handlers (`event_accept_https`, `handle_https_read_write`, `event_https_reverse`) | one `req_t` and one `SSL` per call of the accept handler | accept with handshake, read and write | `Https` |
| Stand-alone TLS server (`epoll_ssl_server`) | list of descriptors and sessions | accept, read, remove, clean up | `SslServer`; `main` does not call it |
| Thread pool (`dm_threading_pool.c`) | a task queue per thread, mutex, condition variable | `thread_pool_init`, `add_task`, `enqueue`, `dequeue`, `execute_task`, `thread_pool_destroy` | `ThreadPool`; the server does not start it |
| Timer list (`dm_timer.c`) | linked list that starts at `heap` | `addTimer`, `heapify`, `deleteTimer`, `executeTimers` | `TimerList`; the only `addTimer` call is commented out, so the server's list stays empty |
| Request parser, response builder (Go, `lib/`) | a `Req` per connection | `ParseHeader`, `ParseBody`, `RequestBodyValid`, `TryFixBody`, `ByteRow`, `GenerateResponse`, `HttpResParse` | `Request`; not called by the C handlers |
| Set-up (`main.c`, `dm_socket.c`, `dm_bind_cpu.c`) | listening sockets, limits, CPU mask | `create_socket`, `ulimit`, `cpu_bind` | only its result, as `Worker`'s `Init` |
| webbench (`webbench.c`, `socket.c`) | counters of each process, a pipe, `timerexpired` | `bench`, `benchcore`, `Socket`, `alarm_handler` | `Webbench` |
| Prototypes, red-black tree, heap timers (`test/`) | | | not modelled |

How they interact. `main` opens the listening sockets and hands them to the
master, which forks the workers; every worker therefore shares the listen
queues but has its own epoll instance and descriptor table. The workers share
nothing else except the counters. A worker's loop is `epoll_wait`, then one
handler per entry of `evs[]`; handlers change the epoll instance and the
connections behind entries that are still to be handled. The proxy handler
blocks the whole worker while its back end is silent. The master learns of a
worker's death from `waitpid` and is interrupted by `SIGUSR1` at any point.

What is hard here, and the properties that answer it:

* edge-triggered events, which come once: whatever arrives while handlers run
  must produce another one (`NoLostEdge`, `NoLostAccept`, `EventuallyAccepted`,
  `EventuallyReleased`, `EventuallyAnswered`);
* pointers kept in the kernel and in `evs[]` across handlers that free what they
  point to (`NoStaleRequest`);
* descriptors that are reused at once, leaked on some error paths, and told
  from listener indices by their value (`DescriptorsSound`);
* workers that race for the same connection and die at any point, also in the
  middle of a handler that has counted or written something
  (`ServiceSpec`, `Accounting`, `NoLostAccept`);
* the edge of the read buffer (`AnsweredUnlessFull`, `ClosedByClient`);
* a signal handler that runs between `fork()` and the assignment of its result,
  failing forks, several deaths at once (`WorkerTable`,
  `MasterStays`, `RefillsReaped`, `EventuallyReplaced`, `EventuallyStops`,
  `StopsEveryWorker`);
* a queue that signals only when it was empty, with nodes freed by the other
  side, and a shutdown that destroys the locks (`NoLostWakeup`, `AppendsToLast`,
  `RunsInOrder`, `DestroysIdle`, `EventuallyRun`, `EventuallyDestroyed`);
* one TLS session object for all connections of an accept call, and fields of
  the `req_t` that are never set, one `SSL_read` for an edge (`SessionsSound`,
  `StrandedOnlyByFailure`, `AnswersMatchRequests`, `AloneAnswered`);
* lists with a dummy that is never initialised, a search that skips the last
  node, one accept or read for an edge, a sort in one pass (`FindsOwnSession`,
  `LagExplained`, `ListSound`, `NoneOverdue`, `EventuallyRuns`);
* a request that arrives in pieces cut anywhere (`SameAsOnce`,
  `BodyFollowsHeader`, `RefusedForGood`, `WritersReadBack`);
* an alarm that strikes between a test and a blocking call, a pipe whose reader
  holds its writing end (`CountsHonest`, `OnlyRefusedLeak`, `TotalsAreReports`,
  `AllEnd`).

`PROJECT.json` lists each hazard with its source line.

## 2. Modules

| Module | Contents |
|---|---|
| `Service` | abstract specification: what a connection sees of the pool of workers |
| `Worker` | the event loops of all workers, the network and the kernel; properties; the mapping to `Service` |
| `WorkerProofs` | proofs about `Worker`: types and descriptors; that it implements `Service`; events and accept queues; counters |
| `MCWorker` | instances of `Worker` |
| `Master` | the master process |
| `MasterProofs` | proofs about `Master` |
| `MCMaster` | instances of `Master` |
| `ThreadPool` | the thread pool |
| `ThreadPoolProofs` | proofs about `ThreadPool` |
| `MCThreadPool` | instances of `ThreadPool` |
| `Https`, `HttpsProofs`, `MCHttps` | the HTTPS side of one worker; proofs; instance |
| `SslServer`, `SslServerProofs`, `MCSslServer` | `epoll_ssl_server`; proofs; instance |
| `TimerList`, `TimerListProofs`, `MCTimerList` | the timers of a worker; proofs; instance |
| `Request`, `RequestProofs`, `MCRequest` | the Go library's parser and writers; proofs; instance |
| `Webbench`, `WebbenchProofs`, `MCWebbench` | the load generator; proofs; instance |

`Https` is a module of its own and not part of `Worker`: its connections share
with the others only `evs[]` and the descriptors, and its subject, the session
object, is foreign to them.

### Worker

A connection `c` is the client's socket, the descriptor `accept()` returned and
the `req_t` behind `data.ptr`. `st`, `own`, `fd` and `want` say where it is,
which worker has it, `req->fd` and which direction epoll watches; `inbox`,
`peer` and `reply` are the socket: bytes not read, what the client did, how much
of the answer was written. Per worker, `ready`/`lisReady` are the kernel's ready
list, `evs`/`lisEvs` the part of `evs[]` that is still to be handled (for
connections and for listeners), `cli_sock`/`cur` the proxy handler's locals and
`table` the descriptors that are open. Handlers open and close descriptors in
`table` one by one, as the code does; which of them something still refers to is
computed from the rest of the state (`Referenced`), so that a descriptor closed
twice, or never, is seen. `refused` is history: the back ends that refused.

| Source | Actions |
|---|---|
| `epoll_wait` in `server_make` | `EpollWait`: everything ready is moved to `evs[]`; `ERR` may be reported alone or with the direction |
| `handle_accept`, `event_accept_http` | `handle_accept`, then one `AcceptConn`, `AcceptAddFails` or `AcceptNonblockFails` per turn of the loop, and `AcceptStops`: turns of different workers interleave |
| `handle_read`, `event_http_read` | `event_http_read`, four outcomes of the `read` loop (`ReadResult`) |
| `handle_write`, `event_http_write`, `handle_close` | `event_http_write` |
| `EPOLLHUP`/`EPOLLERR` branch | `HandleError` |
| `event_http_reverse`, `client_socket` | `event_http_reverse` up to the blocking call; `BackendRefuses`, `BackendAnswers`, `BackendCloses` after it |
| process death, `Restart` by the master | `Crash`, `CrashAccepting`, `CrashReading`, `CrashAnswering`, `CrashProxying`, `Restart` |

A handler that does not block is one action, because only its own worker sees
the `req_t` it changes and the kernel keeps an edge that arrives meanwhile on
the ready list, as it does before or after. The places where this is not enough
are actions of their own: turns of the accept loop (the queue is shared), the
blocking call, and deaths inside a handler that has left a trace outside its
worker and has more to do. These are: in the accept loop, a connection taken
from the queue and not counted yet, or counted and not registered
(`CrashAccepting`); in `event_http_read`, a reset counted in `read_num` and not
yet in `close_num` (`CrashReading`); in `handle_write`, an answer written, and
`write_num` counted or not, before `handle_close` (`CrashAnswering`); in the
proxy, an answer written before `handle_close` (`CrashProxying`). In every other
handler the trace is its last step but for memory of its own, so that dying
behind it is `Crash` after the handler.

The entries of `evs[]` are handled in any order; the kernel promises none.
Bytes are abstracted to their number, counted up to `MaxInbox`; buffers of 1024
and 4096 bytes are `HttpBuf` and `ProxyBuf`. The file a request names, the
response header and its contents are not modelled: the handlers do not branch
on them once the request has been read.

### Master

`worker` and `server_running_flag` are the variables of `dm_master.c`; `slot` is
`i`, `pid` what `fork()` returned and has not been stored yet, `proc` the
process table. `StartWorker`, `StartFails`, `StoreWorker` are
`master_start_multi_process_server`; `TestFlag`, `WorkerRuns`, `WorkerDown`,
`WaitFails`, `RestartWorker`, `RestartFails`, `StoreRestarted` are
`master_check_and_restart`, with a step boundary wherever the signal can make a
difference. `waitpid(0)` and `kill(0)` have their special meaning. `daemon`
tells whether the program was started with `master`, the only way in which the
handler of `SIGUSR1` is installed. A pid is not used twice in a behaviour.

### ThreadPool

Per index `q`, `head`, `tail` and `mutex` are the fields of `queue_t` (the wait
set of `cond` is `tpc[q] = "wait"`, since a queue has one thread), `tpc`/`task`
the thread in `execute_task`. `item`, `next` and `freed` are the heap: nodes get
the next number from `malloc()`, so that a use of a freed one can be seen. `mpc`,
`slot`, `newNode` and `stop` are the owner of the pool, which makes one call
after the other as the server's single event loop would. `executed` and `ran`
record what was executed and in which order: the bodies of the two cases in
`execute_task` are commented out. They are a counter and a function because the
SMT backend of tlapm 1.4.5 takes an empty sequence together with a function
whose domain holds 0 for a contradiction, from which it proves anything; the
leaves of every proof module were checked for this by trying `FALSE` in their
place, with the same facts: it is proved only where the leaf ends a proof by
contradiction.

| Source | Actions |
|---|---|
| `thread_pool_init` with `queue_init` | `thread_pool_init`, one per turn of the loop |
| `add_task` | `add_task`; every task goes to `queues[0]`, the random `index` is not used |
| `enqueue` | `EnqueueLock`, `EnqueueInsert`, `EnqueueWake`, `EnqueueUnlock` |
| `dequeue` | `DequeueLock`, `DequeueWait`, `DequeueTake`, `DequeueUnlock`, `SpuriousWakeup` |
| `execute_task` | `ExecuteTask` |
| `thread_pool_destroy` | `thread_pool_destroy`, `SendPill`, the steps of `enqueue`, `DestroySignal`, `DestroyJoin` |

### Https

`k` numbers the calls of `event_accept_https` and with them the `req_t` and the
`SSL` object each makes: `sslFd[k]` is what `SSL_set_fd` gave it last (and
`req->fd`), `keyed[k]` the connection whose handshake it made, `freed` the
objects `SSL_free` was called on. `call[c]` leads from a connection to its
`req_t`. OpenSSL is modelled by what the handlers see: `SSL_accept` on an object
that has a session returns 1 at once, and `SSL_read` returns data only when the
keys and the socket belong together. `sent` and `answers` number the requests of
a client and its answers; what arrives may be the end of a record or only a part
of one, which makes an edge without a request. A handler calls `SSL_read` once:
a second request behind the same edge stays unread, and the model promises
nothing for it. `EPOLLERR` alone leads to `handle_close`,
which follows the null `req->sd` and ends the worker (`pc = "dead"`). Only the
connections' own worker is modelled: nothing here is shared with others but the
listen queue. epoll knows a connection from the `epoll_ctl` behind its handshake
on (`Registered`): what a client does before leaves no event, and adding the
descriptor makes one if there is something to read or an end.

### SslServer

`list` holds the nodes behind the dummy `fsm_head`, whose `fd` is any value
`malloc` may have left (`dummy`). A search that stops at the dummy follows
pointers that were never set; this undefined behaviour is the state "crashed".
`EpollWait` takes edges off the ready list into `events[]` (`evs`, with `hups`
what had `EPOLLHUP` then), any of them at a time, and each further action is the
turn of one entry: one accept or one `SSL_read`, as in the code. A client may
send a whole record, the beginning of one, or its FIN; each is an edge, since
`EPOLLRDHUP` is not asked for, and `SSL_read` on it may return a record that was
missed before. `shared` is history: what arrived at a socket that was on the
ready list already, and the edges `accept()` failed at.

### TimerList

`heap`, `next` and `expire` are the variables and fields of `dm_timer.c`. A step
is one iteration of a loop: `append` (`addTimer`'s walk to the end), `find`
(`deleteTimer`'s search), `heapify` and `execute` (`executeTimers`' while). `op`
says which loop the worker is in, `parent` the node it has reached; `current`
is `parent->next` in every loop. `deleteTimer` is called for any timer, as
`handle_close` does. The worker is one thread, so its calls do not overlap, but
the clock goes on while it walks. `time(NULL)` is 0 and `expire` is told in
seconds from now, which `Tick` lowers (for the timers that are `Kept`): the code
compares times only, and neither the clock nor the additions ever stop. `active` (what the callers believe is in the
list), `list` and `at` (the nodes as the code means to link them, and where
`parent` is) are history: no guard reads them but that of `addTimer`, which a
request calls once. The invariant is that the pointers and `list` agree.

### Request

Bytes are tokens; each name the parser compares is one of them. `Parse` is
`req_test`'s pair of calls on everything read so far, `TryFixBody` what follows a
header that is OK. The library has no other caller; that one `Req` lives as long
as the connection is what its comment ("saved in Event") and the verdict
`RequestNeedReadMore` say. A line is named by the place where it begins:
`Stops` are the lines at which `ParseHeader`'s loop would return, the first of
them decides (`Verdict`), and the lines before it (`Passed`) are in `r.Headers`,
the last one of a key counting (`Set`). The panics of `key[:1]` and of
`ParseBody` are final states. A header cut inside a name
or right behind an end of line is called `InvalidHeaders` by the code, not
`RequestNeedReadMore`; the model reads on after any verdict but OK.

### Webbench

Process 0 is the parent. A step of a client ends at a test of `timerexpired` or a
blocking call, which are the places where `SIGALRM` matters; `Alarm` either
interrupts the call a process is in or comes just before it. `truth` records what
really happened, against which the counters are compared. Every process keeps
both ends of the pipe: the writing end is open in process 0 for ever, so `Reap`
simply waits when the pipe is empty, and a client is a reader itself, so that no
SIGPIPE ends it when process 0 has given up: it writes its line while there is
room (`PipeSize` lines) and waits for ever when there is none (`Stuck`).

## 3. Runs

| Run | Instance | Shows |
|---|---|---|
| `worker_faults` | 1 worker, an HTTP and a proxied connection, 2 free descriptors, all faults, 1 death, 3 bytes | `TypeOK`, `DescriptorsSound`, `NoStaleRequest`, `Accounting`, `NoLostEdge`, `AnsweredUnlessFull`; both ports implement `Service` (`ServiceSpec`) |
| `worker_race` | 2 workers, 2 connections at one listener, resets, 1 death | `NoLostAccept`; `Worker` implements `Service` (`ServiceSpec`) |
| `worker_release` | 1 worker, 2 connections, resets, refusing back ends, 1 death | `EventuallyAccepted`, `EventuallyReleased`, `EventuallyAnswered` |
| `master` | 2 workers, 3 deaths, signals, failing forks | `WorkerTable` (the conjunction of `TypeOK`, `ChildrenKnown`, `SlotsDistinct` and `SlotsAreChildren`), `MasterStays`, `EventuallyReplaced`, `EventuallyStops` |
| `thread_pool` | 2 threads, 4 tasks, 2 spurious wake-ups | `TypeOK`, `AppendsToLast`, `NoLostWakeup`, `RunsInOrder`, `DestroysIdle`, `EventuallyRun`, `EventuallyDestroyed` |
| `https` | 3 clients, 2 tries, 2 descriptors, 2 records, all faults | `SessionsSound` (`TypeOK`, `OwnSession` and `NoFreedSession`), `StrandedOnlyByFailure`, `AnswersMatchRequests`, `AloneAnswered` |
| `ssl_server` | 3 clients, 3 descriptors, 2 records | `FindsOwnSession`, `LagExplained` |
| `timer_list` | 3 timers, all of intervals 1 to 3 or one of them, up to 2 seconds overdue | `ListSound`, `NoneOverdue`, `EventuallyRuns` |
| `request` | 11 first reads, 8 later ones, 6 reads | `SameAsOnce`, `BodyFollowsHeader`, `WritersReadBack`, `RefusedForGood` |
| `webbench` | -1, 1 or 2 clients, 2 requests each, 1 death, a pipe of 1 line | `CountsHonest`, `OnlyRefusedLeak`, `TotalsAreReports`, `AllEnd`, no deadlock |
| `worker_full` | violation | a request that fills the buffer is closed without an answer, although the comment says the client closed (`ClosedByClient`) |
| `master_stop` | violation | `SIGUSR1` in the middle of a pass: the rest of the pass restarts the workers it killed, and they outlive the master (`StopsEveryWorker`) |

What the models show of the code without a run of its own: connections to the
TCP proxy's port are never accepted (`handle_accept`); a back end that stays
silent holds a worker and all its connections (`FromBackend` is the only way on);
an `EPOLLERR` of one TLS connection ends its worker, and nothing else closes one
(`ErrorEvent`); the clean-up loop of `epoll_ssl_server` does not advance, so that
with a client connected it never ends or uses what `malloc` left in the dummy
(`Cleanup`); timers of unequal intervals may keep a due one waiting for ever, each
new one moved before it (`heapify`); in webbench the exit
status of a benchmark that went well is the speed of the client that reported
last (`Reap`), process 0 waits for ever when a client died, because it holds the
pipe's writing end itself (`Finished`), and an alarm that comes after the test
of `timerexpired` and before `read()` blocks is spent, so that a server that
stays silent holds the client for ever (`Alarm`); and clients whose process 0
gave up are held for ever once the pipe is full (`Stuck`).

Bounds. Workers interact only through the listen queues and the counters, so two
of them show every race; connections of a worker interact through `evs[]`, the
blocking call and the descriptors, for which two connections are enough: with
leaked back-end sockets they exceed the two descriptors of `worker_faults`.
Buffers hold two or three bytes, so that requests below, at and above the limit
occur in `worker_faults`; liveness does not depend on the sizes and uses one
byte. One death lets a worker take over from another; three deaths in `Master`
let both slots die in one pass and a replacement die at once. `Pids` has seven
pids, two for the first forks, three for the deaths and two for the slots that
the pass interrupted by `SIGUSR1` may still refill: no
behaviour forks more often, and the model's `fork()` always finds one. After `EMFILE` the code has lost the edge of
the listener and waits for the next connection, so `NoLostAccept` and
`EventuallyAccepted` are stated for workers that have descriptors left;
`worker_release` has four, enough for both connections, a call to the back end
and a leaked socket. A third connection, or two workers in the liveness run,
exceed what TLC does in minutes. Four tasks let the list of `ThreadPool` grow to
three nodes while one is executed, which every step of `enqueue` and `dequeue`
needs. `worker_race` uses the symmetry of the workers (safety only). In `https`
three clients share calls in any way and the descriptor limit (`MaxOpen`) is
met; the limit of 100 tries is `MaxTries`, and two records let one wait behind
the edge of another. Three nodes give `SslServer`'s list a
first, a middle and a last one, and descriptors are used again. Three timers
reach every branch of `heapify`; whether all have the same interval is chosen
at the start (`used`). The clock stops only while a timer is `MaxLate` seconds
overdue, which `executeTimers` always ends; additions are never refused, and that
every timer runs in the end (`EventuallyRuns`) is stated for one interval only. Six reads let two headers, their end and a body arrive in
separate pieces. Two clients (`MaxClients` is the most that any tried value of `-c` asks for) and
two turns let one client of webbench report, or die, while the other is anywhere;
a pipe of one line (thousands in truth) is full when the second comes. Deadlock is not checked where clients that
have finished, or a master that exits, or a pool that was destroyed, end the
behaviour; it is checked in `webbench`.

Fairness. `Worker`: weak fairness of each running worker's own steps (the
scheduler runs it; only `epoll_wait` and the back end block it), of the back end
(its connection is answered or closed sooner or later: the code sets no
time-out, so this is an assumption about back ends, and the hazard of a silent
one is not covered by `EventuallyReleased`) and of `Restart` (what
`EventuallyReplaced` shows of `Master`). Clients are under no fairness. `Master`:
weak fairness of its own steps; it never blocks. `ThreadPool`: weak fairness of
each thread and of the owner inside a call, none of the owner's next call; the
number of spurious wake-ups is bounded, because a thread that wakes up and locks
the mutex for ever could keep the owner out of it. `Https`: the worker's own steps
and the back end, as in `Worker`. `SslServer`: none, its properties are safety.
`TimerList`: weak fairness of a call's next step and of the
clock, strong fairness of `executeTimers`: other calls come between, but every
turn of `server_make`'s loop reaches it. Nobody has to stop adding timers. `Webbench`: every process runs, its alarm comes, `connect()` ends (TCP
gives up) and the server answers, closes or resets; the last is an assumption
about servers that the code does not enforce.

## 4. Proofs

All are safety, for every number of workers, connections, listeners, descriptors
and clients, every buffer size and all faults, from the assumptions named in the
modules (sizes are natural numbers, `None` is neither a worker nor a connection,
connections are finite in number, pids and descriptors are positive, there is a
worker slot and a thread, intervals are natural numbers, reads return strings
of bytes). Each rests on an inductive invariant that TLC checked
on the instance of section 3 before it was proved, with one lemma per action.

* `WorkerProofs`: `WorkerTypes` and `RequestsLive` (`NoStaleRequest`). The
  inductive invariant `WorkerInv`
  is their conjunction with `BackendHasConn`. They need each other: the handler
  that closes a connection may assume that it is open in this worker
  (`NoStaleRequest`), and that nothing else refers to it afterwards follows from
  the removal from the ready list, the entry of `evs[]` just consumed, and the
  worker not being in a proxy call for it. `CloseInv` is shared by the actions
  that end in `handle_close`.
  On top of `WorkerInv`, `EdgesDelivered` (`NoLostEdge`) and `AnsweredHttp` (`AnsweredUnlessFull`) need
  `EventsSound`, which says that an entry of `evs[]` is still true when its handler
  runs, however long the handlers before it took: the direction it names is the
  one epoll watches, and an error in it is one the peer caused. Without it, a
  handler could switch a connection to `EPOLLOUT` on an event that was meant for
  the other direction and leave what it should have read behind.
  `AcceptsDelivered` (`NoLostAccept`) has the hypothesis `RoomToAccept`: `accept()`
  finds a descriptor whenever a worker calls it with a connection waiting. Without
  it the statement is false, since the loop ends on `EMFILE` with the edge spent.
  `AcceptsDeliveredWithRoom` replaces the hypothesis by one on constants, which the
  run `worker_race` meets: a descriptor for every connection and no failing call
  that leaks one; the pigeonhole argument is lemma `EnoughDescriptors`.
  `CountersAddUp` (`Accounting`) follows the cardinality of four sets: the
  connections that were accepted, those that were closed, those whose request
  was counted and not answered, and those that are over or wait for their answer.
  A death between two counters of a handler moves its connection from one set to
  another by the same amount as the counter that was reached, which is why the
  bounds survive it.
  `DescriptorsSafe` (`DescriptorsSound`) follows each open descriptor: it is one
  of the set-up, or an open connection's, or the proxy's, or was forgotten on one
  of the two paths that forget (`FdInv`). That a handler closes its own and no
  other needs `NoStaleRequest` again, and that a new one is nobody's follows from
  every reference being in `table` (lemma `NewDescriptor`): the kernel chooses
  from what is not in `table`, and `table` shrinks only by what the handlers close.
  The refinement, `Refinement`, is that `Worker` implements `Service`. Lemma
  `StepKinds` sums up what a step may do to `st`, `own` and `reply` (nothing, an
  arrival, an accept, an end, a death) and rests on `WorkerInv`: only because the
  connection a handler works for is open in its worker does closing it end a
  served connection. `Unanswered` (what waits or is served has no answer) is the
  additional invariant.
* `MasterProofs`: `TableAgrees` (`WorkerTable`) and the action properties
  `MasterStaysUp` and `OnlyReapedReplaced` (`RefillsReaped`: a slot is refilled
  only when the process in it has been reaped). `MasterInv` adds what `pid` is between `fork()` and the
  store (`PidPending`), that unused pids are nowhere (`FreshUnused`), that the
  slot being refilled holds a reaped process (`SlotReaped`) and
  that the first loop has not touched the slots ahead of it (`Progress`). That
  deaths alone never end the master (`StepStays`) follows from
  `SlotsAreChildren`: with every slot filled, `waitpid` is only asked for a
  child, so it does not fail.
* `ThreadPoolProofs`: `PoolTypes`, `ListsSound`, `WakeupsKept`,
  `FirstInFirstRun` and `DestroyDrains`. `PoolInv` adds who holds the mutex
  (`Locks`), how many nodes exist and what they hold (`Main`), that a list is the
  run of nodes from `head` to the last one inserted (`Lists`), that a pill is the
  last thing taken (`Pills`) and that what `queues[0]` has given out is an initial
  segment of what was added (`Order`), from which the order of execution
  follows.
* `HttpsProofs`: `HttpsSessions` (`SessionsSound`), `HttpsStranded`
  (`StrandedOnlyByFailure`) and `HttpsAnswers` (`AnswersMatchRequests`).
  `HttpsInv` adds that each call of `event_accept_https` took an edge an arrival
  made, so that `k` stays in range (`CallsArePaid`); what the call in progress
  holds (`CallInProgress`); that an SSL object speaks to connections of its own
  call, that one that was freed has never made a handshake, and that an object
  which has both the keys and the descriptor of the same connection serves no
  other (`SharedObjects`); and that events are those of registered connections
  (`EventsRegistered`). The last one was false of an earlier form of the model, in
  which a hang-up during the handshake made an event although `epoll_ctl` comes
  only after it; the proof found this, and no property of the run had noticed.
  `HttpsAnswers` adds `Answering`: a connection has sent and been sent nothing
  before its handshake, nobody is answered while its call of
  `event_accept_https` may still give its object away, and what is forwarded is
  the request of an open connection accepted alone. Then a read of one
  connection's event takes a record of another only if the two shared a call, and
  such connections are never answered.
* `SslServerProofs`: `SearchSound` (`FindsOwnSession`) and `LagIsExplained`
  (`LagExplained`).
  `SslInv` says that the list is the open connections, each once and with its
  descriptor (`ListSound`), and that descriptors are distinct
  (`DescriptorsApart`); lemmas say what linking, unlinking and the search do to
  any list (`LinkedIs`, `RemovedIs`, `FoundIs`). `LagIsExplained` adds the books
  of the listening socket (`AcceptBooks`), those of the connections (`ReadBooks`)
  and that a connection has sent nothing before it is accepted (`NothingEarly`). It
  needs `SearchSound`'s argument: the edge that is spent and the record that is
  taken must be the same connection's, so the session found must be its own.
* `WebbenchProofs`: `ReportsAreHonest` (`CountsHonest`) and `LeaksAreRefusals`
  (`OnlyRefusedLeak`). `WebbenchInv` adds who can have an alarm to come
  (`AlarmOnce`) and that forks go in order (`ForkOrder`), and splits the claim on
  the counters by place (`CountsFollow`): exact before the alarm and while a
  request is under way, off by at most one each between the request the alarm cut
  short and the correction, and within the reported bounds after it.
  The action property `TotalsAddUp` (`TotalsAreReports`) rests on the additional
  invariant `Books`: the clients that are done are those whose lines have been
  read, whose counters make up the totals, and those whose lines are in the
  pipe, one each (`LinesOf`, `TotalsOf`); and the lines process 0 still waits for
  are the clients it has forked less the lines it has read (`Waiting`), which is
  why the last line is that of the last client, although a client that died
  leaves process 0 waiting for ever. The sum over the clients is a fold; that it
  exists, is 0 where nothing is counted, and grows by one client's counter with
  that client's line is proved from its definition (`SumOfIs`, `SumOfZeros`,
  `SumOfGrows`), with an induction on sets of numbers and of sets instead of the
  library's theorems (`FromZero`, `FromEmpty`).
* `TimerListProofs`: `TimersKept` (`ListSound`) and the action property
  `NothingOverdue` (`NoneOverdue`). `TimerInv` says that the pointers lead
  through `list`, with `parent` at its place (`Linked`, `Place`), that nothing
  is in it twice (`Once`), what it holds in the middle of a call, where the
  timer that is added is not in it yet and the one that is deleted lies ahead of
  the search (`Members`), and that behind `heapify`'s walk nothing expires after
  `parent` (`Latest`): when the walk ends, the last node expires last. That is
  all one pass achieves. With one interval, the server's case, the list is in
  order all the time and `heapify` moves nothing, because what is added expires
  after whatever is there (`Sorted`); then the head of the list tells
  `executeTimers` whether any timer is due.
* `RequestProofs`: `CutsDoNotMatter` (`SameAsOnce`), `BodyIsBehindHeader`
  (`BodyFollowsHeader`) and the action property `RefusalsStay`
  (`RefusedForGood`), for all bytes and all cuts. The lemmas say what further
  bytes cannot change: a complete line stays (`CompleteLine`), a line whose colon
  has come keeps its key, although its value may grow and a CR at its end may
  become part of a break (`KeyStays`), the loop goes past the lines it went past
  before (`PassedStay`), and a header that was OK ends at the same place
  (`OKStays`). So every key that an earlier call has set is among those the next
  call sets again (`Comes`, the strengthening `SameAsOnce` needs), and what it
  set from a value cut short is overwritten (`SetForgets`). `BodyStartIs` relates
  the search for bytes to the loop over lines: an end of header in bytes is an
  empty line that is complete, and the first of them is where the loop stopped.
  `AboutFirst` (a refusal is about a first line that is complete) gives
  `RefusalsStay`.

Only model-checked: liveness (TLAPS cannot reason about fairness) and
`WritersReadBack`, which is about the words of a line and the fields `ByteRow`
writes, folds over sequences: what they compute takes an induction over the
bytes and over the order of the headers. The other proofs about `Request` do not
need to know what the words of a line are, only that they are a function of the
line.
`NoLostAccept` without room for descriptors is not a
theorem, for the reason above.

## 5. Plan

Done: every component of the server, the Go library and webbench has a module,
and every safety invariant and action property that can be proved here is. What
is left:

1. `System`: `Master` and `Worker` composed, so that `Restart` is the master's
   and not assumed by fairness.

## 6. Not modelled

* `create_socket`, `ulimit`, `cpu_bind`, `events_ssl_init`, attaching the shared
  memory: single system or library calls with a message on failure.
* The contents of files, response headers and default pages; webbench's command
  line and the text of its request: no control depends on them, but for the
  options that are in the models.
* `event_https_read`, `event_https_write`, `event_http_read_write`,
  `handle_shutdown`: never called.
* Integer overflow of the counters, which needs billions of events.
* The prototypes and experiments under `test/` (earlier servers, a red-black
  tree, heap timers), which the server does not use.
