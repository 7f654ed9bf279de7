---------------------------- MODULE ThreadPool ----------------------------
(***************************************************************************)
(* The thread pool (dm_threading_pool.c): one queue and one thread for     *)
(* each index, a queue being a linked list with its mutex and condition    *)
(* variable.  The process that owns the pool ("main") calls                *)
(* thread_pool_init, then add_task any number of times, then               *)
(* thread_pool_destroy; the threads run execute_task.                      *)
(*                                                                         *)
(* Every acquisition and release of a mutex, every signal and every join   *)
(* is a step.  Nodes are numbered in the order of their malloc(), tasks in *)
(* the order of the calls of add_task.                                     *)
(***************************************************************************)
EXTENDS Naturals

CONSTANTS
  num_threads,
  MaxTasks,     \* bound: calls of add_task
  MaxSpurious   \* bound: returns from pthread_cond_wait without a signal

ASSUME PoolAssumption ==
  num_threads \in Nat \ {0} /\ MaxTasks \in Nat /\ MaxSpurious \in Nat

VARIABLES
  \* main
  mpc,       \* where main is, see MainPc
  slot,      \* the queue it works on
  newNode,   \* enqueue's newNode
  stop,      \* threadPool->stop: main is in thread_pool_destroy
  added,     \* tasks given to add_task so far
  \* the heap
  alloc,     \* nodes allocated so far
  item,      \* node->task, Pill for {NULL, -1}
  next,      \* node->next
  freed,     \* nodes that were freed
  \* the queues and their threads
  head, tail,
  mutex,     \* who holds it, or "free"; "none" before queue_init,
             \* "destroyed" after pthread_mutex_destroy
  tpc,       \* where the thread is, see ThreadPc
  task,      \* execute_task's local variable
  executed,  \* how many tasks the threads have executed
  ran,       \* ran[k] is the k-th of them
  spurious   \* wake-ups without a signal so far

mainVars == <<mpc, slot, newNode, stop, added>>
heapVars == <<alloc, item, next, freed>>
threadVars == <<tpc, task, executed, ran, spurious>>
vars == <<mpc, slot, newNode, stop, added, alloc, item, next, freed, head,
          tail, mutex, tpc, task, executed, ran, spurious>>

Queues == 0 .. num_threads - 1
Nodes == 1 .. MaxTasks + num_threads
NULL == 0
Pill == 0

MainPc == {"init", "ready", "pill", "lock", "insert", "wake", "unlock",
           "signal", "join", "done"}
ThreadPc == {"none", "lock", "test", "wait", "woken", "unlock", "run", "exit"}

TypeOK ==
  /\ mpc \in MainPc /\ slot \in Queues /\ newNode \in Nodes \cup {NULL}
  /\ stop \in BOOLEAN /\ added \in 0 .. MaxTasks
  /\ alloc \in 0 .. MaxTasks + num_threads
  /\ item \in [Nodes -> 0 .. MaxTasks]
  /\ next \in [Nodes -> Nodes \cup {NULL}]
  /\ freed \subseteq Nodes
  /\ head \in [Queues -> Nodes \cup {NULL}]
  /\ tail \in [Queues -> Nodes \cup {NULL}]
  /\ mutex \in [Queues -> {"none", "free", "main", "thread", "destroyed"}]
  /\ tpc \in [Queues -> ThreadPc]
  /\ task \in [Queues -> 0 .. MaxTasks]
  /\ executed \in 0 .. MaxTasks
  /\ ran \in [1 .. MaxTasks -> 0 .. MaxTasks]
  /\ spurious \in Nat

Init ==
  /\ mpc = "init" /\ slot = 0 /\ newNode = NULL /\ stop = FALSE /\ added = 0
  /\ alloc = 0
  /\ item = [n \in Nodes |-> Pill]
  /\ next = [n \in Nodes |-> NULL]
  /\ freed = {}
  /\ head = [q \in Queues |-> NULL]
  /\ tail = [q \in Queues |-> NULL]
  /\ mutex = [q \in Queues |-> "none"]
  /\ tpc = [q \in Queues |-> "none"]
  /\ task = [q \in Queues |-> Pill]
  /\ executed = 0 /\ ran = [k \in 1 .. MaxTasks |-> Pill]
  /\ spurious = 0

-----------------------------------------------------------------------------
(* main: the loops over the queues, and the calls.                          *)

\* Mutant: i <= num_threads.
BugNextQueue(again, after) ==
  IF slot + 1 <= num_threads THEN slot' = slot + 1 /\ mpc' = again
                             ELSE slot' = 0 /\ mpc' = after

\* The next turn of a for loop that continues at "again", or what follows it.
NextQueue(again, after) ==
  IF slot + 1 < num_threads THEN slot' = slot + 1 /\ mpc' = again
                            ELSE slot' = 0 /\ mpc' = after

\* A turn of thread_pool_init: queue_init and pthread_create.
thread_pool_init ==
  /\ mpc = "init"
  /\ head' = [head EXCEPT ![slot] = NULL]
  /\ tail' = [tail EXCEPT ![slot] = NULL]
  /\ mutex' = [mutex EXCEPT ![slot] = "free"]
  /\ tpc' = [tpc EXCEPT ![slot] = "lock"]
  /\ NextQueue("init", "ready")
  /\ UNCHANGED <<newNode, stop, added, heapVars, task, executed, ran,
                 spurious>>

\* enqueue up to its lock: a new node that holds t.
Allocates(t) ==
  /\ alloc' = alloc + 1
  /\ newNode' = alloc + 1
  /\ item' = [item EXCEPT ![alloc + 1] = t]
  /\ next' = [next EXCEPT ![alloc + 1] = NULL]
  /\ mpc' = "lock"

\* Every task goes to queues[0].
add_task ==
  /\ mpc = "ready" /\ added < MaxTasks
  /\ added' = added + 1
  /\ slot' = 0
  /\ Allocates(added + 1)
  /\ UNCHANGED <<stop, freed, head, tail, mutex, threadVars>>

thread_pool_destroy ==
  /\ mpc = "ready"
  /\ stop' = TRUE
  /\ slot' = 0
  /\ mpc' = "pill"
  /\ UNCHANGED <<newNode, added, heapVars, head, tail, mutex, threadVars>>

SendPill ==
  /\ mpc = "pill"
  /\ Allocates(Pill)
  /\ UNCHANGED <<slot, stop, added, freed, head, tail, mutex, threadVars>>

-----------------------------------------------------------------------------
(* enqueue, for queues[slot].                                               *)

EnqueueLock ==
  /\ mpc = "lock" /\ mutex[slot] = "free"
  /\ mutex' = [mutex EXCEPT ![slot] = "main"]
  /\ mpc' = "insert"
  /\ UNCHANGED <<slot, newNode, stop, added, heapVars, head, tail, threadVars>>

\* Mutant: the tail is not moved.
BugInsert ==
  /\ mpc = "insert"
  /\ \/ /\ head[slot] = NULL
        /\ head' = [head EXCEPT ![slot] = newNode]
        /\ tail' = [tail EXCEPT ![slot] = newNode]
        /\ mpc' = "wake"
        /\ UNCHANGED next
     \/ /\ head[slot] # NULL
        /\ next' = [next EXCEPT ![tail[slot]] = newNode]
        /\ mpc' = "unlock"
        /\ UNCHANGED <<head, tail>>
  /\ UNCHANGED <<slot, newNode, stop, added, alloc, item, freed, mutex,
                 threadVars>>

\* Mutant: the thread is signalled when the queue was not empty.
BugWakes ==
  /\ mpc = "insert"
  /\ \/ /\ head[slot] = NULL
        /\ head' = [head EXCEPT ![slot] = newNode]
        /\ mpc' = "unlock"
        /\ UNCHANGED next
     \/ /\ head[slot] # NULL
        /\ next' = [next EXCEPT ![tail[slot]] = newNode]
        /\ mpc' = "wake"
        /\ UNCHANGED head
  /\ tail' = [tail EXCEPT ![slot] = newNode]
  /\ UNCHANGED <<slot, newNode, stop, added, alloc, item, freed, mutex,
                 threadVars>>

EnqueueInsert ==
  /\ mpc = "insert"
  /\ \/ /\ head[slot] = NULL
        /\ head' = [head EXCEPT ![slot] = newNode]
        /\ mpc' = "wake"
        /\ UNCHANGED next
     \/ /\ head[slot] # NULL
        /\ next' = [next EXCEPT ![tail[slot]] = newNode]
        /\ mpc' = "unlock"
        /\ UNCHANGED head
  /\ tail' = [tail EXCEPT ![slot] = newNode]
  /\ UNCHANGED <<slot, newNode, stop, added, alloc, item, freed, mutex,
                 threadVars>>

\* pthread_cond_signal: lost when the thread does not wait.
Signal(q) == tpc' = IF tpc[q] = "wait" THEN [tpc EXCEPT ![q] = "woken"]
                                       ELSE tpc

EnqueueWake ==
  /\ mpc = "wake"
  /\ Signal(slot)
  /\ mpc' = "unlock"
  /\ UNCHANGED <<slot, newNode, stop, added, heapVars, head, tail, mutex,
                 task, executed, ran, spurious>>

EnqueueUnlock ==
  /\ mpc = "unlock"
  /\ mutex' = [mutex EXCEPT ![slot] = "free"]
  /\ mpc' = IF stop THEN "signal" ELSE "ready"
  /\ UNCHANGED <<slot, newNode, stop, added, heapVars, head, tail, threadVars>>

-----------------------------------------------------------------------------
(* The rest of a turn of thread_pool_destroy.                               *)

DestroySignal ==
  /\ mpc = "signal"
  /\ Signal(slot)
  /\ mpc' = "join"
  /\ UNCHANGED <<slot, newNode, stop, added, heapVars, head, tail, mutex,
                 task, executed, ran, spurious>>

\* Mutant: the thread is not joined.
BugJoin ==
  /\ mpc = "join"
  /\ mutex' = [mutex EXCEPT ![slot] = "destroyed"]
  /\ NextQueue("pill", "done")
  /\ UNCHANGED <<newNode, stop, added, heapVars, head, tail, threadVars>>

DestroyJoin ==
  /\ mpc = "join" /\ tpc[slot] = "exit"
  /\ mutex' = [mutex EXCEPT ![slot] = "destroyed"]
  /\ NextQueue("pill", "done")
  /\ UNCHANGED <<newNode, stop, added, heapVars, head, tail, threadVars>>

-----------------------------------------------------------------------------
(* execute_task and dequeue, for the thread of queue q.                     *)

\* pthread_mutex_lock, or the return from pthread_cond_wait.
DequeueLock(q) ==
  /\ tpc[q] \in {"lock", "woken"} /\ mutex[q] = "free"
  /\ mutex' = [mutex EXCEPT ![q] = "thread"]
  /\ tpc' = [tpc EXCEPT ![q] = "test"]
  /\ UNCHANGED <<mainVars, heapVars, head, tail, task, executed, ran,
                 spurious>>

DequeueWait(q) ==
  /\ tpc[q] = "test" /\ head[q] = NULL
  /\ mutex' = [mutex EXCEPT ![q] = "free"]
  /\ tpc' = [tpc EXCEPT ![q] = "wait"]
  /\ UNCHANGED <<mainVars, heapVars, head, tail, task, executed, ran,
                 spurious>>

\* Mutant: the whole list is dropped with its first node.
BugTake(q) ==
  /\ tpc[q] = "test" /\ head[q] # NULL
  /\ task' = [task EXCEPT ![q] = item[head[q]]]
  /\ head' = [head EXCEPT ![q] = NULL]
  /\ freed' = freed \cup {head[q]}
  /\ tail' = [tail EXCEPT ![q] = NULL]
  /\ tpc' = [tpc EXCEPT ![q] = "unlock"]
  /\ UNCHANGED <<mainVars, alloc, item, next, mutex, executed, ran,
                 spurious>>

DequeueTake(q) ==
  /\ tpc[q] = "test" /\ head[q] # NULL
  /\ task' = [task EXCEPT ![q] = item[head[q]]]
  /\ head' = [head EXCEPT ![q] = next[head[q]]]
  /\ freed' = freed \cup {head[q]}
  /\ tail' = IF next[head[q]] = NULL THEN [tail EXCEPT ![q] = NULL] ELSE tail
  /\ tpc' = [tpc EXCEPT ![q] = "unlock"]
  /\ UNCHANGED <<mainVars, alloc, item, next, mutex, executed, ran,
                 spurious>>

DequeueUnlock(q) ==
  /\ tpc[q] = "unlock"
  /\ mutex' = [mutex EXCEPT ![q] = "free"]
  /\ tpc' = [tpc EXCEPT ![q] = "run"]
  /\ UNCHANGED <<mainVars, heapVars, head, tail, task, executed, ran,
                 spurious>>

\* The call of the task's function, recorded.
Executes(t) ==
  /\ executed' = executed + 1
  /\ ran' = [ran EXCEPT ![executed + 1] = t]

\* Mutant: the break is inside the switch.
BugExecute(q) ==
  /\ tpc[q] = "run"
  /\ IF task[q] = Pill THEN UNCHANGED <<executed, ran>> ELSE Executes(task[q])
  /\ tpc' = [tpc EXCEPT ![q] = "lock"]
  /\ UNCHANGED <<mainVars, heapVars, head, tail, mutex, task, spurious>>

ExecuteTask(q) ==
  /\ tpc[q] = "run"
  /\ IF task[q] = Pill
     THEN tpc' = [tpc EXCEPT ![q] = "exit"] /\ UNCHANGED <<executed, ran>>
     ELSE tpc' = [tpc EXCEPT ![q] = "lock"] /\ Executes(task[q])
  /\ UNCHANGED <<mainVars, heapVars, head, tail, mutex, task, spurious>>

\* pthread_cond_wait may return without a signal.
SpuriousWakeup(q) ==
  /\ tpc[q] = "wait" /\ spurious < MaxSpurious
  /\ tpc' = [tpc EXCEPT ![q] = "woken"]
  /\ spurious' = spurious + 1
  /\ UNCHANGED <<mainVars, heapVars, head, tail, mutex, task, executed,
                 ran>>

-----------------------------------------------------------------------------
\* What main does inside a call.
MainStep ==
  \/ thread_pool_init \/ SendPill
  \/ EnqueueLock \/ EnqueueInsert \/ EnqueueWake \/ EnqueueUnlock
  \/ DestroySignal \/ DestroyJoin

execute_task(q) ==
  \/ DequeueLock(q) \/ DequeueWait(q) \/ DequeueTake(q) \/ DequeueUnlock(q)
  \/ ExecuteTask(q)

Next == \/ MainStep \/ add_task \/ thread_pool_destroy
        \/ \E q \in Queues : execute_task(q) \/ SpuriousWakeup(q)

Spec == Init /\ [][Next]_vars

\* All threads are scheduled; main need not make another call.
FairSpec == Spec /\ WF_vars(MainStep)
                 /\ \A q \in Queues : WF_vars(execute_task(q))

-----------------------------------------------------------------------------
(* Safety.                                                                  *)

\* enqueue appends to the last node of the list, which was not freed.
AppendsToLast ==
  \A q \in Queues : head[q] # NULL =>
    /\ tail[q] # NULL /\ next[tail[q]] = NULL
    /\ {head[q], tail[q]} \cap freed = {}

\* No wake-up is lost, although enqueue signals only an empty queue: a thread
\* that waits while its queue holds a task is about to be signalled.
NoLostWakeup ==
  \A q \in Queues : tpc[q] = "wait" /\ head[q] # NULL
                      => mpc = "wake" /\ slot = q

\* Tasks are executed in the order of add_task, each once and none left out.
RunsInOrder == \A k \in 1 .. executed : ran[k] = k

\* thread_pool_destroy destroys a mutex that nobody holds or will ask for, and
\* when it returns every task that was added has been executed.
DestroysIdle ==
  /\ \A q \in Queues : mutex[q] = "destroyed" =>
       tpc[q] = "exit" /\ head[q] = NULL
  /\ mpc = "done" => executed = added

-----------------------------------------------------------------------------
(* Liveness.                                                                *)

\* A task that was added is executed, whether or not another call follows.
EventuallyRun ==
  \A k \in 1 .. MaxTasks : (added >= k) ~> (executed >= k)

\* thread_pool_destroy returns.
EventuallyDestroyed == stop ~> mpc = "done"

=============================================================================
