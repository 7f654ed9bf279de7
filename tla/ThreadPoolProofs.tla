------------------------- MODULE ThreadPoolProofs -------------------------
(***************************************************************************)
(* Module ThreadPool's safety properties, proved for any number of threads,*)
(* tasks and spurious wake-ups.                                            *)
(***************************************************************************)
EXTENDS ThreadPool, TLAPS

\* A mutex is held by exactly the one that is between its lock and unlock.
Locks ==
  \A q \in Queues :
    /\ mutex[q] = "thread" <=> tpc[q] \in {"test", "unlock"}
    /\ mutex[q] = "main" <=> slot = q /\ mpc \in {"insert", "wake", "unlock"}

Pending == mpc \in {"lock", "insert"}

\* The last node that was inserted.
Last == IF Pending THEN alloc - 1 ELSE alloc

\* Where main is, how many nodes it has allocated and what they hold.
Main ==
  /\ mpc \in {"init", "ready"} => ~ stop
  /\ mpc \in {"pill", "signal", "join", "done"} => stop
  /\ mpc # "init" /\ ~ stop => slot = 0
  /\ mpc = "init" => added = 0
  /\ ~ stop => alloc = added
  /\ stop /\ mpc # "done" =>
       alloc = added + slot + (IF mpc = "pill" THEN 0 ELSE 1)
  /\ stop => alloc >= added
  /\ Pending => newNode = alloc /\ alloc > 0
  /\ \A n \in Nodes : n <= alloc => item[n] = IF n <= added THEN n ELSE Pill

\* Only the queue main works on holds nodes, and one other than queues[0]
\* holds its pill alone.  A list is the nodes from head to tail = Last.
Lists ==
  /\ \A q \in Queues : head[q] = NULL => tail[q] = NULL
  /\ \A q \in Queues : head[q] # NULL =>
       /\ q = slot /\ mpc # "init" /\ mpc # "done"
       /\ head[q] <= tail[q] /\ tail[q] = Last
       /\ slot > 0 => head[q] = tail[q] /\ mpc # "pill" /\ ~ Pending
       /\ next[tail[q]] = NULL
       /\ \A n \in Nodes : head[q] <= n /\ n < tail[q] => next[n] = n + 1
       /\ \A n \in freed : n < head[q]
  /\ Pending => next[alloc] = NULL
  /\ \A n \in freed : n <= Last

\* A thread that takes its pill leaves an empty queue to which nothing is
\* added any more; main waits for the threads in turn.
Pills ==
  /\ \A q \in Queues :
       tpc[q] = "exit" \/ (tpc[q] \in {"unlock", "run"} /\ task[q] = Pill) =>
         /\ stop /\ head[q] = NULL
         /\ \/ mpc = "done" \/ q < slot
            \/ q = slot /\ mpc \in {"wake", "unlock", "signal", "join"}
  /\ stop => \A q \in Queues : q < slot \/ mpc = "done" => tpc[q] = "exit"

InHand == tpc[0] \in {"unlock", "run"} /\ task[0] # Pill
TakenTasks == executed + (IF InHand THEN 1 ELSE 0)

\* The tasks queues[0] has given out are the first ones added, and its head
\* is the next one.
Order ==
  /\ InHand => task[0] = executed + 1
  /\ head[0] # NULL => head[0] = TakenTasks + 1
  /\ head[0] = NULL =>
       TakenTasks = IF ~ stop /\ Pending THEN added - 1 ELSE added
  /\ \A q \in Queues : q > 0 => task[q] = Pill

PoolInv ==
  /\ TypeOK
  /\ Locks
  /\ Main
  /\ Lists
  /\ Pills
  /\ Order
  /\ NoLostWakeup
  /\ RunsInOrder
  /\ DestroysIdle

\* The loops over the queues stay inside the array.
LEMMA NextQueueType ==
  ASSUME TypeOK, NEW again, NEW after, NextQueue(again, after)
  PROVE  /\ slot' \in Queues
         /\ \/ mpc' = again /\ slot' = slot + 1
            \/ mpc' = after /\ slot' = 0 /\ slot = num_threads - 1
BY PoolAssumption DEF NextQueue, TypeOK, Queues

\* The invariant holds when thread_pool_init is called.
LEMMA InitInv == Init => PoolInv
<1> SUFFICES ASSUME Init PROVE PoolInv
  OBVIOUS
<1>0. 0 \in Queues
  BY PoolAssumption DEF Queues
<1>1. TypeOK
  <2>1. 0 \in 0 .. MaxTasks /\ 0 \in 0 .. MaxTasks + num_threads
    BY PoolAssumption
  <2> QED
    BY <1>0, <2>1 DEF Init, TypeOK, MainPc, ThreadPc, Pill
<1>2. Locks
  BY <1>0 DEF Init, Locks
<1>3. Main
  BY <1>0 DEF Init, Main, Pending, Nodes
<1>4. Lists
  BY <1>0 DEF Init, Lists, Pending
<1>5. Pills
  BY <1>0 DEF Init, Pills
<1>6. Order
  BY <1>0 DEF Init, Order, Pending, InHand, TakenTasks
<1>7. NoLostWakeup
  BY <1>0 DEF Init, NoLostWakeup
<1>8. RunsInOrder
  BY <1>0 DEF Init, RunsInOrder
<1>9. DestroysIdle
  BY <1>0 DEF Init, DestroysIdle
<1> QED
  BY <1>1, <1>2, <1>3, <1>4, <1>5, <1>6, <1>7, <1>8, <1>9 DEF PoolInv

\* A turn of the loop that creates the threads.
LEMMA thread_pool_initInv ==
  ASSUME PoolInv, thread_pool_init
  PROVE  PoolInv'
<1> USE DEF PoolInv
<1>0. 0 \in Queues
  BY PoolAssumption DEF Queues
<1>1. TypeOK'
  <2>1. slot' \in Queues /\ mpc' \in MainPc
    BY NextQueueType DEF thread_pool_init, MainPc
  <2> QED
    BY <2>1 DEF thread_pool_init, TypeOK, ThreadPc, heapVars
<1>2. Locks'
  BY <1>0 DEF thread_pool_init, NextQueue, Locks, TypeOK
<1>3. Main'
  BY <1>0 DEF thread_pool_init, NextQueue, Main, Pending, heapVars
<1>4. Lists'
  BY <1>0 DEF thread_pool_init, NextQueue, Lists, Last, Pending, heapVars
<1>5. Pills'
  BY <1>0 DEF thread_pool_init, Pills, Main
<1>6. Order'
  BY <1>0
  DEF thread_pool_init, NextQueue, Order, Lists, Main, InHand, TakenTasks,
      Pending, TypeOK
<1>7. NoLostWakeup'
  BY <1>0 DEF thread_pool_init, NoLostWakeup
<1>8. RunsInOrder'
  BY <1>0 DEF thread_pool_init, RunsInOrder
<1>9. DestroysIdle'
  BY <1>0 DEF thread_pool_init, NextQueue, DestroysIdle, Main, Pills
<1> QED
  BY <1>1, <1>2, <1>3, <1>4, <1>5, <1>6, <1>7, <1>8, <1>9

\* A node that is allocated and not yet inserted leaves the lists alone.
LEMMA AllocatesLists ==
  ASSUME PoolInv, NEW t, Allocates(t), alloc + 1 \in Nodes, ~ Pending,
         slot = 0 \/ head[slot] = NULL,
         UNCHANGED <<slot, freed, head, tail>>
  PROVE  Lists'
<1>1. /\ mpc' = "lock" /\ Pending' /\ alloc' = alloc + 1
      /\ Last = alloc /\ Last' = alloc /\ next'[alloc'] = NULL
  BY DEF PoolInv, TypeOK, Allocates, Last, Pending
<1>2. \A n \in Nodes : n <= alloc => next'[n] = next[n]
  BY DEF PoolInv, TypeOK, Allocates, Nodes
<1>3. \A q \in Queues : head[q] = NULL => tail[q] = NULL
  BY DEF PoolInv, Lists
<1>4. \A n \in freed : n <= Last
  BY DEF PoolInv, Lists
<1>5. ASSUME NEW q \in Queues, head[q] # NULL
      PROVE  /\ q = slot /\ head[q] <= tail[q] /\ tail[q] = alloc
             /\ tail[q] \in Nodes /\ next'[tail[q]] = NULL
             /\ \A n \in freed : n < head[q]
  <2>1. /\ q = slot /\ head[q] <= tail[q] /\ tail[q] = alloc
        /\ next[tail[q]] = NULL /\ \A n \in freed : n < head[q]
    BY <1>1, <1>5 DEF PoolInv, Lists
  <2>2. tail[q] \in Nodes
    BY <1>5, <2>1 DEF PoolInv, TypeOK, NULL, Nodes
  <2> QED
    BY <1>2, <2>1, <2>2 DEF Nodes
<1>6. ASSUME NEW q \in Queues, head[q] # NULL,
             NEW n \in Nodes, head[q] <= n, n < tail[q]
      PROVE  next'[n] = n + 1
  <2>1. next[n] = n + 1
    BY <1>6 DEF PoolInv, Lists
  <2>2. tail[q] = alloc /\ tail[q] \in Nodes
    BY <1>5, <1>6
  <2>3. n <= alloc
    BY <1>6, <2>2 DEF Nodes
  <2> QED
    BY <1>2, <2>1, <2>3
<1>7. slot \in Queues /\ slot >= 0
  BY DEF PoolInv, TypeOK, Queues
<1>8. ASSUME NEW q \in Queues, head[q] # NULL
      PROVE  ~ (slot > 0)
  BY <1>5, <1>7, <1>8
<1> QED
  BY <1>1, <1>3, <1>4, <1>5, <1>6, <1>8 DEF Lists

\* add_task up to the lock.
LEMMA add_taskInv ==
  ASSUME PoolInv, add_task
  PROVE  PoolInv'
<1> USE DEF PoolInv
<1>0. 0 \in Queues
  BY PoolAssumption DEF Queues
<1>1. TypeOK'
  <2>1. alloc + 1 \in Nodes /\ alloc + 1 \in 0 .. MaxTasks + num_threads
    BY PoolAssumption DEF add_task, Main, TypeOK, Nodes
  <2>2. added + 1 \in 0 .. MaxTasks
    BY PoolAssumption DEF add_task, TypeOK
  <2> QED
    BY <1>0, <2>1, <2>2 DEF add_task, Allocates, TypeOK, MainPc, threadVars
<1>2. Locks'
  BY <1>0 DEF add_task, Allocates, Locks, threadVars
<1>3. Main'
  BY <1>0 DEF add_task, Allocates, Main, Nodes, TypeOK
<1>4. Lists'
  <2>1. /\ alloc + 1 \in Nodes /\ ~ Pending /\ slot = 0
        /\ UNCHANGED <<slot, freed, head, tail>>
    BY PoolAssumption DEF add_task, Main, Pending, TypeOK, Nodes
  <2>2. Allocates(added + 1)
    BY DEF add_task
  <2> QED
    BY <2>1, <2>2, AllocatesLists
<1>5. Pills'
  BY <1>0 DEF add_task, Pills, Main, threadVars
<1>6. Order'
  BY <1>0
  DEF add_task, Allocates, Order, Main, InHand, TakenTasks, Pending, TypeOK,
      threadVars
<1>7. NoLostWakeup'
  BY <1>0 DEF add_task, NoLostWakeup, threadVars
<1>8. RunsInOrder'
  BY <1>0 DEF add_task, RunsInOrder, threadVars
<1>9. DestroysIdle'
  BY <1>0 DEF add_task, Allocates, DestroysIdle, Main, Pills
<1> QED
  BY <1>1, <1>2, <1>3, <1>4, <1>5, <1>6, <1>7, <1>8, <1>9

\* The start of thread_pool_destroy.
LEMMA thread_pool_destroyInv ==
  ASSUME PoolInv, thread_pool_destroy
  PROVE  PoolInv'
<1> USE DEF PoolInv
<1>0. 0 \in Queues
  BY PoolAssumption DEF Queues
<1>1. TypeOK'
  BY <1>0 DEF thread_pool_destroy, TypeOK, MainPc, heapVars, threadVars
<1>2. Locks'
  BY <1>0 DEF thread_pool_destroy, Locks, threadVars
<1>3. Main'
  BY <1>0 DEF thread_pool_destroy, Main, Pending, TypeOK, heapVars
<1>4. Lists'
  BY <1>0 DEF thread_pool_destroy, Lists, Main, Last, Pending, heapVars
<1>5. Pills'
  BY <1>0 DEF thread_pool_destroy, Pills, Main, Queues, threadVars
<1>6. Order'
  BY <1>0
  DEF thread_pool_destroy, Order, InHand, TakenTasks, Pending, threadVars
<1>7. NoLostWakeup'
  BY <1>0 DEF thread_pool_destroy, NoLostWakeup, threadVars
<1>8. RunsInOrder'
  BY <1>0 DEF thread_pool_destroy, RunsInOrder, threadVars
<1>9. DestroysIdle'
  BY <1>0 DEF thread_pool_destroy, DestroysIdle, Main, Pills
<1> QED
  BY <1>1, <1>2, <1>3, <1>4, <1>5, <1>6, <1>7, <1>8, <1>9

\* The pill's node.
LEMMA SendPillInv ==
  ASSUME PoolInv, SendPill
  PROVE  PoolInv'
<1> USE DEF PoolInv
<1>0. 0 \in Queues
  BY PoolAssumption DEF Queues
<1>1. TypeOK'
  <2>1. alloc + 1 \in Nodes /\ alloc + 1 \in 0 .. MaxTasks + num_threads
    BY PoolAssumption DEF SendPill, Main, TypeOK, Nodes, Queues
  <2>2. Pill \in 0 .. MaxTasks
    BY PoolAssumption DEF Pill
  <2> QED
    BY <2>1, <2>2 DEF SendPill, Allocates, TypeOK, MainPc, threadVars
<1>2. Locks'
  BY <1>0 DEF SendPill, Allocates, Locks, threadVars
<1>3. Main'
  BY <1>0 DEF SendPill, Allocates, Main, Queues, Nodes, TypeOK
<1>4. Lists'
  <2>1. /\ alloc + 1 \in Nodes /\ ~ Pending
        /\ UNCHANGED <<slot, freed, head, tail>>
    BY PoolAssumption DEF SendPill, Main, Pending, TypeOK, Nodes, Queues
  <2>2. slot = 0 \/ head[slot] = NULL
    BY DEF SendPill, Lists, TypeOK, Queues
  <2>3. Allocates(Pill)
    BY DEF SendPill
  <2> QED
    BY <2>1, <2>2, <2>3, AllocatesLists
<1>5. Pills'
  BY <1>0 DEF SendPill, Allocates, Pills, threadVars
<1>6. Order'
  BY <1>0 DEF SendPill, Order, Main, InHand, TakenTasks, threadVars
<1>7. NoLostWakeup'
  BY <1>0 DEF SendPill, NoLostWakeup, threadVars
<1>8. RunsInOrder'
  BY <1>0 DEF SendPill, RunsInOrder, threadVars
<1>9. DestroysIdle'
  BY <1>0 DEF SendPill, Allocates, DestroysIdle, threadVars
<1> QED
  BY <1>1, <1>2, <1>3, <1>4, <1>5, <1>6, <1>7, <1>8, <1>9

\* enqueue takes the mutex.
LEMMA EnqueueLockInv ==
  ASSUME PoolInv, EnqueueLock
  PROVE  PoolInv'
<1> USE DEF PoolInv
<1>0. 0 \in Queues
  BY PoolAssumption DEF Queues
<1>1. TypeOK'
  BY <1>0 DEF EnqueueLock, TypeOK, MainPc, heapVars, threadVars
<1>2. Locks'
  BY <1>0 DEF EnqueueLock, Locks, TypeOK, threadVars
<1>3. Main'
  BY <1>0 DEF EnqueueLock, Main, Pending, heapVars
<1>4. Lists'
  BY <1>0 DEF EnqueueLock, Lists, Last, Pending, heapVars
<1>5. Pills'
  BY <1>0 DEF EnqueueLock, Pills, threadVars
<1>6. Order'
  BY <1>0 DEF EnqueueLock, Order, InHand, TakenTasks, Pending, threadVars
<1>7. NoLostWakeup'
  BY <1>0 DEF EnqueueLock, NoLostWakeup, threadVars
<1>8. RunsInOrder'
  BY <1>0 DEF EnqueueLock, RunsInOrder, threadVars
<1>9. DestroysIdle'
  BY <1>0 DEF EnqueueLock, DestroysIdle, threadVars
<1> QED
  BY <1>1, <1>2, <1>3, <1>4, <1>5, <1>6, <1>7, <1>8, <1>9

\* enqueue links the node.
LEMMA EnqueueInsertInv ==
  ASSUME PoolInv, EnqueueInsert
  PROVE  PoolInv'
<1> USE DEF PoolInv
<1>0. 0 \in Queues
  BY PoolAssumption DEF Queues
<1>1. TypeOK'
  BY <1>0 DEF EnqueueInsert, TypeOK, MainPc, threadVars
<1>2. Locks'
  BY <1>0 DEF EnqueueInsert, Locks, threadVars
<1>3. Main'
  BY <1>0 DEF EnqueueInsert, Main, Pending
<1>4. Lists'
  <2>1. /\ newNode = alloc /\ alloc \in Nodes /\ slot \in Queues
        /\ mpc = "insert" /\ Pending /\ ~ Pending'
        /\ Last = alloc - 1 /\ Last' = alloc
        /\ next[alloc] = NULL /\ slot' = slot /\ alloc' = alloc
    BY DEF EnqueueInsert, Main, Lists, Pending, Last, TypeOK, Nodes
  <2>2. CASE head[slot] = NULL
    BY <2>1, <2>2 DEF EnqueueInsert, Lists, TypeOK
  <2>3. CASE head[slot] # NULL
    <3>1. /\ tail[slot] = alloc - 1 /\ head[slot] <= tail[slot]
          /\ ~ (slot > 0)
      BY <2>1, <2>3 DEF Lists
    <3>2. /\ tail[slot] \in Nodes /\ head[slot] \in Nodes
          /\ next \in [Nodes -> Nat]
      BY <2>1, <2>3, <3>1, PoolAssumption DEF TypeOK, Nodes, NULL
    <3>3. /\ head' = head /\ freed' = freed /\ mpc' = "unlock"
          /\ tail' = [tail EXCEPT ![slot] = alloc]
          /\ next' = [next EXCEPT ![tail[slot]] = alloc]
      BY <2>1, <2>3 DEF EnqueueInsert
    <3>4. next'[alloc] = NULL
      BY <2>1, <3>1, <3>2, <3>3
    <3>5. \A n \in Nodes : head[slot] <= n /\ n < alloc => next'[n] = n + 1
      <4>1. \A n \in Nodes : head[slot] <= n /\ n < tail[slot]
              => next[n] = n + 1
        BY <2>1, <2>3 DEF Lists
      <4> QED
        BY <2>1, <3>1, <3>2, <3>3, <4>1 DEF Nodes
    <3>6. \A q \in Queues : q # slot => tail'[q] = tail[q] /\ head[q] = NULL
      BY <2>1, <3>3 DEF Lists
    <3>7. \A n \in freed : n < head[slot] /\ n <= alloc
      BY <2>1, <2>3, <3>1, <3>2 DEF Lists, TypeOK
    <3>8. tail'[slot] = alloc /\ head[slot] <= alloc
      BY <2>1, <3>1, <3>2, <3>3 DEF TypeOK, Nodes
    <3> QED
      BY <2>1, <2>3, <3>1, <3>3, <3>4, <3>5, <3>6, <3>7, <3>8 DEF Lists
  <2> QED
    BY <2>2, <2>3
<1>5. Pills'
  <2>1. slot \in Queues /\ mpc = "insert" /\ mpc' # "done"
    BY DEF EnqueueInsert, TypeOK
  <2>2. UNCHANGED <<tpc, task, stop, slot>>
    BY DEF EnqueueInsert, threadVars
  <2>3. \A q \in Queues : q # slot => head'[q] = head[q]
    BY <2>1 DEF EnqueueInsert, TypeOK
  <2> QED
    BY <2>1, <2>2, <2>3 DEF Pills, Queues
<1>6. Order'
  <2>1. /\ newNode = alloc /\ alloc \in Nodes /\ slot \in Queues
        /\ mpc = "insert" /\ Pending /\ ~ Pending' /\ Last = alloc - 1
    BY DEF EnqueueInsert, Main, Pending, Last, TypeOK, Nodes
  <2>2. UNCHANGED <<tpc, task, executed, stop, added, InHand, TakenTasks>>
    BY DEF EnqueueInsert, InHand, TakenTasks, threadVars
  <2>3. CASE slot # 0
    <3>1. head'[0] = head[0] /\ stop
      BY <1>0, <2>1, <2>3 DEF EnqueueInsert, Main, TypeOK
    <3> QED
      BY <2>2, <3>1 DEF Order
  <2>4. CASE slot = 0 /\ head[0] = NULL
    <3>1. head'[0] = alloc
      BY <1>0, <2>1, <2>4 DEF EnqueueInsert, TypeOK
    <3>2. alloc = IF stop THEN added + 1 ELSE added
      BY <2>1, <2>4 DEF Main, TypeOK
    <3>3. added \in Nat /\ alloc # NULL
      BY <2>1 DEF TypeOK, Nodes, NULL
    <3> QED
      BY <2>1, <2>2, <2>4, <3>1, <3>2, <3>3 DEF Order
  <2>5. CASE slot = 0 /\ head[0] # NULL
    <3>1. head'[0] = head[0]
      BY <2>5 DEF EnqueueInsert
    <3> QED
      BY <2>2, <2>5, <3>1 DEF Order
  <2> QED
    BY <2>3, <2>4, <2>5
<1>7. NoLostWakeup'
  BY <1>0 DEF EnqueueInsert, NoLostWakeup, TypeOK, threadVars
<1>8. RunsInOrder'
  BY <1>0 DEF EnqueueInsert, RunsInOrder, threadVars
<1>9. DestroysIdle'
  BY <1>0 DEF EnqueueInsert, DestroysIdle, Locks, TypeOK, threadVars
<1> QED
  BY <1>1, <1>2, <1>3, <1>4, <1>5, <1>6, <1>7, <1>8, <1>9

\* enqueue signals.
LEMMA EnqueueWakeInv ==
  ASSUME PoolInv, EnqueueWake
  PROVE  PoolInv'
<1> USE DEF PoolInv
<1>0. 0 \in Queues
  BY PoolAssumption DEF Queues
<1>1. TypeOK'
  BY <1>0 DEF EnqueueWake, Signal, TypeOK, MainPc, ThreadPc, heapVars
<1>2. Locks'
  BY <1>0 DEF EnqueueWake, Signal, Locks
<1>3. Main'
  BY <1>0 DEF EnqueueWake, Main, Pending, heapVars
<1>4. Lists'
  BY <1>0 DEF EnqueueWake, Lists, Last, Pending, heapVars
<1>5. Pills'
  BY <1>0 DEF EnqueueWake, Signal, Pills
<1>6. Order'
  BY <1>0 DEF EnqueueWake, Signal, Order, InHand, TakenTasks, Pending
<1>7. NoLostWakeup'
  BY <1>0 DEF EnqueueWake, Signal, NoLostWakeup, TypeOK
<1>8. RunsInOrder'
  BY <1>0 DEF EnqueueWake, RunsInOrder
<1>9. DestroysIdle'
  BY <1>0 DEF EnqueueWake, Signal, DestroysIdle
<1> QED
  BY <1>1, <1>2, <1>3, <1>4, <1>5, <1>6, <1>7, <1>8, <1>9

\* enqueue releases the mutex.
LEMMA EnqueueUnlockInv ==
  ASSUME PoolInv, EnqueueUnlock
  PROVE  PoolInv'
<1> USE DEF PoolInv
<1>0. 0 \in Queues
  BY PoolAssumption DEF Queues
<1>1. TypeOK'
  BY <1>0 DEF EnqueueUnlock, TypeOK, MainPc, heapVars, threadVars
<1>2. Locks'
  BY <1>0 DEF EnqueueUnlock, Locks, TypeOK, threadVars
<1>3. Main'
  BY <1>0 DEF EnqueueUnlock, Main, Pending, heapVars
<1>4. Lists'
  BY <1>0 DEF EnqueueUnlock, Lists, Last, Pending, heapVars
<1>5. Pills'
  BY <1>0 DEF EnqueueUnlock, Pills, threadVars
<1>6. Order'
  BY <1>0 DEF EnqueueUnlock, Order, InHand, TakenTasks, Pending, threadVars
<1>7. NoLostWakeup'
  BY <1>0 DEF EnqueueUnlock, NoLostWakeup, threadVars
<1>8. RunsInOrder'
  BY <1>0 DEF EnqueueUnlock, RunsInOrder, threadVars
<1>9. DestroysIdle'
  BY <1>0 DEF EnqueueUnlock, DestroysIdle, threadVars
<1> QED
  BY <1>1, <1>2, <1>3, <1>4, <1>5, <1>6, <1>7, <1>8, <1>9

\* The second signal.
LEMMA DestroySignalInv ==
  ASSUME PoolInv, DestroySignal
  PROVE  PoolInv'
<1> USE DEF PoolInv
<1>0. 0 \in Queues
  BY PoolAssumption DEF Queues
<1>1. TypeOK'
  BY <1>0 DEF DestroySignal, Signal, TypeOK, MainPc, ThreadPc, heapVars
<1>2. Locks'
  BY <1>0 DEF DestroySignal, Signal, Locks
<1>3. Main'
  BY <1>0 DEF DestroySignal, Main, Pending, heapVars
<1>4. Lists'
  BY <1>0 DEF DestroySignal, Lists, Last, Pending, heapVars
<1>5. Pills'
  BY <1>0 DEF DestroySignal, Signal, Pills
<1>6. Order'
  BY <1>0 DEF DestroySignal, Signal, Order, Main, InHand, TakenTasks
<1>7. NoLostWakeup'
  BY <1>0 DEF DestroySignal, Signal, NoLostWakeup
<1>8. RunsInOrder'
  BY <1>0 DEF DestroySignal, RunsInOrder
<1>9. DestroysIdle'
  BY <1>0 DEF DestroySignal, Signal, DestroysIdle
<1> QED
  BY <1>1, <1>2, <1>3, <1>4, <1>5, <1>6, <1>7, <1>8, <1>9

\* The join.
LEMMA DestroyJoinInv ==
  ASSUME PoolInv, DestroyJoin
  PROVE  PoolInv'
<1> USE DEF PoolInv
<1>0. 0 \in Queues
  BY PoolAssumption DEF Queues
<1>1. TypeOK'
  <2>1. slot' \in Queues /\ mpc' \in MainPc
    BY NextQueueType DEF DestroyJoin, MainPc
  <2> QED
    BY <2>1 DEF DestroyJoin, TypeOK, heapVars, threadVars
<1>2. Locks'
  BY <1>0 DEF DestroyJoin, NextQueue, Locks, threadVars
<1>3. Main'
  <2>1. /\ mpc = "join" /\ stop
        /\ \/ mpc' = "pill" /\ slot' = slot + 1
           \/ mpc' = "done"
    BY NextQueueType DEF DestroyJoin, Main
  <2>2. UNCHANGED <<newNode, stop, added, alloc, item>>
    BY DEF DestroyJoin, heapVars
  <2>3. alloc = added + slot + 1 /\ added \in Nat /\ slot \in Nat
    BY <2>1 DEF Main, TypeOK, Queues
  <2> QED
    BY <2>1, <2>2, <2>3 DEF Main, Pending
<1>4. Lists'
  BY <1>0 DEF DestroyJoin, NextQueue, Lists, Pills, Last, Pending, heapVars
<1>5. Pills'
  <2>1. /\ mpc = "join" /\ tpc[slot] = "exit" /\ stop /\ slot \in Queues
        /\ \/ mpc' = "pill" /\ slot' = slot + 1
           \/ mpc' = "done" /\ slot' = 0 /\ slot = num_threads - 1
    BY NextQueueType DEF DestroyJoin, Main, TypeOK
  <2>2. UNCHANGED <<stop, head, tpc, task>>
    BY DEF DestroyJoin, threadVars
  <2>3. \A q \in Queues : q <= slot => tpc[q] = "exit"
    <3>1. \A q \in Queues : q < slot => tpc[q] = "exit"
      BY <2>1 DEF Pills
    <3> QED
      BY <2>1, <3>1 DEF Queues
  <2>4. slot = num_threads - 1 => \A q \in Queues : q <= slot
    BY DEF Queues
  <2>5. \A q \in Queues : q < slot + 1 => q <= slot
    BY <2>1 DEF Queues
  <2>6. CASE mpc' = "pill" /\ slot' = slot + 1
    BY <2>1, <2>2, <2>3, <2>5, <2>6 DEF Pills, Queues
  <2>7. CASE mpc' = "done"
    BY <2>1, <2>2, <2>3, <2>4, <2>7 DEF Pills
  <2> QED
    BY <2>1, <2>6, <2>7
<1>6. Order'
  BY <1>0 DEF DestroyJoin, Order, Main, InHand, TakenTasks, threadVars
<1>7. NoLostWakeup'
  BY <1>0 DEF DestroyJoin, NoLostWakeup, threadVars
<1>8. RunsInOrder'
  BY <1>0 DEF DestroyJoin, RunsInOrder, threadVars
<1>9. DestroysIdle'
  <2>1. /\ mpc = "join" /\ tpc[slot] = "exit" /\ stop /\ slot \in Queues
        /\ mutex' = [mutex EXCEPT ![slot] = "destroyed"]
        /\ UNCHANGED <<stop, head, tpc, executed, added, task>>
    BY DEF DestroyJoin, Main, TypeOK, threadVars
  <2>2. \A q \in Queues : tpc[q] = "exit" => head[q] = NULL
    BY DEF Pills
  <2>3. \A q \in Queues : mutex'[q] = "destroyed" =>
          tpc'[q] = "exit" /\ head'[q] = NULL
    BY <2>1, <2>2 DEF DestroysIdle
  <2>4. mpc' = "done" => tpc[0] = "exit"
    BY <1>0, <1>5, <2>1 DEF Pills
  <2>5. tpc[0] = "exit" => executed = added
    BY <1>0, <2>1, <2>2 DEF Order, TakenTasks, InHand, TypeOK
  <2> QED
    BY <2>1, <2>3, <2>4, <2>5 DEF DestroysIdle
<1> QED
  BY <1>1, <1>2, <1>3, <1>4, <1>5, <1>6, <1>7, <1>8, <1>9

\* dequeue takes the mutex.
LEMMA DequeueLockInv ==
  ASSUME PoolInv, NEW q \in Queues, DequeueLock(q)
  PROVE  PoolInv'
<1> USE DEF PoolInv
<1>0. 0 \in Queues
  BY PoolAssumption DEF Queues
<1>1. TypeOK'
  BY <1>0 DEF DequeueLock, TypeOK, ThreadPc, mainVars, heapVars
<1>2. Locks'
  BY <1>0 DEF DequeueLock, Locks, TypeOK, mainVars
<1>3. Main'
  BY <1>0 DEF DequeueLock, Main, Pending, mainVars, heapVars
<1>4. Lists'
  BY <1>0 DEF DequeueLock, Lists, Last, Pending, mainVars, heapVars
<1>5. Pills'
  BY <1>0 DEF DequeueLock, Pills, mainVars
<1>6. Order'
  BY <1>0 DEF DequeueLock, Order, InHand, TakenTasks, Pending, mainVars
<1>7. NoLostWakeup'
  BY <1>0 DEF DequeueLock, NoLostWakeup, mainVars
<1>8. RunsInOrder'
  BY <1>0 DEF DequeueLock, RunsInOrder
<1>9. DestroysIdle'
  BY <1>0 DEF DequeueLock, DestroysIdle, mainVars
<1> QED
  BY <1>1, <1>2, <1>3, <1>4, <1>5, <1>6, <1>7, <1>8, <1>9

\* dequeue waits.
LEMMA DequeueWaitInv ==
  ASSUME PoolInv, NEW q \in Queues, DequeueWait(q)
  PROVE  PoolInv'
<1> USE DEF PoolInv
<1>0. 0 \in Queues
  BY PoolAssumption DEF Queues
<1>1. TypeOK'
  BY <1>0 DEF DequeueWait, TypeOK, ThreadPc, mainVars, heapVars
<1>2. Locks'
  BY <1>0 DEF DequeueWait, Locks, TypeOK, mainVars
<1>3. Main'
  BY <1>0 DEF DequeueWait, Main, Pending, mainVars, heapVars
<1>4. Lists'
  <2>1. UNCHANGED <<mpc, slot, alloc, next, freed, head, tail, Pending, Last>>
    BY DEF DequeueWait, Pending, Last, mainVars, heapVars
  <2> QED
    BY <2>1 DEF Lists
<1>5. Pills'
  BY <1>0 DEF DequeueWait, Pills, mainVars
<1>6. Order'
  <2>1. UNCHANGED <<task, head, stop, added, executed, Pending>>
    BY DEF DequeueWait, Pending, mainVars
  <2>2. InHand' <=> InHand
    BY <1>0, <2>1 DEF DequeueWait, InHand, TypeOK
  <2>3. TakenTasks' = TakenTasks
    BY <2>1, <2>2 DEF TakenTasks
  <2> QED
    BY <2>1, <2>2, <2>3 DEF Order
<1>7. NoLostWakeup'
  BY <1>0 DEF DequeueWait, NoLostWakeup, mainVars
<1>8. RunsInOrder'
  BY <1>0 DEF DequeueWait, RunsInOrder
<1>9. DestroysIdle'
  BY <1>0 DEF DequeueWait, DestroysIdle, mainVars
<1> QED
  BY <1>1, <1>2, <1>3, <1>4, <1>5, <1>6, <1>7, <1>8, <1>9

\* dequeue unlinks the first node.
LEMMA DequeueTakeInv ==
  ASSUME PoolInv, NEW q \in Queues, DequeueTake(q)
  PROVE  PoolInv'
<1> USE DEF PoolInv
<1>0. 0 \in Queues
  BY PoolAssumption DEF Queues
<1>1. TypeOK'
  BY <1>0 DEF DequeueTake, TypeOK, ThreadPc, mainVars
<1>2. Locks'
  BY <1>0 DEF DequeueTake, Locks, mainVars
<1>3. Main'
  BY <1>0 DEF DequeueTake, Main, Pending, mainVars
<1>4. Lists'
  <2>1. /\ q = slot /\ mpc # "init" /\ mpc # "done"
        /\ head[q] \in Nodes /\ tail[q] \in Nodes /\ head[q] # NULL
        /\ head[q] <= tail[q] /\ tail[q] = Last
    BY DEF DequeueTake, Lists, TypeOK, Nodes, NULL
  <2>2. UNCHANGED <<mpc, slot, stop, added, alloc, item, next, Pending, Last>>
    BY DEF DequeueTake, Pending, Last, mainVars
  <2>3. CASE head[q] = tail[q]
    <3>1. next[head[q]] = NULL
      BY <2>1, <2>3 DEF Lists
    <3>2. /\ head' = [head EXCEPT ![q] = NULL]
          /\ tail' = [tail EXCEPT ![q] = NULL]
      BY <3>1 DEF DequeueTake
    <3>3. freed' = freed \cup {Last}
      BY <2>1, <2>3 DEF DequeueTake
    <3>4. Last \in Nat
      BY <2>1 DEF Nodes
    <3> QED
      BY <2>1, <2>2, <3>2, <3>3, <3>4 DEF Lists, TypeOK
  <2>4. CASE head[q] # tail[q]
    <3>1. /\ next[head[q]] = head[q] + 1 /\ head[q] + 1 \in Nodes
          /\ head[q] < tail[q]
      <4>1. head[q] < tail[q] /\ head[q] + 1 \in Nodes
        BY <2>1, <2>4, PoolAssumption DEF Nodes
      <4>2. next[head[q]] = head[q] + 1
        BY <2>1, <4>1 DEF Lists, Nodes
      <4> QED
        BY <4>1, <4>2
    <3>2. head' = [head EXCEPT ![q] = head[q] + 1] /\ tail' = tail
      BY <3>1 DEF DequeueTake, Nodes, NULL
    <3>3. freed' = freed \cup {head[q]}
      BY DEF DequeueTake
    <3>4. freed \subseteq Nodes
      BY DEF TypeOK
    <3>5. slot = 0
      BY <2>1, <2>4 DEF Lists, Queues
    <3> QED
      BY <2>1, <2>2, <3>1, <3>2, <3>3, <3>4, <3>5
      DEF Lists, TypeOK, Nodes, NULL
  <2> QED
    BY <2>3, <2>4
<1>5. Pills'
  <2>1. /\ q = slot /\ mpc # "init" /\ mpc # "done"
        /\ head[q] \in Nodes /\ tail[q] \in Nodes /\ head[q] # NULL
        /\ head[q] <= tail[q] /\ tail[q] = Last
    BY DEF DequeueTake, Lists, TypeOK, Nodes, NULL
  <2>2. UNCHANGED <<mpc, slot, stop, added, alloc, item, next, Pending, Last>>
    BY DEF DequeueTake, Pending, Last, mainVars
  <2>3. tpc' = [tpc EXCEPT ![q] = "unlock"] /\ task'[q] = item[head[q]]
    BY DEF DequeueTake, TypeOK
  <2>4. \A p \in Queues : p # q => /\ tpc'[p] = tpc[p] /\ task'[p] = task[p]
                                   /\ head'[p] = head[p]
    BY DEF DequeueTake
  <2>5. ASSUME item[head[q]] = Pill
        PROVE  /\ stop /\ head'[q] = NULL
               /\ mpc \in {"wake", "unlock", "signal", "join"}
    <3>1. head[q] <= alloc /\ head[q] > added
      BY <2>1, <2>5 DEF Main, Last, TypeOK, Nodes, Pill
    <3>2. stop /\ ~ Pending /\ mpc # "pill"
      BY <2>1, <3>1 DEF Main, Lists, Last, TypeOK, Queues
    <3>3. mpc \in {"wake", "unlock", "signal", "join"}
      BY <2>1, <3>2 DEF Main, Pending, TypeOK, MainPc
    <3>4. head[q] = tail[q]
      BY <2>1, <3>1, <3>2 DEF Main, Lists, Last, TypeOK, Nodes, Queues
    <3>5. next[head[q]] = NULL
      BY <2>1, <3>4 DEF Lists
    <3> QED
      BY <3>2, <3>3, <3>5 DEF DequeueTake, TypeOK
  <2>6. ~ (q < slot)
    BY <2>1 DEF Queues
  <2> QED
    BY <2>1, <2>2, <2>3, <2>4, <2>5, <2>6 DEF Pills
<1>6. Order'
  <2>1. /\ q = slot /\ mpc # "init" /\ mpc # "done"
        /\ head[q] \in Nodes /\ tail[q] \in Nodes /\ head[q] # NULL
        /\ head[q] <= tail[q] /\ tail[q] = Last
    BY DEF DequeueTake, Lists, TypeOK, Nodes, NULL
  <2>2. UNCHANGED <<mpc, slot, stop, added, alloc, item, next, Pending, Last>>
    BY DEF DequeueTake, Pending, Last, mainVars
  <2>3. CASE q # 0
    <3>1. item[head[q]] = Pill
      BY <2>1, <2>3 DEF Main, Lists, Last, TypeOK, Queues
    <3>2. UNCHANGED <<executed, tpc[0], task[0], head[0]>>
      BY <1>0, <2>3 DEF DequeueTake
    <3>3. task' = [task EXCEPT ![q] = Pill]
      BY <3>1 DEF DequeueTake
    <3> QED
      BY <2>2, <3>2, <3>3 DEF Order, InHand, TakenTasks
  <2>4. CASE q = 0
    <3>1. ~ InHand /\ head[0] = executed + 1 /\ TakenTasks = executed
      BY <1>0, <2>1, <2>4 DEF DequeueTake, Order, InHand, TakenTasks, TypeOK
    <3>2. /\ tpc'[0] = "unlock" /\ task'[0] = item[head[0]]
          /\ executed' = executed
          /\ head'[0] = next[head[0]]
          /\ \A p \in Queues : p > 0 => task'[p] = task[p]
      BY <1>0, <2>4 DEF DequeueTake, TypeOK
    <3>3. /\ head[0] <= alloc
          /\ item[head[0]] = IF head[0] <= added THEN head[0] ELSE Pill
      BY <2>1, <2>4 DEF Main, Last, TypeOK, Nodes
    <3>4. executed \in Nat
      BY DEF TypeOK
    <3>5. CASE head[0] <= added
      <4>1. InHand' /\ task'[0] = executed + 1
        BY <2>1, <2>4, <3>1, <3>2, <3>3, <3>5 DEF InHand, Nodes, Pill
      <4>2. TakenTasks' = executed + 1
        BY <3>2, <4>1 DEF TakenTasks
      <4>3. CASE head[0] = tail[0]
        <5>1. head'[0] = NULL /\ head[0] = Last
          BY <2>1, <2>4, <3>2, <4>3 DEF Lists
        <5>2. Last = IF ~ stop /\ Pending THEN added - 1 ELSE added
          BY <2>1, <2>4, <3>5, <5>1 DEF Main, Last, Pending, TypeOK
        <5> QED
          BY <2>2, <3>1, <3>2, <4>1, <4>2, <5>1, <5>2 DEF Order
      <4>4. CASE head[0] # tail[0]
        <5>1. head'[0] = head[0] + 1 /\ head[0] + 1 # NULL
          BY <2>1, <2>4, <3>2, <4>4 DEF Lists, Nodes, NULL
        <5> QED
          BY <2>2, <3>1, <3>2, <3>4, <4>1, <4>2, <5>1 DEF Order
      <4> QED
        BY <4>3, <4>4
    <3>6. CASE head[0] > added
      <4>1. ~ InHand' /\ TakenTasks' = executed
        BY <2>1, <2>4, <3>2, <3>3, <3>4, <3>6 DEF InHand, TakenTasks, TypeOK
      <4>2. head'[0] = NULL
        BY <1>5, <2>1, <2>4, <3>2, <3>3, <3>6 DEF Pills, TypeOK
      <4>3. stop /\ executed = added
        BY <2>1, <2>4, <3>1, <3>3, <3>4, <3>6 DEF Main, TypeOK
      <4> QED
        BY <2>2, <3>2, <4>1, <4>2, <4>3 DEF Order
    <3> QED
      BY <2>1, <2>4, <3>5, <3>6 DEF TypeOK, Nodes
  <2> QED
    BY <2>3, <2>4
<1>7. NoLostWakeup'
  BY <1>0 DEF DequeueTake, NoLostWakeup, Lists
<1>8. RunsInOrder'
  BY <1>0 DEF DequeueTake, RunsInOrder
<1>9. DestroysIdle'
  BY <1>0 DEF DequeueTake, DestroysIdle, mainVars
<1> QED
  BY <1>1, <1>2, <1>3, <1>4, <1>5, <1>6, <1>7, <1>8, <1>9

\* dequeue releases the mutex.
LEMMA DequeueUnlockInv ==
  ASSUME PoolInv, NEW q \in Queues, DequeueUnlock(q)
  PROVE  PoolInv'
<1> USE DEF PoolInv
<1>0. 0 \in Queues
  BY PoolAssumption DEF Queues
<1>1. TypeOK'
  BY <1>0 DEF DequeueUnlock, TypeOK, ThreadPc, mainVars, heapVars
<1>2. Locks'
  BY <1>0 DEF DequeueUnlock, Locks, TypeOK, mainVars
<1>3. Main'
  BY <1>0 DEF DequeueUnlock, Main, Pending, mainVars, heapVars
<1>4. Lists'
  BY <1>0 DEF DequeueUnlock, Lists, Last, Pending, mainVars, heapVars
<1>5. Pills'
  BY <1>0 DEF DequeueUnlock, Pills, mainVars
<1>6. Order'
  BY <1>0 DEF DequeueUnlock, Order, InHand, TakenTasks, Pending, mainVars
<1>7. NoLostWakeup'
  BY <1>0 DEF DequeueUnlock, NoLostWakeup, mainVars
<1>8. RunsInOrder'
  BY <1>0 DEF DequeueUnlock, RunsInOrder
<1>9. DestroysIdle'
  BY <1>0 DEF DequeueUnlock, DestroysIdle, mainVars
<1> QED
  BY <1>1, <1>2, <1>3, <1>4, <1>5, <1>6, <1>7, <1>8, <1>9

\* The thread executes a task or ends.
LEMMA ExecuteTaskInv ==
  ASSUME PoolInv, NEW q \in Queues, ExecuteTask(q)
  PROVE  PoolInv'
<1> USE DEF PoolInv
<1>0. 0 \in Queues
  BY PoolAssumption DEF Queues
<1>1. TypeOK'
  <2>1. task[q] # Pill => task[q] \in 1 .. MaxTasks
    BY DEF TypeOK, Pill
  <2>2. task[q] # Pill => executed + 1 \in 1 .. MaxTasks
    BY <1>0, <2>1 DEF ExecuteTask, Order, InHand, Queues
  <2>3. /\ executed' \in 0 .. MaxTasks
        /\ ran' \in [1 .. MaxTasks -> 0 .. MaxTasks]
    BY <2>1, <2>2 DEF ExecuteTask, Executes, TypeOK
  <2> QED
    BY <2>3 DEF ExecuteTask, TypeOK, ThreadPc, mainVars, heapVars
<1>2. Locks'
  BY <1>0 DEF ExecuteTask, Locks, TypeOK, mainVars
<1>3. Main'
  BY <1>0 DEF ExecuteTask, Main, Pending, mainVars, heapVars
<1>4. Lists'
  BY <1>0 DEF ExecuteTask, Lists, Last, Pending, mainVars, heapVars
<1>5. Pills'
  <2>1. /\ UNCHANGED <<mpc, slot, stop, head, task>>
        /\ \A p \in Queues : p # q => tpc'[p] = tpc[p]
    BY DEF ExecuteTask, TypeOK, mainVars
  <2>2. /\ tpc[q] = "run"
        /\ tpc'[q] = IF task[q] = Pill THEN "exit" ELSE "lock"
    BY DEF ExecuteTask, TypeOK
  <2> QED
    BY <2>1, <2>2 DEF Pills
<1>6. Order'
  <2>1. UNCHANGED <<mpc, stop, added, head, task, Pending>>
    BY DEF ExecuteTask, Pending, mainVars
  <2>2. CASE task[q] = Pill
    <3>1. executed' = executed /\ (InHand' <=> InHand)
      BY <1>0, <2>1, <2>2 DEF ExecuteTask, InHand, TypeOK
    <3> QED
      BY <2>1, <3>1 DEF Order, TakenTasks
  <2>3. CASE task[q] # Pill
    <3>1. q = 0 /\ InHand
      BY <2>3 DEF ExecuteTask, Order, InHand, Queues
    <3>2. tpc'[0] = "lock" /\ executed' = executed + 1
      BY <1>0, <2>3, <3>1 DEF ExecuteTask, Executes, TypeOK
    <3>3. executed \in Nat
      BY DEF TypeOK
    <3>4. ~ InHand' /\ TakenTasks' = TakenTasks
      BY <3>1, <3>2, <3>3 DEF InHand, TakenTasks
    <3> QED
      BY <2>1, <3>4 DEF Order
  <2> QED
    BY <2>2, <2>3
<1>7. NoLostWakeup'
  BY <1>0 DEF ExecuteTask, NoLostWakeup, TypeOK, mainVars
<1>8. RunsInOrder'
  <2>1. CASE task[q] = Pill
    BY <2>1 DEF ExecuteTask, RunsInOrder
  <2>2. CASE task[q] # Pill
    <3>1. q = 0 /\ task[q] = executed + 1
      BY <2>2 DEF ExecuteTask, Order, InHand, Queues
    <3>2. /\ executed' = executed + 1 /\ executed \in Nat
          /\ ran' = [ran EXCEPT ![executed + 1] = executed + 1]
      BY <2>2, <3>1 DEF ExecuteTask, Executes, TypeOK
    <3>3. executed + 1 \in 1 .. MaxTasks /\ ran \in [1 .. MaxTasks -> Nat]
      BY <3>1, <3>2 DEF TypeOK
    <3> QED
      BY <3>2, <3>3 DEF RunsInOrder
  <2> QED
    BY <2>1, <2>2
<1>9. DestroysIdle'
  BY <1>0 DEF ExecuteTask, DestroysIdle, Main, Pills, TypeOK, mainVars
<1> QED
  BY <1>1, <1>2, <1>3, <1>4, <1>5, <1>6, <1>7, <1>8, <1>9

\* pthread_cond_wait returns by itself.
LEMMA SpuriousWakeupInv ==
  ASSUME PoolInv, NEW q \in Queues, SpuriousWakeup(q)
  PROVE  PoolInv'
<1> USE DEF PoolInv
<1>0. 0 \in Queues
  BY PoolAssumption DEF Queues
<1>1. TypeOK'
  BY DEF SpuriousWakeup, TypeOK, ThreadPc, mainVars, heapVars
<1>2. Locks'
  BY <1>0 DEF SpuriousWakeup, Locks, mainVars
<1>3. Main'
  BY <1>0 DEF SpuriousWakeup, Main, Pending, mainVars, heapVars
<1>4. Lists'
  BY <1>0 DEF SpuriousWakeup, Lists, Last, Pending, mainVars, heapVars
<1>5. Pills'
  <2>1. UNCHANGED <<mpc, slot, stop, head, task>>
    BY DEF SpuriousWakeup, mainVars
  <2>2. ASSUME NEW p \in Queues, tpc'[p] \in {"exit", "unlock", "run"}
        PROVE  tpc[p] = tpc'[p]
    BY <2>2 DEF SpuriousWakeup, TypeOK
  <2>3. \A p \in Queues : tpc[p] = "exit" => tpc'[p] = "exit"
    BY DEF SpuriousWakeup, TypeOK
  <2> QED
    BY <2>1, <2>2, <2>3 DEF Pills
<1>6. Order'
  BY <1>0 DEF SpuriousWakeup, Order, InHand, TakenTasks, Pending, mainVars
<1>7. NoLostWakeup'
  BY <1>0 DEF SpuriousWakeup, NoLostWakeup, mainVars
<1>8. RunsInOrder'
  BY <1>0 DEF SpuriousWakeup, RunsInOrder
<1>9. DestroysIdle'
  BY <1>0 DEF SpuriousWakeup, DestroysIdle, mainVars
<1> QED
  BY <1>1, <1>2, <1>3, <1>4, <1>5, <1>6, <1>7, <1>8, <1>9

\* Every step keeps the invariant.
LEMMA StepInv == PoolInv /\ [Next]_vars => PoolInv'
<1> SUFFICES ASSUME PoolInv, [Next]_vars PROVE PoolInv'
  OBVIOUS
<1>1. CASE UNCHANGED vars
  BY <1>1
  DEF vars, PoolInv, TypeOK, Locks, Main, Lists, Pills, Order, NoLostWakeup,
      RunsInOrder, DestroysIdle, Pending, Last, InHand, TakenTasks
<1>2. CASE MainStep \/ add_task \/ thread_pool_destroy
  BY <1>2, thread_pool_initInv, add_taskInv, thread_pool_destroyInv,
     SendPillInv, EnqueueLockInv, EnqueueInsertInv, EnqueueWakeInv,
     EnqueueUnlockInv, DestroySignalInv, DestroyJoinInv
  DEF MainStep
<1>3. CASE \E q \in Queues : execute_task(q) \/ SpuriousWakeup(q)
  BY <1>3, DequeueLockInv, DequeueWaitInv, DequeueTakeInv, DequeueUnlockInv,
     ExecuteTaskInv, SpuriousWakeupInv
  DEF execute_task
<1> QED
  BY <1>1, <1>2, <1>3 DEF Next

\* The inductive invariant holds in every state of every behaviour.
THEOREM PoolInvariance == Spec => []PoolInv
<1>1. Init => PoolInv
  BY InitInv
<1>2. PoolInv /\ [Next]_vars => PoolInv'
  BY StepInv
<1> QED
  BY <1>1, <1>2, PTL DEF Spec

\* The variables of the pool keep their types: no loop leaves the array of
\* queues.
THEOREM PoolTypes == Spec => []TypeOK
<1>1. PoolInv => TypeOK
  BY DEF PoolInv
<1> QED
  BY <1>1, PoolInvariance, PTL

\* enqueue never links a node to one that dequeue has freed.
THEOREM ListsSound == Spec => []AppendsToLast
<1>1. PoolInv => AppendsToLast
  <2> SUFFICES ASSUME PoolInv, NEW q \in Queues, head[q] # NULL
               PROVE  /\ tail[q] # NULL /\ next[tail[q]] = NULL
                      /\ {head[q], tail[q]} \cap freed = {}
    BY DEF AppendsToLast
  <2>1. /\ head[q] <= tail[q] /\ next[tail[q]] = NULL
        /\ \A n \in freed : n < head[q]
    BY DEF PoolInv, Lists
  <2>2. head[q] \in Nodes /\ tail[q] \in Nodes \cup {NULL}
    BY DEF PoolInv, TypeOK
  <2> QED
    BY <2>1, <2>2 DEF Nodes, NULL
<1> QED
  BY <1>1, PoolInvariance, PTL

\* enqueue's signal for an empty queue is all the thread needs.
THEOREM WakeupsKept == Spec => []NoLostWakeup
<1>1. PoolInv => NoLostWakeup
  BY DEF PoolInv
<1> QED
  BY <1>1, PoolInvariance, PTL

\* The tasks are executed in the order in which they were added, each once.
THEOREM FirstInFirstRun == Spec => []RunsInOrder
<1>1. PoolInv => RunsInOrder
  BY DEF PoolInv
<1> QED
  BY <1>1, PoolInvariance, PTL

\* thread_pool_destroy leaves no thread, no node and no task behind.
THEOREM DestroyDrains == Spec => []DestroysIdle
<1>1. PoolInv => DestroysIdle
  BY DEF PoolInv
<1> QED
  BY <1>1, PoolInvariance, PTL
=============================================================================
