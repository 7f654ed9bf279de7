--------------------------- MODULE MasterProofs ---------------------------
(***************************************************************************)
(* Module Master's safety properties, proved for every number of workers,  *)
(* every set of pids and any number of deaths, signals and failing forks.  *)
(***************************************************************************)
EXTENDS Master, TLAPS

\* fork()'s result is pending exactly between the fork and the store.
PidPending ==
  /\ pc \in {"store", "restore"} => pid # 0
  /\ pc \notin {"store", "restore", "exit"} => pid = 0
  /\ pid # 0 => proc[pid] \in {"running", "zombie"}

\* A pid that was never handed out is nowhere.
FreshUnused ==
  \A p \in Pids : proc[p] = "unused" =>
    p # pid /\ \A i \in Slots : worker[i] # p

\* The slot being refilled holds a process that has been reaped.
SlotReaped ==
  pc \in {"refork", "restore"} =>
    worker[slot] # 0 /\ proc[worker[slot]] = "reaped"

\* The first loop has not reached the slots ahead of it.
Progress ==
  pc \in {"fork", "store"} => \A i \in Slots : i >= slot => worker[i] = 0

MasterInv ==
  /\ TypeOK
  /\ ChildrenKnown
  /\ SlotsDistinct
  /\ SlotsAreChildren
  /\ PidPending
  /\ FreshUnused
  /\ SlotReaped
  /\ Progress

\* A signal turns running processes into zombies and does nothing else.
LEMMA KilledFacts ==
  ASSUME TypeOK, NEW S, Killed(S)
  PROVE  /\ proc' \in [Pids -> {"unused", "running", "zombie", "reaped"}]
         /\ \A p \in Pids : \/ proc'[p] = proc[p]
                            \/ proc[p] = "running" /\ proc'[p] = "zombie"
BY DEF Killed, TypeOK

\* The invariant holds when the master starts.
LEMMA InitInv == Init => MasterInv
BY MasterAssumption
DEF Init, MasterInv, TypeOK, ChildrenKnown, SlotsDistinct, SlotsAreChildren,
    PidPending, FreshUnused, SlotReaped, Progress, Slots, PcValues

\* Every step keeps the invariant, in particular the handler of SIGUSR1 between
\* any two steps of the loops.
LEMMA StepInv == MasterInv /\ [Next]_vars => MasterInv'
<1> SUFFICES ASSUME MasterInv, [Next]_vars PROVE MasterInv'
  OBVIOUS
<1> USE DEF MasterInv
<1>1. CASE StartWorker
  <2>p. PICK p \in Pids : /\ proc[p] = "unused"
                         /\ proc' = [proc EXCEPT ![p] = "running"]
                         /\ pid' = p
    BY <1>1 DEF StartWorker, Forks
  <2>1. TypeOK'
    BY <1>1 DEF StartWorker, Forks, TypeOK, PcValues
  <2>2. ChildrenKnown'
    <3> SUFFICES ASSUME NEW q \in Pids, proc'[q] \in {"running", "zombie"}
                 PROVE  q = pid' \/ \E i \in Slots : worker'[i] = q
      BY DEF ChildrenKnown
    <3>1. CASE q = p
      BY <2>p, <3>1
    <3>2. CASE q # p
      <4>1. proc[q] \in {"running", "zombie"}
        BY <2>p, <3>2
      <4>2. q # pid
        BY <1>1, MasterAssumption DEF StartWorker, PidPending
      <4> QED
        BY <1>1, <4>1, <4>2 DEF StartWorker, Forks, ChildrenKnown
    <3> QED
      BY <3>1, <3>2
  <2>3. SlotsDistinct' /\ FreshUnused'
    BY <1>1 DEF StartWorker, Forks, SlotsDistinct, FreshUnused, TypeOK
  <2>4. SlotsAreChildren' /\ SlotReaped'
    BY <1>1 DEF StartWorker, Forks, SlotsAreChildren, SlotReaped
  <2>5. PidPending' /\ Progress'
    BY <1>1, MasterAssumption
    DEF StartWorker, Forks, PidPending, Progress, TypeOK
  <2> QED
    BY <2>1, <2>2, <2>3, <2>4, <2>5
<1>2. CASE StartFails
  <2>1. TypeOK'
    BY <1>2, MasterAssumption
    DEF StartFails, NextSlot, TypeOK, Slots, PcValues
  <2>2. ChildrenKnown'
    BY <1>2 DEF StartFails, ChildrenKnown
  <2>3. SlotsDistinct' /\ FreshUnused'
    BY <1>2 DEF StartFails, SlotsDistinct, FreshUnused
  <2>4. SlotsAreChildren' /\ SlotReaped'
    BY <1>2 DEF StartFails, NextSlot, SlotsAreChildren, SlotReaped
  <2>5. PidPending' /\ Progress'
    BY <1>2 DEF StartFails, NextSlot, PidPending, Progress, TypeOK, Slots
  <2> QED
    BY <2>1, <2>2, <2>3, <2>4, <2>5
<1>3. CASE StoreWorker
  <2>1. TypeOK'
    BY <1>3, MasterAssumption
    DEF StoreWorker, Stores, NextSlot, TypeOK, Slots, PcValues
  <2>2. ChildrenKnown'
    BY <1>3 DEF StoreWorker, Stores, ChildrenKnown, TypeOK, Slots, Progress
  <2>3. SlotsDistinct' /\ FreshUnused'
    BY <1>3, MasterAssumption
    DEF StoreWorker, Stores, SlotsDistinct, FreshUnused
  <2>4. SlotsAreChildren' /\ SlotReaped'
    BY <1>3
    DEF StoreWorker, Stores, NextSlot, SlotsAreChildren, SlotReaped,
        PidPending
  <2>5. PidPending' /\ Progress'
    BY <1>3, MasterAssumption
    DEF StoreWorker, Stores, NextSlot, PidPending, Progress, TypeOK, Slots
  <2> QED
    BY <2>1, <2>2, <2>3, <2>4, <2>5
<1>4. CASE TestFlag
  <2>1. TypeOK'
    BY <1>4, MasterAssumption DEF TestFlag, TypeOK, Slots, PcValues
  <2>2. ChildrenKnown'
    BY <1>4 DEF TestFlag, ChildrenKnown
  <2>3. SlotsDistinct' /\ FreshUnused'
    BY <1>4 DEF TestFlag, SlotsDistinct, FreshUnused
  <2>4. SlotsAreChildren' /\ SlotReaped'
    BY <1>4 DEF TestFlag, SlotsAreChildren, SlotReaped
  <2>5. PidPending' /\ Progress'
    BY <1>4 DEF TestFlag, PidPending, Progress
  <2> QED
    BY <2>1, <2>2, <2>3, <2>4, <2>5
<1>5. CASE WorkerRuns
  <2>1. TypeOK'
    BY <1>5, MasterAssumption
    DEF WorkerRuns, NextSlot, TypeOK, Slots, PcValues
  <2>2. ChildrenKnown'
    BY <1>5 DEF WorkerRuns, ChildrenKnown
  <2>3. SlotsDistinct' /\ FreshUnused'
    BY <1>5 DEF WorkerRuns, SlotsDistinct, FreshUnused
  <2>4. SlotsAreChildren' /\ SlotReaped'
    BY <1>5 DEF WorkerRuns, NextSlot, SlotsAreChildren, SlotReaped
  <2>5. PidPending' /\ Progress'
    BY <1>5 DEF WorkerRuns, NextSlot, PidPending, Progress
  <2> QED
    BY <2>1, <2>2, <2>3, <2>4, <2>5
<1>6. CASE WorkerDown
  <2>1. TypeOK'
    BY <1>6 DEF WorkerDown, TypeOK, PcValues
  <2>2. ChildrenKnown'
    BY <1>6 DEF WorkerDown, ChildrenKnown
  <2>3. SlotsDistinct' /\ FreshUnused'
    BY <1>6 DEF WorkerDown, SlotsDistinct, FreshUnused
  <2>4. SlotsAreChildren' /\ SlotReaped'
    BY <1>6
    DEF WorkerDown, SlotsAreChildren, SlotReaped, SlotsDistinct, TypeOK
  <2>5. PidPending' /\ Progress'
    BY <1>6 DEF WorkerDown, PidPending, Progress
  <2> QED
    BY <2>1, <2>2, <2>3, <2>4, <2>5
<1>7. CASE WaitFails
  <2>1. TypeOK'
    BY <1>7 DEF WaitFails, TypeOK, PcValues
  <2>2. ChildrenKnown'
    BY <1>7 DEF WaitFails, ChildrenKnown, TypeOK
  <2>3. SlotsDistinct' /\ FreshUnused'
    BY <1>7 DEF WaitFails, SlotsDistinct, FreshUnused, TypeOK
  <2>4. SlotsAreChildren' /\ SlotReaped'
    BY <1>7 DEF WaitFails, SlotsAreChildren, SlotReaped
  <2>5. PidPending' /\ Progress'
    BY <1>7 DEF WaitFails, PidPending, Progress
  <2> QED
    BY <2>1, <2>2, <2>3, <2>4, <2>5
<1>8. CASE RestartWorker
  <2>p. PICK p \in Pids : /\ proc[p] = "unused"
                         /\ proc' = [proc EXCEPT ![p] = "running"]
                         /\ pid' = p
    BY <1>8 DEF RestartWorker, Forks
  <2>1. TypeOK'
    BY <1>8 DEF RestartWorker, Forks, TypeOK, PcValues
  <2>2. ChildrenKnown'
    <3> SUFFICES ASSUME NEW q \in Pids, proc'[q] \in {"running", "zombie"}
                 PROVE  q = pid' \/ \E i \in Slots : worker'[i] = q
      BY DEF ChildrenKnown
    <3>1. CASE q = p
      BY <2>p, <3>1
    <3>2. CASE q # p
      <4>1. proc[q] \in {"running", "zombie"}
        BY <2>p, <3>2
      <4>2. q # pid
        BY <1>8, MasterAssumption DEF RestartWorker, PidPending
      <4> QED
        BY <1>8, <4>1, <4>2 DEF RestartWorker, Forks, ChildrenKnown
    <3> QED
      BY <3>1, <3>2
  <2>3. SlotsDistinct' /\ FreshUnused'
    BY <1>8 DEF RestartWorker, Forks, SlotsDistinct, FreshUnused, TypeOK
  <2>4. SlotsAreChildren' /\ SlotReaped'
    BY <1>8 DEF RestartWorker, Forks, SlotsAreChildren, SlotReaped
  <2>5. PidPending' /\ Progress'
    BY <1>8, MasterAssumption
    DEF RestartWorker, Forks, PidPending, Progress, TypeOK
  <2> QED
    BY <2>1, <2>2, <2>3, <2>4, <2>5
<1>9. CASE RestartFails
  <2>1. TypeOK'
    BY <1>9 DEF RestartFails, TypeOK, PcValues
  <2>2. ChildrenKnown'
    BY <1>9 DEF RestartFails, ChildrenKnown
  <2>3. SlotsDistinct' /\ FreshUnused'
    BY <1>9 DEF RestartFails, SlotsDistinct, FreshUnused
  <2>4. SlotsAreChildren' /\ SlotReaped'
    BY <1>9 DEF RestartFails, SlotsAreChildren, SlotReaped
  <2>5. PidPending' /\ Progress'
    BY <1>9 DEF RestartFails, PidPending, Progress
  <2> QED
    BY <2>1, <2>2, <2>3, <2>4, <2>5
<1>10. CASE StoreRestarted
  <2>1. TypeOK'
    BY <1>10, MasterAssumption
    DEF StoreRestarted, Stores, NextSlot, TypeOK, Slots, PcValues
  <2>2. ChildrenKnown'
    BY <1>10 DEF StoreRestarted, Stores, ChildrenKnown, TypeOK, SlotReaped
  <2>3. SlotsDistinct' /\ FreshUnused'
    BY <1>10, MasterAssumption
    DEF StoreRestarted, Stores, SlotsDistinct, FreshUnused
  <2>4. SlotsAreChildren' /\ SlotReaped'
    BY <1>10
    DEF StoreRestarted, Stores, NextSlot, SlotsAreChildren, SlotReaped,
        PidPending, TypeOK
  <2>5. PidPending' /\ Progress'
    BY <1>10 DEF StoreRestarted, Stores, NextSlot, PidPending, Progress
  <2> QED
    BY <2>1, <2>2, <2>3, <2>4, <2>5
<1>11. CASE signal_SIGUSR1
  <2>1. CASE daemon /\ \E i \in Slots : worker[i] = 0
    <3>a. /\ Killed(Pids) /\ pc' = "exit" /\ Signals
          /\ UNCHANGED <<slot, pid, worker, crashes, daemon>>
          /\ server_running_flag' = FALSE
      BY <1>11, <2>1 DEF signal_SIGUSR1, HasHandler
    <3>b. /\ proc' \in [Pids -> {"unused", "running", "zombie", "reaped"}]
          /\ \A p \in Pids : \/ proc'[p] = proc[p]
                             \/ proc[p] = "running" /\ proc'[p] = "zombie"
      BY <3>a, KilledFacts
    <3>1. TypeOK'
      BY <3>a, <3>b DEF TypeOK, PcValues
    <3>2. ChildrenKnown'
      BY <3>a, <3>b DEF ChildrenKnown
    <3>3. SlotsDistinct' /\ FreshUnused'
      BY <3>a, <3>b DEF SlotsDistinct, FreshUnused
    <3>4. SlotsAreChildren' /\ SlotReaped'
      BY <3>a DEF SlotsAreChildren, SlotReaped
    <3>5. PidPending' /\ Progress'
      BY <3>a, <3>b DEF PidPending, Progress, TypeOK
    <3> QED
      BY <3>1, <3>2, <3>3, <3>4, <3>5
  <2>2. CASE daemon /\ \A i \in Slots : worker[i] # 0
    <3>a. /\ Killed({worker[i] : i \in Slots}) /\ Signals
          /\ UNCHANGED <<pc, slot, pid, worker, crashes, daemon>>
          /\ server_running_flag' = FALSE
      BY <1>11, <2>2 DEF signal_SIGUSR1, HasHandler
    <3>b. /\ proc' \in [Pids -> {"unused", "running", "zombie", "reaped"}]
          /\ \A p \in Pids : \/ proc'[p] = proc[p]
                             \/ proc[p] = "running" /\ proc'[p] = "zombie"
      BY <3>a, KilledFacts
    <3>1. TypeOK'
      BY <3>a, <3>b DEF TypeOK
    <3>2. ChildrenKnown'
      BY <3>a, <3>b DEF ChildrenKnown
    <3>3. SlotsDistinct' /\ FreshUnused'
      BY <3>a, <3>b DEF SlotsDistinct, FreshUnused
    <3>4. SlotsAreChildren' /\ SlotReaped'
      BY <3>a, <3>b DEF SlotsAreChildren, SlotReaped, TypeOK
    <3>5. PidPending' /\ Progress'
      BY <3>a, <3>b DEF PidPending, Progress, TypeOK
    <3> QED
      BY <3>1, <3>2, <3>3, <3>4, <3>5
  <2>3. CASE ~ daemon
    <3>a. /\ pc' = "exit" /\ Signals
          /\ UNCHANGED <<slot, pid, worker, proc, server_running_flag, crashes,
                         daemon>>
      BY <1>11, <2>3 DEF signal_SIGUSR1, HasHandler
    <3>1. TypeOK'
      BY <3>a DEF TypeOK, PcValues
    <3>2. ChildrenKnown'
      BY <3>a DEF ChildrenKnown
    <3>3. SlotsDistinct' /\ FreshUnused'
      BY <3>a DEF SlotsDistinct, FreshUnused
    <3>4. SlotsAreChildren' /\ SlotReaped'
      BY <3>a DEF SlotsAreChildren, SlotReaped
    <3>5. PidPending' /\ Progress'
      BY <3>a DEF PidPending, Progress
    <3> QED
      BY <3>1, <3>2, <3>3, <3>4, <3>5
  <2> QED
    BY <2>1, <2>2, <2>3
<1>12. CASE \E p \in Pids : WorkerDies(p)
  <2>a. PICK p \in Pids : WorkerDies(p)
    BY <1>12
  <2>b. /\ Killed({p})
        /\ UNCHANGED <<pc, slot, pid, worker, server_running_flag, daemon>>
        /\ crashes' = crashes + 1
    BY <2>a DEF WorkerDies
  <2>c. /\ proc' \in [Pids -> {"unused", "running", "zombie", "reaped"}]
        /\ \A q \in Pids : \/ proc'[q] = proc[q]
                           \/ proc[q] = "running" /\ proc'[q] = "zombie"
    BY <2>b, KilledFacts
  <2>1. TypeOK'
    BY <2>b, <2>c DEF TypeOK
  <2>2. ChildrenKnown'
    BY <2>b, <2>c DEF ChildrenKnown
  <2>3. SlotsDistinct' /\ FreshUnused'
    BY <2>b, <2>c DEF SlotsDistinct, FreshUnused
  <2>4. SlotsAreChildren' /\ SlotReaped'
    BY <2>b, <2>c DEF SlotsAreChildren, SlotReaped, TypeOK
  <2>5. PidPending' /\ Progress'
    BY <2>b, <2>c DEF PidPending, Progress, TypeOK
  <2> QED
    BY <2>1, <2>2, <2>3, <2>4, <2>5
<1>13. CASE UNCHANGED vars
  <2>1. TypeOK'
    BY <1>13 DEF vars, TypeOK
  <2>2. ChildrenKnown'
    BY <1>13 DEF vars, ChildrenKnown
  <2>3. SlotsDistinct' /\ FreshUnused'
    BY <1>13 DEF vars, SlotsDistinct, FreshUnused
  <2>4. SlotsAreChildren' /\ SlotReaped'
    BY <1>13 DEF vars, SlotsAreChildren, SlotReaped
  <2>5. PidPending' /\ Progress'
    BY <1>13 DEF vars, PidPending, Progress
  <2> QED
    BY <2>1, <2>2, <2>3, <2>4, <2>5
<1> QED
  BY <1>1, <1>2, <1>3, <1>4, <1>5, <1>6, <1>7, <1>8, <1>9, <1>10, <1>11,
     <1>12, <1>13
  DEF Next, MasterStep

\* A slot changes only by a store, into a slot that is empty in the first loop
\* and holds a reaped process in the second.
LEMMA StepRefills ==
  ASSUME MasterInv, [Next]_vars,
         NEW i \in Slots, worker'[i] # worker[i], worker[i] # 0
  PROVE  proc[worker[i]] = "reaped"
<1>1. pc \in {"store", "restore"} /\ worker' = [worker EXCEPT ![slot] = pid]
  BY DEF Next, MasterStep, StartWorker, StartFails, StoreWorker, TestFlag,
         WorkerRuns, WorkerDown, WaitFails, RestartWorker, RestartFails,
         StoreRestarted, signal_SIGUSR1, WorkerDies, Forks, Stores, vars
<1>2. i = slot
  BY <1>1
<1>3. pc # "store"
  BY <1>2 DEF MasterInv, Progress, Slots
<1> QED
  BY <1>1, <1>2, <1>3 DEF MasterInv, SlotReaped

\* A step that ends the master is the signal, a failed fork(), the test of a
\* cleared flag, or a waitpid() that fails; the last needs an empty slot.
LEMMA StepStays ==
  ASSUME MasterInv, [Next]_vars, pc # "exit", pc' = "exit"
  PROVE  \/ signal_SIGUSR1 \/ ~ server_running_flag
         \/ RestartFails
         \/ \E i \in Slots : worker[i] = 0
<1>1. signal_SIGUSR1 \/ RestartFails \/ TestFlag \/ WaitFails
  BY DEF Next, MasterStep, StartWorker, StartFails, StoreWorker, WorkerRuns,
         WorkerDown, RestartWorker, StoreRestarted, WorkerDies, Forks, Stores,
         NextSlot, vars
<1>2. CASE TestFlag
  BY <1>2 DEF TestFlag
<1>3. CASE WaitFails
  <2>1. slot \in Slots /\ worker[slot] \in Pids \cup {0}
    BY DEF MasterInv, TypeOK
  <2>2. CASE worker[slot] # 0
    <3>1. Asked = {worker[slot]} /\ pc = "wait"
      BY <1>3, <2>2 DEF Asked, WaitFails
    <3>2. proc[worker[slot]] \in {"unused", "reaped"}
      BY <1>3, <2>2, <3>1 DEF WaitFails
    <3>3. proc[worker[slot]] \in {"running", "zombie"}
      BY <2>1, <2>2, <3>1 DEF MasterInv, SlotsAreChildren
    <3> QED
      BY <3>2, <3>3
  <2> QED
    BY <2>1, <2>2
<1> QED
  BY <1>1, <1>2, <1>3

\* The inductive invariant holds in every state of every behaviour.
THEOREM MasterInvariance == Spec => []MasterInv
<1>1. Init => MasterInv
  BY InitInv
<1>2. MasterInv /\ [Next]_vars => MasterInv'
  BY StepInv
<1> QED
  BY <1>1, <1>2, PTL DEF Spec

\* worker[] and the process table agree, whatever signals arrive and forks fail
\* between the steps of the loops: no child is forgotten, none is in two slots,
\* and waitpid(worker[i]) is only ever asked for a child.
THEOREM TableAgrees == Spec => []WorkerTable
<1>1. MasterInv => WorkerTable
  BY DEF MasterInv, WorkerTable
<1> QED
  BY <1>1, MasterInvariance, PTL

\* The master gives up only after a signal, a failed fork() or with a slot that
\* was never filled: waitpid() for a worker it has started does not fail.
THEOREM MasterStaysUp == Spec => MasterStays
<1>1. MasterInv /\ [Next]_vars =>
        [pc # "exit" /\ pc' = "exit" =>
           \/ signal_SIGUSR1 \/ ~ server_running_flag
           \/ RestartFails
           \/ \E i \in Slots : worker[i] = 0]_vars
  BY StepStays
<1> QED
  BY <1>1, MasterInvariance, PTL DEF Spec, MasterStays

\* A slot is refilled only when the process in it has been reaped: no worker
\* runs unsupervised, and no zombie is left behind.
THEOREM OnlyReapedReplaced == Spec => RefillsReaped
<1>1. MasterInv /\ [Next]_vars =>
        [\A i \in Slots : worker'[i] # worker[i] /\ worker[i] # 0
                            => proc[worker[i]] = "reaped"]_vars
  BY StepRefills
<1> QED
  BY <1>1, MasterInvariance, PTL DEF Spec, RefillsReaped
=============================================================================
