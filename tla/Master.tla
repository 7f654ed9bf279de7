------------------------------ MODULE Master ------------------------------
(***************************************************************************)
(* The master process (dm_master.c): it forks WORKER_NUM workers, then     *)
(* polls them with waitpid(WNOHANG) and forks a new one for each that      *)
(* died.  SIGUSR1, which stops the server, is handled between any two      *)
(* steps of that loop; the handler is installed by master_daemonize only.  *)
(***************************************************************************)
EXTENDS Naturals

CONSTANTS
  WORKER_NUM,
  Pids,         \* process identifiers fork() may return; 0 is none of them
  Signals,      \* SIGUSR1 is sent in the behaviours considered
  ForkFails,    \* fork() may fail
  MaxCrash      \* bound: how many workers die by themselves

ASSUME MasterAssumption ==
  /\ WORKER_NUM \in Nat \ {0}
  /\ Pids \subseteq Nat \ {0}
  /\ Signals \in BOOLEAN /\ ForkFails \in BOOLEAN
  /\ MaxCrash \in Nat

VARIABLES
  pc,        \* where the master is, see PcValues
  slot,      \* i of the loop it is in
  pid,       \* what fork() returned, until it is stored; 0 otherwise
  worker,    \* worker[]
  proc,      \* the processes: "unused", "running", "zombie", "reaped"
  server_running_flag,
  crashes,   \* how many workers died by themselves
  daemon     \* started with the argument "master": SIGUSR1 has its handler

vars == <<pc, slot, pid, worker, proc, server_running_flag, crashes, daemon>>

Slots == 0 .. WORKER_NUM - 1

\* "fork", "store": master_start_multi_process_server; the others:
\* master_check_and_restart, from the while's test to worker[i] = pid.
PcValues == {"fork", "store", "test", "wait", "refork", "restore", "exit"}

TypeOK ==
  /\ pc \in PcValues
  /\ slot \in Slots
  /\ pid \in Pids \cup {0}
  /\ worker \in [Slots -> Pids \cup {0}]
  /\ proc \in [Pids -> {"unused", "running", "zombie", "reaped"}]
  /\ server_running_flag \in BOOLEAN
  /\ crashes \in Nat
  /\ daemon \in BOOLEAN

Init ==
  /\ pc = "fork"
  /\ slot = 0
  /\ pid = 0
  /\ worker = [i \in Slots |-> 0]
  /\ proc = [p \in Pids |-> "unused"]
  /\ server_running_flag = TRUE
  /\ crashes = 0
  /\ daemon \in BOOLEAN

-----------------------------------------------------------------------------
\* The next turn of a for loop that continues at "again" and ends at "test".
NextSlot(again) ==
  IF slot + 1 < WORKER_NUM THEN slot' = slot + 1 /\ pc' = again
                           ELSE slot' = 0 /\ pc' = "test"

\* fork() succeeds: there is a child before its pid is stored anywhere.
Forks(then) ==
  /\ \E p \in Pids : /\ proc[p] = "unused"
                     /\ proc' = [proc EXCEPT ![p] = "running"]
                     /\ pid' = p
  /\ pc' = then
  /\ UNCHANGED <<slot, worker, server_running_flag, crashes, daemon>>

\* Mutant: the pid goes into the next slot.
BugStores(again) ==
  /\ worker' = [worker EXCEPT ![(slot + 1) % WORKER_NUM] = pid]
  /\ pid' = 0
  /\ NextSlot(again)
  /\ UNCHANGED <<proc, server_running_flag, crashes, daemon>>

\* worker[i] = pid, and the loop goes on.
Stores(again) ==
  /\ worker' = [worker EXCEPT ![slot] = pid]
  /\ pid' = 0
  /\ NextSlot(again)
  /\ UNCHANGED <<proc, server_running_flag, crashes, daemon>>

StartWorker == pc = "fork" /\ Forks("store")

\* The slot of a worker that could not be forked keeps its 0.
StartFails ==
  /\ pc = "fork" /\ ForkFails
  /\ NextSlot("fork")
  /\ UNCHANGED <<pid, worker, proc, server_running_flag, crashes, daemon>>

StoreWorker == pc = "store" /\ Stores("fork")

-----------------------------------------------------------------------------
(* master_check_and_restart.                                                *)

\* Mutant: while(1).
BugTestFlag ==
  /\ pc = "test"
  /\ pc' = "wait"
  /\ slot' = 0
  /\ UNCHANGED <<pid, worker, proc, server_running_flag, crashes, daemon>>

TestFlag ==
  /\ pc = "test"
  /\ pc' = IF server_running_flag THEN "wait" ELSE "exit"
  /\ slot' = 0
  /\ UNCHANGED <<pid, worker, proc, server_running_flag, crashes, daemon>>

\* The children waitpid(worker[i], &status, WNOHANG) asks for: pid 0, which is
\* in the slot of a worker that could not be forked, stands for any child.
Asked == IF worker[slot] = 0 THEN Pids ELSE {worker[slot]}

\* Mutant: without WNOHANG the master waits for this worker's death.
BugBlocks == pc = "wait" /\ FALSE /\ UNCHANGED vars

\* It returns 0: there are such children and none has died.
WorkerRuns ==
  /\ pc = "wait"
  /\ \E p \in Asked : proc[p] = "running"
  /\ \A p \in Asked : proc[p] # "zombie"
  /\ NextSlot("wait")
  /\ UNCHANGED <<pid, worker, proc, server_running_flag, crashes, daemon>>

\* It returns worker[i]: the worker died and is reaped.
WorkerDown ==
  /\ pc = "wait" /\ worker[slot] # 0 /\ proc[worker[slot]] = "zombie"
  /\ proc' = [proc EXCEPT ![worker[slot]] = "reaped"]
  /\ pc' = "refork"
  /\ UNCHANGED <<slot, pid, worker, server_running_flag, crashes, daemon>>

\* It reaps another worker for an empty slot, or returns -1 for want of
\* children: exit(1).
WaitFails ==
  /\ pc = "wait"
  /\ \/ /\ worker[slot] = 0
        /\ \E p \in Asked : /\ proc[p] = "zombie"
                            /\ proc' = [proc EXCEPT ![p] = "reaped"]
     \/ /\ \A p \in Asked : proc[p] \in {"unused", "reaped"}
        /\ UNCHANGED proc
  /\ pc' = "exit"
  /\ UNCHANGED <<slot, pid, worker, server_running_flag, crashes, daemon>>

RestartWorker == pc = "refork" /\ Forks("restore")

\* fork() fails: exit(1).
RestartFails ==
  /\ pc = "refork" /\ ForkFails
  /\ pc' = "exit"
  /\ UNCHANGED <<slot, pid, worker, proc, server_running_flag, crashes,
                 daemon>>

StoreRestarted == pc = "restore" /\ Stores("wait")

-----------------------------------------------------------------------------
(* Signals and deaths.                                                      *)

Killed(S) == proc' = [p \in Pids |-> IF p \in S /\ proc[p] = "running"
                                     THEN "zombie" ELSE proc[p]]

\* handle_signal is called by master_daemonize only.
HasHandler == daemon

\* The handler runs kill(worker[i], SIGTERM) for every slot.  kill(0) goes to
\* the whole process group, the master included.  Without the handler SIGUSR1
\* ends the master alone.
signal_SIGUSR1 ==
  /\ Signals /\ pc # "exit"
  /\ IF HasHandler
     THEN /\ server_running_flag' = FALSE
          /\ IF \E i \in Slots : worker[i] = 0
             THEN Killed(Pids) /\ pc' = "exit"
             ELSE Killed({worker[i] : i \in Slots}) /\ UNCHANGED pc
     ELSE pc' = "exit" /\ UNCHANGED <<proc, server_running_flag>>
  /\ UNCHANGED <<slot, pid, worker, crashes, daemon>>

WorkerDies(p) ==
  /\ proc[p] = "running" /\ crashes < MaxCrash
  /\ Killed({p})
  /\ crashes' = crashes + 1
  /\ UNCHANGED <<pc, slot, pid, worker, server_running_flag, daemon>>

-----------------------------------------------------------------------------
MasterStep ==
  \/ StartWorker \/ StartFails \/ StoreWorker
  \/ TestFlag \/ WorkerRuns \/ WorkerDown \/ WaitFails
  \/ RestartWorker \/ RestartFails \/ StoreRestarted

Next == \/ MasterStep
        \/ signal_SIGUSR1
        \/ \E p \in Pids : WorkerDies(p)

Spec == Init /\ [][Next]_vars

\* The master is scheduled; nothing makes workers die or signals arrive.
FairSpec == Spec /\ WF_vars(MasterStep)

-----------------------------------------------------------------------------
(* Safety.                                                                  *)

\* No child is forgotten: a process that runs, or died and was not reaped, is
\* in worker[] or is the one just forked.
ChildrenKnown ==
  \A p \in Pids : proc[p] \in {"running", "zombie"} =>
    p = pid \/ \E i \in Slots : worker[i] = p

\* No process is in two slots, and the one just forked is in none yet: one
\* waitpid() per child, and one replacement for one death.
SlotsDistinct ==
  /\ \A i, j \in Slots : worker[i] = worker[j] /\ worker[i] # 0 => i = j
  /\ pid # 0 => \A i \in Slots : worker[i] # pid

\* A pid in worker[] is a child of the master, reaped only while its slot is
\* being refilled: waitpid(worker[i]) never fails.
SlotsAreChildren ==
  \A i \in Slots : worker[i] # 0 /\ pc # "exit" =>
    \/ proc[worker[i]] \in {"running", "zombie"}
    \/ i = slot /\ pc \in {"refork", "restore"}

\* The process table and worker[] agree between any two steps: this is what
\* the loops, and a handler that runs in the middle of them, rely on.
WorkerTable == TypeOK /\ ChildrenKnown /\ SlotsDistinct /\ SlotsAreChildren

\* The master gives up only where the code means it to: after a signal, when
\* fork() fails in the loop, or with a slot its first loop could not fill.
\* Deaths alone, however many and whenever, never make waitpid() fail.
MasterStays ==
  [][pc # "exit" /\ pc' = "exit" =>
       \/ signal_SIGUSR1 \/ ~ server_running_flag
       \/ RestartFails
       \/ \E i \in Slots : worker[i] = 0]_vars

\* A slot is refilled only when the process in it has been reaped.
RefillsReaped ==
  [][\A i \in Slots : worker'[i] # worker[i] /\ worker[i] # 0
                        => proc[worker[i]] = "reaped"]_vars

-----------------------------------------------------------------------------
(* Liveness.                                                                *)

\* A worker that died is replaced, whichever step the master was in and
\* whichever other workers died meanwhile, unless the master gives up
\* (MasterStays says when).
EventuallyReplaced ==
  \A i \in Slots : (worker[i] # 0 /\ proc[worker[i]] = "zombie")
                     ~> \/ worker[i] # 0 /\ proc[worker[i]] = "running"
                        \/ pc = "exit"

\* SIGUSR1 ends the master.
EventuallyStops == ~ server_running_flag ~> pc = "exit"

-----------------------------------------------------------------------------
(* What the source says of the signal, and the code does not do.            *)

\* The handler of SIGUSR1 ends the loop and kills every worker: when the
\* master that handled it is gone, no worker runs.
StopsEveryWorker ==
  pc = "exit" /\ ~ server_running_flag => \A p \in Pids : proc[p] # "running"

=============================================================================
