------------------------------ MODULE TimerList ------------------------------
(***************************************************************************)
(* The timers of a worker (dm_timer.c): a linked list that starts at       *)
(* `heap`, kept by addTimer, deleteTimer and heapify, and served by        *)
(* executeTimers once in every turn of server_make's loop.  A step is one  *)
(* iteration of a loop.  The worker is one thread: only the clock goes on  *)
(* while it walks; the callback, handle_timeout, calls none of them.       *)
(*                                                                         *)
(* Every loop tests the node behind one it has passed: `parent` is that    *)
(* node (addTimer's temp), and `current` always parent->next.              *)
(*                                                                         *)
(* time(NULL) is 0: expire is told in seconds from now, and the clock      *)
(* lowers it.  The code only compares times, and the clock may go on for   *)
(* ever.                                                                   *)
(***************************************************************************)
EXTENDS Integers, SequencesExt

CONSTANTS
  Timers,     \* the timer_event fields of the requests
  NULL,
  Intervals,  \* the values addTimer may be called with
  MaxLate     \* bound: how many seconds a timer may be overdue

ASSUME TimerAssumption == NULL \notin Timers /\ Intervals \subseteq Nat
                      /\ MaxLate \in Nat

VARIABLES
  heap, next, expire,
  op,      \* the loop the worker is in, or "idle"
  parent,
  target,  \* the timer addTimer or deleteTimer was called for
  due,     \* executeTimers' now, 0 outside of it
  used,    \* the intervals of this run of the server: one or all
  active,  \* history: the timers that were added and neither deleted nor
           \* executed
  list,    \* history: the nodes as the code means to link them
  at       \* history: the place of parent in list

locals == <<op, parent, target, at>>
vars == <<heap, next, expire, locals, due, used, active, list>>

current == next[parent]

Init == /\ heap = NULL /\ active = {} /\ list = << >>
        /\ op = "idle" /\ parent = NULL /\ target = NULL /\ at = 0 /\ due = 0
        /\ used \in {Intervals} \cup {{i} : i \in Intervals}
        /\ next = [t \in Timers |-> NULL]
        /\ expire = [t \in Timers |-> 0]

-----------------------------------------------------------------------------
\* A loop starts at heap, goes on to the next node, or is over.
start(loop, t) == op' = loop /\ target' = t /\ parent' = heap' /\ at' = 1

advance == /\ parent' = current /\ at' = at + 1
           /\ UNCHANGED <<heap, next, list, op, target>>

return == op' = "idle" /\ target' = NULL /\ parent' = NULL /\ at' = 0

\* Mutant: heap = temp is missing.
BugToFront ==
  /\ next' = [next EXCEPT ![parent] = next[current], ![current] = heap]
  /\ list' = <<current>> \o RemoveAt(list, at + 1)
  /\ at' = at + 1
  /\ UNCHANGED <<heap, op, parent, target>>

toFront ==
  /\ heap' = current
  /\ next' = [next EXCEPT ![parent] = next[current], ![current] = heap]
  /\ list' = <<current>> \o RemoveAt(list, at + 1)
  /\ at' = at + 1
  /\ UNCHANGED <<op, parent, target>>

\* An element that expires before the last one that was left in its place goes
\* to the front.
heapify ==
  /\ op = "heapify"
  /\ \/ current # NULL /\ expire[current] < expire[parent] /\ toFront
     \/ current # NULL /\ expire[current] >= expire[parent] /\ advance
     \/ current = NULL /\ return /\ UNCHANGED <<heap, next, list>>
  /\ UNCHANGED <<expire, due, used, active>>

-----------------------------------------------------------------------------
\* A request adds its timer once.
addTimer(t, interval) ==
  /\ op = "idle"
  /\ t \notin active /\ interval \in used
  /\ expire' = [expire EXCEPT ![t] = interval]
  /\ next' = [next EXCEPT ![t] = NULL]
  /\ active' = active \cup {t}
  /\ \/ heap = NULL /\ heap' = t /\ list' = <<t>> /\ start("heapify", NULL)
     \/ heap # NULL /\ UNCHANGED <<heap, list>> /\ start("append", t)
  /\ UNCHANGED <<due, used>>

\* addTimer's walk to the end of the list.
append ==
  /\ op = "append"
  /\ \/ current # NULL /\ advance
     \/ /\ current = NULL
        /\ next' = [next EXCEPT ![parent] = target]
        /\ list' = Append(list, target)
        /\ UNCHANGED heap
        /\ start("heapify", NULL)
  /\ UNCHANGED <<expire, due, used, active>>

\* handle_close calls this for any request, in the list or not.
deleteTimer(t) ==
  /\ op = "idle"
  /\ active' = active \ {t}
  /\ \/ heap = NULL /\ UNCHANGED <<heap, list, locals>>
     \/ heap = t /\ heap' = next[t] /\ list' = Tail(list) /\ UNCHANGED locals
     \/ heap \notin {NULL, t} /\ UNCHANGED <<heap, list>> /\ start("find", t)
  /\ UNCHANGED <<next, expire, due, used>>

\* deleteTimer's search.
find ==
  /\ op = "find"
  /\ \/ current \notin {NULL, target} /\ advance
     \/ current = NULL /\ return /\ UNCHANGED <<heap, next, list>>
     \/ /\ current = target
        /\ next' = [next EXCEPT ![parent] = next[current]]
        /\ list' = RemoveAt(list, at + 1)
        /\ UNCHANGED heap
        /\ start("heapify", NULL)
  /\ UNCHANGED <<expire, due, used, active>>

-----------------------------------------------------------------------------
HeadDue(time) == heap # NULL /\ expire[heap] <= time

\* A call that finds something to do.
executeTimers ==
  /\ op = "idle" /\ HeadDue(0)
  /\ op' = "execute" /\ due' = 0
  /\ UNCHANGED <<heap, next, expire, parent, target, at, used, active,
                 list>>

\* Mutant: if in the place of while.
BugExecute ==
  /\ op = "execute"
  /\ heap' = next[heap] /\ list' = Tail(list) /\ active' = active \ {heap}
  /\ return /\ due' = 0
  /\ UNCHANGED <<next, expire, used>>

\* Mutant: the list is given up with its first timer.
BugDropsRest ==
  /\ op = "execute"
  /\ heap' = NULL /\ list' = << >> /\ active' = active \ {heap}
  /\ return /\ due' = 0
  /\ UNCHANGED <<next, expire, used>>

\* Its loop.
execute ==
  /\ op = "execute"
  /\ \/ /\ HeadDue(due)
        /\ heap' = next[heap] /\ list' = Tail(list)
        /\ active' = active \ {heap}
        /\ UNCHANGED <<locals, due>>
     \/ ~HeadDue(due) /\ return /\ due' = 0 /\ UNCHANGED <<heap, list, active>>
  /\ UNCHANGED <<next, expire, used>>

\* What a second brings nearer: the timers that are in the list or on the way
\* into it, or out of it.
Kept(t) == t \in active \/ \E n \in 1 .. Len(list) : t = list[n]

\* The clock does not wait for the worker.
Tick ==
  /\ \A t \in Timers : Kept(t) => expire[t] > -MaxLate
  /\ due > -MaxLate
  /\ expire' = [t \in Timers |-> IF Kept(t) THEN expire[t] - 1
                                            ELSE expire[t]]
  /\ due' = IF op = "execute" THEN due - 1 ELSE due
  /\ UNCHANGED <<heap, next, locals, used, active, list>>

Loop == append \/ find \/ heapify \/ execute

Next == \/ Loop \/ executeTimers \/ Tick
        \/ \E t \in Timers :
             deleteTimer(t) \/ \E i \in Intervals : addTimer(t, i)

Spec == Init /\ [][Next]_vars

\* A call goes on, the clock too, and every turn of server_make's loop comes to
\* executeTimers, however many connections are closed in between.
FairSpec == /\ Spec /\ WF_vars(Loop) /\ WF_vars(Tick)
            /\ SF_vars(executeTimers)

-----------------------------------------------------------------------------
TypeOK ==
  /\ due \in Int /\ at \in Nat
  /\ heap \in Timers \cup {NULL} /\ parent \in Timers \cup {NULL}
  /\ target \in Timers \cup {NULL}
  /\ next \in [Timers -> Timers \cup {NULL}] /\ expire \in [Timers -> Int]
  /\ op \in {"idle", "append", "find", "heapify", "execute"}
  /\ active \subseteq Timers /\ used \subseteq Intervals
  /\ list \in Seq(Timers)

\* The pointers lead from heap through list, and end there.
Linked ==
  /\ list = << >> => heap = NULL
  /\ list # << >> => heap = list[1] /\ next[list[Len(list)]] = NULL
  /\ \A n \in 1 .. Len(list) - 1 : next[list[n]] = list[n + 1]

Once == \A m, n \in 1 .. Len(list) : list[m] = list[n] => m = n

Holds(timers) == {list[n] : n \in 1 .. Len(list)} = timers

LatestLast ==
  \A n \in 1 .. Len(list) : expire[list[n]] <= expire[list[Len(list)]]

\* Whatever the calls, the list holds the active timers, each once, and ends:
\* none is lost or met twice when heapify moves elements while it walks.  The
\* element at the end expires last, whatever the intervals: no timer is held
\* back by one that outlives all the others.
ListSound ==
  /\ TypeOK /\ Linked /\ Once
  /\ op = "idle" => Holds(active) /\ LatestLast

OneInterval == \E i \in Intervals : used = {i}

\* When all intervals are the same, as in the server, executeTimers leaves no
\* timer behind that is due; with others heapify does not sort and it may.
NoneOverdue ==
  [][op = "execute" /\ op' = "idle" /\ OneInterval
       => \A t \in active' : expire[t] > due]_vars

\* With one interval a timer runs or is deleted, although requests keep adding
\* theirs.  With several it need not: heapify lets a due timer wait behind one
\* that is not, and another of those may always come in time.
EventuallyRuns ==
  OneInterval => \A t \in Timers : t \in active ~> t \notin active
=============================================================================
