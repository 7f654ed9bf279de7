--------------------------- MODULE WebbenchProofs ---------------------------
(***************************************************************************)
(* Proofs about module Webbench: what a client reports is off by at most   *)
(* one, only refused connections cost descriptors, and what process 0      *)
(* prints is the sum of what every client reported, for any number of      *)
(* clients, requests and replies.                                          *)
(***************************************************************************)
EXTENDS Webbench, SequenceTheorems, FiniteSetTheorems,
        WellFoundedInduction, TLAPS

Line == [DOMAIN Zero -> Nat]
History == [{"failures", "pages", "leaked"} -> Nat]

\* What the type invariant leaves open.
HistoryOK ==
  /\ pipe \in Seq(Line) /\ clients <= MaxClients
  /\ truth \in [Procs -> History]

\* Process 0 forks the clients in order, and only it runs bench.
ForkOrder ==
  /\ \A p \in Procs : pc[p] \in {"start", "fork", "reap"} => p = 0
  /\ pc[0] = "start" => i = 0
  /\ pc[0] \in {"start", "fork"} =>
       \A p \in Procs : p > i /\ p # 0 => pc[p] = "off"

\* A process has no alarm before it enters benchcore, and none to come once it
\* has left; it leaves, and cuts a reply short, only after the alarm.
AlarmOnce(p) ==
  /\ pc[p] \in {"off", "start", "fork", "reap"} =>
       p \notin armed \cup timerexpired
  /\ pc[p] = "done" => p \notin armed
  /\ pc[p] \in {"cut", "report"} => p \in timerexpired

\* The counters are exact before the alarm and while a request is under way.
\* The call or the reply that the alarm cuts short is the only thing that is
\* counted wrongly, and then the correction takes back one failure.
Exact(p) == /\ cnt[p].failed = truth[p].failures
            /\ cnt[p].speed = truth[p].pages
Spoiled(p) ==
  /\ cnt[p].failed \in {truth[p].failures, truth[p].failures + 1}
  /\ cnt[p].speed \in {truth[p].pages, truth[p].pages + 1}
Honest(p) ==
  /\ cnt[p].failed \in {truth[p].failures - 1, truth[p].failures}
  /\ cnt[p].speed \in {truth[p].pages, truth[p].pages + 1}

CountsFollow(p) ==
  /\ p \notin timerexpired \/ pc[p] \in Blocked \cup InReply => Exact(p)
  /\ pc[p] = "test" => Spoiled(p)
  /\ p \in timerexpired /\ pc[p] \in {"report", "done"} => Honest(p)

\* OnlyRefusedLeak of one process.
SocketsCounted(p) ==
  pc[p] # "killed" =>
    open[p] = truth[p].leaked + (IF pc[p] \in Blocked \cup InReply THEN 1
                                                                  ELSE 0)

Local(p) == AlarmOnce(p) /\ CountsFollow(p) /\ SocketsCounted(p)

WebbenchInv ==
  TypeOK /\ HistoryOK /\ ForkOrder /\ \A p \in Procs : Local(p)

-----------------------------------------------------------------------------
(* Facts about the model's operators.                                       *)

\* The counters of a line.
LEMMA Fields == DOMAIN Zero = {"speed", "failed", "bytes"}
BY DEF Zero

\* The first process is one of the processes.
LEMMA FirstProc == 0 \in Procs
BY GivenAssumption DEF Procs

\* Processes are numbers.
LEMMA Numbered == \A p \in Procs : p \in Nat
BY DEF Procs

\* One counter of one process goes up by one: the others stay.
LEMMA CountUp ==
  ASSUME TypeOK, NEW p \in Procs, NEW field \in DOMAIN Zero,
         Counts(p, field)
  PROVE  /\ cnt' \in [Procs -> Line]
         /\ cnt'[p][field] = cnt[p][field] + 1
         /\ \A k \in DOMAIN Zero \ {field} : cnt'[p][k] = cnt[p][k]
         /\ \A q \in Procs \ {p} : cnt'[q] = cnt[q]
BY DEF TypeOK, Counts, Line

\* So it is with the history.
LEMMA NoteUp ==
  ASSUME HistoryOK, NEW p \in Procs,
         NEW field \in {"failures", "pages", "leaked"}, Notes(p, field)
  PROVE  /\ truth' \in [Procs -> History]
         /\ truth'[p][field] = truth[p][field] + 1
         /\ \A k \in {"failures", "pages", "leaked"} \ {field} :
              truth'[p][k] = truth[p][k]
         /\ \A q \in Procs \ {p} : truth'[q] = truth[q]
BY DEF HistoryOK, Notes, History

\* Where benchcore can be, and where it can get to.
Benchcore == Blocked \cup InReply \cup {"test", "report"}
Places == Ended \cup Blocked \cup InReply
          \cup {"start", "fork", "reap", "test", "report"}

\* So it is with the sockets of a process.
LEMMA OpenBy ==
  ASSUME TypeOK, NEW p \in Procs, NEW n \in Int, open[p] + n \in Nat,
         Opens(p, n)
  PROVE  /\ open' \in [Procs -> Nat] /\ open'[p] = open[p] + n
         /\ \A q \in Procs \ {p} : open'[q] = open[q]
BY DEF TypeOK, Opens

\* The types of what belongs to one process.
LEMMA Numbers ==
  ASSUME WebbenchInv, NEW p \in Procs
  PROVE  /\ cnt[p].failed \in Nat /\ cnt[p].speed \in Nat
         /\ truth[p].failures \in Nat /\ truth[p].pages \in Nat
         /\ truth[p].leaked \in Nat /\ open[p] \in Nat /\ pc[p] \in Places
         /\ cnt \in [Procs -> Line] /\ truth \in [Procs -> History]
         /\ open \in [Procs -> Nat]
<1>1. /\ cnt \in [Procs -> Line] /\ truth \in [Procs -> History]
      /\ open \in [Procs -> Nat] /\ pc \in [Procs -> Places]
  BY DEF WebbenchInv, TypeOK, HistoryOK, Line, Places
<1>2. cnt[p] \in Line /\ truth[p] \in History
  BY <1>1
<1>3. cnt[p].failed \in Nat /\ cnt[p].speed \in Nat
  BY <1>2, Fields DEF Line
<1>4. /\ truth[p].failures \in Nat /\ truth[p].pages \in Nat
      /\ truth[p].leaked \in Nat
  BY <1>2 DEF History
<1> QED
  BY <1>1, <1>3, <1>4

\* What the invariant says of one process.
LEMMA OfOne ==
  ASSUME WebbenchInv, NEW p \in Procs
  PROVE  AlarmOnce(p) /\ CountsFollow(p) /\ SocketsCounted(p)
BY DEF WebbenchInv, Local

-----------------------------------------------------------------------------
(* Steps in benchcore.                                                      *)

\* A step of one process in benchcore leaves the others alone: the invariant
\* holds after it if it holds of the process itself.
LEMMA OneProcess ==
  ASSUME WebbenchInv, NEW p \in Procs, pc[p] \in Benchcore,
         NEW there \in Benchcore \cup {"done", "killed"}, Goto(p, there),
         UNCHANGED <<clients, i, total>>, status' \in -1 .. 255,
         pipe' \in Seq(Line),
         cnt' \in [Procs -> Line], truth' \in [Procs -> History],
         open' \in [Procs -> Nat],
         armed' \subseteq Procs, timerexpired' \subseteq Procs \ armed',
         \A q \in Procs \ {p} :
           /\ cnt'[q] = cnt[q] /\ truth'[q] = truth[q] /\ open'[q] = open[q]
           /\ q \in armed' <=> q \in armed
           /\ q \in timerexpired' <=> q \in timerexpired,
         Local(p)'
  PROVE  WebbenchInv'
<1>1. /\ pc' \in [Procs -> Places] /\ pc'[p] = there
      /\ \A q \in Procs \ {p} : pc'[q] = pc[q]
  BY DEF WebbenchInv, TypeOK, Goto, Benchcore, Places, Ended
<1>2. TypeOK'
  BY <1>1 DEF WebbenchInv, TypeOK, Places, Line
<1>3. HistoryOK'
  BY DEF WebbenchInv, HistoryOK, History
<1>4. ForkOrder'
  BY <1>1, FirstProc DEF WebbenchInv, TypeOK, ForkOrder, Benchcore, Blocked,
     InReply
<1>5. ASSUME NEW q \in Procs \ {p} PROVE Local(q)'
  <2>1. /\ pc'[q] = pc[q] /\ cnt'[q] = cnt[q] /\ truth'[q] = truth[q]
        /\ open'[q] = open[q] /\ q \in armed' <=> q \in armed
        /\ q \in timerexpired' <=> q \in timerexpired
    BY <1>1, <1>5
  <2>2. Local(q)
    BY <1>5 DEF WebbenchInv
  <2>3. AlarmOnce(q)'
    BY <2>1, <2>2 DEF Local, AlarmOnce
  <2>4. CountsFollow(q)'
    BY <2>1, <2>2 DEF Local, CountsFollow, Exact, Spoiled, Honest
  <2>5. SocketsCounted(q)'
    BY <2>1, <2>2 DEF Local, SocketsCounted
  <2> QED
    BY <2>3, <2>4, <2>5 DEF Local
<1> QED
  BY <1>2, <1>3, <1>4, <1>5 DEF WebbenchInv

\* The same for a step that is no signal and leaves bench's state alone.
LEMMA RequestStep ==
  ASSUME WebbenchInv, NEW p \in Procs, pc[p] \in Benchcore,
         NEW there \in Benchcore, Goto(p, there),
         ClientOnly, UNCHANGED <<armed, timerexpired>>,
         cnt' \in [Procs -> Line], truth' \in [Procs -> History],
         open' \in [Procs -> Nat],
         \A q \in Procs \ {p} :
           /\ cnt'[q] = cnt[q] /\ truth'[q] = truth[q] /\ open'[q] = open[q],
         Local(p)'
  PROVE  WebbenchInv'
<1>1. /\ UNCHANGED <<clients, i, total>> /\ status' \in -1 .. 255
      /\ pipe' \in Seq(Line)
      /\ armed' \subseteq Procs /\ timerexpired' \subseteq Procs \ armed'
  BY DEF ClientOnly, parentVars, WebbenchInv, TypeOK, HistoryOK
<1> QED
  BY <1>1, OneProcess

\* Where a step of a process in benchcore leads.
LEMMA Went ==
  ASSUME WebbenchInv, NEW p \in Procs, NEW there, Goto(p, there)
  PROVE  pc'[p] = there
BY DEF WebbenchInv, TypeOK, Goto

\* A failure that is noted, with the socket still to be counted.
LEMMA FailsNoted ==
  ASSUME WebbenchInv, NEW p \in Procs, pc[p] \in Benchcore \ {"report"},
         pc[p] = "test" => p \notin timerexpired,
         Fails(p), ClientOnly, UNCHANGED <<armed, timerexpired>>,
         truth' \in [Procs -> History], open' \in [Procs -> Nat],
         \A q \in Procs \ {p} : truth'[q] = truth[q] /\ open'[q] = open[q],
         truth'[p].failures = truth[p].failures + 1,
         truth'[p].pages = truth[p].pages,
         open'[p] = truth'[p].leaked
  PROVE  WebbenchInv'
<1>1. pc'[p] = "test"
  BY Went DEF Fails
<1>2. /\ cnt' \in [Procs -> Line] /\ \A q \in Procs \ {p} : cnt'[q] = cnt[q]
      /\ cnt'[p].failed = cnt[p].failed + 1 /\ cnt'[p].speed = cnt[p].speed
  BY CountUp, Fields DEF Fails, WebbenchInv
<1>3. Exact(p)
  BY OfOne DEF CountsFollow, Benchcore
<1>4. AlarmOnce(p)'
  BY <1>1 DEF AlarmOnce
<1>5. CountsFollow(p)'
  BY <1>1, <1>2, <1>3, Numbers DEF CountsFollow, Exact, Spoiled, Blocked,
     InReply
<1>6. SocketsCounted(p)'
  BY <1>1, Numbers DEF SocketsCounted, Blocked, InReply, History
<1> QED
  BY <1>2, <1>4, <1>5, <1>6, RequestStep DEF Fails, Local, Benchcore

\* A step that changes neither the counters nor the history.
LEMMA Moves ==
  ASSUME WebbenchInv, NEW p \in Procs,
         pc[p] \in Blocked \cup InReply, NEW there \in Blocked \cup InReply,
         Goto(p, there), there = "cut" => p \in timerexpired,
         ClientOnly, UNCHANGED <<armed, timerexpired, open, truth>>,
         cnt' \in [Procs -> Line],
         \A q \in Procs \ {p} : cnt'[q] = cnt[q],
         cnt'[p].failed = cnt[p].failed, cnt'[p].speed = cnt[p].speed
  PROVE  WebbenchInv'
<1>1. pc'[p] = there
  BY Went
<1>2. AlarmOnce(p)'
  BY <1>1, OfOne DEF AlarmOnce, Blocked, InReply
<1>3. CountsFollow(p)'
  BY <1>1, OfOne, Numbers DEF CountsFollow, Exact, Spoiled, Honest, Blocked,
     InReply
<1>4. SocketsCounted(p)'
  BY <1>1, OfOne DEF SocketsCounted, Blocked, InReply
<1> QED
  BY <1>2, <1>3, <1>4, RequestStep, Numbers DEF Local, Benchcore

\* The head of the outer loop: the counters are corrected, a socket is made, or
\* there is none to be had.
LEMMA TestStep ==
  ASSUME WebbenchInv, NEW p \in Procs, Test(p)
  PROVE  WebbenchInv'
<1>1. CASE /\ p \in timerexpired
           /\ cnt' = [cnt EXCEPT ![p].failed = Corrected(@)]
           /\ Goto(p, "report") /\ UNCHANGED <<open, truth>>
  <2>1. pc'[p] = "report"
    BY <1>1, Went
  <2>2. /\ cnt' \in [Procs -> Line]
        /\ \A q \in Procs \ {p} : cnt'[q] = cnt[q]
        /\ cnt'[p].failed = Corrected(cnt[p].failed)
        /\ cnt'[p].speed = cnt[p].speed
    BY <1>1, Numbers, Fields DEF Line, Corrected
  <2>3. Spoiled(p)
    BY OfOne DEF CountsFollow, Test
  <2>4. AlarmOnce(p)'
    BY <1>1, <2>1 DEF AlarmOnce, Test
  <2>5. CountsFollow(p)'
    <3> DEFINE n == cnt[p].failed
               f == truth[p].failures
    <3>1. n \in Nat /\ f \in Nat /\ n \in {f, f + 1}
      BY <2>3, Numbers DEF Spoiled
    <3>2. Corrected(n) \in {f - 1, f}
      <4> HIDE DEF n, f
      <4> QED
        BY <3>1 DEF Corrected
    <3>3. truth'[p] = truth[p]
      BY <1>1
    <3>4. Honest(p)'
      BY <2>2, <2>3, <3>2, <3>3 DEF Spoiled, Honest
    <3> QED
      BY <1>1, <2>1, <3>4 DEF CountsFollow, Blocked, InReply, Test
  <2>6. SocketsCounted(p)'
    BY <1>1, <2>1, OfOne DEF SocketsCounted, Blocked, InReply, Test
  <2> QED
    BY <1>1, <2>2, <2>4, <2>5, <2>6, RequestStep, Numbers
    DEF Test, Local, Benchcore
<1>2. CASE /\ p \notin timerexpired
           /\ Opens(p, 1) /\ Goto(p, "connect") /\ UNCHANGED <<cnt, truth>>
  <2>1. pc'[p] = "connect"
    BY <1>2, Went
  <2>2. /\ open' \in [Procs -> Nat] /\ open'[p] = open[p] + 1
        /\ \A q \in Procs \ {p} : open'[q] = open[q]
    BY <1>2, OpenBy, Numbers DEF WebbenchInv
  <2>3. AlarmOnce(p)'
    BY <2>1 DEF AlarmOnce
  <2>4. CountsFollow(p)'
    BY <1>2, <2>1, OfOne DEF CountsFollow, Exact, Test
  <2>5. SocketsCounted(p)'
    BY <1>2, <2>1, <2>2, OfOne, Numbers DEF SocketsCounted, Blocked, InReply,
       Test
  <2> QED
    BY <1>2, <2>2, <2>3, <2>4, <2>5, RequestStep, Numbers
    DEF Test, Local, Benchcore, Blocked
<1>3. CASE /\ p \notin timerexpired
           /\ Fails(p) /\ Notes(p, "failures") /\ UNCHANGED open
  <2>1. /\ truth' \in [Procs -> History]
        /\ \A q \in Procs \ {p} : truth'[q] = truth[q]
        /\ truth'[p].failures = truth[p].failures + 1
        /\ truth'[p].pages = truth[p].pages
        /\ truth'[p].leaked = truth[p].leaked
    BY <1>3, NoteUp DEF WebbenchInv
  <2>2. open'[p] = truth'[p].leaked
    BY <1>3, <2>1, OfOne, Numbers DEF SocketsCounted, Blocked, InReply, Test
  <2> QED
    BY <1>3, <2>1, <2>2, FailsNoted, Numbers DEF Test, Benchcore
<1> QED
  BY <1>1, <1>2, <1>3 DEF Test

\* A failure with the socket closed, at a place where there is one.
LEMMA FailsClosed ==
  ASSUME WebbenchInv, NEW p \in Procs, pc[p] \in Blocked \cup InReply,
         Fails(p), Opens(p, -1), Notes(p, "failures"),
         ClientOnly, UNCHANGED <<armed, timerexpired>>
  PROVE  WebbenchInv'
<1>1. /\ truth' \in [Procs -> History]
      /\ \A q \in Procs \ {p} : truth'[q] = truth[q]
      /\ truth'[p].failures = truth[p].failures + 1
      /\ truth'[p].pages = truth[p].pages
      /\ truth'[p].leaked = truth[p].leaked
  BY NoteUp DEF WebbenchInv
<1>2. open[p] = truth[p].leaked + 1
  BY OfOne DEF SocketsCounted, Blocked, InReply
<1>3. /\ open' \in [Procs -> Nat] /\ open'[p] = truth[p].leaked
      /\ \A q \in Procs \ {p} : open'[q] = open[q]
  <2>1. open[p] + (-1) = truth[p].leaked
    BY <1>2, Numbers
  <2> QED
    BY <2>1, OpenBy, Numbers DEF WebbenchInv
<1> QED
  BY <1>1, <1>3, FailsNoted DEF Benchcore, Blocked, InReply

\* What a refused connection adds to the history.
LEMMA RefusalNoted ==
  ASSUME NEW t \in History
  PROVE  LET noted == [t EXCEPT !.leaked = t.leaked + 1,
                                !.failures = t.failures + 1]
         IN /\ noted \in History /\ noted.failures = t.failures + 1
            /\ noted.pages = t.pages /\ noted.leaked = t.leaked + 1
<1> DEFINE once == [t EXCEPT !.leaked = t.leaked + 1]
           noted == [once EXCEPT !.failures = t.failures + 1]
<1>1. /\ once \in History /\ once.failures = t.failures
      /\ once.pages = t.pages /\ once.leaked = t.leaked + 1
      /\ t.failures \in Nat
  BY DEF History
<1> HIDE DEF once
<1>2. /\ noted \in History /\ noted.failures = t.failures + 1
      /\ noted.pages = t.pages /\ noted.leaked = t.leaked + 1
  BY <1>1 DEF History
<1>3. noted = [t EXCEPT !.leaked = t.leaked + 1, !.failures = t.failures + 1]
  BY DEF once, History
<1> QED
  BY <1>2, <1>3

\* connect() fails, the request cannot be sent, or the reply is waited for.
LEMMA ConnectStep ==
  ASSUME WebbenchInv, NEW p \in Procs, Connect(p)
  PROVE  WebbenchInv'
<1>1. CASE /\ Refused(p)
           /\ truth' = [truth EXCEPT ![p].leaked = @ + 1,
                                     ![p].failures = @ + 1]
  <2>1. /\ truth' \in [Procs -> History]
        /\ \A q \in Procs \ {p} : truth'[q] = truth[q]
        /\ truth'[p].failures = truth[p].failures + 1
        /\ truth'[p].pages = truth[p].pages
        /\ truth'[p].leaked = truth[p].leaked + 1
    <3> DEFINE noted == [truth[p] EXCEPT !.leaked = truth[p].leaked + 1,
                                         !.failures = truth[p].failures + 1]
    <3>1. truth' = [truth EXCEPT ![p] = noted]
      BY <1>1, Numbers
    <3>2. truth[p] \in History /\ truth \in [Procs -> History]
      BY Numbers
    <3>3. /\ noted \in History /\ noted.failures = truth[p].failures + 1
          /\ noted.pages = truth[p].pages
          /\ noted.leaked = truth[p].leaked + 1
      BY <3>2, RefusalNoted
    <3> HIDE DEF noted
    <3> QED
      BY <3>1, <3>2, <3>3
  <2>2. open'[p] = truth'[p].leaked
    BY <1>1, <2>1, OfOne, Numbers DEF SocketsCounted, Blocked, InReply,
       Connect, Refused
  <2> QED
    BY <1>1, <2>1, <2>2, FailsNoted, Numbers DEF Connect, Refused, Benchcore,
       Blocked
<1>2. CASE Fails(p) /\ Opens(p, -1) /\ Notes(p, "failures")
  BY <1>2, FailsClosed DEF Connect, Blocked
<1>3. CASE /\ Goto(p, IF force THEN "close" ELSE "rtest")
           /\ UNCHANGED <<cnt, open, truth>>
  BY <1>3, Moves, Numbers DEF Connect, Blocked, InReply
<1> QED
  BY <1>1, <1>2, <1>3 DEF Connect

\* The head of the inner loop.
LEMMA TestReadStep ==
  ASSUME WebbenchInv, NEW p \in Procs, TestRead(p)
  PROVE  WebbenchInv'
BY Moves, Numbers DEF TestRead, Blocked, InReply

\* read() fails.
LEMMA ReadResetStep ==
  ASSUME WebbenchInv, NEW p \in Procs, ReadReset(p)
  PROVE  WebbenchInv'
BY FailsClosed DEF ReadReset, Blocked

\* read() returns data.
LEMMA ReadDataStep ==
  ASSUME WebbenchInv, NEW p \in Procs, ReadData(p)
  PROVE  WebbenchInv'
<1>1. /\ cnt' \in [Procs -> Line] /\ \A q \in Procs \ {p} : cnt'[q] = cnt[q]
      /\ cnt'[p].failed = cnt[p].failed /\ cnt'[p].speed = cnt[p].speed
  BY CountUp, Fields DEF ReadData, WebbenchInv
<1> QED
  BY <1>1, Moves DEF ReadData, Blocked, InReply

\* read() meets the end of the reply.
LEMMA ReadEndStep ==
  ASSUME WebbenchInv, NEW p \in Procs, ReadEnd(p)
  PROVE  WebbenchInv'
BY Moves, Numbers DEF ReadEnd, Blocked, InReply

\* The reply that was cut short counts as a page and is none.
LEMMA CloseStep ==
  ASSUME WebbenchInv, NEW p \in Procs, Close(p)
  PROVE  WebbenchInv'
<1>1. CASE Fails(p) /\ Notes(p, "failures")
  BY <1>1, FailsClosed DEF Close, InReply
<1>2. CASE /\ Counts(p, "speed") /\ Goto(p, "test")
           /\ IF pc[p] = "close" THEN Notes(p, "pages") ELSE UNCHANGED truth
  <2>1. pc'[p] = "test"
    BY <1>2, Went
  <2>2. /\ cnt' \in [Procs -> Line]
        /\ \A q \in Procs \ {p} : cnt'[q] = cnt[q]
        /\ cnt'[p].failed = cnt[p].failed
        /\ cnt'[p].speed = cnt[p].speed + 1
    BY <1>2, CountUp, Fields DEF WebbenchInv
  <2>3. /\ truth' \in [Procs -> History]
        /\ \A q \in Procs \ {p} : truth'[q] = truth[q]
        /\ truth'[p].failures = truth[p].failures
        /\ truth'[p].leaked = truth[p].leaked
        /\ truth'[p].pages = IF pc[p] = "close" THEN truth[p].pages + 1
                                                ELSE truth[p].pages
    <3>1. CASE pc[p] = "close"
      BY <1>2, <3>1, NoteUp DEF WebbenchInv
    <3>2. CASE pc[p] # "close"
      BY <1>2, <3>2, Numbers
    <3> QED
      BY <3>1, <3>2
  <2>4. open[p] = truth[p].leaked + 1
    BY OfOne DEF SocketsCounted, InReply, Close
  <2>5. /\ open' \in [Procs -> Nat] /\ open'[p] = truth[p].leaked
        /\ \A q \in Procs \ {p} : open'[q] = open[q]
    <3>1. open[p] + (-1) = truth[p].leaked
      BY <2>4, Numbers
    <3> QED
      BY <3>1, OpenBy, Numbers DEF WebbenchInv, Close
  <2>6. AlarmOnce(p)'
    BY <2>1 DEF AlarmOnce
  <2>7. CountsFollow(p)'
    <3>1. Exact(p) /\ (pc[p] = "cut" => p \in timerexpired)
      BY OfOne DEF CountsFollow, AlarmOnce, InReply, Close
    <3> QED
      BY <2>1, <2>2, <2>3, <3>1, Numbers DEF CountsFollow, Exact, Spoiled,
         Blocked, InReply, Close
  <2>8. SocketsCounted(p)'
    BY <2>1, <2>3, <2>5, Numbers DEF SocketsCounted, Blocked, InReply
  <2> QED
    BY <1>2, <2>2, <2>3, <2>5, <2>6, <2>7, <2>8, RequestStep
    DEF Close, Local, Benchcore, InReply
<1> QED
  BY <1>1, <1>2 DEF Close

\* The alarm changes nothing but the flag, or it ends the call with a failure
\* that no answer of the server caused.
LEMMA AlarmStep ==
  ASSUME WebbenchInv, NEW p \in Procs, Alarm(p)
  PROVE  WebbenchInv'
<1>1. /\ pc[p] \in Benchcore /\ p \notin timerexpired /\ Exact(p)
      /\ p \in timerexpired' /\ p \notin armed'
      /\ pc[p] # "cut" /\ pc[p] # "report"
  <2>1. AlarmOnce(p) /\ CountsFollow(p) /\ pc[p] \in Places
    BY OfOne, Numbers
  <2>2. p \in armed /\ p \notin timerexpired /\ pc[p] # "killed"
    BY DEF Alarm, WebbenchInv, TypeOK
  <2> QED
    BY <2>1, <2>2 DEF Alarm, AlarmOnce, CountsFollow, Benchcore, Places, Ended
<1>2. /\ armed' \subseteq Procs /\ timerexpired' \subseteq Procs \ armed'
      /\ \A q \in Procs \ {p} : /\ q \in armed' <=> q \in armed
                                /\ q \in timerexpired' <=> q \in timerexpired
  BY DEF Alarm, WebbenchInv, TypeOK
<1>3. /\ UNCHANGED <<clients, i, total>> /\ status' \in -1 .. 255
      /\ pipe' \in Seq(Line)
  BY DEF Alarm, ClientOnly, parentVars, WebbenchInv, TypeOK, HistoryOK
<1>4. CASE UNCHANGED <<pc, cnt, open, truth>>
  <2>1. Goto(p, pc[p])
    BY <1>4 DEF Goto, WebbenchInv, TypeOK
  <2>2. Local(p)'
    BY <1>1, <1>4, OfOne, Numbers DEF Local, AlarmOnce, CountsFollow, Exact,
       Spoiled, Honest, SocketsCounted, Benchcore, Blocked, InReply
  <2> QED
    BY <1>1, <1>2, <1>3, <1>4, <2>1, <2>2, OneProcess, Numbers
<1>5. CASE /\ pc[p] \in Blocked /\ Fails(p)
           /\ truth' \in [Procs -> History] /\ open' \in [Procs -> Nat]
           /\ \A q \in Procs \ {p} : /\ truth'[q] = truth[q]
                                     /\ open'[q] = open[q]
           /\ truth'[p].failures = truth[p].failures
           /\ truth'[p].pages = truth[p].pages
           /\ open'[p] = truth'[p].leaked
  <2>1. pc'[p] = "test"
    BY <1>5, Went DEF Fails
  <2>2. /\ cnt' \in [Procs -> Line]
        /\ \A q \in Procs \ {p} : cnt'[q] = cnt[q]
        /\ cnt'[p].failed = cnt[p].failed + 1
        /\ cnt'[p].speed = cnt[p].speed
    BY <1>5, CountUp, Fields DEF Fails, WebbenchInv
  <2>3. AlarmOnce(p)'
    BY <2>1 DEF AlarmOnce
  <2>4. CountsFollow(p)'
    BY <1>1, <1>5, <2>1, <2>2, Numbers DEF CountsFollow, Exact, Spoiled,
       Blocked, InReply
  <2>5. SocketsCounted(p)'
    BY <1>5, <2>1, Numbers DEF SocketsCounted, Blocked, InReply, History
  <2> QED
    BY <1>1, <1>2, <1>3, <1>5, <2>2, <2>3, <2>4, <2>5, OneProcess
    DEF Fails, Local, Benchcore
<1>6. CASE pc[p] = "connect" /\ Refused(p) /\ Notes(p, "leaked")
  <2>1. /\ truth' \in [Procs -> History]
        /\ \A q \in Procs \ {p} : truth'[q] = truth[q]
        /\ truth'[p].failures = truth[p].failures
        /\ truth'[p].pages = truth[p].pages
        /\ truth'[p].leaked = truth[p].leaked + 1
    BY <1>6, NoteUp DEF WebbenchInv
  <2>2. open[p] = truth[p].leaked + 1
    BY <1>6, OfOne DEF SocketsCounted, Blocked
  <2> QED
    BY <1>5, <1>6, <2>1, <2>2, Numbers DEF Refused, Blocked
<1>7. CASE pc[p] = "read" /\ Fails(p) /\ Opens(p, -1) /\ UNCHANGED truth
  <2>1. open[p] = truth[p].leaked + 1
    BY <1>7, OfOne DEF SocketsCounted, Blocked
  <2>2. /\ open' \in [Procs -> Nat] /\ open'[p] = truth[p].leaked
        /\ \A q \in Procs \ {p} : open'[q] = open[q]
    <3>1. open[p] + (-1) = truth[p].leaked
      BY <2>1, Numbers
    <3> QED
      BY <1>7, <3>1, OpenBy, Numbers DEF WebbenchInv
  <2> QED
    BY <1>5, <1>7, <2>2, Numbers DEF Blocked
<1> QED
  BY <1>4, <1>6, <1>7 DEF Alarm

\* The line is written, or process 0, its own client, cannot open the pipe.
LEMMA ReportStep ==
  ASSUME WebbenchInv, NEW p \in Procs, Report(p)
  PROVE  WebbenchInv'
<1>1. Goto(p, "done")
  BY DEF Report, Exit
<1>2. pc'[p] = "done"
  BY <1>1, Went
<1>3. /\ UNCHANGED <<clients, i, total, armed, timerexpired, cnt, open, truth>>
      /\ status' \in -1 .. 255
      /\ armed' \subseteq Procs /\ timerexpired' \subseteq Procs \ armed'
  <2>1. /\ UNCHANGED <<clients, i, total, armed, timerexpired, cnt>>
        /\ UNCHANGED <<open, truth>>
    BY DEF Report
  <2>2. status' = 0 \/ status' = 3 \/ status' = status
    BY DEF Report, Exit
  <2> QED
    BY <2>1, <2>2 DEF WebbenchInv, TypeOK
<1>4. pipe' \in Seq(Line)
  <2>1. pipe' = pipe \/ pipe' = Append(pipe, cnt[p])
    BY DEF Report
  <2>2. pipe \in Seq(Line) /\ cnt[p] \in Line
    BY Numbers DEF WebbenchInv, HistoryOK
  <2> QED
    BY <2>1, <2>2, AppendProperties
<1>5. AlarmOnce(p)'
  BY <1>2, <1>3, OfOne DEF AlarmOnce, Report, WebbenchInv, TypeOK
<1>6. CountsFollow(p)'
  BY <1>2, <1>3, OfOne DEF CountsFollow, Exact, Spoiled, Honest, Report,
     Blocked, InReply
<1>7. SocketsCounted(p)'
  BY <1>2, <1>3, OfOne DEF SocketsCounted, Report, Blocked, InReply
<1> QED
  BY <1>1, <1>3, <1>4, <1>5, <1>6, <1>7, OneProcess, Numbers
  DEF Local, Report, Benchcore

\* A client dies; nothing is claimed of its counters any more.
LEMMA DieStep ==
  ASSUME WebbenchInv, NEW p \in Procs, Die(p)
  PROVE  WebbenchInv'
<1>1. /\ pc[p] \in Benchcore
      /\ UNCHANGED <<clients, i, total, pipe, status>>
      /\ UNCHANGED <<armed, timerexpired, cnt, open, truth>>
  <2>1. pc[p] \in Places /\ p # 0 /\ pc[p] \notin Ended
    BY Numbers DEF Die
  <2>2. pc[p] \notin {"start", "fork", "reap"}
    BY <2>1 DEF WebbenchInv, ForkOrder
  <2> QED
    BY <2>1, <2>2 DEF Die, parentVars, Places, Benchcore
<1>2. /\ armed' \subseteq Procs /\ timerexpired' \subseteq Procs \ armed'
      /\ status' \in -1 .. 255 /\ pipe' \in Seq(Line)
  BY <1>1 DEF WebbenchInv, TypeOK, HistoryOK
<1>3. pc'[p] = "killed"
  BY Went DEF Die
<1>4. Local(p)'
  BY <1>1, <1>3, OfOne DEF Local, AlarmOnce, CountsFollow, Exact,
     SocketsCounted, Blocked, InReply
<1> QED
  BY <1>1, <1>2, <1>4, OneProcess, Numbers DEF Die

-----------------------------------------------------------------------------
(* Steps of bench.                                                          *)

\* Process 0 goes on, or gives up, and the clients do not notice.
LEMMA ParentMoves ==
  ASSUME WebbenchInv, pc[0] \in {"start", "fork", "reap"},
         NEW there \in {"fork", "reap", "done"}, Goto(0, there),
         there = "fork" => pc[0] = "start" /\ i' = i,
         UNCHANGED <<armed, timerexpired, cnt, open, truth>>,
         pipe' \in Seq(Line), clients' \in Int, clients' <= MaxClients,
         i' \in Nat, total' \in Line, status' \in -1 .. 255
  PROVE  WebbenchInv'
<1>1. /\ pc' \in [Procs -> Places] /\ pc'[0] = there
      /\ \A q \in Procs \ {0} : pc'[q] = pc[q]
  BY FirstProc DEF WebbenchInv, TypeOK, Goto, Places, Ended
<1>2. TypeOK'
  BY <1>1 DEF WebbenchInv, TypeOK, Places, Line
<1>3. HistoryOK'
  BY DEF WebbenchInv, HistoryOK
<1>4. ForkOrder'
  BY <1>1, FirstProc DEF WebbenchInv, ForkOrder
<1>5. ASSUME NEW q \in Procs \ {0} PROVE Local(q)'
  BY <1>1, <1>5 DEF WebbenchInv, Local, AlarmOnce, CountsFollow, Exact,
     Spoiled, Honest, SocketsCounted
<1>6. Local(0)'
  BY <1>1, FirstProc, OfOne DEF Local, AlarmOnce, CountsFollow, Exact,
     SocketsCounted, Blocked, InReply
<1> QED
  BY <1>2, <1>3, <1>4, <1>5, <1>6 DEF WebbenchInv

\* A child, or process 0 by mistake, enters benchcore with clean counters.
LEMMA Enters ==
  ASSUME WebbenchInv, pc[0] = "fork", NEW p \in Procs,
         (p = 0 /\ i' = i) \/ (p = i + 1 /\ i' = i + 1),
         EntersBenchcore(p),
         UNCHANGED <<clients, status, total, pipe, timerexpired, cnt, open,
                     truth>>
  PROVE  WebbenchInv'
<1>1. /\ pc' \in [Procs -> Places] /\ pc'[p] = "test"
      /\ \A q \in Procs \ {p} : pc'[q] = pc[q]
  BY DEF WebbenchInv, TypeOK, EntersBenchcore, Goto, Places
<1>2. /\ pc[p] \in {"off", "fork"} /\ p \notin timerexpired
      /\ pc[p] = "off" \/ p = 0
  <2>1. i \in Nat /\ p \in Nat
    BY Numbered DEF WebbenchInv, TypeOK
  <2>2. pc[p] = "off" \/ p = 0
    BY <2>1 DEF WebbenchInv, ForkOrder
  <2> QED
    BY <2>2, OfOne DEF AlarmOnce
<1>3. TypeOK'
  BY <1>1, <1>2 DEF WebbenchInv, TypeOK, EntersBenchcore, Places
<1>4. HistoryOK'
  BY DEF WebbenchInv, HistoryOK
<1>5. ForkOrder'
  <2>1. i \in Nat /\ i' >= i
    BY DEF WebbenchInv, TypeOK
  <2>2. \A q \in Procs : q > i' => q > i
    BY <2>1, Numbered DEF WebbenchInv, TypeOK
  <2>3. \A q \in Procs : pc'[q] \in {"start", "fork", "reap"} => q = 0
    BY <1>1 DEF WebbenchInv, ForkOrder
  <2>4. pc'[0] # "start"
    BY <1>1, FirstProc
  <2>5. ASSUME pc'[0] = "fork", NEW q \in Procs, q > i', q # 0
        PROVE  pc'[q] = "off"
    <3>1. p # 0 /\ p = i'
      BY <1>1, <2>5
    <3>2. q # p /\ q > i
      BY <2>2, <2>5, <3>1, Numbered
    <3> QED
      BY <1>1, <2>5, <3>2 DEF WebbenchInv, ForkOrder
  <2> QED
    BY <2>3, <2>4, <2>5 DEF ForkOrder
<1>6. ASSUME NEW q \in Procs \ {p} PROVE Local(q)'
  BY <1>1, <1>6 DEF WebbenchInv, Local, AlarmOnce, CountsFollow, Exact,
     Spoiled, Honest, SocketsCounted, EntersBenchcore
<1>7. Local(p)'
  BY <1>1, <1>2, OfOne, Numbers DEF Local, AlarmOnce, CountsFollow, Exact,
     Spoiled, SocketsCounted, Blocked, InReply, EntersBenchcore
<1> QED
  BY <1>3, <1>4, <1>5, <1>6, <1>7 DEF WebbenchInv

\* bench up to the first fork.
LEMMA BenchStep ==
  ASSUME WebbenchInv, bench
  PROVE  WebbenchInv'
<1>1. PICK there \in {"fork", "done"} : Goto(0, there)
  BY DEF bench, Exit
<1>2. status' = status \/ status' = 1 \/ status' = 3
  BY DEF bench, Exit
<1>3. /\ status' \in -1 .. 255 /\ pc[0] = "start"
      /\ UNCHANGED <<clients, i, pipe, total, armed, timerexpired, cnt>>
      /\ UNCHANGED <<open, truth>>
  BY <1>2 DEF bench, WebbenchInv, TypeOK
<1> QED
  BY <1>1, <1>3, ParentMoves DEF WebbenchInv, TypeOK, HistoryOK, Line

\* A fork: the next child is one that was not running.
LEMMA ForkStep ==
  ASSUME WebbenchInv, Fork
  PROVE  WebbenchInv'
<1>1. CASE EntersBenchcore(i + 1) /\ i' = i + 1 /\ UNCHANGED status
  <2>1. i + 1 \in Procs
    BY GivenAssumption DEF Fork, Procs, WebbenchInv, TypeOK, HistoryOK
  <2> QED
    BY <1>1, <2>1, Enters DEF Fork
<1>2. CASE Exit(3) /\ UNCHANGED <<i, armed>>
  BY <1>2, ParentMoves DEF Fork, Exit, WebbenchInv, TypeOK, HistoryOK, Line
<1> QED
  BY <1>1, <1>2 DEF Fork

\* The end of the loop of forks.
LEMMA ForkedStep ==
  ASSUME WebbenchInv, Forked
  PROVE  WebbenchInv'
<1>1. CASE EntersBenchcore(0) /\ UNCHANGED status
  BY <1>1, FirstProc, Enters DEF Forked
<1>2. CASE Goto(0, "reap") /\ UNCHANGED <<armed, status>>
  BY <1>2, ParentMoves DEF Forked, WebbenchInv, TypeOK, HistoryOK, Line
<1>3. CASE Exit(3) /\ UNCHANGED armed
  BY <1>3, ParentMoves DEF Forked, Exit, WebbenchInv, TypeOK, HistoryOK, Line
<1> QED
  BY <1>1, <1>2, <1>3 DEF Forked

\* The first line of a pipe that has one, and what is left of it.
LEMMA FirstLine ==
  ASSUME NEW q \in Seq(Line), q # << >>
  PROVE  Head(q) \in Line /\ Tail(q) \in Seq(Line)
BY HeadTailProperties

\* Adding up two lines makes a line.
LEMMA SumLine ==
  ASSUME NEW a \in Line, NEW b \in Line
  PROVE  Sum(a, b) \in Line
BY Fields DEF Line, Sum

\* What exit(i) leaves for the shell.
LEMMA ExitStatus == \A n \in Nat : n % 256 \in -1 .. 255
OBVIOUS

\* A line is read from the pipe.
LEMMA ReapStep ==
  ASSUME WebbenchInv, Reap
  PROVE  WebbenchInv'
<1>1. /\ pc[0] = "reap" /\ pipe' = Tail(pipe) /\ i' = Head(pipe).speed
      /\ total' = Sum(total, Head(pipe)) /\ clients' = clients - 1
      /\ \/ Goto(0, "done") /\ status' = i' % 256
         \/ UNCHANGED <<pc, status>>
      /\ UNCHANGED <<armed, timerexpired, cnt, open, truth>>
  BY DEF Reap, Exit
<1>2. Head(pipe) \in Line /\ pipe' \in Seq(Line)
  BY <1>1, FirstLine DEF WebbenchInv, HistoryOK, Reap
<1>3. i' \in Nat /\ total' \in Line
  <2>1. total \in Line
    BY DEF Line, WebbenchInv, TypeOK
  <2>2. total' \in Line
    BY <1>1, <1>2, <2>1, SumLine
  <2> QED
    BY <1>1, <1>2, <2>2, Fields DEF Line
<1>4. clients' \in Int /\ clients' <= MaxClients
  BY <1>1, GivenAssumption DEF WebbenchInv, TypeOK, HistoryOK
<1>5. CASE Goto(0, "done") /\ status' = i' % 256
  <2>1. status' \in -1 .. 255
    BY <1>3, <1>5, ExitStatus
  <2> QED
    BY <1>1, <1>2, <1>3, <1>4, <1>5, <2>1, ParentMoves
<1>6. CASE UNCHANGED <<pc, status>>
  <2>1. Goto(0, "reap") /\ status' \in -1 .. 255
    BY <1>1, <1>6 DEF Goto, WebbenchInv, TypeOK
  <2> QED
    BY <1>1, <1>2, <1>3, <1>4, <2>1, ParentMoves
<1> QED
  BY <1>1, <1>5, <1>6

-----------------------------------------------------------------------------
\* The pipe is empty at first.
LEMMA EmptyPipe == << >> \in Seq(Line)
OBVIOUS

\* The invariant holds at the start.
LEMMA InitHolds == Init => WebbenchInv
<1> SUFFICES ASSUME Init PROVE WebbenchInv
  OBVIOUS
<1>1. clients \in Int /\ clients <= MaxClients
  BY GivenAssumption DEF Init, Asked
<1>2. /\ pc = [p \in Procs |-> IF p = 0 THEN "start" ELSE "off"]
      /\ i = 0 /\ total = Zero /\ status = -1 /\ armed = {}
      /\ timerexpired = {} /\ cnt = [p \in Procs |-> Zero]
      /\ open = [p \in Procs |-> 0]
      /\ truth = [p \in Procs |->
                    [failures |-> 0, pages |-> 0, leaked |-> 0]]
  BY DEF Init
<1>3. Zero \in Line /\ Zero.failed = 0 /\ Zero.speed = 0
  BY DEF Zero, Line
<1>4. TypeOK
  BY <1>1, <1>2, <1>3 DEF TypeOK, Line, Ended
<1>5. HistoryOK
  <2>1. pipe \in Seq(Line)
    BY EmptyPipe DEF Init
  <2> QED
    BY <1>1, <1>2, <2>1 DEF HistoryOK, History
<1>6. ForkOrder
  BY <1>2, FirstProc DEF ForkOrder
<1>7. ASSUME NEW p \in Procs PROVE Local(p)
  BY <1>2, <1>3 DEF Local, AlarmOnce, CountsFollow, Exact, Spoiled, Honest,
     SocketsCounted, Blocked, InReply
<1> QED
  BY <1>4, <1>5, <1>6, <1>7 DEF WebbenchInv

\* Every step keeps the invariant.
LEMMA NextKeeps == WebbenchInv /\ [Next]_vars => WebbenchInv'
<1> SUFFICES ASSUME WebbenchInv, [Next]_vars PROVE WebbenchInv'
  OBVIOUS
<1>1. CASE ParentStep
  BY <1>1, BenchStep, ForkStep, ForkedStep, ReapStep DEF ParentStep
<1>2. ASSUME NEW p \in Procs, Runs(p) PROVE WebbenchInv'
  BY <1>2, TestStep, TestReadStep, CloseStep, ReportStep DEF Runs
<1>3. ASSUME NEW p \in Procs, Answers(p) PROVE WebbenchInv'
  BY <1>3, ConnectStep, ReadResetStep, ReadDataStep, ReadEndStep DEF Answers
<1>4. ASSUME NEW p \in Procs, Alarm(p) \/ Die(p) PROVE WebbenchInv'
  BY <1>4, AlarmStep, DieStep
<1>5. CASE UNCHANGED vars
  BY <1>5 DEF vars, WebbenchInv, TypeOK, HistoryOK, ForkOrder, Local,
     AlarmOnce, CountsFollow, Exact, Spoiled, Honest, SocketsCounted
<1> QED
  BY <1>1, <1>2, <1>3, <1>4, <1>5 DEF Next, Finished

\* The inductive invariant of webbench: counters, alarms, sockets and the order
\* of the forks, in every run.
THEOREM WebbenchInvariance == FairSpec => []WebbenchInv
<1>1. Init => WebbenchInv
  BY InitHolds
<1>2. WebbenchInv /\ [Next]_vars => WebbenchInv'
  BY NextKeeps
<1> QED
  BY <1>1, <1>2, PTL DEF FairSpec

\* Wherever in benchcore the alarm strikes, and whatever the server did before,
\* the line a client writes is off by at most one in each counter.
THEOREM ReportsAreHonest == FairSpec => []CountsHonest
<1>1. WebbenchInv => CountsHonest
  BY DEF WebbenchInv, Local, CountsFollow, Honest, CountsHonest
<1> QED
  BY <1>1, WebbenchInvariance, PTL

\* Only a connection whose connect() failed costs a client a descriptor.
THEOREM LeaksAreRefusals == FairSpec => []OnlyRefusedLeak
<1>1. WebbenchInv => OnlyRefusedLeak
  BY DEF WebbenchInv, Local, SocketsCounted, OnlyRefusedLeak
<1> QED
  BY <1>1, WebbenchInvariance, PTL

-----------------------------------------------------------------------------
(* Sums over a set of lines, one counter at a time.                         *)

\* A set of numbers that holds 0, and with a number the next, holds all.
LEMMA FromZero ==
  ASSUME NEW G \in SUBSET Nat, 0 \in G, \A n \in G : n + 1 \in G
  PROVE  G = Nat
<1> DEFINE less == {ss \in Nat \X Nat : ss[1] < ss[2]}
           rest == Nat \ G
<1> SUFFICES ASSUME rest # {}
             PROVE  FALSE
  OBVIOUS
<1>1. IsWellFoundedOn(less, Nat)
  BY NatLessThanWellFounded DEF OpToRel
<1>2. PICK x \in rest : \A y \in rest : ~ (<<y, x>> \in less)
  <2>1. rest \subseteq Nat
    OBVIOUS
  <2> HIDE DEF less, rest
  <2> QED
    BY <1>1, <2>1, WFMin
<1>3. x \in Nat /\ x \notin G /\ x # 0
  BY <1>2
<1>4. x - 1 \in Nat /\ x - 1 < x /\ (x - 1) + 1 = x
  BY <1>3
<1>5. x - 1 \in rest
  BY <1>3, <1>4
<1>6. <<x - 1, x>> \in less
  BY <1>3, <1>4
<1> QED
  BY <1>2, <1>5, <1>6

\* The element a fold takes next.
Pick(s) == CHOOSE x \in s : TRUE

\* A collection of subsets of a finite S that holds {}, and a set when it holds
\* the rest that the fold leaves of it, holds S.
LEMMA FromEmpty ==
  ASSUME NEW S, IsFiniteSet(S), NEW G \in SUBSET (SUBSET S), {} \in G,
         \A T \in SUBSET S : T # {} /\ T \ {Pick(T)} \in G => T \in G
  PROVE  S \in G
<1> DEFINE sized(n) == \A T \in SUBSET S : Cardinality(T) = n => T \in G
           good == {n \in Nat : sized(n)}
<1>1. \A T \in SUBSET S : IsFiniteSet(T) /\ Cardinality(T) \in Nat
  BY FS_Subset, FS_CardinalityType
<1>2. 0 \in good
  BY <1>1, FS_EmptySet
<1>3. ASSUME NEW n \in good
      PROVE  n + 1 \in good
  <2>1. n \in Nat /\ sized(n) /\ n + 1 \in Nat
    OBVIOUS
  <2>2. ASSUME NEW T \in SUBSET S, Cardinality(T) = n + 1
        PROVE  T \in G
    <3>1. T # {}
      BY <1>1, <2>1, <2>2, FS_EmptySet
    <3>2. Pick(T) \in T
      BY <3>1 DEF Pick
    <3>3. /\ T \ {Pick(T)} \in SUBSET S
          /\ Cardinality(T \ {Pick(T)}) = (n + 1) - 1
      BY <1>1, <2>2, <3>2, FS_RemoveElement
    <3>4. (n + 1) - 1 = n
      BY <2>1
    <3>5. T \ {Pick(T)} \in G
      BY <2>1, <3>3, <3>4
    <3> QED
      BY <3>1, <3>5
  <2> QED
    BY <2>1, <2>2
<1>4. good = Nat
  <2>1. good \in SUBSET Nat
    OBVIOUS
  <2> HIDE DEF good
  <2> QED
    BY <1>2, <1>3, <2>1, FromZero
<1>5. sized(Cardinality(S))
  <2>1. S \in SUBSET S
    OBVIOUS
  <2>2. Cardinality(S) \in good
    BY <1>1, <1>4, <2>1
  <2> HIDE DEF sized
  <2> QED
    BY <2>2
<1> QED
  BY <1>5

\* What process 0 prints of counter k when c holds the clients' counters.
SumOf(c, k, S) == MapThenSumSet(LAMBDA p : c[p][k], S)

\* The sums over the subsets of S, as the fold computes them.
Sums(c, k, S, iter) ==
  iter = [s \in SUBSET S |->
            IF s = {} THEN 0 ELSE c[Pick(s)][k] + iter[s \ {Pick(s)}]]

\* There is such a function: on the sets of at most n elements, for each n.
LEMMA SumsExist ==
  ASSUME NEW c, NEW k, NEW S, IsFiniteSet(S)
  PROVE  \E iter : Sums(c, k, S, iter)
<1> DEFINE small(n) == {s \in SUBSET S : Cardinality(s) <= n}
           step(g, s) == IF s = {} THEN 0
                         ELSE c[Pick(s)][k] + g[s \ {Pick(s)}]
           sums(n, g) == g = [s \in small(n) |-> step(g, s)]
           good == {n \in Nat : \E g : sums(n, g)}
<1>1. \A T \in SUBSET S : IsFiniteSet(T) /\ Cardinality(T) \in Nat
  BY FS_Subset, FS_CardinalityType
<1>2. ASSUME NEW T \in SUBSET S, T # {}
      PROVE  /\ T \ {Pick(T)} \in SUBSET S
             /\ Cardinality(T \ {Pick(T)}) = Cardinality(T) - 1
  <2>1. Pick(T) \in T
    BY <1>2 DEF Pick
  <2> QED
    BY <1>1, <2>1, FS_RemoveElement
<1>3. 0 \in good
  <2> DEFINE g == [s \in small(0) |-> 0]
  <2>1. \A s \in small(0) : s = {}
    <3>1. \A s \in small(0) : s \in SUBSET S /\ Cardinality(s) <= 0
      OBVIOUS
    <3>2. \A s \in small(0) : IsFiniteSet(s) /\ Cardinality(s) = 0
      BY <1>1, <3>1
    <3> QED
      BY <3>2, FS_EmptySet
  <2>2. \A s \in small(0) : step(g, s) = 0
    BY <2>1
  <2>3. sums(0, g)
    <3> HIDE DEF small, step
    <3> QED
      BY <2>2
  <2> HIDE DEF sums
  <2> QED
    BY <2>3
<1>4. ASSUME NEW n \in good
      PROVE  n + 1 \in good
  <2>1. n \in Nat /\ n + 1 \in Nat
    OBVIOUS
  <2>2. PICK g : sums(n, g)
    <3> HIDE DEF sums
    <3> QED
      OBVIOUS
  <2> DEFINE h == [s \in small(n + 1) |-> step(g, s)]
  <2>3. \A s \in small(n) : s \in small(n + 1)
    <3>1. \A s \in SUBSET S : Cardinality(s) <= n => Cardinality(s) <= n + 1
      BY <1>1, <2>1
    <3> QED
      BY <3>1
  <2>4. \A s \in small(n) : h[s] = g[s]
    <3>1. \A s \in small(n) : h[s] = step(g, s)
      <4> HIDE DEF small, step
      <4> QED
        BY <2>3
    <3>2. \A s \in small(n) : g[s] = step(g, s)
      <4> HIDE DEF small, step
      <4> QED
        BY <2>2
    <3> QED
      BY <3>1, <3>2
  <2>5. ASSUME NEW s \in small(n + 1)
        PROVE  step(h, s) = step(g, s)
    <3>1. CASE s = {}
      BY <3>1
    <3>2. CASE s # {}
      <4>1. s \in SUBSET S /\ Cardinality(s) <= n + 1 /\ Cardinality(s) \in Nat
        BY <1>1
      <4>2. s \ {Pick(s)} \in SUBSET S /\ Cardinality(s \ {Pick(s)}) <= n
        BY <1>2, <2>1, <3>2, <4>1
      <4>3. s \ {Pick(s)} \in small(n)
        BY <4>2
      <4>4. h[s \ {Pick(s)}] = g[s \ {Pick(s)}]
        BY <2>4, <4>3
      <4> QED
        BY <4>4
    <3> QED
      BY <3>1, <3>2
  <2>6. sums(n + 1, h)
    <3> HIDE DEF small, step
    <3> QED
      BY <2>5
  <2> HIDE DEF sums
  <2> QED
    BY <2>1, <2>6
<1>5. good = Nat
  <2>1. good \in SUBSET Nat
    OBVIOUS
  <2> HIDE DEF good
  <2> QED
    BY <1>3, <1>4, <2>1, FromZero
<1>6. S \in SUBSET S
  OBVIOUS
<1>7. Cardinality(S) \in good
  BY <1>1, <1>5, <1>6
<1>8. PICK g : sums(Cardinality(S), g)
  <2> HIDE DEF sums
  <2> QED
    BY <1>7
<1>9. small(Cardinality(S)) = SUBSET S
  <2>1. \A s \in SUBSET S : Cardinality(s) <= Cardinality(S)
    BY FS_Subset
  <2> QED
    BY <2>1
<1>10. Sums(c, k, S, g)
  <2> HIDE DEF small
  <2> QED
    BY <1>8, <1>9 DEF Sums
<1> QED
  BY <1>10

\* The fold is the last of these sums.
LEMMA SumOfIs ==
  ASSUME NEW c, NEW k, NEW S, IsFiniteSet(S)
  PROVE  \E iter : Sums(c, k, S, iter) /\ SumOf(c, k, S) = iter[S]
<1> DEFINE iter == CHOOSE g : Sums(c, k, S, g)
<1>1. SumOf(c, k, S) = iter[S]
  BY DEF SumOf, MapThenSumSet, MapThenFoldSet, Sums, Pick
<1>2. Sums(c, k, S, iter)
  BY SumsExist
<1> HIDE DEF iter
<1> QED
  BY <1>1, <1>2

\* What it is on {}, and on a set that is not empty.
LEMMA SumsAre ==
  ASSUME NEW c, NEW k, NEW S, NEW iter, Sums(c, k, S, iter)
  PROVE  /\ iter[{}] = 0
         /\ \A T \in SUBSET S :
              T # {} => iter[T] = c[Pick(T)][k] + iter[T \ {Pick(T)}]
<1>1. {} \in SUBSET S
  OBVIOUS
<1>2. \A T \in SUBSET S : iter[T] = IF T = {} THEN 0
                                    ELSE c[Pick(T)][k] + iter[T \ {Pick(T)}]
  BY DEF Sums
<1> QED
  BY <1>1, <1>2

\* Where nothing is counted the sum is 0.
LEMMA SumOfZeros ==
  ASSUME NEW c, NEW k, NEW S, IsFiniteSet(S), \A p \in S : c[p][k] = 0
  PROVE  SumOf(c, k, S) = 0
<1>1. PICK iter : Sums(c, k, S, iter) /\ SumOf(c, k, S) = iter[S]
  BY SumOfIs
<1>2. /\ iter[{}] = 0
      /\ \A T \in SUBSET S :
           T # {} => iter[T] = c[Pick(T)][k] + iter[T \ {Pick(T)}]
  <2>1. Sums(c, k, S, iter)
    BY <1>1
  <2> QED
    BY <2>1, SumsAre
<1> DEFINE G == {T \in SUBSET S : iter[T] = 0}
<1>3. {} \in G
  BY <1>2
<1>4. ASSUME NEW T \in SUBSET S, T # {}, T \ {Pick(T)} \in G
      PROVE  T \in G
  <2> DEFINE y == Pick(T)
             R == T \ {y}
  <2>1. c[y][k] = 0
    BY <1>4 DEF Pick
  <2>2. iter[R] = 0
    BY <1>4
  <2>3. iter[T] = c[y][k] + iter[R]
    BY <1>2, <1>4
  <2> HIDE DEF y, R
  <2>4. iter[T] = 0
    BY <2>1, <2>2, <2>3
  <2> QED
    BY <2>4
<1>5. S \in G
  <2>1. G \in SUBSET (SUBSET S)
    OBVIOUS
  <2> HIDE DEF G
  <2> QED
    BY <1>3, <1>4, <2>1, FromEmpty
<1> QED
  BY <1>1, <1>5

\* One line more counts.
LEMMA SumOfGrows ==
  ASSUME NEW c, NEW d, NEW k, NEW S, IsFiniteSet(S), NEW x \in S,
         \A p \in S : c[p][k] \in Nat /\ d[p][k] \in Nat,
         c[x][k] = 0, \A p \in S \ {x} : d[p][k] = c[p][k]
  PROVE  SumOf(d, k, S) = SumOf(c, k, S) + d[x][k]
<1>1. PICK a : Sums(c, k, S, a) /\ SumOf(c, k, S) = a[S]
  BY SumOfIs
<1>2. PICK b : Sums(d, k, S, b) /\ SumOf(d, k, S) = b[S]
  BY SumOfIs
<1>3. /\ a[{}] = 0 /\ b[{}] = 0
      /\ \A T \in SUBSET S : T # {} =>
           /\ a[T] = c[Pick(T)][k] + a[T \ {Pick(T)}]
           /\ b[T] = d[Pick(T)][k] + b[T \ {Pick(T)}]
  BY <1>1, <1>2, SumsAre
<1> DEFINE holds(T) == /\ a[T] \in Nat
                       /\ b[T] = IF x \in T THEN a[T] + d[x][k] ELSE a[T]
           G == {T \in SUBSET S : holds(T)}
<1>4. {} \in G
  BY <1>3
<1>5. ASSUME NEW T \in SUBSET S, T # {}, T \ {Pick(T)} \in G
      PROVE  T \in G
  <2> DEFINE y == Pick(T)
             R == T \ {y}
  <2>1. y \in T /\ y \in S
    BY <1>5 DEF Pick
  <2> HIDE DEF y
  <2>2. a[T] = c[y][k] + a[R] /\ b[T] = d[y][k] + b[R]
    BY <1>3, <1>5 DEF y
  <2>3. holds(R)
    BY <1>5 DEF y
  <2> HIDE DEF R
  <2>4. c[y][k] \in Nat /\ d[y][k] \in Nat /\ c[x][k] = 0 /\ d[x][k] \in Nat
    BY <2>1
  <2>5. CASE y = x
    <3>1. x \notin R /\ x \in T
      BY <2>1, <2>5 DEF R
    <3>2. a[R] \in Nat /\ b[R] = a[R]
      BY <2>3, <3>1
    <3>3. a[T] = a[R] /\ b[T] = d[x][k] + a[R]
      BY <2>2, <2>4, <2>5, <3>2
    <3> QED
      BY <2>4, <3>1, <3>2, <3>3
  <2>6. CASE y # x
    <3>1. x \in R <=> x \in T
      BY <2>6 DEF R
    <3>2. d[y][k] = c[y][k]
      BY <2>1, <2>6
    <3>3. a[R] \in Nat /\ b[R] = IF x \in T THEN a[R] + d[x][k] ELSE a[R]
      BY <2>3, <3>1
    <3>4. a[T] \in Nat /\ b[T] = IF x \in T THEN a[T] + d[x][k] ELSE a[T]
      BY <2>2, <2>4, <3>2, <3>3
    <3> QED
      BY <3>4
  <2> QED
    BY <2>5, <2>6
<1>6. S \in G
  <2>1. G \in SUBSET (SUBSET S)
    OBVIOUS
  <2> HIDE DEF G
  <2> QED
    BY <1>4, <1>5, <2>1, FromEmpty
<1> QED
  BY <1>1, <1>2, <1>6

-----------------------------------------------------------------------------
(* What process 0 has read, and what is still in the pipe.                  *)

Clients == Procs \ {0}
Done == {p \in Clients : pc[p] = "done"}
Forks == {p \in Clients : pc[p] # "off"}

\* The counters process 0 has added up when it has read the lines of `read`.
Counted(read) ==
  [p \in Procs |-> IF p = 0 \/ p \in read THEN cnt[p] ELSE Zero]

\* Each client that is done has one line: it has been read, and then it is in
\* the totals, or it is in the pipe.
LinesOf(read, who) ==
  /\ Done = read \cup {who[n] : n \in 1 .. Len(pipe)}
  /\ \A n \in 1 .. Len(pipe) : who[n] \notin read /\ pipe[n] = cnt[who[n]]
  /\ \A m, n \in 1 .. Len(pipe) : who[m] = who[n] => m = n

TotalsOf(read) ==
  \A k \in DOMAIN Zero : total[k] = SumOf(Counted(read), k, Clients)

\* The lines process 0 waits for are those of the clients it has forked.
Waiting(read) ==
  /\ pc[0] \in {"start", "fork"} => read = {} /\ (i <= clients \/ i = 0)
  /\ pc[0] = "fork" => Forks = 1 .. i
  /\ pc[0] = "reap" => Cardinality(Forks) = clients + Cardinality(read)

Booked(read, who) == LinesOf(read, who) /\ TotalsOf(read) /\ Waiting(read)

Reaps == pc[0] \in {"start", "fork", "reap"}

Books ==
  Reaps => \E read \in SUBSET Clients, who \in [1 .. Len(pipe) -> Clients] :
             Booked(read, who)

\* A client that was not forked has counted nothing.
Unborn == \A p \in Clients : pc[p] = "off" => cnt[p] = Zero

BooksInv == Books /\ Unborn

\* The clients have the numbers from 1 on.
LEMMA ClientsAre == Clients = 1 .. MaxClients /\ IsFiniteSet(Clients)
<1>1. Clients = 1 .. MaxClients
  BY GivenAssumption DEF Clients, Procs
<1>2. IsFiniteSet(1 .. MaxClients)
  BY GivenAssumption, FS_Interval
<1> QED
  BY <1>1, <1>2

\* Nothing is counted, written or read at first.
LEMMA BooksInit == Init => BooksInv
<1> SUFFICES ASSUME Init
             PROVE  BooksInv
  OBVIOUS
<1>1. /\ total = Zero /\ i = 0
      /\ pc = [p \in Procs |-> IF p = 0 THEN "start" ELSE "off"]
      /\ cnt = [p \in Procs |-> Zero]
  BY DEF Init
<1>2. pc[0] = "start" /\ \A p \in Clients : pc[p] = "off" /\ cnt[p] = Zero
  BY <1>1, FirstProc DEF Clients
<1>3. 1 .. Len(pipe) = {}
  <2>1. pipe = << >>
    BY DEF Init
  <2>2. Len(pipe) = 0
    BY <2>1
  <2> QED
    BY <2>2
<1> DEFINE who == [n \in 1 .. Len(pipe) |-> 0]
<1>4. who \in [1 .. Len(pipe) -> Clients]
  BY <1>3
<1>5. LinesOf({}, who)
  BY <1>2, <1>3 DEF LinesOf, Done
<1>6. TotalsOf({})
  <2> SUFFICES ASSUME NEW k \in DOMAIN Zero
               PROVE  total[k] = SumOf(Counted({}), k, Clients)
    BY DEF TotalsOf
  <2>1. \A p \in Clients : Counted({})[p] = Zero
    BY DEF Counted, Clients
  <2>2. Zero[k] = 0
    BY DEF Zero
  <2>3. SumOf(Counted({}), k, Clients) = 0
    BY <2>1, <2>2, ClientsAre, SumOfZeros
  <2> QED
    BY <1>1, <2>2, <2>3
<1>7. Waiting({})
  BY <1>1, <1>2 DEF Waiting
<1>8. Books
  <2>1. {} \in SUBSET Clients
    OBVIOUS
  <2> HIDE DEF who
  <2> QED
    BY <1>4, <1>5, <1>6, <1>7, <2>1 DEF Books, Booked
<1> QED
  BY <1>2, <1>8 DEF BooksInv, Unborn

\* Where a process is when it is not in benchcore, and lives.
Outside == {"off", "done", "start", "fork", "reap"}

\* A step inside benchcore does not touch the books.
LEMMA BooksFrame ==
  ASSUME BooksInv, NEW p \in Procs,
         pc[p] \notin Outside, pc'[p] \notin Outside,
         \A q \in Procs \ {p} : pc'[q] = pc[q] /\ cnt'[q] = cnt[q],
         UNCHANGED <<pipe, total, clients, i>>
  PROVE  BooksInv'
<1>1. Unborn'
  BY DEF BooksInv, Unborn, Clients, Procs, Outside
<1>2. Books'
  <2>1. CASE p = 0
    BY <2>1 DEF Books, Reaps, Outside
  <2>2. CASE p # 0 /\ Reaps
    <3>1. PICK read \in SUBSET Clients, who \in [1 .. Len(pipe) -> Clients] :
            Booked(read, who)
      BY <2>2 DEF BooksInv, Books
    <3>2. pc'[0] = pc[0] /\ cnt'[0] = cnt[0]
      BY <2>2, FirstProc
    <3>3. Done' = Done /\ Forks' = Forks /\ p \notin Done
      BY DEF Done, Forks, Clients, Procs, Outside
    <3>4. \A q \in Done : cnt'[q] = cnt[q]
      BY <3>3 DEF Done, Clients
    <3>5. LinesOf(read, who)'
      BY <3>1, <3>3, <3>4 DEF Booked, LinesOf
    <3>6. Counted(read)' = Counted(read)
      <4>1. \A q \in read : cnt'[q] = cnt[q]
        BY <3>1, <3>4 DEF Booked, LinesOf
      <4> QED
        BY <3>2, <4>1 DEF Counted, Procs
    <3>7. TotalsOf(read)'
      <4>1. TotalsOf(read)
        BY <3>1 DEF Booked
      <4> QED
        BY <3>6, <4>1 DEF TotalsOf, Clients, Procs, Zero
    <3>8. Waiting(read)'
      BY <3>1, <3>2, <3>3 DEF Booked, Waiting
    <3> QED
      BY <3>1, <3>5, <3>7, <3>8 DEF Books, Booked, Clients, Procs
  <2>3. CASE p # 0 /\ ~Reaps
    BY <2>3, FirstProc DEF Books, Reaps
  <2> QED
    BY <2>1, <2>2, <2>3
<1> QED
  BY <1>1, <1>2 DEF BooksInv

\* The steps that are inside benchcore.
LEMMA Inside ==
  ASSUME WebbenchInv, NEW p \in Procs,
         \/ Test(p) \/ TestRead(p) \/ Close(p) \/ Answers(p)
         \/ Alarm(p) \/ Die(p)
  PROVE  /\ pc[p] \notin Outside /\ pc'[p] \notin Outside
         /\ \A q \in Procs \ {p} : pc'[q] = pc[q] /\ cnt'[q] = cnt[q]
         /\ UNCHANGED <<pipe, total, clients, i>>
<1>1. pc \in [Procs -> Places] /\ cnt \in [Procs -> Line]
  BY DEF WebbenchInv, TypeOK, Places, Line
<1>2. UNCHANGED <<pipe, total, clients, i>>
  BY DEF Test, TestRead, Close, Answers, Connect, ReadReset, ReadData,
         ReadEnd, Alarm, Die, ClientOnly, parentVars
<1>3. \A q \in Procs \ {p} : cnt'[q] = cnt[q]
  BY <1>1 DEF Test, TestRead, Close, Answers, Connect, ReadReset, ReadData,
         ReadEnd, Alarm, Die, Fails, Refused, Counts
<1>4. pc[p] \notin Outside
  <2>1. CASE Alarm(p)
    BY <2>1, OfOne, FirstProc DEF Alarm, AlarmOnce, Outside
  <2>2. CASE Die(p)
    BY <2>2 DEF Die, Outside, Ended, WebbenchInv, ForkOrder
  <2>3. CASE Test(p) \/ TestRead(p) \/ Close(p) \/ Answers(p)
    BY <2>3 DEF Test, TestRead, Close, Answers, Connect, ReadReset, ReadData,
                ReadEnd, Outside
  <2> QED
    BY <2>1, <2>2, <2>3
<1>5. \E there \in {"test", "report", "connect", "close", "rtest", "cut",
                    "read", "killed", pc[p]} : Goto(p, there)
  <2>1. Goto(p, pc[p]) <=> UNCHANGED pc
    BY <1>1 DEF Goto
  <2> QED
    BY <2>1 DEF Test, TestRead, Close, Answers, Connect, ReadReset, ReadData,
                ReadEnd, Alarm, Die, Fails, Refused
<1>6. pc'[p] \notin Outside /\ \A q \in Procs \ {p} : pc'[q] = pc[q]
  BY <1>1, <1>4, <1>5 DEF Goto, Outside
<1> QED
  BY <1>2, <1>3, <1>4, <1>6


\* So they keep the books.
LEMMA InsideBooks ==
  ASSUME WebbenchInv, BooksInv, NEW p \in Procs,
         \/ Test(p) \/ TestRead(p) \/ Close(p) \/ Answers(p)
         \/ Alarm(p) \/ Die(p)
  PROVE  BooksInv'
<1> QED
  BY Inside, BooksFrame

\* A client's line goes into the pipe.
LEMMA ReportBooks ==
  ASSUME WebbenchInv, BooksInv, NEW p \in Procs, Report(p)
  PROVE  BooksInv'
<1>1. /\ pc \in [Procs -> Places] /\ cnt \in [Procs -> Line]
      /\ pipe \in Seq(Line)
  BY DEF WebbenchInv, TypeOK, HistoryOK, Places, Line
<1>2. /\ pc[p] = "report"
      /\ Goto(p, "done")
      /\ UNCHANGED <<cnt, total, clients, i>>
  BY DEF Report, Exit
<1>3. /\ pc'[p] = "done"
      /\ \A q \in Procs \ {p} : pc'[q] = pc[q]
  BY <1>1, <1>2 DEF Goto
<1>4. Unborn'
  BY <1>2, <1>3 DEF BooksInv, Unborn, Clients, Procs
<1>5. Books'
  <2>1. CASE ~Reaps'
    BY <2>1 DEF Books
  <2> SUFFICES ASSUME Reaps'
               PROVE  Books'
    BY <2>1
  <2>2. p # 0
    BY <1>3 DEF Reaps
  <2>3. pc'[0] = pc[0]
    BY <1>3, <2>2, FirstProc
  <2>4. Reaps
    BY <2>3 DEF Reaps
  <2>5. pipe' = Append(pipe, cnt[p])
    BY <2>2 DEF Report
  <2>6. PICK read \in SUBSET Clients, who \in [1 .. Len(pipe) -> Clients] :
          Booked(read, who)
    BY <2>4 DEF BooksInv, Books
  <2> DEFINE last == Len(pipe) + 1
  <2>0. PICK who2 :
          who2 = [n \in 1 .. last |-> IF n = last THEN p ELSE who[n]]
    OBVIOUS
  <2>7. /\ Len(pipe) \in Nat /\ Len(pipe') = last
        /\ pipe'[last] = cnt[p]
        /\ \A n \in 1 .. Len(pipe) : pipe'[n] = pipe[n]
    BY <1>1, <2>5, AppendProperties
  <2>8. \A n \in 1 .. last : n = last \/ n \in 1 .. Len(pipe)
    BY <2>7
  <2>9. p \in Clients /\ p \notin Done
    BY <1>2, <2>2 DEF Clients, Done
  <2>10. who2 \in [1 .. last -> Clients]
    BY <2>0, <2>8, <2>9
  <2>11. /\ who2[last] = p /\ last \in 1 .. last
         /\ \A n \in 1 .. Len(pipe) : who2[n] = who[n] /\ n \in 1 .. last
    BY <2>0, <2>7
  <2>12. Done' = Done \cup {p} /\ Forks' = Forks
    BY <1>2, <1>3, <2>9 DEF Done, Forks, Clients, Procs
  <2>13. LinesOf(read, who)
    BY <2>6 DEF Booked
  <2> HIDE DEF last
  <2>14. p \notin read /\ \A n \in 1 .. Len(pipe) : who[n] # p
    BY <2>9, <2>13 DEF LinesOf
  <2>15. Done' = read \cup {who2[n] : n \in 1 .. Len(pipe')}
    <3>1. {who2[n] : n \in 1 .. last}
            = {who[n] : n \in 1 .. Len(pipe)} \cup {p}
      BY <2>8, <2>11
    <3> QED
      BY <2>7, <2>12, <2>13, <3>1 DEF LinesOf
  <2>16. ASSUME NEW n \in 1 .. last
         PROVE  who2[n] \notin read /\ pipe'[n] = cnt'[who2[n]]
    <3>1. CASE n = last
      BY <1>2, <2>7, <2>11, <2>14, <3>1
    <3>2. CASE n \in 1 .. Len(pipe)
      BY <1>2, <2>7, <2>11, <2>13, <3>2 DEF LinesOf
    <3> QED
      BY <2>8, <3>1, <3>2
  <2>17. ASSUME NEW m \in 1 .. last, NEW n \in 1 .. last, who2[m] = who2[n]
         PROVE  m = n
    <3>1. CASE m = last /\ n = last
      BY <3>1
    <3>2. CASE m = last /\ n \in 1 .. Len(pipe)
      BY <2>11, <2>14, <2>17, <3>2
    <3>3. CASE m \in 1 .. Len(pipe) /\ n = last
      BY <2>11, <2>14, <2>17, <3>3
    <3>4. CASE m \in 1 .. Len(pipe) /\ n \in 1 .. Len(pipe)
      BY <2>11, <2>13, <2>17, <3>4 DEF LinesOf
    <3> QED
      BY <2>8, <3>1, <3>2, <3>3, <3>4
  <2>18. LinesOf(read, who2)'
    BY <2>7, <2>15, <2>16, <2>17 DEF LinesOf
  <2>19. TotalsOf(read)' /\ Waiting(read)'
    <3>1. TotalsOf(read) /\ Waiting(read)
      BY <2>6 DEF Booked
    <3>2. TotalsOf(read)'
      BY <1>2, <3>1 DEF TotalsOf, Counted, Clients, Procs, Zero
    <3>3. Waiting(read)'
      BY <1>2, <2>3, <2>12, <3>1 DEF Waiting
    <3> QED
      BY <3>2, <3>3
  <2>20. read \in SUBSET Clients' /\ who2 \in [1 .. Len(pipe') -> Clients']
    BY <2>7, <2>10 DEF Clients, Procs
  <2> QED
    BY <2>18, <2>19, <2>20 DEF Books, Booked
<1> QED
  BY <1>4, <1>5 DEF BooksInv

\* Goto moves one process and leaves the others where they are.
LEMMA GoesTo ==
  ASSUME WebbenchInv, NEW p \in Procs, NEW there, Goto(p, there)
  PROVE  pc'[p] = there /\ \A q \in Procs \ {p} : pc'[q] = pc[q]
<1>1. pc \in [Procs -> Places]
  BY DEF WebbenchInv, TypeOK, Places
<1> QED
  BY <1>1 DEF Goto

\* The forks come before any line is read.
LEMMA ForkBooks ==
  ASSUME WebbenchInv, BooksInv, bench \/ Fork \/ Forked
  PROVE  BooksInv'
<1>1. i \in Nat /\ clients \in Int /\ clients <= MaxClients
  BY DEF WebbenchInv, TypeOK, HistoryOK, Places
<1>2. /\ Reaps /\ pc[0] \in {"start", "fork"}
      /\ UNCHANGED <<pipe, total, clients, cnt>>
  BY DEF bench, Fork, Forked, Reaps
<1>3. PICK read \in SUBSET Clients, who \in [1 .. Len(pipe) -> Clients] :
        Booked(read, who)
  BY <1>2 DEF BooksInv, Books
<1>4. LinesOf(read, who) /\ TotalsOf(read) /\ Waiting(read)
  BY <1>3 DEF Booked
<1>5. read = {} /\ (i <= clients \/ i = 0)
  BY <1>2, <1>4 DEF Waiting
<1>6. ASSUME Done' = Done, Reaps' => Waiting(read)', Unborn'
      PROVE  BooksInv'
  <2>1. LinesOf(read, who)'
    BY <1>2, <1>4, <1>6 DEF LinesOf
  <2>2. TotalsOf(read)'
    BY <1>2, <1>4 DEF TotalsOf, Counted, Clients, Procs, Zero
  <2>3. /\ read \in SUBSET Clients'
        /\ who \in [1 .. Len(pipe') -> Clients']
    BY <1>2, <1>3 DEF Clients, Procs
  <2>4. Books'
    BY <1>6, <2>1, <2>2, <2>3 DEF Books, Booked
  <2> QED
    BY <1>6, <2>4 DEF BooksInv
<1>7. ASSUME NEW there, Goto(0, there)
      PROVE  /\ pc'[0] = there /\ Forks' = Forks /\ Done' = Done /\ Unborn'
  <2>1. pc'[0] = there /\ \A q \in Clients : pc'[q] = pc[q]
    BY <1>7, GoesTo, FirstProc DEF Clients
  <2> QED
    BY <1>2, <2>1 DEF Forks, Done, Clients, Procs, BooksInv, Unborn
<1>8. CASE bench
  <2>1. /\ pc[0] = "start" /\ i' = i
        /\ Goto(0, "done") \/ Goto(0, "fork")
    BY <1>8 DEF bench, Exit
  <2>2. Forks = 1 .. i
    <3>1. i = 0 /\ \A p \in Clients : p > i
      BY <2>1, ClientsAre DEF WebbenchInv, ForkOrder
    <3>2. \A p \in Clients : pc[p] = "off"
      BY <2>1, <3>1 DEF WebbenchInv, ForkOrder, Clients
    <3> QED
      BY <3>1, <3>2 DEF Forks
  <2>3. /\ Done' = Done /\ Forks' = Forks /\ Unborn'
        /\ pc'[0] \in {"done", "fork"}
    BY <1>7, <2>1
  <2>4. Reaps' => Waiting(read)'
    BY <1>2, <1>5, <2>1, <2>2, <2>3 DEF Reaps, Waiting
  <2> QED
    BY <1>6, <2>3, <2>4
<1>9. CASE Forked
  <2>1. /\ pc[0] = "fork" /\ i >= clients /\ i' = i
        /\ \/ clients < 0 /\ Goto(0, "test")
           \/ clients > 0 /\ Goto(0, "reap")
           \/ clients > 0 /\ Goto(0, "done")
    BY <1>9 DEF Forked, Exit, EntersBenchcore
  <2>2. /\ Done' = Done /\ Forks' = Forks /\ Unborn'
        /\ pc'[0] \in {"test", "reap", "done"}
        /\ pc'[0] = "reap" => clients > 0
    BY <1>7, <2>1
  <2>3. ASSUME Reaps'
        PROVE  Waiting(read)'
    <3>1. pc'[0] = "reap" /\ clients > 0
      BY <2>2, <2>3 DEF Reaps
    <3>2. i = clients
      BY <1>1, <1>5, <2>1, <3>1
    <3>3. Forks = 1 .. i
      BY <1>4, <2>1 DEF Waiting
    <3>4. Cardinality(Forks) = clients
      BY <1>1, <3>1, <3>2, <3>3, FS_Interval
    <3>5. Cardinality(read) = 0
      BY <1>5, FS_EmptySet
    <3>6. Cardinality(Forks) = clients + Cardinality(read)
      BY <1>1, <3>4, <3>5
    <3> QED
      BY <1>2, <2>2, <3>1, <3>6 DEF Waiting
  <2> QED
    BY <1>6, <2>2, <2>3
<1>10. CASE Fork
  <2>1. /\ pc[0] = "fork" /\ i < clients
        /\ \/ Goto(i + 1, "test") /\ i' = i + 1
           \/ Goto(0, "done") /\ i' = i
    BY <1>10 DEF Fork, Exit, EntersBenchcore
  <2>2. CASE Goto(0, "done") /\ i' = i
    <3>1. Done' = Done /\ Unborn' /\ pc'[0] = "done"
      BY <1>7, <2>2
    <3>2. ~Reaps'
      BY <3>1 DEF Reaps
    <3> QED
      BY <1>6, <3>1, <3>2
  <2>3. CASE Goto(i + 1, "test") /\ i' = i + 1
    <3>1. i + 1 \in Clients /\ i + 1 # 0
      BY <1>1, <2>1, ClientsAre, GivenAssumption
    <3>2. pc[i + 1] = "off"
      BY <1>1, <2>1, <3>1 DEF WebbenchInv, ForkOrder, Clients
    <3>3. /\ pc'[i + 1] = "test" /\ pc'[0] = pc[0]
          /\ \A q \in Clients \ {i + 1} : pc'[q] = pc[q]
      BY <2>3, <3>1, GoesTo, FirstProc DEF Clients
    <3>4. Done' = Done
      BY <3>1, <3>2, <3>3 DEF Done, Clients, Procs
    <3>5. Forks' = Forks \cup {i + 1}
      BY <3>1, <3>2, <3>3 DEF Forks, Clients, Procs
    <3>6. Forks' = 1 .. i'
      <4>1. Forks = 1 .. i
        BY <1>4, <2>1 DEF Waiting
      <4> QED
        BY <1>1, <2>3, <3>5, <4>1
    <3>7. Unborn'
      BY <1>2, <3>1, <3>3 DEF BooksInv, Unborn, Clients, Procs
    <3>8. Waiting(read)'
      BY <1>1, <1>2, <1>5, <2>1, <2>3, <3>3, <3>6 DEF Waiting
    <3> QED
      BY <1>6, <3>4, <3>7, <3>8
  <2> QED
    BY <2>1, <2>2, <2>3
<1> QED
  BY <1>8, <1>9, <1>10


\* A line is read: it is the line of a client that was not counted before.
LEMMA ReapBooks ==
  ASSUME WebbenchInv, BooksInv, Reap
  PROVE  /\ BooksInv'
         /\ pc'[0] = "done" =>
              /\ \A p \in Procs \ {0} : pc[p] \in {"off", "done"}
              /\ Len(pipe') = 0
              /\ \A k \in DOMAIN Zero : total'[k] = SumOf(cnt, k, Clients)
<1>1. /\ pc \in [Procs -> Places] /\ cnt \in [Procs -> Line]
      /\ pipe \in Seq(Line) /\ total \in [DOMAIN Zero -> Nat]
      /\ clients \in Int
  BY DEF WebbenchInv, TypeOK, HistoryOK, Places, Line
<1>2. /\ pc[0] = "reap" /\ pipe # << >> /\ pipe' = Tail(pipe)
      /\ total' = Sum(total, Head(pipe)) /\ clients' = clients - 1
      /\ IF clients' = 0 THEN Goto(0, "done") ELSE UNCHANGED pc
      /\ UNCHANGED cnt
  BY DEF Reap, Exit, NoneLeft
<1>3. PICK read \in SUBSET Clients, who \in [1 .. Len(pipe) -> Clients] :
        Booked(read, who)
  BY <1>2 DEF BooksInv, Books, Reaps
<1>4. LinesOf(read, who) /\ TotalsOf(read) /\ Waiting(read)
  BY <1>3 DEF Booked
<1>5. /\ Len(pipe) \in Nat /\ Len(pipe) >= 1
      /\ Len(pipe') = Len(pipe) - 1 /\ Head(pipe) = pipe[1]
      /\ \A n \in 1 .. Len(pipe) - 1 : pipe'[n] = pipe[n + 1]
  BY <1>1, <1>2, HeadTailProperties
<1> DEFINE left == Len(pipe) - 1
           x == who[1]
           read2 == read \cup {x}
<1>6. PICK who2 : who2 = [n \in 1 .. left |-> who[n + 1]]
  OBVIOUS
<1>7. /\ left \in Nat /\ 1 \in 1 .. Len(pipe)
      /\ \A n \in 1 .. left : n + 1 \in 1 .. Len(pipe) /\ n + 1 # 1
      /\ \A n \in 1 .. Len(pipe) : n = 1 \/ n - 1 \in 1 .. left
      /\ \A n \in 1 .. Len(pipe) : (n - 1) + 1 = n
  BY <1>5
<1>8. /\ \A n \in 1 .. left : who2[n] = who[n + 1]
      /\ who2 \in [1 .. left -> Clients]
      /\ x \in Clients
  BY <1>3, <1>6, <1>7
<1>9. /\ x \notin read /\ Head(pipe) = cnt[x]
  BY <1>4, <1>5, <1>7 DEF LinesOf
<1>10. \A n \in 1 .. left : who2[n] # x
  BY <1>4, <1>7, <1>8 DEF LinesOf
<1>11. {who[n] : n \in 1 .. Len(pipe)} = {who2[n] : n \in 1 .. left} \cup {x}
  <2>1. \A n \in 1 .. Len(pipe) : who[n] = x \/ who[n] = who2[n - 1]
    BY <1>7, <1>8
  <2>2. \A n \in 1 .. left : who2[n] = who[n + 1] /\ n + 1 \in 1 .. Len(pipe)
    BY <1>7, <1>8
  <2>3. \A n \in 1 .. Len(pipe) : who[n] = x \/ n - 1 \in 1 .. left
    BY <1>7
  <2> HIDE DEF left
  <2>4. \A y : (\E n \in 1 .. Len(pipe) : y = who[n])
                 <=> (\E n \in 1 .. left : y = who2[n]) \/ y = x
    BY <1>7, <2>1, <2>2, <2>3
  <2> QED
    BY <2>4
<1>12. Done = read2 \cup {who2[n] : n \in 1 .. left}
  BY <1>4, <1>11 DEF LinesOf
<1>13. pc'[0] \in {"reap", "done"} /\ \A q \in Clients : pc'[q] = pc[q]
  BY <1>1, <1>2, FirstProc DEF Goto, Clients
<1>14. Done' = Done /\ Forks' = Forks
  BY <1>13 DEF Done, Forks, Clients, Procs
<1> HIDE DEF left, x
<1>15. LinesOf(read2, who2)'
  <2>1. ASSUME NEW n \in 1 .. left
        PROVE  who2[n] \notin read2 /\ pipe'[n] = cnt'[who2[n]]
    <3>1. who[n + 1] \notin read /\ pipe[n + 1] = cnt[who[n + 1]]
      BY <1>4, <1>7 DEF LinesOf
    <3>2. pipe'[n] = pipe[n + 1]
      BY <1>5 DEF left
    <3> QED
      BY <1>2, <1>8, <1>10, <3>1, <3>2
  <2>2. ASSUME NEW m \in 1 .. left, NEW n \in 1 .. left, who2[m] = who2[n]
        PROVE  m = n
    <3>1. m + 1 = n + 1
      BY <1>4, <1>7, <1>8, <2>2 DEF LinesOf
    <3> QED
      BY <1>7, <3>1
  <2>3. Len(pipe') = left
    BY <1>5 DEF left
  <2>4. /\ \A n \in 1 .. left :
             who2[n] \notin read2 /\ pipe'[n] = cnt'[who2[n]]
        /\ \A m, n \in 1 .. left : who2[m] = who2[n] => m = n
        /\ Done' = read2 \cup {who2[n] : n \in 1 .. left}
    BY <1>12, <1>14, <2>1, <2>2
  <2>5. x' = x
    BY DEF x
  <2> QED
    BY <2>3, <2>4, <2>5 DEF LinesOf
<1>16. \A k \in DOMAIN Zero : total'[k] = SumOf(Counted(read2), k, Clients)
  <2> SUFFICES ASSUME NEW k \in DOMAIN Zero
               PROVE  total'[k] = SumOf(Counted(read2), k, Clients)
    OBVIOUS
  <2>1. total'[k] = total[k] + cnt[x][k]
    BY <1>2, <1>9 DEF Sum
  <2>2. total[k] = SumOf(Counted(read), k, Clients)
    BY <1>4 DEF TotalsOf
  <2>3. \A p \in Clients : cnt[p][k] \in Nat /\ Zero[k] = 0
    BY <1>1 DEF Line, Clients, Zero
  <2>4. /\ \A p \in Clients : /\ Counted(read)[p][k] \in Nat
                              /\ Counted(read2)[p][k] \in Nat
        /\ Counted(read)[x][k] = 0 /\ Counted(read2)[x][k] = cnt[x][k]
        /\ \A p \in Clients \ {x} :
             Counted(read2)[p][k] = Counted(read)[p][k]
    <3>1. \A p \in Clients : p \in Procs /\ p # 0
      BY DEF Clients
    <3>2. \A p \in Clients :
            /\ Counted(read)[p] = IF p \in read THEN cnt[p] ELSE Zero
            /\ Counted(read2)[p] = IF p \in read2 THEN cnt[p] ELSE Zero
      BY <3>1 DEF Counted
    <3>3. x \in read2 /\ \A p \in Clients \ {x} : p \in read2 <=> p \in read
      OBVIOUS
    <3> HIDE DEF read2
    <3> QED
      BY <1>8, <1>9, <2>3, <3>2, <3>3
  <2> DEFINE c == Counted(read)
             d == Counted(read2)
  <2> HIDE DEF read2, c, d
  <2>5. /\ \A p \in Clients : c[p][k] \in Nat /\ d[p][k] \in Nat
        /\ c[x][k] = 0 /\ \A p \in Clients \ {x} : d[p][k] = c[p][k]
    BY <2>4 DEF c, d
  <2>6. SumOf(d, k, Clients) = SumOf(c, k, Clients) + d[x][k]
    <3>1. IsFiniteSet(Clients) /\ x \in Clients
      BY <1>8, ClientsAre
    <3> QED
      BY <2>5, <3>1, SumOfGrows
  <2> QED
    BY <2>1, <2>2, <2>4, <2>6 DEF c, d
<1>17. Cardinality(read2) = Cardinality(read) + 1 /\ IsFiniteSet(read2)
       /\ Cardinality(read) \in Nat
  <2>1. IsFiniteSet(read)
    BY <1>3, ClientsAre, FS_Subset
  <2> QED
    BY <1>9, <2>1, FS_AddElement, FS_CardinalityType
<1>18. Cardinality(Forks) = clients' + Cardinality(read2)
  <2>1. Cardinality(Forks) = clients + Cardinality(read)
    BY <1>2, <1>4 DEF Waiting
  <2> HIDE DEF read2
  <2> QED
    BY <1>1, <1>2, <1>17, <2>1
<1>19. Books'
  <2>1. TotalsOf(read2)'
    <3>1. Counted(read2)' = Counted(read2)
      BY <1>2 DEF Counted, Procs, x
    <3> HIDE DEF read2
    <3> QED
      BY <1>16, <3>1 DEF TotalsOf, Clients, Procs, Zero
  <2>2. Waiting(read2)'
    <3>1. pc'[0] \notin {"start", "fork"}
      BY <1>13
    <3>2. read2' = read2
      BY DEF x
    <3> HIDE DEF read2
    <3> QED
      BY <1>14, <1>18, <3>1, <3>2 DEF Waiting
  <2>3. /\ read2 \in SUBSET Clients'
        /\ who2 \in [1 .. Len(pipe') -> Clients']
    BY <1>3, <1>5, <1>8 DEF Clients, Procs, left
  <2> QED
    BY <1>15, <2>1, <2>2, <2>3 DEF Books, Booked, x
<1>20. Unborn'
  BY <1>2, <1>13 DEF BooksInv, Unborn, Clients, Procs
<1>21. ASSUME pc'[0] = "done"
       PROVE  /\ \A p \in Clients : pc[p] \in {"off", "done"}
              /\ Len(pipe') = 0
              /\ \A k \in DOMAIN Zero : total'[k] = SumOf(cnt, k, Clients)
  <2>1. clients' = 0
    BY <1>2, <1>21
  <2>2. Cardinality(Forks) = Cardinality(read2)
    BY <1>17, <1>18, <2>1
  <2>3. read2 \subseteq Done /\ Done \subseteq Forks
    BY <1>12 DEF Done, Forks
  <2>4. IsFiniteSet(Forks)
    BY ClientsAre, FS_Subset DEF Forks
  <2>5. Forks = read2
    <3>1. read2 \in SUBSET Forks
      BY <2>3
    <3> HIDE DEF read2
    <3> QED
      BY <2>2, <2>4, <3>1, FS_Subset
  <2>6. \A p \in Clients : pc[p] \in {"off", "done"}
    BY <2>3, <2>5 DEF Forks, Done
  <2>7. left = 0
    <3>1. \A n \in 1 .. left : who2[n] \in Done /\ who2[n] \notin read2
      <4>1. \A n \in 1 .. left : who2[n] \notin read2
        <5>1. \A n \in 1 .. left : who[n + 1] \notin read
          BY <1>4, <1>7 DEF LinesOf
        <5> QED
          BY <1>8, <1>10, <5>1
      <4> QED
        BY <1>12, <4>1
    <3>2. ~(1 \in 1 .. left)
      BY <2>3, <2>5, <3>1
    <3> QED
      BY <1>7, <3>2
  <2>8. Counted(read2) = cnt
    <3>1. ASSUME NEW p \in Procs
          PROVE  Counted(read2)[p] = cnt[p]
      <4>1. CASE p = 0 \/ p \in read2
        BY <4>1 DEF Counted
      <4>2. CASE p # 0 /\ p \notin read2
        <5>1. p \in Clients /\ pc[p] = "off"
          BY <2>5, <4>2 DEF Forks, Clients
        <5> QED
          BY <4>2, <5>1 DEF Counted, BooksInv, Unborn
      <4> QED
        BY <4>1, <4>2
    <3>2. /\ Counted(read2) = [p \in Procs |-> Counted(read2)[p]]
          /\ cnt = [p \in Procs |-> cnt[p]]
      BY <1>1 DEF Counted
    <3> HIDE DEF read2
    <3> QED
      BY <3>1, <3>2
  <2> QED
    BY <1>5, <1>16, <2>6, <2>7, <2>8 DEF left
<1> QED
  BY <1>19, <1>20, <1>21 DEF BooksInv, Clients

\* Only a line that was read can end the loop over the pipe.
LEMMA OnlyReapEnds ==
  ASSUME WebbenchInv, Next, pc[0] = "reap", pc'[0] = "done"
  PROVE  Reap
<1>1. pc \in [Procs -> Places]
  BY DEF WebbenchInv, TypeOK, Places
<1>2. ~(bench \/ Fork \/ Forked)
  BY DEF bench, Fork, Forked
<1>3. ~Finished
  BY DEF Finished, vars
<1>4. ASSUME NEW p \in Procs,
             Test(p) \/ TestRead(p) \/ Close(p) \/ Answers(p)
               \/ Alarm(p) \/ Die(p)
      PROVE  FALSE
  <2>1. /\ pc[p] \notin Outside
        /\ \A q \in Procs \ {p} : pc'[q] = pc[q]
    BY <1>4, Inside
  <2> QED
    BY <2>1, FirstProc DEF Outside
<1>5. ASSUME NEW p \in Procs, Report(p)
      PROVE  FALSE
  <2>1. pc[p] = "report" /\ Goto(p, "done")
    BY <1>5 DEF Report, Exit
  <2>2. p # 0
    BY <2>1
  <2>3. pc'[0] = pc[0]
    BY <1>1, <2>1, <2>2, FirstProc DEF Goto
  <2> QED
    BY <2>3
<1> QED
  BY <1>2, <1>3, <1>4, <1>5 DEF Next, ParentStep, Runs

\* Every step keeps the books, and the totals that are printed are the sums.
LEMMA NextBooks ==
  ASSUME WebbenchInv, BooksInv, [Next]_vars
  PROVE  /\ BooksInv'
         /\ pc[0] = "reap" /\ pc'[0] = "done" =>
              /\ \A p \in Procs \ {0} : pc[p] \in {"off", "done"}
              /\ pipe' = << >>
              /\ \A k \in DOMAIN Zero :
                   total'[k] = MapThenSumSet(LAMBDA p : cnt[p][k], Procs \ {0})
<1>1. CASE UNCHANGED vars
  <2>1. UNCHANGED <<pc, cnt, pipe, total, clients, i>>
    BY <1>1 DEF vars
  <2>2. Unborn'
    BY <2>1 DEF BooksInv, Unborn, Clients, Procs
  <2>3. CASE Reaps
    <3>1. PICK read \in SUBSET Clients, who \in [1 .. Len(pipe) -> Clients] :
            Booked(read, who)
      BY <2>3 DEF BooksInv, Books
    <3>2. LinesOf(read, who)'
      BY <2>1, <3>1 DEF Booked, LinesOf, Done, Clients, Procs
    <3>3. TotalsOf(read)'
      BY <2>1, <3>1 DEF Booked, TotalsOf, Counted, Clients, Procs, Zero
    <3>4. Waiting(read)'
      BY <2>1, <3>1 DEF Booked, Waiting, Forks, Clients, Procs
    <3>5. /\ read \in SUBSET Clients'
          /\ who \in [1 .. Len(pipe') -> Clients']
      BY <2>1, <3>1 DEF Clients, Procs
    <3>6. Books'
      BY <3>2, <3>3, <3>4, <3>5 DEF Books, Booked
    <3> QED
      BY <2>1, <2>2, <3>6 DEF BooksInv
  <2>4. CASE ~Reaps
    BY <2>1, <2>2, <2>4 DEF BooksInv, Books, Reaps
  <2> QED
    BY <2>1, <2>3, <2>4
<1>2. CASE Next
  <2>1. BooksInv'
    <3>1. CASE ParentStep
      BY <3>1, ForkBooks, ReapBooks DEF ParentStep
    <3>2. ASSUME NEW p \in Procs, Report(p)
          PROVE  BooksInv'
      BY <3>2, ReportBooks
    <3>3. ASSUME NEW p \in Procs,
                 Test(p) \/ TestRead(p) \/ Close(p) \/ Answers(p)
                   \/ Alarm(p) \/ Die(p)
          PROVE  BooksInv'
      BY <3>3, InsideBooks
    <3>4. CASE Finished
      BY <1>1, <3>4 DEF Finished
    <3> QED
      BY <1>2, <3>1, <3>2, <3>3, <3>4 DEF Next, Runs
  <2>2. ASSUME pc[0] = "reap", pc'[0] = "done"
        PROVE  /\ \A p \in Procs \ {0} : pc[p] \in {"off", "done"}
               /\ pipe' = << >>
               /\ \A k \in DOMAIN Zero : total'[k]
                    = MapThenSumSet(LAMBDA p : cnt[p][k], Procs \ {0})
    <3>1. Reap
      BY <1>2, <2>2, OnlyReapEnds
    <3>2. /\ \A p \in Procs \ {0} : pc[p] \in {"off", "done"}
          /\ Len(pipe') = 0
          /\ \A k \in DOMAIN Zero : total'[k] = SumOf(cnt, k, Clients)
      BY <2>2, <3>1, ReapBooks
    <3>3. pipe' = << >>
      <4>1. pipe' \in Seq(Line)
        BY <3>1, ReapStep DEF WebbenchInv, HistoryOK, Line, Zero
      <4> QED
        BY <3>2, <4>1, EmptySeq
    <3>4. \A k \in DOMAIN Zero : total'[k]
            = MapThenSumSet(LAMBDA p : cnt[p][k], Procs \ {0})
      BY <3>2 DEF SumOf, Clients
    <3> QED
      BY <3>2, <3>3, <3>4
  <2> QED
    BY <2>1, <2>2
<1> QED
  BY <1>1, <1>2

\* Process 0 prints only when every client it has forked has reported, what it
\* prints is the sum of what they counted, and no line is read twice or left.
THEOREM TotalsAddUp == FairSpec => TotalsAreReports
<1>1. Init => BooksInv
  BY BooksInit
<1>2. WebbenchInv /\ BooksInv /\ [Next]_vars => BooksInv'
  BY NextBooks
<1>3. WebbenchInv /\ BooksInv /\ [Next]_vars
        => [pc[0] = "reap" /\ pc'[0] = "done" =>
              /\ \A p \in Procs \ {0} : pc[p] \in {"off", "done"}
              /\ pipe' = << >>
              /\ \A k \in DOMAIN Zero : total'[k]
                   = MapThenSumSet(LAMBDA p : cnt[p][k], Procs \ {0})]_vars
  BY NextBooks
<1> QED
  BY <1>1, <1>2, <1>3, WebbenchInvariance, PTL DEF FairSpec, TotalsAreReports
=============================================================================
