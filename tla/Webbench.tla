------------------------------ MODULE Webbench ------------------------------
(***************************************************************************)
(* webbench, the load generator kept beside the server (webbench.c,        *)
(* socket.c).  The first process, 0, checks the server, forks the clients  *)
(* and adds up the lines they write into a pipe; a client runs benchcore   *)
(* until SIGALRM has set timerexpired.                                     *)
(*                                                                         *)
(* A step of a client ends where the alarm can make a difference: at a     *)
(* test of timerexpired, and at a call that blocks.  What the server does  *)
(* with a request is left open.                                            *)
(***************************************************************************)
EXTENDS Integers, Sequences, FiniteSetsExt

CONSTANTS
  Given,      \* the values of the option -c to try, any integers
  PipeSize,   \* the lines mypipe holds, some thousands
  MaxClients, \* bound: clients of a run, at least what any of Given asks for
  MaxTurns,   \* bound: requests of a process
  MaxChunks,  \* bound: reads of a process that return data
  MaxDeaths   \* bound: clients that die before their line is written

VARIABLES
  clients, force,  \* the options; clients counts down in the end
  pc,            \* where each process is
  i,             \* the loop counter of bench, later the last speed read
  pipe,          \* the lines in mypipe
  total,         \* what process 0 has added up
  status,        \* its exit status, -1 while it runs
  armed,         \* processes whose alarm is still to come
  timerexpired,  \* processes whose handler has run
  cnt,           \* the globals speed, failed and bytes of each process
  open,          \* the sockets each process has open
  turns, deaths,
  truth          \* history: failures not due to the alarm, replies read to
                 \* their end, and sockets given up by Socket

vars == <<clients, force, pc, i, pipe, total, status, armed,
          timerexpired, cnt, open, turns, deaths, truth>>
parentVars == <<clients, force, i, total, status>>

ASSUME GivenAssumption ==
  /\ MaxClients \in Nat \ {0} /\ PipeSize \in Nat \ {0}
  /\ Given \subseteq Int /\ \A given \in Given : given <= MaxClients

Procs == 0 .. MaxClients
Zero == [speed |-> 0, failed |-> 0, bytes |-> 0]
Asked(given) == IF given = 0 THEN 1 ELSE given

Ended == {"off", "done", "killed"}
Blocked == {"connect", "read"}
InReply == {"rtest", "close", "cut"}

Init ==
  /\ clients \in {Asked(g) : g \in Given}
  /\ force \in BOOLEAN
  /\ pc = [p \in Procs |-> IF p = 0 THEN "start" ELSE "off"]
  /\ i = 0 /\ pipe = << >> /\ total = Zero /\ status = -1
  /\ armed = {} /\ timerexpired = {} /\ deaths = 0
  /\ cnt = [p \in Procs |-> Zero]
  /\ open = [p \in Procs |-> 0] /\ turns = [p \in Procs |-> 0]
  /\ truth = [p \in Procs |-> [failures |-> 0, pages |-> 0, leaked |-> 0]]

Goto(p, there) == pc' = [pc EXCEPT ![p] = there]

-----------------------------------------------------------------------------
(* bench                                                                    *)

Exit(code) == status' = code /\ Goto(0, "done")

\* The server is off-line (1), there is no pipe (3), or the forks begin.
bench ==
  /\ pc[0] = "start"
  /\ \/ Exit(1) \/ Exit(3)
     \/ Goto(0, "fork") /\ UNCHANGED status
  /\ UNCHANGED <<clients, force, i, pipe, total, armed, timerexpired, cnt,
                 open, turns, deaths, truth>>

\* sigaction and alarm, at the top of benchcore.
EntersBenchcore(p) == Goto(p, "test") /\ armed' = armed \cup {p}

\* A turn of the loop.  When fork fails, process 0 leaves its children alone.
Fork ==
  /\ pc[0] = "fork" /\ i < clients
  /\ \/ EntersBenchcore(i + 1) /\ i' = i + 1 /\ UNCHANGED status
     \/ Exit(3) /\ UNCHANGED <<i, armed>>
  /\ UNCHANGED <<clients, force, pipe, total, timerexpired, cnt, open,
                 turns, deaths, truth>>

\* The end of the loop.  With a negative number of clients pid is still 0 and
\* process 0 takes itself for a child; fdopen may fail.
Forked ==
  /\ pc[0] = "fork" /\ i >= clients
  /\ \/ clients < 0 /\ EntersBenchcore(0) /\ UNCHANGED status
     \/ clients > 0 /\ Goto(0, "reap") /\ UNCHANGED <<armed, status>>
     \/ clients > 0 /\ Exit(3) /\ UNCHANGED armed
  /\ UNCHANGED <<clients, force, i, pipe, total, timerexpired, cnt, open,
                 turns, deaths, truth>>

Sum(a, b) == [k \in DOMAIN Zero |-> a[k] + b[k]]

\* Mutants: the last line is not waited for, or one more is.
BugOneLess(n) == n <= 1
BugOneMore(n) == n < 0

NoneLeft(n) == n = 0

\* A turn of the loop over the pipe.  Process 0 holds mypipe[1] open itself:
\* fscanf never meets the end of the file and waits while the pipe is empty.
\* The exit status is i, which fscanf has overwritten.
Reap ==
  /\ pc[0] = "reap" /\ pipe # << >>
  /\ total' = Sum(total, Head(pipe)) /\ i' = Head(pipe).speed
  /\ pipe' = Tail(pipe)
  /\ clients' = clients - 1
  /\ IF NoneLeft(clients') THEN Exit(i' % 256) ELSE UNCHANGED <<pc, status>>
  /\ UNCHANGED <<force, armed, timerexpired, cnt, open, turns, deaths, truth>>

-----------------------------------------------------------------------------
(* benchcore, in process p                                                  *)

Counts(p, field) == cnt' = [cnt EXCEPT ![p][field] = @ + 1]
Notes(p, field) == truth' = [truth EXCEPT ![p][field] = @ + 1]
Opens(p, n) == open' = [open EXCEPT ![p] = @ + n]
ClientOnly == UNCHANGED <<parentVars, pipe, deaths>>

\* failed++; continue.
Fails(p) == Counts(p, "failed") /\ Goto(p, "test")

\* Mutant: without the decrement.
BugKeepsFailure(n) == n

\* A failure is taken for the signal's and taken back.
Corrected(n) == IF n > 0 THEN n - 1 ELSE n

\* The head of the outer loop: the end, or Socket makes a socket, or it finds
\* no address or no descriptor.
Test(p) ==
  /\ pc[p] = "test"
  /\ \/ /\ p \in timerexpired
        /\ cnt' = [cnt EXCEPT ![p].failed = Corrected(@)]
        /\ Goto(p, "report") /\ UNCHANGED <<turns, open, truth>>
     \/ /\ p \notin timerexpired /\ turns[p] < MaxTurns
        /\ turns' = [turns EXCEPT ![p] = @ + 1]
        /\ \/ Opens(p, 1) /\ Goto(p, "connect") /\ UNCHANGED <<cnt, truth>>
           \/ Fails(p) /\ Notes(p, "failures") /\ UNCHANGED open
  /\ ClientOnly /\ UNCHANGED <<armed, timerexpired>>

\* Socket returns -1 and forgets the socket whose connect failed.
Refused(p) ==
  /\ Fails(p)
  /\ UNCHANGED open

\* connect returns; then write, and with HTTP/0.9 shutdown, which may fail.
Connect(p) ==
  /\ pc[p] = "connect"
  /\ \/ /\ Refused(p)
        /\ truth' = [truth EXCEPT ![p].leaked = @ + 1, ![p].failures = @ + 1]
     \/ Fails(p) /\ Opens(p, -1) /\ Notes(p, "failures")
     \/ /\ Goto(p, IF force THEN "close" ELSE "rtest")
        /\ UNCHANGED <<cnt, open, truth>>
  /\ ClientOnly /\ UNCHANGED <<armed, timerexpired, turns>>

\* The head of the inner loop; "cut" is "close" with the reply unfinished.
TestRead(p) ==
  /\ pc[p] = "rtest"
  /\ Goto(p, IF p \in timerexpired THEN "cut" ELSE "read")
  /\ ClientOnly
  /\ UNCHANGED <<armed, timerexpired, turns, cnt, open, truth>>

\* Mutant: goto nexttry without close.
BugReset(p) ==
  /\ pc[p] = "read"
  /\ Fails(p) /\ Notes(p, "failures")
  /\ ClientOnly /\ UNCHANGED <<armed, timerexpired, turns, open>>

ReadReset(p) ==
  /\ pc[p] = "read"
  /\ Fails(p) /\ Opens(p, -1) /\ Notes(p, "failures")
  /\ ClientOnly /\ UNCHANGED <<armed, timerexpired, turns>>

ReadData(p) ==
  /\ pc[p] = "read" /\ cnt[p].bytes < MaxChunks
  /\ Counts(p, "bytes") /\ Goto(p, "rtest")
  /\ ClientOnly /\ UNCHANGED <<armed, timerexpired, turns, open, truth>>

ReadEnd(p) ==
  /\ pc[p] = "read"
  /\ Goto(p, "close")
  /\ ClientOnly /\ UNCHANGED <<armed, timerexpired, turns, cnt, open, truth>>

\* close gives the descriptor back even when it fails.
Close(p) ==
  /\ pc[p] \in {"close", "cut"}
  /\ Opens(p, -1)
  /\ \/ Fails(p) /\ Notes(p, "failures")
     \/ /\ Counts(p, "speed") /\ Goto(p, "test")
        /\ IF pc[p] = "close" THEN Notes(p, "pages") ELSE UNCHANGED truth
  /\ ClientOnly /\ UNCHANGED <<armed, timerexpired, turns>>

\* SIGALRM.  A process at a call that blocks is in it, and the call fails
\* with EINTR, or is about to make it and blocks with the alarm spent.
Alarm(p) ==
  /\ p \in armed /\ pc[p] # "killed"
  /\ armed' = armed \ {p} /\ timerexpired' = timerexpired \cup {p}
  /\ \/ UNCHANGED <<pc, cnt, open, truth>>
     \/ /\ pc[p] = "connect"
        /\ Refused(p) /\ Notes(p, "leaked")
     \/ /\ pc[p] = "read"
        /\ Fails(p) /\ Opens(p, -1) /\ UNCHANGED truth
  /\ ClientOnly /\ UNCHANGED turns

\* There is room for the line and the process exits with 0.  A client holds
\* both ends of the pipe: no SIGPIPE ends it when process 0 is gone, and while
\* the pipe is full it waits.  fdopen may fail; for a client that is Die.
Report(p) ==
  /\ pc[p] = "report"
  /\ \/ /\ Len(pipe) < PipeSize
        /\ pipe' = Append(pipe, cnt[p])
        /\ Goto(p, "done") /\ status' = IF p = 0 THEN 0 ELSE status
     \/ p = 0 /\ Exit(3) /\ UNCHANGED pipe
  /\ UNCHANGED <<clients, force, i, total, armed, timerexpired, cnt, open,
                 turns, deaths, truth>>

\* A client is killed, or its fdopen fails.
Die(p) ==
  /\ p # 0 /\ pc[p] \notin Ended /\ deaths < MaxDeaths
  /\ Goto(p, "killed") /\ deaths' = deaths + 1
  /\ UNCHANGED <<parentVars, pipe, armed, timerexpired, cnt, open,
                 turns, truth>>

-----------------------------------------------------------------------------
\* What a process does by itself, and what it waits for.
Runs(p) == Test(p) \/ TestRead(p) \/ Close(p) \/ Report(p)
Answers(p) == Connect(p) \/ ReadReset(p) \/ ReadData(p) \/ ReadEnd(p)
ParentStep == bench \/ Fork \/ Forked \/ Reap

\* A client at a full pipe that process 0 will not read from any more.
Stuck(p) == pc[p] = "report" /\ Len(pipe) = PipeSize /\ pc[0] = "done"

\* All have ended, but for a process 0 that waits for the line of a client
\* that died, and for clients that are stuck.
Finished ==
  /\ \A p \in Procs :
       \/ pc[p] \in Ended \/ Stuck(p)
       \/ p = 0 /\ pc[0] = "reap" /\ pipe = << >> /\ deaths > 0
  /\ UNCHANGED vars

Next == \/ ParentStep \/ Finished
        \/ \E p \in Procs : Runs(p) \/ Answers(p) \/ Alarm(p) \/ Die(p)

\* The processes are scheduled, the alarm comes, and the server answers,
\* closes or resets every connection it was sent a request on.
FairSpec ==
  /\ Init /\ [][Next]_vars
  /\ WF_vars(ParentStep)
  /\ \A p \in Procs :
       WF_vars(Runs(p)) /\ WF_vars(Alarm(p)) /\ WF_vars(Answers(p))

-----------------------------------------------------------------------------
TypeOK ==
  /\ clients \in Int /\ i \in Nat /\ status \in -1 .. 255
  /\ pc \in [Procs -> Ended \cup Blocked \cup InReply
                       \cup {"start", "fork", "reap", "test", "report"}]
  /\ cnt \in [Procs -> [DOMAIN Zero -> Nat]] /\ total \in [DOMAIN Zero -> Nat]
  /\ open \in [Procs -> Nat]
  /\ armed \subseteq Procs /\ timerexpired \subseteq Procs \ armed

\* The alarm can strike anywhere, and yet what a client reports is off by at
\* most one: the failure it takes back may have been a real one, and the reply
\* the alarm cut short counts as a page.
CountsHonest ==
  /\ TypeOK
  /\ \A p \in Procs :
       pc[p] \in {"report", "done"} /\ p \in timerexpired =>
         /\ cnt[p].failed \in {truth[p].failures - 1, truth[p].failures}
         /\ cnt[p].speed \in {truth[p].pages, truth[p].pages + 1}

\* Every path out of a turn gives its socket back, but for the one in Socket,
\* where connect fails: a server that refuses costs a descriptor each time.
OnlyRefusedLeak ==
  \A p \in Procs : pc[p] # "killed" =>
    open[p] = truth[p].leaked + (IF pc[p] \in Blocked \cup InReply THEN 1
                                                                  ELSE 0)

\* Process 0 prints its totals only when every client has reported, never with
\* one that died passed over, and what they reported is what it prints, each
\* line once.
TotalsAreReports ==
  [][pc[0] = "reap" /\ pc'[0] = "done" =>
       /\ \A p \in Procs \ {0} : pc[p] \in {"off", "done"}
       /\ pipe' = << >>
       /\ \A k \in DOMAIN Zero :
            total'[k] = MapThenSumSet(LAMBDA p : cnt[p][k], Procs \ {0})]_vars

\* Every process ends, wherever the alarm strikes it; but process 0 may wait
\* for ever for a client that has died, and its clients may wait for ever at a
\* full pipe, if it gave up.
AllEnd ==
  <>(\A p \in Procs : pc[p] \in Ended \/ Stuck(p) \/ (p = 0 /\ deaths > 0))
=============================================================================
