------------------------------ MODULE Worker ------------------------------
(***************************************************************************)
(* The event loop of the worker processes: server_make (dm_server.c) and   *)
(* the HTTP, HTTP_PROXY and TCP_PROXY handlers it calls (dm_events.c).     *)
(*                                                                         *)
(* Every worker process has its own epoll instance and its own descriptor  *)
(* table; the listening sockets, and so the queues of connections that     *)
(* wait to be accepted, are shared by all of them (they were opened before *)
(* the fork).  A connection stands for the client's socket, the            *)
(* descriptor accept() returned for it and the req_t that epoll_event's    *)
(* data.ptr points to.                                                     *)
(*                                                                         *)
(* Data is abstracted to what the handlers tell apart: the number of       *)
(* unread bytes of a request (compared with the handler's buffer), what    *)
(* the peer did to the connection, and how much of the answer was written. *)
(***************************************************************************)
EXTENDS Naturals, FiniteSets

CONSTANTS
  Workers,      \* the worker processes
  Conns,        \* the client connections of a behaviour
  None,         \* "no connection"
  LisNum,       \* lis_num, the number of listening sockets
  LisType,      \* lis_infs[k].type
  Port,         \* the listening socket a connection arrives at
  StdFds,       \* descriptors open before the listening sockets
  MaxFd,        \* the largest descriptor RLIMIT_NOFILE lets a worker have
  HttpBuf,      \* size of event_http_read's buffer (1024)
  ProxyBuf,     \* size of event_http_reverse's buffer (4096)
  MaxInbox,     \* bound: unread bytes of a connection
  Faults,       \* which system calls and peers may fail, see FaultKinds
  MaxCrash      \* bound: how often a worker dies

FaultKinds == {"accept", "nonblock", "add", "connect", "short", "rst", "err"}

Listeners == 0 .. LisNum - 1

ASSUME NoneAssumption == None \notin Conns /\ None \notin Workers

ASSUME SizeAssumption ==
  /\ LisNum \in Nat /\ StdFds \in Nat /\ MaxFd \in Nat
  /\ HttpBuf \in Nat \ {0} /\ ProxyBuf \in Nat \ {0}
  /\ MaxInbox \in Nat /\ MaxCrash \in Nat

ASSUME ListenerAssumption ==
  /\ LisType \in [Listeners -> {"HTTP", "HTTP_PROXY", "TCP_PROXY"}]
  /\ Port \in [Conns -> Listeners]

ASSUME FaultAssumption == Faults \subseteq FaultKinds

ASSUME FiniteAssumption == IsFiniteSet(Workers) /\ IsFiniteSet(Conns)

VARIABLES
  \* the worker processes
  pc,        \* "down", "loop" (server_make), "accept" (inside
             \* event_accept_http), "backend" (blocked in event_http_reverse)
  lis,       \* the listener event_accept_http drains
  cur,       \* the connection event_http_reverse works for
  cli_sock,  \* its socket to the back end, 0 when there is none
  table,     \* the descriptors that are open
  refused,   \* history: how many back ends refused its connect()
  lisReady,  \* listeners on the epoll instance's ready list
  lisEvs,    \* listeners in the part of evs[] that is still to be handled
  ready,     \* connections on the epoll instance's ready list
  evs,       \* evs[i].events for the connections still to be handled
  sd,        \* shm_data_t, the atomic counters all workers share
  crashes,   \* how often a worker has died
  \* the connections
  st,        \* "idle", "backlog", "open", "closed"; "stray": accepted but
             \* never registered; "lost": counted as accepted, closed
             \* without handle_close; "aborted": stray when its worker died
  own,       \* the worker that accepted the connection
  fd,        \* req->fd, 0 when there is no req_t
  want,      \* the direction epoll watches
  inbox,     \* bytes received and not read
  peer,      \* "open", "fin" (sent FIN), "rst"/"err" (an error is pending),
             \* "dead" (the error has been reported)
  reply      \* "none", "partial", "full": what was written of the answer

procVars == <<pc, lis, cur, cli_sock, table, refused>>
epollVars == <<lisReady, lisEvs, ready, evs>>
netVars == <<inbox, peer>>
vars == <<pc, lis, cur, cli_sock, table, refused, lisReady, lisEvs, ready,
          evs, sd, crashes, st, own, fd, want, inbox, peer, reply>>

Counters == [accept_num : Nat, read_num : Nat, write_num : Nat,
             close_num : Nat]
Masks == SUBSET {"IN", "OUT", "ERR"}
NoEvents == [c \in Conns |-> {}]

TypeOK ==
  /\ pc \in [Workers -> {"down", "loop", "accept", "backend"}]
  /\ lis \in [Workers -> Nat]
  /\ cur \in [Workers -> Conns \cup {None}]
  /\ cli_sock \in [Workers -> Nat]
  /\ table \in [Workers -> SUBSET Nat]
  /\ refused \in [Workers -> Nat]
  /\ lisReady \in [Workers -> SUBSET Listeners]
  /\ lisEvs \in [Workers -> SUBSET Listeners]
  /\ ready \in [Workers -> SUBSET Conns]
  /\ evs \in [Workers -> [Conns -> Masks]]
  /\ sd \in Counters
  /\ crashes \in Nat
  /\ st \in [Conns -> {"idle", "backlog", "open", "closed", "stray", "lost",
                       "aborted"}]
  /\ own \in [Conns -> Workers \cup {None}]
  /\ fd \in [Conns -> Nat]
  /\ want \in [Conns -> {"IN", "OUT"}]
  /\ inbox \in [Conns -> Nat]
  /\ peer \in [Conns -> {"open", "fin", "rst", "err", "dead"}]
  /\ reply \in [Conns -> {"none", "partial", "full"}]

-----------------------------------------------------------------------------
(* Descriptors.  Before server_make accepts anything, the standard ones, the *)
(* listeners and the epoll descriptor are open; the kernel hands out the    *)
(* lowest one that is free.                                                 *)

Type(c) == LisType[Port[c]]

Holds(w, c) == own[c] = w /\ st[c] \in {"open", "stray"}

SetUp == 0 .. StdFds + LisNum

FreeFds(w) == (0 .. MaxFd) \ table[w]

LowestFree(w, n) == n \in FreeFds(w) /\ \A m \in FreeFds(w) : n <= m

-----------------------------------------------------------------------------
(* The state after server_make's set-up, for every worker.                  *)

Init ==
  /\ pc = [w \in Workers |-> "loop"]
  /\ lis = [w \in Workers |-> 0]
  /\ cur = [w \in Workers |-> None]
  /\ cli_sock = [w \in Workers |-> 0]
  /\ table = [w \in Workers |-> SetUp]
  /\ refused = [w \in Workers |-> 0]
  /\ lisReady = [w \in Workers |-> {}]
  /\ lisEvs = [w \in Workers |-> {}]
  /\ ready = [w \in Workers |-> {}]
  /\ evs = [w \in Workers |-> NoEvents]
  /\ sd = [accept_num |-> 0, read_num |-> 0, write_num |-> 0, close_num |-> 0]
  /\ crashes = 0
  /\ st = [c \in Conns |-> "idle"]
  /\ own = [c \in Conns |-> None]
  /\ fd = [c \in Conns |-> 0]
  /\ want = [c \in Conns |-> "IN"]
  /\ inbox = [c \in Conns |-> 0]
  /\ peer = [c \in Conns |-> "open"]
  /\ reply = [c \in Conns |-> "none"]

-----------------------------------------------------------------------------
(* The network and the kernel (not code of this repository).  Something     *)
(* that happens on a registered socket puts it on the ready list of the     *)
(* epoll instance it is registered with: the edge of EPOLLET.               *)

Live(w) == pc[w] # "down"

Wake(c) == ready' = [w \in Workers |->
                       IF st[c] = "open" /\ own[c] = w THEN ready[w] \cup {c}
                                                       ELSE ready[w]]

Present(c) == st[c] \in {"backlog", "open", "stray"}

\* A new connection is an edge for every worker's registration of the
\* listener: no EPOLLEXCLUSIVE.
Connect(c) ==
  /\ st[c] = "idle"
  /\ st' = [st EXCEPT ![c] = "backlog"]
  /\ lisReady' = [w \in Workers |-> IF Live(w)
                                    THEN lisReady[w] \cup {Port[c]}
                                    ELSE lisReady[w]]
  /\ UNCHANGED <<procVars, lisEvs, ready, evs, sd, crashes, own, fd, want,
                 netVars, reply>>

Send(c) ==
  /\ Present(c) /\ peer[c] = "open" /\ inbox[c] < MaxInbox
  /\ inbox' = [inbox EXCEPT ![c] = @ + 1]
  /\ IF want[c] = "IN" THEN Wake(c) ELSE UNCHANGED ready
  /\ UNCHANGED <<procVars, lisReady, lisEvs, evs, sd, crashes, st, own, fd,
                 want, peer, reply>>

PeerDoes(c, what) ==
  /\ Present(c)
  /\ peer' = [peer EXCEPT ![c] = what]
  /\ Wake(c)
  /\ UNCHANGED <<procVars, lisReady, lisEvs, evs, sd, crashes, st, own, fd,
                 want, inbox, reply>>

Fin(c) == peer[c] = "open" /\ PeerDoes(c, "fin")

\* After a FIN a reset is not seen by read(), which keeps returning 0; write()
\* fails.
Rst(c) == /\ "rst" \in Faults
          /\ \/ peer[c] = "open" /\ PeerDoes(c, "rst")
             \/ peer[c] = "fin" /\ PeerDoes(c, "dead")

\* Any other error of the connection, a keep-alive or transmission time-out.
NetErr(c) == "err" \in Faults /\ peer[c] = "open" /\ PeerDoes(c, "err")

-----------------------------------------------------------------------------
(* epoll_wait.  EPOLL_MAX_EVENT_NUM (40960) exceeds the descriptor limit    *)
(* (20000), so a call returns everything that is ready; an entry of the     *)
(* ready list that is not ready any more is dropped.  "ERR" stands for      *)
(* EPOLLHUP and EPOLLERR, which may come alone or with the direction.       *)

Waiting(k) == {c \in Conns : st[c] = "backlog" /\ Port[c] = k}

Failed(c) == peer[c] \in {"rst", "err", "dead"}

Reported(c, alone) ==
  IF Failed(c) THEN IF alone THEN {"ERR"} ELSE {"ERR", want[c]}
  ELSE IF want[c] = "OUT" THEN {"OUT"}
  ELSE IF inbox[c] > 0 \/ peer[c] = "fin" THEN {"IN"} ELSE {}

EpollWait(w) ==
  /\ pc[w] = "loop" /\ lisEvs[w] = {} /\ evs[w] = NoEvents
  /\ lisReady[w] # {} \/ ready[w] # {}
  /\ \E alone \in SUBSET {c \in ready[w] : Failed(c)} :
        evs' = [evs EXCEPT ![w] =
                  [c \in Conns |-> IF c \in ready[w]
                                   THEN Reported(c, c \in alone) ELSE {}]]
  /\ lisEvs' = [lisEvs EXCEPT ![w] = {k \in lisReady[w] : Waiting(k) # {}}]
  /\ lisReady' = [lisReady EXCEPT ![w] = {}]
  /\ ready' = [ready EXCEPT ![w] = {}]
  /\ UNCHANGED <<procVars, sd, crashes, st, own, fd, want, netVars, reply>>

-----------------------------------------------------------------------------
(* Accepting.  handle_accept ignores a TCP_PROXY listener.                  *)

\* Mutant: the case for HTTP is missing from the switch.
BugHandleAccept(w, k) ==
  /\ pc[w] = "loop" /\ k \in lisEvs[w]
  /\ lisEvs' = [lisEvs EXCEPT ![w] = @ \ {k}]
  /\ IF LisType[k] # "HTTP_PROXY"
     THEN UNCHANGED <<pc, lis>>
     ELSE pc' = [pc EXCEPT ![w] = "accept"] /\ lis' = [lis EXCEPT ![w] = k]
  /\ UNCHANGED <<cur, cli_sock, table, refused, lisReady, ready, evs, sd,
                 crashes, st, own, fd, want, netVars, reply>>

handle_accept(w, k) ==
  /\ pc[w] = "loop" /\ k \in lisEvs[w]
  /\ lisEvs' = [lisEvs EXCEPT ![w] = @ \ {k}]
  /\ IF LisType[k] = "TCP_PROXY"
     THEN UNCHANGED <<pc, lis>>
     ELSE pc' = [pc EXCEPT ![w] = "accept"] /\ lis' = [lis EXCEPT ![w] = k]
  /\ UNCHANGED <<cur, cli_sock, table, refused, lisReady, ready, evs, sd,
                 crashes, st, own, fd, want, netVars, reply>>

\* accept() gives descriptor n to connection c.
Accepting(w, c, n) ==
  /\ pc[w] = "accept" /\ c \in Waiting(lis[w]) /\ LowestFree(w, n)
  /\ own' = [own EXCEPT ![c] = w]

\* Descriptor n is open from now on.
Opens(w, n) == table' = [table EXCEPT ![w] = @ \cup {n}]

CountAccept == sd' = [sd EXCEPT !.accept_num = @ + 1]

\* Mutant: one accept() for an event, not a loop.
BugAcceptOnce(w, c) ==
  /\ \E n \in FreeFds(w) : /\ Accepting(w, c, n) /\ Opens(w, n)
                            /\ fd' = [fd EXCEPT ![c] = n]
  /\ st' = [st EXCEPT ![c] = "open"]
  /\ want' = [want EXCEPT ![c] = "IN"]
  /\ CountAccept
  /\ ready' = IF inbox[c] > 0 \/ peer[c] # "open"
              THEN [ready EXCEPT ![w] = @ \cup {c}] ELSE ready
  /\ pc' = [pc EXCEPT ![w] = "loop"]
  /\ UNCHANGED <<lis, cur, cli_sock, refused, lisReady, lisEvs, evs, crashes,
                 netVars, reply>>

\* One turn of event_accept_http's loop.  EPOLL_CTL_ADD puts a socket that is
\* ready already on the ready list.
AcceptConn(w, c) ==
  /\ \E n \in FreeFds(w) : /\ Accepting(w, c, n) /\ Opens(w, n)
                            /\ fd' = [fd EXCEPT ![c] = n]
  /\ st' = [st EXCEPT ![c] = "open"]
  /\ want' = [want EXCEPT ![c] = "IN"]
  /\ CountAccept
  /\ ready' = IF inbox[c] > 0 \/ peer[c] # "open"
              THEN [ready EXCEPT ![w] = @ \cup {c}] ELSE ready
  /\ UNCHANGED <<pc, lis, cur, cli_sock, refused, lisReady, lisEvs, evs,
                 crashes, netVars, reply>>

\* EPOLL_CTL_ADD fails: the descriptor is closed, the loop goes on.
AcceptAddFails(w, c) ==
  /\ "add" \in Faults
  /\ \E n \in FreeFds(w) : Accepting(w, c, n)
  /\ st' = [st EXCEPT ![c] = "lost"]
  /\ CountAccept
  /\ UNCHANGED <<procVars, epollVars, crashes, fd, want, netVars, reply>>

\* Mutant: the connection is counted before set_non_blocking is tried.
BugCountFirst(w, c) ==
  /\ "nonblock" \in Faults
  /\ \E n \in FreeFds(w) : Accepting(w, c, n) /\ Opens(w, n)
  /\ st' = [st EXCEPT ![c] = "stray"]
  /\ pc' = [pc EXCEPT ![w] = "loop"]
  /\ CountAccept
  /\ UNCHANGED <<lis, cur, cli_sock, refused, epollVars, crashes, fd, want,
                 netVars, reply>>

\* set_non_blocking fails: the handler returns and forgets the descriptor.
AcceptNonblockFails(w, c) ==
  /\ "nonblock" \in Faults
  /\ \E n \in FreeFds(w) : Accepting(w, c, n) /\ Opens(w, n)
  /\ st' = [st EXCEPT ![c] = "stray"]
  /\ pc' = [pc EXCEPT ![w] = "loop"]
  /\ UNCHANGED <<lis, cur, cli_sock, refused, epollVars, sd, crashes, fd, want,
                 netVars, reply>>

\* accept() returns -1: EAGAIN, EMFILE, or another error.
AcceptStops(w) ==
  /\ pc[w] = "accept"
  /\ Waiting(lis[w]) = {} \/ FreeFds(w) = {} \/ "accept" \in Faults
  /\ pc' = [pc EXCEPT ![w] = "loop"]
  /\ UNCHANGED <<lis, cur, cli_sock, table, refused, epollVars, sd, crashes,
                 st, own, fd, want, netVars, reply>>

-----------------------------------------------------------------------------
(* Connections.  A handler is called with one entry of evs[]; EPOLLIN is    *)
(* tested first, then EPOLLOUT, then EPOLLHUP and EPOLLERR.                 *)

ConnEvent(w, c, dir) ==
  /\ pc[w] = "loop" /\ fd[c] > LisNum
  /\ IF dir = "ERR" THEN evs[w][c] = {"ERR"} ELSE dir \in evs[w][c]
  /\ evs' = [evs EXCEPT ![w][c] = {}]

\* Mutant: the connection is not taken off the epoll instance.
BugNoDel(w, c, s, t) ==
  /\ st' = [st EXCEPT ![c] = "closed"]
  /\ fd' = [fd EXCEPT ![c] = 0]
  /\ table' = [table EXCEPT ![w] = t \ {fd[c]}]
  /\ UNCHANGED ready
  /\ sd' = [s EXCEPT !.close_num = @ + 1]

\* Mutant: close_num counts down.
BugCountDown(w, c, s, t) ==
  /\ st' = [st EXCEPT ![c] = "closed"]
  /\ fd' = [fd EXCEPT ![c] = 0]
  /\ table' = [table EXCEPT ![w] = t \ {fd[c]}]
  /\ ready' = [ready EXCEPT ![w] = @ \ {c}]
  /\ sd' = [s EXCEPT !.close_num = @ - 1]

\* Mutant: the socket is taken off the epoll instance and not closed.
BugNoClose(w, c, s, t) ==
  /\ st' = [st EXCEPT ![c] = "closed"]
  /\ fd' = [fd EXCEPT ![c] = 0]
  /\ table' = [table EXCEPT ![w] = t]
  /\ ready' = [ready EXCEPT ![w] = @ \ {c}]
  /\ sd' = [s EXCEPT !.close_num = @ + 1]

\* s, t: the counters and the open descriptors when handle_close is called.
handle_close(w, c, s, t) ==
  /\ st' = [st EXCEPT ![c] = "closed"]
  /\ fd' = [fd EXCEPT ![c] = 0]
  /\ table' = [table EXCEPT ![w] = t \ {fd[c]}]
  /\ ready' = [ready EXCEPT ![w] = @ \ {c}]
  /\ sd' = [s EXCEPT !.close_num = @ + 1]

\* Mutant: the last byte of the buffer is kept for a terminator.
BugShortBuffer(c, buf) ==
  IF inbox[c] + 1 >= buf \/ peer[c] \in {"fin", "dead"} THEN "zero"
  ELSE IF peer[c] = "rst" THEN "reset"
  ELSE IF peer[c] = "err" THEN "error" ELSE "again"

\* Mutant: a read() that returns 0 at the end of the stream is an error.
BugEndIsError(c, buf) ==
  IF inbox[c] >= buf THEN "zero"
  ELSE IF peer[c] = "rst" THEN "reset"
  ELSE IF peer[c] \in {"err", "fin", "dead"} THEN "error" ELSE "again"

\* What read() in a loop until it does not return data ends with.  With the
\* buffer full the last call asks for 0 bytes and returns 0.
ReadResult(c, buf) ==
  IF inbox[c] >= buf \/ peer[c] \in {"fin", "dead"} THEN "zero"
  ELSE IF peer[c] = "rst" THEN "reset"
  ELSE IF peer[c] = "err" THEN "error" ELSE "again"

\* Mutant: one read() for an event, not a loop.
BugReadOnce(c) == inbox' = [inbox EXCEPT ![c] = IF @ = 0 THEN 0 ELSE @ - 1]

Drained(c) == inbox' = [inbox EXCEPT ![c] = 0]

ErrorReported(c) == peer' = [peer EXCEPT ![c] = "dead"]

CountedRead == [sd EXCEPT !.read_num = @ + 1]

event_http_read(w, c) ==
  /\ ConnEvent(w, c, "IN") /\ Type(c) = "HTTP"
  /\ \/ /\ ReadResult(c, HttpBuf) = "zero"
        /\ handle_close(w, c, sd, table[w])
        /\ UNCHANGED <<want, netVars>>
     \/ /\ ReadResult(c, HttpBuf) = "reset"
        /\ handle_close(w, c, CountedRead, table[w])
        /\ ErrorReported(c)
        /\ UNCHANGED <<want, inbox>>
     \/ /\ ReadResult(c, HttpBuf) = "error"
        /\ Drained(c) /\ ErrorReported(c)
        /\ UNCHANGED <<st, fd, table, ready, sd, want>>
     \/ /\ ReadResult(c, HttpBuf) = "again"
        /\ Drained(c)
        /\ sd' = CountedRead
        /\ want' = [want EXCEPT ![c] = "OUT"]
        /\ ready' = [ready EXCEPT ![w] = @ \cup {c}]
        /\ UNCHANGED <<st, fd, table, peer>>
  /\ UNCHANGED <<pc, lis, cur, cli_sock, refused, lisReady, lisEvs, crashes,
                 own, reply>>

\* What write() in a loop leaves of the answer at the client.
WriteResults(c) ==
  IF Failed(c) THEN {"none"}
  ELSE IF "short" \in Faults THEN {"full", "partial"} ELSE {"full"}

CountedWrite(r) == IF r = "none" THEN sd
                   ELSE [sd EXCEPT !.write_num = @ + 1]

\* Mutant: handle_write does not close the connection.
BugKeepOpen(w, c) ==
  /\ ConnEvent(w, c, "OUT") /\ "IN" \notin evs[w][c] /\ Type(c) = "HTTP"
  /\ \E r \in WriteResults(c) :
       /\ reply' = [reply EXCEPT ![c] = r]
       /\ sd' = CountedWrite(r)
  /\ UNCHANGED <<procVars, lisReady, lisEvs, ready, crashes, st, own, fd,
                 want, netVars>>

\* handle_write for HTTP: event_http_write, then handle_close.
event_http_write(w, c) ==
  /\ ConnEvent(w, c, "OUT") /\ "IN" \notin evs[w][c] /\ Type(c) = "HTTP"
  /\ \E r \in WriteResults(c) :
       /\ reply' = [reply EXCEPT ![c] = r]
       /\ handle_close(w, c, CountedWrite(r), table[w])
  /\ UNCHANGED <<pc, lis, cur, cli_sock, refused, lisReady, lisEvs, crashes,
                 own, want, netVars>>

\* server_make's branch for EPOLLHUP and EPOLLERR.
HandleError(w, c) ==
  /\ ConnEvent(w, c, "ERR")
  /\ handle_close(w, c, sd, table[w])
  /\ UNCHANGED <<pc, lis, cur, cli_sock, refused, lisReady, lisEvs, crashes,
                 own, want, netVars, reply>>

\* event_http_reverse up to the blocking connect() of client_socket.
event_http_reverse(w, c) ==
  /\ ConnEvent(w, c, "IN") /\ Type(c) = "HTTP_PROXY"
  /\ \/ /\ ReadResult(c, ProxyBuf) = "zero"
        /\ handle_close(w, c, sd, table[w])
        /\ UNCHANGED <<pc, cur, cli_sock, netVars>>
     \/ /\ ReadResult(c, ProxyBuf) \in {"reset", "error"}
        /\ Drained(c) /\ ErrorReported(c)
        /\ UNCHANGED <<pc, cur, cli_sock, st, fd, table, ready, sd>>
     \/ /\ ReadResult(c, ProxyBuf) = "again"
        /\ Drained(c)
        /\ \/ FreeFds(w) = {} /\ UNCHANGED <<pc, cur, cli_sock, table>>
           \/ /\ \E n \in FreeFds(w) :
                   /\ LowestFree(w, n) /\ Opens(w, n)
                   /\ cli_sock' = [cli_sock EXCEPT ![w] = n]
              /\ pc' = [pc EXCEPT ![w] = "backend"]
              /\ cur' = [cur EXCEPT ![w] = c]
        /\ UNCHANGED <<st, fd, ready, sd, peer>>
  /\ UNCHANGED <<lis, refused, lisReady, lisEvs, crashes, own, want, reply>>

FromBackend(w) ==
  /\ pc[w] = "backend"
  /\ pc' = [pc EXCEPT ![w] = "loop"]
  /\ cur' = [cur EXCEPT ![w] = None]
  /\ cli_sock' = [cli_sock EXCEPT ![w] = 0]

\* connect() fails: client_socket returns -1 without closing its socket, and
\* the connection stays open and unanswered.
BackendRefuses(w) ==
  /\ "connect" \in Faults
  /\ FromBackend(w)
  /\ refused' = [refused EXCEPT ![w] = @ + 1]
  /\ UNCHANGED <<lis, table, epollVars, sd, crashes, st, own, fd, want,
                 netVars, reply>>

\* What is open once the socket to the back end has been closed.
Closed(w) == table[w] \ {cli_sock[w]}

\* Mutant: the proxied connection is not closed after the answer.
BugKeepProxied(w) ==
  /\ FromBackend(w)
  /\ LET c == cur[w]
     IN \/ /\ ~ Failed(c)
           /\ \E r \in WriteResults(c) : reply' = [reply EXCEPT ![c] = r]
           /\ UNCHANGED peer
        \/ Failed(c) /\ ErrorReported(c) /\ UNCHANGED reply
  /\ table' = [table EXCEPT ![w] = Closed(w)]
  /\ UNCHANGED <<lis, refused, epollVars, sd, crashes, st, own, fd, want,
                 inbox>>

\* recv() returns, the socket to the back end is closed, and what was received
\* is written to the client.
BackendAnswers(w) ==
  /\ FromBackend(w)
  /\ LET c == cur[w]
     IN \/ /\ ~ Failed(c)
           /\ \E r \in WriteResults(c) : reply' = [reply EXCEPT ![c] = r]
           /\ handle_close(w, c, sd, Closed(w))
           /\ UNCHANGED peer
        \/ /\ Failed(c) /\ ErrorReported(c)
           /\ table' = [table EXCEPT ![w] = Closed(w)]
           /\ UNCHANGED <<st, fd, ready, sd, reply>>
  /\ UNCHANGED <<lis, refused, lisReady, lisEvs, evs, crashes, own, want,
                 inbox>>

\* recv() returns 0 or -1: nothing to write.
BackendCloses(w) ==
  /\ FromBackend(w)
  /\ handle_close(w, cur[w], sd, Closed(w))
  /\ UNCHANGED <<lis, refused, lisReady, lisEvs, evs, crashes, own, want,
                 netVars, reply>>

-----------------------------------------------------------------------------
(* A worker dies: the kernel closes its descriptors, the counters in the    *)
(* shared memory stay.  Where a handler has left a trace outside the worker *)
(* and has more to do, dying there is an action of its own: in the accept   *)
(* loop with a connection taken and not yet, or already, counted; in        *)
(* event_http_read and in handle_write before handle_close has counted the  *)
(* connection; in the proxy with the answer written.  A worker that dies    *)
(* after the last trace of a handler is one that dies after the handler.    *)

Gone(w, c) == IF ~ Holds(w, c) THEN st[c]
              ELSE IF st[c] = "open" THEN "lost" ELSE "aborted"

Die(w) ==
  /\ pc[w] # "down" /\ crashes < MaxCrash
  /\ crashes' = crashes + 1
  /\ pc' = [pc EXCEPT ![w] = "down"]
  /\ cur' = [cur EXCEPT ![w] = None]
  /\ cli_sock' = [cli_sock EXCEPT ![w] = 0]
  /\ table' = [table EXCEPT ![w] = {}]
  /\ refused' = [refused EXCEPT ![w] = 0]
  /\ lisReady' = [lisReady EXCEPT ![w] = {}]
  /\ lisEvs' = [lisEvs EXCEPT ![w] = {}]
  /\ ready' = [ready EXCEPT ![w] = {}]
  /\ evs' = [evs EXCEPT ![w] = NoEvents]
  /\ fd' = [c \in Conns |-> IF Holds(w, c) THEN 0 ELSE fd[c]]
  /\ UNCHANGED <<lis, want, netVars>>

Crash(w) ==
  /\ Die(w)
  /\ st' = [c \in Conns |-> Gone(w, c)]
  /\ UNCHANGED <<sd, own, reply>>

CrashAccepting(w, c) ==
  /\ Die(w)
  /\ \E n \in FreeFds(w) : Accepting(w, c, n)
  /\ \/ /\ st' = [d \in Conns |-> IF d = c THEN "aborted" ELSE Gone(w, d)]
        /\ UNCHANGED sd
     \/ /\ st' = [d \in Conns |-> IF d = c THEN "lost" ELSE Gone(w, d)]
        /\ CountAccept
  /\ UNCHANGED reply

\* A reset has been counted as a read.
CrashReading(w, c) ==
  /\ pc[w] = "loop" /\ "IN" \in evs[w][c] /\ Type(c) = "HTTP"
  /\ ReadResult(c, HttpBuf) = "reset"
  /\ Die(w)
  /\ st' = [d \in Conns |-> Gone(w, d)]
  /\ sd' = CountedRead
  /\ UNCHANGED <<own, reply>>

\* The answer has been written, and perhaps counted.
CrashAnswering(w, c) ==
  /\ pc[w] = "loop" /\ "OUT" \in evs[w][c] /\ Type(c) = "HTTP"
  /\ Die(w)
  /\ st' = [d \in Conns |-> Gone(w, d)]
  /\ \E r \in WriteResults(c) : /\ reply' = [reply EXCEPT ![c] = r]
                                /\ sd' \in {sd, CountedWrite(r)}
  /\ UNCHANGED own

\* The back end's answer has been written.
CrashProxying(w) ==
  /\ pc[w] = "backend"
  /\ Die(w)
  /\ st' = [d \in Conns |-> Gone(w, d)]
  /\ \E r \in WriteResults(cur[w]) : reply' = [reply EXCEPT ![cur[w]] = r]
  /\ UNCHANGED <<sd, own>>

\* The master forks the worker anew (module Master): a new epoll instance in
\* which the listeners are registered, ready when connections wait.
Restart(w) ==
  /\ pc[w] = "down"
  /\ pc' = [pc EXCEPT ![w] = "loop"]
  /\ table' = [table EXCEPT ![w] = SetUp]
  /\ lisReady' = [lisReady EXCEPT ![w] = {k \in Listeners : Waiting(k) # {}}]
  /\ UNCHANGED <<lis, cur, cli_sock, refused, lisEvs, ready, evs, sd, crashes,
                 st, own, fd, want, netVars, reply>>

-----------------------------------------------------------------------------
\* What a worker does by itself, and what it does when the back end answers.
WorkerStep(w) ==
  \/ EpollWait(w)
  \/ \E k \in Listeners : handle_accept(w, k)
  \/ \E c \in Conns : \/ AcceptConn(w, c)
                      \/ AcceptAddFails(w, c)
                      \/ AcceptNonblockFails(w, c)
                      \/ event_http_read(w, c)
                      \/ event_http_write(w, c)
                      \/ event_http_reverse(w, c)
                      \/ HandleError(w, c)
  \/ AcceptStops(w)

Backend(w) == BackendRefuses(w) \/ BackendAnswers(w) \/ BackendCloses(w)

Dies(w) == \/ Crash(w)
           \/ \E c \in Conns : \/ CrashAccepting(w, c)
                               \/ CrashReading(w, c)
                               \/ CrashAnswering(w, c)
           \/ CrashProxying(w)

Network(c) == Connect(c) \/ Send(c) \/ Fin(c) \/ Rst(c) \/ NetErr(c)

Next ==
  \/ \E c \in Conns : Network(c)
  \/ \E w \in Workers : WorkerStep(w) \/ Backend(w) \/ Dies(w) \/ Restart(w)

Spec == Init /\ [][Next]_vars

\* A worker that runs keeps taking steps, back ends answer sooner or later,
\* and the master restarts what died.  Nothing is assumed of the clients.
Fairness == \A w \in Workers : /\ WF_vars(WorkerStep(w))
                               /\ WF_vars(Backend(w))
                               /\ WF_vars(Restart(w))

FairSpec == Spec /\ Fairness

-----------------------------------------------------------------------------
(* Safety.                                                                  *)

\* Every event the kernel still has for a worker, every entry of evs[] it has
\* not handled, and the connection it proxies belong to a connection that is
\* open in this very worker, and the connection it proxies has no second entry:
\* no handler is ever called with a freed req_t, and handle_close runs once for
\* a connection.
NoStaleRequest ==
  \A w \in Workers : \A c \in Conns :
    /\ (c \in ready[w] \/ evs[w][c] # {} \/ cur[w] = c)
         => st[c] = "open" /\ own[c] = w
    /\ cur[w] = c => pc[w] = "backend" /\ evs[w][c] = {}

Open(w, c) == own[c] = w /\ st[c] = "open"

\* The descriptors a worker can still find: those server_make knows, those of
\* the req_t's, and event_http_reverse's cli_sock.
Referenced(w) ==
  SetUp \cup {fd[c] : c \in {d \in Conns : Open(w, d)}}
        \cup (IF pc[w] = "backend" THEN {cli_sock[w]} ELSE {})

Forgotten(w) == table[w] \ Referenced(w)

\* Whatever a worker refers to is open, and it refers to no descriptor twice:
\* no close() hits a socket that is not its own, and no connection is taken
\* for a listener (tempfd <= lis_num).
ReferencesSound(w) ==
  /\ Referenced(w) \subseteq table[w]
  /\ \A c \in Conns : Open(w, c) => /\ fd[c] > StdFds + LisNum
                                    /\ pc[w] = "backend"
                                         => fd[c] # cli_sock[w]
  /\ \A c, d \in Conns : Open(w, c) /\ Open(w, d) /\ fd[c] = fd[d] => c = d
  /\ pc[w] = "backend" => cli_sock[w] > StdFds + LisNum

\* A worker's references are sound, and what is open and not referred to, the
\* descriptors it can never close, are one for each back end that refused it
\* and one for each connection that set_non_blocking failed for: no other
\* path through the handlers leaks.
DescriptorsSound ==
  \A w \in Workers : Live(w) =>
    /\ ReferencesSound(w)
    /\ Cardinality(Forgotten(w))
         = refused[w] + Cardinality({c \in Conns : /\ own[c] = w
                                                  /\ st[c] = "stray"})

\* The counters in the shared memory add up, whatever the workers do at the
\* same time.  accept_num counts the connections accepted, close_num those
\* closed, and the difference is what is open or was lost (a registration that
\* failed, a worker that died).  An answer is counted only for a request that
\* was, and a connection's request only once: read_num is at least write_num
\* and the requests that wait for their answer, and at most the connections
\* that are over or wait for their answer.  It is so wherever a worker dies.
Accounting ==
  /\ sd.accept_num = Cardinality({c \in Conns :
                                    st[c] \in {"open", "closed", "lost"}})
  /\ sd.close_num = Cardinality({c \in Conns : st[c] = "closed"})
  /\ sd.write_num
       + Cardinality({c \in Conns : st[c] = "open" /\ want[c] = "OUT"})
     <= sd.read_num
  /\ sd.read_num <= Cardinality({c \in Conns :
                                   \/ st[c] \in {"closed", "lost"}
                                   \/ st[c] = "open" /\ want[c] = "OUT"})

\* Edge-triggered delivery loses nothing: an open connection with something
\* to read, with an end not yet read, or with an answer to write is on the
\* ready list or in evs[], whatever arrived while the handlers ran.
NoLostEdge ==
  \A w \in Workers : \A c \in Conns :
    /\ st[c] = "open" /\ own[c] = w
    /\ inbox[c] > 0 \/ want[c] = "OUT" \/ peer[c] \in {"fin", "rst", "err"}
    => c \in ready[w] \/ evs[w][c] # {}

\* As long as accept() fails only with EAGAIN, every running worker still has
\* an event, or is in the accept loop, for every listener where a connection
\* waits: all of them race for it, and the death of all but one loses nothing.
NoLostAccept ==
  \A c \in Conns : st[c] = "backlog" /\ Type(c) # "TCP_PROXY" =>
    \A w \in Workers : Live(w) =>
      \/ Port[c] \in lisReady[w] \cup lisEvs[w]
      \/ pc[w] = "accept" /\ lis[w] = Port[c]

\* A connection to the HTTP port that the server closes although the client
\* keeps it open has been answered, unless the request filled read_buf.
AnsweredUnlessFull ==
  \A c \in Conns :
    st[c] = "closed" /\ Type(c) = "HTTP" /\ peer[c] = "open"
      /\ reply[c] = "none" => inbox[c] >= HttpBuf

-----------------------------------------------------------------------------
(* What the connections see of the workers.                                 *)

Phase == [c \in Conns |->
            CASE st[c] = "idle" -> "idle"
              [] st[c] = "backlog" -> "waiting"
              [] st[c] \in {"open", "stray"} -> "served"
              [] OTHER -> "over"]

Abstract == INSTANCE Service WITH phase <- Phase, server <- own,
                                  answer <- reply

\* The event loops implement module Service: one worker per connection, one
\* answer at most, none after or long before the end.
ServiceSpec == Abstract!Spec

-----------------------------------------------------------------------------
(* Liveness.                                                                *)

\* As long as no worker runs out of descriptors, a connection that waits at a
\* listener other than TCP_PROXY is accepted.
EventuallyAccepted ==
  [](\A w \in Workers : FreeFds(w) # {}) =>
    \A c \in Conns : (st[c] = "backlog" /\ Type(c) # "TCP_PROXY")
                       ~> st[c] # "backlog"

\* A client that closes its side, or resets an HTTP connection, gets rid of
\* the connection on the server as well.
EventuallyReleased ==
  \A c \in Conns :
    (/\ st[c] = "open"
     /\ peer[c] = "fin" \/ (peer[c] = "rst" /\ Type(c) = "HTTP"))
      ~> st[c] # "open"

\* A request that was read is answered or the connection is gone.
EventuallyAnswered ==
  \A c \in Conns : (st[c] = "open" /\ want[c] = "OUT") ~> st[c] # "open"

-----------------------------------------------------------------------------
(* What the comments of the source say, and the code does not do.           *)

\* dm_events.c takes a read() that returns 0 for "client close socket": an
\* HTTP connection is closed without an answer only when the client ended it.
ClosedByClient ==
  \A c \in Conns : st[c] = "closed" /\ Type(c) = "HTTP" /\ reply[c] = "none"
                     => peer[c] # "open"
=============================================================================
