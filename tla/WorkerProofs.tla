--------------------------- MODULE WorkerProofs ---------------------------
(***************************************************************************)
(* Module Worker's event and descriptor safety, its edge-triggered         *)
(* delivery, its answers, its accept queues and its counters, proved for   *)
(* any number of workers, listeners and connections, any buffer sizes and  *)
(* descriptor limit, and any of the faults; and that Worker implements     *)
(* Service.                                                                *)
(***************************************************************************)
EXTENDS Worker, FiniteSetTheorems, TLAPS

\* A worker that waits for a back end waits for some connection.
BackendHasConn == \A w \in Workers : pc[w] = "backend" => cur[w] \in Conns

WorkerInv ==
  /\ TypeOK
  /\ BackendHasConn
  /\ NoStaleRequest

\* The invariant holds when the workers start.
LEMMA InitInv == Init => WorkerInv
BY NoneAssumption
DEF Init, WorkerInv, TypeOK, BackendHasConn, NoStaleRequest, SetUp, Counters,
    Masks, NoEvents

\* Counting up keeps the type of the shared counters.
LEMMA CountersUpdate ==
  ASSUME NEW s \in Counters
  PROVE  /\ [s EXCEPT !.accept_num = @ + 1] \in Counters
         /\ [s EXCEPT !.read_num = @ + 1] \in Counters
         /\ [s EXCEPT !.write_num = @ + 1] \in Counters
         /\ [s EXCEPT !.close_num = @ + 1] \in Counters
BY DEF Counters

\* So does event_accept_http.
LEMMA CountAcceptType ==
  ASSUME TypeOK, CountAccept
  PROVE  sd' \in Counters
BY CountersUpdate DEF CountAccept, TypeOK

\* Handling an entry of evs[] keeps the type of evs.
LEMMA HandledType ==
  ASSUME TypeOK, NEW w \in Workers, NEW c \in Conns,
         evs' = [evs EXCEPT ![w][c] = {}]
  PROVE  evs' \in [Workers -> [Conns -> Masks]]
<1>1. evs[w] \in [Conns -> Masks] /\ {} \in Masks
  BY DEF TypeOK, Masks
<1>2. [evs[w] EXCEPT ![c] = {}] \in [Conns -> Masks]
  BY <1>1
<1> QED
  BY <1>2 DEF TypeOK

\* An edge reaches the ready list of the worker where the connection is open.
LEMMA WakeFacts ==
  ASSUME TypeOK, NEW c \in Conns, Wake(c) \/ UNCHANGED ready
  PROVE  /\ ready' \in [Workers -> SUBSET Conns]
         /\ \A v \in Workers, d \in Conns :
              d \in ready'[v] => \/ d \in ready[v]
                                 \/ st[d] = "open" /\ own[d] = v
<1>1. CASE Wake(c)
  BY <1>1 DEF Wake, TypeOK
<1>2. CASE UNCHANGED ready
  BY <1>2 DEF TypeOK
<1> QED
  BY <1>1, <1>2

\* The connection of the event a worker handles is open in this worker.
LEMMA EventOpen ==
  ASSUME WorkerInv, NEW w \in Workers, NEW c \in Conns,
         NEW dir \in {"IN", "OUT", "ERR"}, ConnEvent(w, c, dir)
  PROVE  /\ pc[w] = "loop" /\ st[c] = "open" /\ own[c] = w
         /\ evs' = [evs EXCEPT ![w][c] = {}]
BY DEF ConnEvent, WorkerInv, NoStaleRequest

\* handle_close, called for the event of an open connection or at the end of
\* event_http_reverse, keeps the invariant.
LEMMA CloseInv ==
  ASSUME WorkerInv, NEW w \in Workers, NEW c \in Conns, NEW s \in Counters,
         NEW t \in SUBSET Nat,
         st[c] = "open", own[c] = w, handle_close(w, c, s, t),
         \/ /\ pc[w] = "loop" /\ evs' = [evs EXCEPT ![w][c] = {}]
            /\ UNCHANGED <<pc, cur, cli_sock>>
         \/ cur[w] = c /\ FromBackend(w) /\ UNCHANGED evs,
         UNCHANGED <<lis, refused, lisReady, lisEvs, crashes, own, want>>,
         UNCHANGED inbox,
         peer' \in [Conns -> {"open", "fin", "rst", "err", "dead"}],
         reply' \in [Conns -> {"none", "partial", "full"}]
  PROVE  WorkerInv'
<1> USE DEF WorkerInv
<1>1. TypeOK'
  <2>1. sd' \in Counters
    BY CountersUpdate DEF handle_close
  <2>2. evs' \in [Workers -> [Conns -> Masks]]
    BY HandledType DEF TypeOK
  <2>3. /\ st' \in [Conns -> {"idle", "backlog", "open", "closed", "stray",
                              "lost", "aborted"}]
        /\ fd' \in [Conns -> Nat]
        /\ table' \in [Workers -> SUBSET Nat]
        /\ ready' \in [Workers -> SUBSET Conns]
    BY DEF handle_close, TypeOK
  <2>4. /\ pc' \in [Workers -> {"down", "loop", "accept", "backend"}]
        /\ cur' \in [Workers -> Conns \cup {None}]
        /\ cli_sock' \in [Workers -> Nat]
    <3>1. CASE UNCHANGED <<pc, cur, cli_sock>>
      BY <3>1 DEF TypeOK
    <3>2. CASE FromBackend(w)
      BY <3>2 DEF FromBackend, TypeOK
    <3> QED
      BY <3>1, <3>2
  <2> QED
    BY <2>1, <2>2, <2>3, <2>4 DEF TypeOK
<1>2. BackendHasConn'
  BY DEF FromBackend, BackendHasConn, TypeOK
<1>3. NoStaleRequest'
  BY NoneAssumption DEF handle_close, FromBackend, NoStaleRequest, TypeOK
<1> QED
  BY <1>1, <1>2, <1>3

\* A connection that arrives changes nothing the workers hold.
LEMMA ConnectInv ==
  ASSUME WorkerInv, NEW c \in Conns, Connect(c)
  PROVE  WorkerInv'
<1> USE DEF WorkerInv
<1>1. TypeOK'
  <2>1. Port[c] \in Listeners
    BY ListenerAssumption
  <2>2. lisReady' \in [Workers -> SUBSET Listeners]
    BY <2>1 DEF Connect, TypeOK
  <2> QED
    BY <2>2 DEF Connect, TypeOK, procVars, netVars
<1>2. BackendHasConn'
  BY DEF Connect, BackendHasConn, procVars
<1>3. NoStaleRequest'
  BY DEF Connect, NoStaleRequest, procVars
<1> QED
  BY <1>1, <1>2, <1>3

\* Bytes that arrive wake only the worker where the connection is open.
LEMMA SendInv ==
  ASSUME WorkerInv, NEW c \in Conns, Send(c)
  PROVE  WorkerInv'
<1> USE DEF WorkerInv
<1>1. TypeOK'
  <2>1. ready' \in [Workers -> SUBSET Conns]
    BY WakeFacts DEF Send
  <2>2. inbox' \in [Conns -> Nat]
    BY DEF Send, TypeOK
  <2> QED
    BY <2>1, <2>2 DEF Send, TypeOK, procVars
<1>2. BackendHasConn'
  BY DEF Send, BackendHasConn, procVars
<1>3. NoStaleRequest'
  <2>1. \A v \in Workers, d \in Conns :
          d \in ready'[v] => \/ d \in ready[v]
                             \/ st[d] = "open" /\ own[d] = v
    BY WakeFacts DEF Send
  <2> QED
    BY <2>1 DEF Send, NoStaleRequest, procVars
<1> QED
  BY <1>1, <1>2, <1>3

\* So do the end of the stream, a reset and an error.
LEMMA PeerDoesInv ==
  ASSUME WorkerInv, NEW c \in Conns,
         NEW what \in {"fin", "rst", "dead", "err"}, PeerDoes(c, what)
  PROVE  WorkerInv'
<1> USE DEF WorkerInv
<1>1. TypeOK'
  <2>1. ready' \in [Workers -> SUBSET Conns]
    BY WakeFacts DEF PeerDoes
  <2> QED
    BY <2>1 DEF PeerDoes, TypeOK, procVars
<1>2. BackendHasConn'
  BY DEF PeerDoes, BackendHasConn, procVars
<1>3. NoStaleRequest'
  <2>1. \A v \in Workers, d \in Conns :
          d \in ready'[v] => \/ d \in ready[v]
                             \/ st[d] = "open" /\ own[d] = v
    BY WakeFacts DEF PeerDoes
  <2> QED
    BY <2>1 DEF PeerDoes, NoStaleRequest, procVars
<1> QED
  BY <1>1, <1>2, <1>3

\* epoll_wait fills evs[] from the ready list, which holds open connections.
LEMMA EpollWaitInv ==
  ASSUME WorkerInv, NEW w \in Workers, EpollWait(w)
  PROVE  WorkerInv'
<1> USE DEF WorkerInv
<1>1. TypeOK'
  BY DEF EpollWait, Reported, TypeOK, Masks, procVars, netVars
<1>2. BackendHasConn'
  BY DEF EpollWait, BackendHasConn, procVars
<1>3. NoStaleRequest'
  BY DEF EpollWait, NoStaleRequest, procVars
<1> QED
  BY <1>1, <1>2, <1>3

\* handle_accept touches no connection.
LEMMA handle_acceptInv ==
  ASSUME WorkerInv, NEW w \in Workers, NEW k \in Listeners, handle_accept(w, k)
  PROVE  WorkerInv'
<1> USE DEF WorkerInv
<1>1. TypeOK'
  <2>1. k \in Nat
    BY DEF Listeners
  <2> QED
    BY <2>1 DEF handle_accept, TypeOK, netVars
<1>2. BackendHasConn'
  BY DEF handle_accept, BackendHasConn, TypeOK
<1>3. NoStaleRequest'
  BY DEF handle_accept, NoStaleRequest, TypeOK
<1> QED
  BY <1>1, <1>2, <1>3

\* The new connection has a descriptor that was free and no old events.
LEMMA AcceptConnInv ==
  ASSUME WorkerInv, NEW w \in Workers, NEW c \in Conns, AcceptConn(w, c)
  PROVE  WorkerInv'
<1> USE DEF WorkerInv
<1>1. TypeOK'
  <2>1. sd' \in Counters
    BY CountAcceptType DEF AcceptConn
  <2>2. fd' \in [Conns -> Nat] /\ table' \in [Workers -> SUBSET Nat]
    BY SizeAssumption DEF AcceptConn, Opens, FreeFds, TypeOK
  <2> QED
    BY <2>1, <2>2 DEF AcceptConn, Accepting, TypeOK, netVars
<1>2. BackendHasConn'
  BY DEF AcceptConn, BackendHasConn
<1>3. NoStaleRequest'
  BY DEF AcceptConn, Accepting, Waiting, NoStaleRequest, TypeOK
<1> QED
  BY <1>1, <1>2, <1>3

\* A descriptor that could not be registered is free again.
LEMMA AcceptAddFailsInv ==
  ASSUME WorkerInv, NEW w \in Workers, NEW c \in Conns, AcceptAddFails(w, c)
  PROVE  WorkerInv'
<1> USE DEF WorkerInv
<1>1. TypeOK'
  <2>1. sd' \in Counters
    BY CountAcceptType DEF AcceptAddFails
  <2> QED
    BY <2>1
    DEF AcceptAddFails, Accepting, TypeOK, procVars, epollVars, netVars
<1>2. BackendHasConn'
  BY DEF AcceptAddFails, BackendHasConn, procVars
<1>3. NoStaleRequest'
  BY DEF AcceptAddFails, Accepting, Waiting, NoStaleRequest, procVars,
         epollVars
<1> QED
  BY <1>1, <1>2, <1>3

\* A descriptor event_accept_http forgets stays taken.
LEMMA AcceptNonblockFailsInv ==
  ASSUME WorkerInv, NEW w \in Workers, NEW c \in Conns,
         AcceptNonblockFails(w, c)
  PROVE  WorkerInv'
<1> USE DEF WorkerInv
<1>1. TypeOK'
  <2>1. table' \in [Workers -> SUBSET Nat]
    BY SizeAssumption DEF AcceptNonblockFails, Opens, FreeFds, TypeOK
  <2> QED
    BY <2>1
    DEF AcceptNonblockFails, Accepting, TypeOK, epollVars, netVars
<1>2. BackendHasConn'
  BY DEF AcceptNonblockFails, BackendHasConn
<1>3. NoStaleRequest'
  BY DEF AcceptNonblockFails, Accepting, Waiting, NoStaleRequest, epollVars
<1> QED
  BY <1>1, <1>2, <1>3

\* The end of the accept loop.
LEMMA AcceptStopsInv ==
  ASSUME WorkerInv, NEW w \in Workers, AcceptStops(w)
  PROVE  WorkerInv'
<1> USE DEF WorkerInv
<1>1. TypeOK'
  BY DEF AcceptStops, TypeOK, epollVars, netVars
<1>2. BackendHasConn'
  BY DEF AcceptStops, BackendHasConn
<1>3. NoStaleRequest'
  BY DEF AcceptStops, NoStaleRequest, epollVars
<1> QED
  BY <1>1, <1>2, <1>3

\* event_http_read closes the connection of its own event, or keeps it.
LEMMA event_http_readInv ==
  ASSUME WorkerInv, NEW w \in Workers, NEW c \in Conns, event_http_read(w, c)
  PROVE  WorkerInv'
<1>1. /\ pc[w] = "loop" /\ st[c] = "open" /\ own[c] = w
      /\ evs' = [evs EXCEPT ![w][c] = {}]
  BY EventOpen DEF event_http_read
<1>2. UNCHANGED <<pc, lis, cur, cli_sock, refused, lisReady, lisEvs, crashes,
                  own, reply>>
  BY DEF event_http_read
<1>3. /\ sd \in Counters /\ CountedRead \in Counters
      /\ table[w] \in SUBSET Nat
  BY CountersUpdate DEF CountedRead, WorkerInv, TypeOK
<1>4. CASE ReadResult(c, HttpBuf) \in {"zero", "reset"}
  <2>1. PICK s \in Counters : handle_close(w, c, s, table[w])
    BY <1>3, <1>4 DEF event_http_read
  <2>2. UNCHANGED <<want, inbox>>
    BY <1>4 DEF event_http_read, netVars
  <2>3. peer' \in [Conns -> {"open", "fin", "rst", "err", "dead"}]
    BY <1>4 DEF event_http_read, netVars, ErrorReported, WorkerInv, TypeOK
  <2>4. reply' \in [Conns -> {"none", "partial", "full"}]
    BY <1>2 DEF WorkerInv, TypeOK
  <2> QED
    BY <1>1, <1>2, <1>3, <2>1, <2>2, <2>3, <2>4, CloseInv
<1>5. CASE ReadResult(c, HttpBuf) = "error"
  <2>1. /\ UNCHANGED <<st, fd, table, ready, sd, want>>
        /\ inbox' = [inbox EXCEPT ![c] = 0]
        /\ peer' = [peer EXCEPT ![c] = "dead"]
    BY <1>5 DEF event_http_read, Drained, ErrorReported
  <2>2. TypeOK'
    <3>1. evs' \in [Workers -> [Conns -> Masks]]
      BY <1>1, HandledType DEF WorkerInv
    <3> QED
      BY <1>2, <2>1, <3>1 DEF WorkerInv, TypeOK
  <2>3. BackendHasConn'
    BY <1>2 DEF WorkerInv, BackendHasConn
  <2>4. NoStaleRequest'
    BY <1>1, <1>2, <2>1 DEF WorkerInv, NoStaleRequest
  <2> QED
    BY <2>2, <2>3, <2>4 DEF WorkerInv
<1>6. CASE ReadResult(c, HttpBuf) = "again"
  <2>1. /\ UNCHANGED <<st, fd, table, peer>>
        /\ inbox' = [inbox EXCEPT ![c] = 0]
        /\ want' = [want EXCEPT ![c] = "OUT"]
        /\ ready' = [ready EXCEPT ![w] = @ \cup {c}]
        /\ sd' = CountedRead
    BY <1>6 DEF event_http_read, Drained
  <2>2. TypeOK'
    <3>1. evs' \in [Workers -> [Conns -> Masks]]
      BY <1>1, HandledType DEF WorkerInv
    <3>2. ready' \in [Workers -> SUBSET Conns]
      BY <2>1 DEF WorkerInv, TypeOK
    <3> QED
      BY <1>2, <1>3, <2>1, <3>1, <3>2 DEF WorkerInv, TypeOK
  <2>3. BackendHasConn'
    BY <1>2 DEF WorkerInv, BackendHasConn
  <2>4. NoStaleRequest'
    BY <1>1, <1>2, <2>1 DEF WorkerInv, NoStaleRequest
  <2> QED
    BY <2>2, <2>3, <2>4 DEF WorkerInv
<1> QED
  BY <1>4, <1>5, <1>6 DEF ReadResult

\* handle_write closes the connection of its own event.
LEMMA event_http_writeInv ==
  ASSUME WorkerInv, NEW w \in Workers, NEW c \in Conns, event_http_write(w, c)
  PROVE  WorkerInv'
<1>1. /\ pc[w] = "loop" /\ st[c] = "open" /\ own[c] = w
      /\ evs' = [evs EXCEPT ![w][c] = {}]
  BY EventOpen DEF event_http_write
<1>2. UNCHANGED <<pc, lis, cur, cli_sock, refused, lisReady, lisEvs, crashes,
                  own, want, inbox, peer>>
  BY DEF event_http_write, netVars
<1>3. /\ \A r : CountedWrite(r) \in Counters
      /\ table[w] \in SUBSET Nat
  BY CountersUpdate DEF CountedWrite, WorkerInv, TypeOK
<1>4. PICK s \in Counters : handle_close(w, c, s, table[w])
  BY <1>3 DEF event_http_write
<1>5. /\ reply' \in [Conns -> {"none", "partial", "full"}]
      /\ peer' \in [Conns -> {"open", "fin", "rst", "err", "dead"}]
  BY <1>2 DEF event_http_write, WriteResults, WorkerInv, TypeOK
<1> QED
  BY <1>1, <1>2, <1>3, <1>4, <1>5, CloseInv

\* So does the branch for EPOLLHUP and EPOLLERR.
LEMMA HandleErrorInv ==
  ASSUME WorkerInv, NEW w \in Workers, NEW c \in Conns, HandleError(w, c)
  PROVE  WorkerInv'
<1>1. /\ pc[w] = "loop" /\ st[c] = "open" /\ own[c] = w
      /\ evs' = [evs EXCEPT ![w][c] = {}]
  BY EventOpen DEF HandleError
<1>2. UNCHANGED <<pc, lis, cur, cli_sock, refused, lisReady, lisEvs, crashes,
                  own, want, inbox, peer, reply>>
  BY DEF HandleError, netVars
<1>3. /\ sd \in Counters /\ table[w] \in SUBSET Nat
      /\ handle_close(w, c, sd, table[w])
  BY DEF HandleError, WorkerInv, TypeOK
<1>4. /\ reply' \in [Conns -> {"none", "partial", "full"}]
      /\ peer' \in [Conns -> {"open", "fin", "rst", "err", "dead"}]
  BY <1>2 DEF WorkerInv, TypeOK
<1> QED
  BY <1>1, <1>2, <1>3, <1>4, CloseInv

\* The proxy closes, gives up, or holds the connection and a free descriptor.
LEMMA event_http_reverseInv ==
  ASSUME WorkerInv, NEW w \in Workers, NEW c \in Conns,
         event_http_reverse(w, c)
  PROVE  WorkerInv'
<1>1. /\ pc[w] = "loop" /\ st[c] = "open" /\ own[c] = w
      /\ evs' = [evs EXCEPT ![w][c] = {}]
  BY EventOpen DEF event_http_reverse
<1>2. UNCHANGED <<lis, refused, lisReady, lisEvs, crashes, own, want, reply>>
  BY DEF event_http_reverse
<1>3. CASE ReadResult(c, ProxyBuf) = "zero"
  <2>1. /\ UNCHANGED <<pc, cur, cli_sock, inbox, peer>>
        /\ sd \in Counters /\ table[w] \in SUBSET Nat
        /\ handle_close(w, c, sd, table[w])
    BY <1>3 DEF event_http_reverse, netVars, WorkerInv, TypeOK
  <2>2. /\ reply' \in [Conns -> {"none", "partial", "full"}]
        /\ peer' \in [Conns -> {"open", "fin", "rst", "err", "dead"}]
    BY <1>2, <2>1 DEF WorkerInv, TypeOK
  <2> QED
    BY <1>1, <1>2, <2>1, <2>2, CloseInv
<1>4. CASE ReadResult(c, ProxyBuf) # "zero"
  <2>1. /\ UNCHANGED <<st, fd, ready, sd>>
        /\ inbox' = [inbox EXCEPT ![c] = 0]
        /\ peer' = peer \/ peer' = [peer EXCEPT ![c] = "dead"]
        /\ \/ UNCHANGED <<pc, cur, cli_sock, table>>
           \/ \E n \in FreeFds(w) : /\ pc' = [pc EXCEPT ![w] = "backend"]
                                    /\ cur' = [cur EXCEPT ![w] = c]
                                    /\ cli_sock' = [cli_sock EXCEPT ![w] = n]
                                    /\ Opens(w, n)
    BY <1>4 DEF event_http_reverse, Drained, ErrorReported
  <2>2. FreeFds(w) \subseteq Nat
    BY DEF FreeFds
  <2>3. TypeOK'
    <3>1. evs' \in [Workers -> [Conns -> Masks]]
      BY <1>1, HandledType DEF WorkerInv
    <3>2. /\ pc' \in [Workers -> {"down", "loop", "accept", "backend"}]
          /\ cur' \in [Workers -> Conns \cup {None}]
          /\ cli_sock' \in [Workers -> Nat]
          /\ table' \in [Workers -> SUBSET Nat]
      <4>1. CASE UNCHANGED <<pc, cur, cli_sock, table>>
        BY <4>1 DEF WorkerInv, TypeOK
      <4>2. CASE ~ UNCHANGED <<pc, cur, cli_sock, table>>
        <5>1. PICK n \in FreeFds(w) :
                /\ pc' = [pc EXCEPT ![w] = "backend"]
                /\ cur' = [cur EXCEPT ![w] = c]
                /\ cli_sock' = [cli_sock EXCEPT ![w] = n]
                /\ table' = [table EXCEPT ![w] = @ \cup {n}]
          BY <2>1, <4>2 DEF Opens
        <5> QED
          BY <2>2, <5>1 DEF WorkerInv, TypeOK
      <4> QED
        BY <4>1, <4>2
    <3>3. /\ inbox' \in [Conns -> Nat]
          /\ peer' \in [Conns -> {"open", "fin", "rst", "err", "dead"}]
      BY <2>1 DEF WorkerInv, TypeOK
    <3> QED
      BY <1>2, <2>1, <3>1, <3>2, <3>3 DEF WorkerInv, TypeOK
  <2>4. BackendHasConn'
    BY <2>1 DEF WorkerInv, BackendHasConn, TypeOK
  <2>5. NoStaleRequest'
    BY <1>1, <1>2, <2>1 DEF WorkerInv, NoStaleRequest, TypeOK
  <2> QED
    BY <2>3, <2>4, <2>5 DEF WorkerInv
<1> QED
  BY <1>3, <1>4

\* The connection of a refused call is no longer the proxy's concern.
LEMMA BackendRefusesInv ==
  ASSUME WorkerInv, NEW w \in Workers, BackendRefuses(w)
  PROVE  WorkerInv'
<1> USE DEF WorkerInv
<1>1. TypeOK'
  BY DEF BackendRefuses, FromBackend, TypeOK, epollVars, netVars
<1>2. BackendHasConn'
  BY DEF BackendRefuses, FromBackend, BackendHasConn, TypeOK
<1>3. NoStaleRequest'
  BY NoneAssumption
  DEF BackendRefuses, FromBackend, NoStaleRequest, TypeOK, epollVars
<1> QED
  BY <1>1, <1>2, <1>3

\* The answer closes the connection the worker was blocked for.
LEMMA BackendAnswersInv ==
  ASSUME WorkerInv, NEW w \in Workers, BackendAnswers(w)
  PROVE  WorkerInv'
<1> DEFINE c == cur[w]
<1>1. c \in Conns /\ st[c] = "open" /\ own[c] = w /\ FromBackend(w)
  BY DEF BackendAnswers, FromBackend, WorkerInv, BackendHasConn,
         NoStaleRequest
<1>2. /\ UNCHANGED <<lis, refused, lisReady, lisEvs, evs, crashes, own, want,
                     inbox>>
      /\ Closed(w) \in SUBSET Nat
  BY DEF BackendAnswers, Closed, WorkerInv, TypeOK
<1>3. CASE ~ Failed(c)
  <2>1. sd \in Counters /\ handle_close(w, c, sd, Closed(w))
    BY <1>3 DEF BackendAnswers, WorkerInv, TypeOK
  <2>2. /\ reply' \in [Conns -> {"none", "partial", "full"}]
        /\ peer' \in [Conns -> {"open", "fin", "rst", "err", "dead"}]
    BY <1>3 DEF BackendAnswers, WriteResults, WorkerInv, TypeOK
  <2> QED
    BY <1>1, <1>2, <2>1, <2>2, CloseInv
<1>4. CASE Failed(c)
  <2>1. /\ UNCHANGED <<st, fd, ready, sd, reply>> /\ ErrorReported(c)
        /\ table' = [table EXCEPT ![w] = Closed(w)]
    BY <1>4 DEF BackendAnswers
  <2>2. TypeOK'
    BY <1>1, <1>2, <2>1 DEF FromBackend, ErrorReported, WorkerInv, TypeOK
  <2>3. BackendHasConn'
    BY <1>1 DEF FromBackend, WorkerInv, BackendHasConn, TypeOK
  <2>4. NoStaleRequest'
    BY <1>1, <1>2, <2>1, NoneAssumption
    DEF FromBackend, WorkerInv, NoStaleRequest, TypeOK
  <2> QED
    BY <2>2, <2>3, <2>4 DEF WorkerInv
<1> QED
  BY <1>3, <1>4

\* So does a back end that sends nothing.
LEMMA BackendClosesInv ==
  ASSUME WorkerInv, NEW w \in Workers, BackendCloses(w)
  PROVE  WorkerInv'
<1> DEFINE c == cur[w]
<1>1. c \in Conns /\ st[c] = "open" /\ own[c] = w /\ FromBackend(w)
  BY DEF BackendCloses, FromBackend, WorkerInv, BackendHasConn, NoStaleRequest
<1>2. UNCHANGED <<lis, refused, lisReady, lisEvs, evs, crashes, own, want,
                  inbox, peer, reply>>
  BY DEF BackendCloses, netVars
<1>3. /\ sd \in Counters /\ Closed(w) \in SUBSET Nat
      /\ handle_close(w, c, sd, Closed(w))
  BY DEF BackendCloses, Closed, WorkerInv, TypeOK
<1>4. /\ reply' \in [Conns -> {"none", "partial", "full"}]
      /\ peer' \in [Conns -> {"open", "fin", "rst", "err", "dead"}]
  BY <1>2 DEF WorkerInv, TypeOK
<1> QED
  BY <1>1, <1>2, <1>3, <1>4, CloseInv

\* A worker that dies leaves nothing that refers to its connections.
LEMMA CrashInv ==
  ASSUME WorkerInv, NEW w \in Workers, Crash(w)
  PROVE  WorkerInv'
<1> USE DEF WorkerInv
<1>1. TypeOK'
  BY DEF Crash, Die, Gone, TypeOK, Masks, NoEvents, netVars
<1>2. BackendHasConn'
  BY DEF Crash, Die, BackendHasConn, TypeOK
<1>3. NoStaleRequest'
  BY NoneAssumption
  DEF Crash, Die, Gone, NoStaleRequest, Holds, NoEvents, TypeOK
<1> QED
  BY <1>1, <1>2, <1>3

\* Nor does one that dies in the accept loop.
LEMMA CrashAcceptingInv ==
  ASSUME WorkerInv, NEW w \in Workers, NEW c \in Conns, CrashAccepting(w, c)
  PROVE  WorkerInv'
<1> USE DEF WorkerInv
<1>1. TypeOK'
  <2>1. sd' \in Counters
    BY CountAcceptType DEF CrashAccepting, TypeOK
  <2>2. st' \in [Conns -> {"idle", "backlog", "open", "closed", "stray",
                           "lost", "aborted"}]
    BY DEF CrashAccepting, Gone, TypeOK
  <2>3. own' \in [Conns -> Workers \cup {None}]
    BY DEF CrashAccepting, Accepting, TypeOK
  <2>4. evs' \in [Workers -> [Conns -> Masks]]
    BY DEF CrashAccepting, Die, NoEvents, Masks, TypeOK
  <2>5. fd' \in [Conns -> Nat]
    BY DEF CrashAccepting, Die, TypeOK
  <2> QED
    BY <2>1, <2>2, <2>3, <2>4, <2>5 DEF CrashAccepting, Die, TypeOK, netVars
<1>2. BackendHasConn'
  BY DEF CrashAccepting, Die, Accepting, BackendHasConn
<1>3. NoStaleRequest'
  BY DEF CrashAccepting, Die, Gone, Accepting, Waiting, NoStaleRequest, Holds,
         NoEvents, TypeOK
<1> QED
  BY <1>1, <1>2, <1>3

\* Nor one that dies in another handler, whatever the handler has counted and
\* written by then.
LEMMA CrashHandlingInv ==
  ASSUME WorkerInv, NEW w \in Workers, Die(w),
         st' = [d \in Conns |-> Gone(w, d)], UNCHANGED own,
         sd' \in Counters, reply' \in [Conns -> {"none", "partial", "full"}]
  PROVE  WorkerInv'
<1> USE DEF WorkerInv
<1>1. TypeOK'
  BY DEF Die, Gone, TypeOK, Masks, NoEvents, netVars
<1>2. BackendHasConn'
  BY DEF Die, BackendHasConn, TypeOK
<1>3. NoStaleRequest'
  BY NoneAssumption DEF Die, Gone, NoStaleRequest, Holds, NoEvents, TypeOK
<1> QED
  BY <1>1, <1>2, <1>3

\* These are event_http_read, handle_write and the proxy.
LEMMA CrashInHandler ==
  ASSUME WorkerInv, NEW w \in Workers,
         \/ CrashProxying(w)
         \/ \E c \in Conns : CrashReading(w, c) \/ CrashAnswering(w, c)
  PROVE  /\ Die(w) /\ st' = [d \in Conns |-> Gone(w, d)] /\ UNCHANGED own
         /\ \/ sd' = CountedRead /\ UNCHANGED reply
            \/ \E c \in Conns :
                 /\ st[c] = "open" /\ own[c] = w
                 /\ \E r \in WriteResults(c) :
                      /\ reply' = [reply EXCEPT ![c] = r]
                      /\ sd' \in {sd, CountedWrite(r)}
<1>1. CASE CrashProxying(w)
  <2>1. cur[w] \in Conns /\ st[cur[w]] = "open" /\ own[cur[w]] = w
    BY <1>1 DEF CrashProxying, WorkerInv, BackendHasConn, NoStaleRequest
  <2>2. PICK r \in WriteResults(cur[w]) : reply' = [reply EXCEPT ![cur[w]] = r]
    BY <1>1 DEF CrashProxying
  <2> QED
    BY <1>1, <2>1, <2>2 DEF CrashProxying
<1>2. ASSUME NEW c \in Conns, CrashReading(w, c)
      PROVE  /\ Die(w) /\ st' = [d \in Conns |-> Gone(w, d)] /\ UNCHANGED own
             /\ sd' = CountedRead /\ UNCHANGED reply
  BY <1>2 DEF CrashReading
<1>3. ASSUME NEW c \in Conns, CrashAnswering(w, c)
      PROVE  /\ Die(w) /\ st' = [d \in Conns |-> Gone(w, d)] /\ UNCHANGED own
             /\ st[c] = "open" /\ own[c] = w
             /\ \E r \in WriteResults(c) :
                  /\ reply' = [reply EXCEPT ![c] = r]
                  /\ sd' \in {sd, CountedWrite(r)}
  <2>1. st[c] = "open" /\ own[c] = w
    BY <1>3 DEF CrashAnswering, WorkerInv, NoStaleRequest
  <2> QED
    BY <1>3, <2>1, Zenon DEF CrashAnswering
<1> QED
  BY <1>1, <1>2, <1>3

\* So they keep the invariant.
LEMMA CrashInHandlerInv ==
  ASSUME WorkerInv, NEW w \in Workers,
         \/ CrashProxying(w)
         \/ \E c \in Conns : CrashReading(w, c) \/ CrashAnswering(w, c)
  PROVE  WorkerInv'
<1>1. Die(w) /\ st' = [d \in Conns |-> Gone(w, d)] /\ UNCHANGED own
  BY CrashInHandler
<1>2. sd' \in Counters /\ reply' \in [Conns -> {"none", "partial", "full"}]
  <2>1. CASE sd' = CountedRead /\ UNCHANGED reply
    BY <2>1, CountersUpdate DEF CountedRead, WorkerInv, TypeOK
  <2>2. ASSUME NEW c \in Conns, NEW r \in WriteResults(c),
               reply' = [reply EXCEPT ![c] = r], sd' \in {sd, CountedWrite(r)}
        PROVE  /\ sd' \in Counters
               /\ reply' \in [Conns -> {"none", "partial", "full"}]
    <3>1. sd' \in Counters
      BY <2>2, CountersUpdate DEF CountedWrite, WorkerInv, TypeOK
    <3> QED
      BY <2>2, <3>1 DEF WriteResults, WorkerInv, TypeOK
  <2> QED
    BY <2>1, <2>2, CrashInHandler
<1> QED
  BY <1>1, <1>2, CrashHandlingInv

\* A worker restarts with no connection.
LEMMA RestartInv ==
  ASSUME WorkerInv, NEW w \in Workers, Restart(w)
  PROVE  WorkerInv'
<1> USE DEF WorkerInv
<1>1. TypeOK'
  BY SizeAssumption DEF Restart, SetUp, TypeOK, netVars
<1>2. BackendHasConn'
  BY DEF Restart, BackendHasConn
<1>3. NoStaleRequest'
  BY DEF Restart, NoStaleRequest
<1> QED
  BY <1>1, <1>2, <1>3

\* A step that changes nothing.
LEMMA StutterInv == WorkerInv /\ UNCHANGED vars => WorkerInv'
<1> SUFFICES ASSUME WorkerInv, UNCHANGED vars PROVE WorkerInv'
  OBVIOUS
<1> QED
  BY DEF vars, WorkerInv, TypeOK, BackendHasConn, NoStaleRequest

\* Every step keeps the invariant.
LEMMA StepInv == WorkerInv /\ [Next]_vars => WorkerInv'
<1> SUFFICES ASSUME WorkerInv, Next PROVE WorkerInv'
  BY StutterInv
<1>1. ASSUME NEW c \in Conns, Network(c) PROVE WorkerInv'
  BY <1>1, ConnectInv, SendInv, PeerDoesInv DEF Network, Fin, Rst, NetErr
<1>2. ASSUME NEW w \in Workers, WorkerStep(w) PROVE WorkerInv'
  BY <1>2, EpollWaitInv, handle_acceptInv, AcceptConnInv, AcceptAddFailsInv,
     AcceptNonblockFailsInv, AcceptStopsInv, event_http_readInv,
     event_http_writeInv, event_http_reverseInv, HandleErrorInv
  DEF WorkerStep
<1>3. ASSUME NEW w \in Workers, Backend(w) PROVE WorkerInv'
  BY <1>3, BackendRefusesInv, BackendAnswersInv, BackendClosesInv DEF Backend
<1>4. ASSUME NEW w \in Workers, Dies(w) PROVE WorkerInv'
  BY <1>4, CrashInv, CrashAcceptingInv, CrashInHandlerInv DEF Dies
<1> QED
  BY <1>1, <1>2, <1>3, <1>4, RestartInv DEF Next

\* The inductive invariant holds in every state of every behaviour.
THEOREM WorkerInvariance == Spec => []WorkerInv
<1>1. Init => WorkerInv
  BY InitInv
<1>2. WorkerInv /\ [Next]_vars => WorkerInv'
  BY StepInv
<1> QED
  BY <1>1, <1>2, PTL DEF Spec

\* The variables of the workers keep their types.
THEOREM WorkerTypes == Spec => []TypeOK
<1>1. WorkerInv => TypeOK
  BY DEF WorkerInv
<1> QED
  BY <1>1, WorkerInvariance, PTL

\* No handler is called with a req_t that has been freed, or that belongs to
\* another worker's connection, for any number of connections in evs[].
THEOREM RequestsLive == Spec => []NoStaleRequest
<1>1. WorkerInv => NoStaleRequest
  BY DEF WorkerInv
<1> QED
  BY <1>1, WorkerInvariance, PTL

-----------------------------------------------------------------------------
(* Descriptors.  Eight things can happen to those of a worker; each keeps   *)
(* its references sound and the count of what it has forgotten right.       *)

Strays(w) == {c \in Conns : own[c] = w /\ st[c] = "stray"}

FdInv(w) ==
  /\ Live(w) => /\ ReferencesSound(w)
                /\ IsFiniteSet(Forgotten(w))
                /\ Cardinality(Forgotten(w))
                     = refused[w] + Cardinality(Strays(w))
  /\ ~ Live(w) => /\ refused[w] = 0
                  /\ \A c \in Conns : ~ Holds(w, c)

SameFds(w) ==
  /\ pc'[w] = "down" <=> pc[w] = "down"
  /\ pc'[w] = "backend" <=> pc[w] = "backend"
  /\ cli_sock'[w] = cli_sock[w] /\ table'[w] = table[w]
  /\ refused'[w] = refused[w]
  /\ \A c \in Conns :
       /\ own'[c] = w /\ st'[c] = "open" <=> own[c] = w /\ st[c] = "open"
       /\ own'[c] = w /\ st'[c] = "stray" <=> own[c] = w /\ st[c] = "stray"
       /\ own[c] = w /\ st[c] = "open" => fd'[c] = fd[c]

\* Nothing.
LEMMA FdsSame ==
  ASSUME NEW w \in Workers, FdInv(w), SameFds(w)
  PROVE  FdInv(w)'
<1>1. Live(w)' <=> Live(w)
  BY DEF SameFds, Live
<1>2. Strays(w)' = Strays(w)
  BY DEF SameFds, Strays
<1>3. Referenced(w)' = Referenced(w) /\ Forgotten(w)' = Forgotten(w)
  <2>1. {fd'[c] : c \in {d \in Conns : own'[d] = w /\ st'[d] = "open"}}
          = {fd[c] : c \in {d \in Conns : own[d] = w /\ st[d] = "open"}}
    BY DEF SameFds
  <2>2. Referenced(w)' = Referenced(w)
    BY <2>1 DEF SameFds, Referenced, Open, SetUp
  <2> QED
    BY <2>2 DEF SameFds, Forgotten
<1>4. CASE Live(w)
  <2>1. ReferencesSound(w)'
    BY <1>3, <1>4 DEF FdInv, ReferencesSound, SameFds, Open
  <2> QED
    BY <1>1, <1>2, <1>3, <1>4, <2>1 DEF FdInv, SameFds
<1>5. CASE ~ Live(w)
  BY <1>1, <1>5 DEF FdInv, SameFds, Holds
<1> QED
  BY <1>4, <1>5

\* A descriptor that is handed out is none of those the worker refers to.
LEMMA NewDescriptor ==
  ASSUME NEW w \in Workers, FdInv(w), Live(w), NEW n \in FreeFds(w)
  PROVE  n \in Nat /\ n \notin table[w] /\ n > StdFds + LisNum
BY SizeAssumption
DEF FreeFds, FdInv, ReferencesSound, Referenced, SetUp

\* event_accept_http keeps a descriptor in a req_t.
LEMMA FdsAccept ==
  ASSUME TypeOK, NEW w \in Workers, FdInv(w), NEW c \in Conns,
         NEW n \in FreeFds(w), Opens(w, n), pc[w] = "accept",
         pc'[w] = "accept", st[c] = "backlog", fd' = [fd EXCEPT ![c] = n],
         st' = [st EXCEPT ![c] = "open"], own' = [own EXCEPT ![c] = w],
         UNCHANGED refused
  PROVE  FdInv(w)'
<1>1. /\ ReferencesSound(w) /\ n \in Nat /\ n \notin table[w]
      /\ n > StdFds + LisNum
  BY NewDescriptor DEF FdInv, Live
<1>2. table'[w] = table[w] \cup {n}
  BY DEF Opens, TypeOK
<1>3. Strays(w)' = Strays(w)
  BY DEF Strays, TypeOK
<1>4. Referenced(w)' = Referenced(w) \cup {n}
  BY DEF Referenced, Open, SetUp, TypeOK
<1>5. Forgotten(w)' = Forgotten(w)
  BY <1>1, <1>2, <1>4 DEF Forgotten
<1>6. \A d \in Conns : Open(w, d)' /\ d # c
        => Open(w, d) /\ fd'[d] = fd[d] /\ fd[d] \in table[w]
  BY <1>1 DEF Open, ReferencesSound, Referenced, TypeOK
<1>7. fd'[c] = n
  BY DEF TypeOK
<1>8. ReferencesSound(w)'
  BY <1>1, <1>2, <1>4, <1>6, <1>7 DEF ReferencesSound
<1> QED
  BY <1>3, <1>5, <1>8 DEF FdInv, Live

\* event_accept_http forgets one.
LEMMA FdsStray ==
  ASSUME TypeOK, NEW w \in Workers, FdInv(w), NEW c \in Conns,
         NEW n \in FreeFds(w), Opens(w, n), pc[w] = "accept",
         pc'[w] = "loop", st[c] = "backlog",
         st' = [st EXCEPT ![c] = "stray"], own' = [own EXCEPT ![c] = w],
         UNCHANGED <<fd, refused>>
  PROVE  FdInv(w)'
<1>1. ReferencesSound(w) /\ n \notin table[w]
  BY NewDescriptor DEF FdInv, Live
<1>2. table'[w] = table[w] \cup {n}
  BY DEF Opens, TypeOK
<1>3. Strays(w)' = Strays(w) \cup {c} /\ c \notin Strays(w)
  BY DEF Strays, TypeOK
<1>4. \A d \in Conns : Open(w, d)' <=> Open(w, d)
  BY DEF Open, TypeOK
<1>5. Referenced(w)' = Referenced(w)
  BY <1>4 DEF Referenced, SetUp
<1>6. Forgotten(w)' = Forgotten(w) \cup {n} /\ n \notin Forgotten(w)
  BY <1>1, <1>2, <1>5 DEF Forgotten, ReferencesSound
<1>7. ReferencesSound(w)'
  BY <1>1, <1>2, <1>4, <1>5 DEF ReferencesSound
<1>8. /\ IsFiniteSet(Forgotten(w)')
      /\ Cardinality(Forgotten(w)') = Cardinality(Forgotten(w)) + 1
  BY <1>6, FS_AddElement DEF FdInv, Live
<1>9. /\ IsFiniteSet(Strays(w)) /\ Cardinality(Strays(w)) \in Nat
      /\ Cardinality(Strays(w)') = Cardinality(Strays(w)) + 1
  <2>1. IsFiniteSet(Strays(w))
    BY FiniteAssumption, FS_Subset DEF Strays
  <2> QED
    BY <1>3, <2>1, FS_AddElement, FS_CardinalityType
<1>10. Cardinality(Forgotten(w)) = refused[w] + Cardinality(Strays(w))
  BY DEF FdInv, Live
<1>11. refused[w] \in Nat
  BY DEF TypeOK
<1> QED
  BY <1>7, <1>8, <1>9, <1>10, <1>11 DEF FdInv, Live

\* event_http_reverse opens a socket to the back end.
LEMMA FdsDial ==
  ASSUME TypeOK, NEW w \in Workers, FdInv(w), NEW n \in FreeFds(w),
         Opens(w, n), pc[w] = "loop", pc'[w] = "backend",
         cli_sock'[w] = n, UNCHANGED <<st, own, fd, refused>>
  PROVE  FdInv(w)'
<1>1. ReferencesSound(w) /\ n \notin table[w] /\ n > StdFds + LisNum
  BY NewDescriptor DEF FdInv, Live
<1>2. table'[w] = table[w] \cup {n}
  BY DEF Opens, TypeOK
<1>3. \A d \in Conns : Open(w, d)' <=> Open(w, d)
  BY DEF Open
<1>4. Referenced(w)' = Referenced(w) \cup {n}
  BY <1>3 DEF Referenced, SetUp
<1>5. Forgotten(w)' = Forgotten(w)
  BY <1>1, <1>2, <1>4 DEF Forgotten
<1>6. \A d \in Conns : Open(w, d) => fd[d] # n
  BY <1>1 DEF ReferencesSound, Referenced
<1>7. ReferencesSound(w)'
  BY <1>1, <1>2, <1>3, <1>4, <1>6 DEF ReferencesSound
<1> QED
  BY <1>5, <1>7 DEF FdInv, Live, Strays

\* handle_close closes a connection, in the loop.
LEMMA FdsClose ==
  ASSUME TypeOK, NEW w \in Workers, FdInv(w), NEW c \in Conns, Open(w, c),
         pc[w] = "loop", pc'[w] = "loop",
         table'[w] = table[w] \ {fd[c]}, st' = [st EXCEPT ![c] = "closed"],
         fd' = [fd EXCEPT ![c] = 0], UNCHANGED <<own, refused>>
  PROVE  FdInv(w)'
<1>1. ReferencesSound(w)
  BY DEF FdInv, Live
<1>2. \A d \in Conns : Open(w, d)' <=> Open(w, d) /\ d # c
  BY DEF Open, TypeOK
<1>3. \A d \in Conns : Open(w, d) /\ d # c
        => fd'[d] = fd[d] /\ fd[d] # fd[c] /\ fd[d] \in Referenced(w)
  BY <1>1 DEF ReferencesSound, Referenced, TypeOK
<1>4. fd[c] \notin SetUp /\ fd[c] \in Referenced(w)
  BY <1>1, SizeAssumption DEF ReferencesSound, Referenced, SetUp
<1>5. Referenced(w)' = Referenced(w) \ {fd[c]}
  BY <1>2, <1>3, <1>4 DEF Referenced, SetUp
<1>6. Forgotten(w)' = Forgotten(w)
  BY <1>4, <1>5 DEF Forgotten
<1>7. ReferencesSound(w)'
  BY <1>1, <1>2, <1>3, <1>5 DEF ReferencesSound
<1>8. Strays(w)' = Strays(w)
  BY DEF Strays, Open, TypeOK
<1> QED
  BY <1>6, <1>7, <1>8 DEF FdInv, Live

\* The socket to the back end is closed.
LEMMA FdsHangUp ==
  ASSUME TypeOK, NEW w \in Workers, FdInv(w), pc[w] = "backend",
         pc'[w] = "loop", table'[w] = Closed(w),
         UNCHANGED <<st, own, fd, refused>>
  PROVE  FdInv(w)'
<1>1. ReferencesSound(w)
  BY DEF FdInv, Live
<1>2. \A d \in Conns : Open(w, d)' <=> Open(w, d)
  BY DEF Open
<1>3. cli_sock[w] \notin SetUp /\ cli_sock[w] \in Referenced(w)
  BY <1>1, SizeAssumption DEF ReferencesSound, Referenced, SetUp
<1>4. \A d \in Conns : Open(w, d) => fd[d] # cli_sock[w]
  BY <1>1 DEF ReferencesSound
<1>5. Referenced(w)' = Referenced(w) \ {cli_sock[w]}
  BY <1>2, <1>3, <1>4 DEF Referenced, SetUp
<1>6. Forgotten(w)' = Forgotten(w)
  BY <1>3, <1>5 DEF Forgotten, Closed
<1>7. ReferencesSound(w)'
  BY <1>1, <1>2, <1>5 DEF ReferencesSound, Closed
<1> QED
  BY <1>6, <1>7 DEF FdInv, Live, Strays

\* The socket to the back end and the connection are closed.
LEMMA FdsHangUpClose ==
  ASSUME TypeOK, NEW w \in Workers, FdInv(w), NEW c \in Conns, Open(w, c),
         pc[w] = "backend", pc'[w] = "loop",
         table'[w] = Closed(w) \ {fd[c]}, st' = [st EXCEPT ![c] = "closed"],
         fd' = [fd EXCEPT ![c] = 0], UNCHANGED <<own, refused>>
  PROVE  FdInv(w)'
<1>1. ReferencesSound(w)
  BY DEF FdInv, Live
<1>2. \A d \in Conns : Open(w, d)' <=> Open(w, d) /\ d # c
  BY DEF Open, TypeOK
<1>3. \A d \in Conns : Open(w, d) /\ d # c
        => /\ fd'[d] = fd[d] /\ fd[d] # fd[c] /\ fd[d] \in Referenced(w)
           /\ fd[d] # cli_sock[w]
  BY <1>1 DEF ReferencesSound, Referenced, TypeOK
<1>4. /\ fd[c] \notin SetUp /\ fd[c] \in Referenced(w)
      /\ cli_sock[w] \notin SetUp /\ cli_sock[w] \in Referenced(w)
  BY <1>1, SizeAssumption DEF ReferencesSound, Referenced, SetUp
<1>5. Referenced(w)' = Referenced(w) \ {cli_sock[w], fd[c]}
  BY <1>2, <1>3, <1>4 DEF Referenced, SetUp
<1>6. Forgotten(w)' = Forgotten(w)
  BY <1>4, <1>5 DEF Forgotten, Closed
<1>7. ReferencesSound(w)'
  BY <1>1, <1>2, <1>3, <1>5 DEF ReferencesSound, Closed
<1>8. Strays(w)' = Strays(w)
  BY DEF Strays, Open, TypeOK
<1> QED
  BY <1>6, <1>7, <1>8 DEF FdInv, Live

\* client_socket returns without closing its socket.
LEMMA FdsRefused ==
  ASSUME TypeOK, NEW w \in Workers, FdInv(w), pc[w] = "backend",
         pc'[w] = "loop", refused'[w] = refused[w] + 1,
         UNCHANGED <<st, own, fd, table>>
  PROVE  FdInv(w)'
<1>1. ReferencesSound(w)
  BY DEF FdInv, Live
<1>2. \A d \in Conns : Open(w, d)' <=> Open(w, d)
  BY DEF Open
<1>3. /\ cli_sock[w] \notin SetUp /\ cli_sock[w] \in Referenced(w)
      /\ cli_sock[w] \in table[w]
  BY <1>1, SizeAssumption DEF ReferencesSound, Referenced, SetUp
<1>4. \A d \in Conns : Open(w, d) => fd[d] # cli_sock[w]
  BY <1>1 DEF ReferencesSound
<1>5. Referenced(w)' = Referenced(w) \ {cli_sock[w]}
  BY <1>2, <1>3, <1>4 DEF Referenced, SetUp
<1>6. /\ Forgotten(w)' = Forgotten(w) \cup {cli_sock[w]}
      /\ cli_sock[w] \notin Forgotten(w)
  BY <1>3, <1>5 DEF Forgotten
<1>7. ReferencesSound(w)'
  BY <1>1, <1>2, <1>5 DEF ReferencesSound
<1>8. /\ IsFiniteSet(Forgotten(w)')
      /\ Cardinality(Forgotten(w)') = Cardinality(Forgotten(w)) + 1
  BY <1>6, FS_AddElement DEF FdInv, Live
<1>9. /\ Strays(w)' = Strays(w) /\ refused[w] \in Nat
      /\ Cardinality(Strays(w)) \in Nat
  <2>1. IsFiniteSet(Strays(w))
    BY FiniteAssumption, FS_Subset DEF Strays
  <2> QED
    BY <2>1, FS_CardinalityType DEF Strays, TypeOK
<1>10. Cardinality(Forgotten(w)) = refused[w] + Cardinality(Strays(w))
  BY DEF FdInv, Live
<1> QED
  BY <1>7, <1>8, <1>9, <1>10 DEF FdInv, Live

\* A worker that dies holds nothing.
LEMMA FdsDown ==
  ASSUME NEW w \in Workers, pc'[w] = "down", refused'[w] = 0,
         \A c \in Conns : own'[c] = w => st'[c] \notin {"open", "stray"}
  PROVE  FdInv(w)'
BY DEF FdInv, Live, Holds

\* It starts again with what it had first.
LEMMA FdsStart ==
  ASSUME NEW w \in Workers, FdInv(w), pc[w] = "down", pc'[w] = "loop",
         table'[w] = SetUp, UNCHANGED <<st, own, refused>>
  PROVE  FdInv(w)'
<1>1. refused[w] = 0 /\ \A c \in Conns : ~ Holds(w, c)
  BY DEF FdInv, Live
<1>2. \A c \in Conns : ~ Open(w, c)'
  BY <1>1 DEF Holds, Open
<1>3. Referenced(w)' = SetUp
  BY <1>2 DEF Referenced, SetUp
<1>4. Forgotten(w)' = {} /\ Strays(w)' = {}
  BY <1>1, <1>3 DEF Forgotten, Strays, Holds
<1>5. ReferencesSound(w)'
  BY <1>2, <1>3 DEF ReferencesSound
<1>6. IsFiniteSet({}) /\ Cardinality({}) = 0
  BY FS_EmptySet
<1> QED
  BY <1>1, <1>4, <1>5, <1>6 DEF FdInv, Live

FdInvs == \A w \in Workers : FdInv(w)

\* What the network and the steps of the loop that open and close nothing do.
LEMMA QuietFds ==
  ASSUME TypeOK, FdInvs,
         UNCHANGED <<cli_sock, table, refused, own, fd>>,
         \A v \in Workers : /\ pc'[v] = "down" <=> pc[v] = "down"
                            /\ pc'[v] = "backend" <=> pc[v] = "backend",
         \/ UNCHANGED st
         \/ \E c \in Conns : /\ st[c] = "idle"
                            /\ st' = [st EXCEPT ![c] = "backlog"]
  PROVE  FdInvs'
<1>1. \A v \in Workers : SameFds(v)
  BY DEF SameFds, TypeOK
<1> QED
  BY <1>1, FdsSame DEF FdInvs

\* The accept loop.
LEMMA AcceptFds ==
  ASSUME TypeOK, FdInvs, NEW w \in Workers, NEW c \in Conns,
         \/ AcceptConn(w, c) \/ AcceptAddFails(w, c)
         \/ AcceptNonblockFails(w, c)
  PROVE  FdInvs'
<1>1. st[c] = "backlog" /\ own' = [own EXCEPT ![c] = w] /\ pc[w] = "accept"
  BY DEF AcceptConn, AcceptAddFails, AcceptNonblockFails, Accepting, Waiting
<1>2. CASE AcceptConn(w, c)
  <2>1. PICK n \in FreeFds(w) : Opens(w, n) /\ fd' = [fd EXCEPT ![c] = n]
    BY <1>2 DEF AcceptConn
  <2>2. /\ st' = [st EXCEPT ![c] = "open"]
        /\ UNCHANGED <<pc, cli_sock, refused>>
    BY <1>2 DEF AcceptConn
  <2>3. FdInv(w)'
    BY <1>1, <2>1, <2>2, FdsAccept DEF FdInvs
  <2>4. \A v \in Workers \ {w} : SameFds(v)
    BY <1>1, <2>1, <2>2 DEF SameFds, Opens, TypeOK
  <2> QED
    BY <2>3, <2>4, FdsSame DEF FdInvs
<1>3. CASE AcceptAddFails(w, c)
  <2>1. /\ st' = [st EXCEPT ![c] = "lost"]
        /\ UNCHANGED <<pc, cli_sock, table, refused, fd>>
    BY <1>3 DEF AcceptAddFails, procVars
  <2>2. \A v \in Workers : SameFds(v)
    BY <1>1, <2>1 DEF SameFds, TypeOK
  <2> QED
    BY <2>2, FdsSame DEF FdInvs
<1>4. CASE AcceptNonblockFails(w, c)
  <2>1. PICK n \in FreeFds(w) : Opens(w, n)
    BY <1>4 DEF AcceptNonblockFails
  <2>2. /\ st' = [st EXCEPT ![c] = "stray"] /\ pc' = [pc EXCEPT ![w] = "loop"]
        /\ UNCHANGED <<cli_sock, refused, fd>>
    BY <1>4 DEF AcceptNonblockFails
  <2>3. FdInv(w)'
    BY <1>1, <2>1, <2>2, FdsStray DEF FdInvs, TypeOK
  <2>4. \A v \in Workers \ {w} : SameFds(v)
    BY <1>1, <2>1, <2>2 DEF SameFds, Opens, TypeOK
  <2> QED
    BY <2>3, <2>4, FdsSame DEF FdInvs
<1> QED
  BY <1>2, <1>3, <1>4

\* handle_close, called in the loop.
LEMMA CloseFds ==
  ASSUME TypeOK, FdInvs, NEW w \in Workers, NEW c \in Conns, NEW s,
         Open(w, c), pc[w] = "loop", handle_close(w, c, s, table[w]),
         UNCHANGED <<pc, cli_sock, refused, own>>
  PROVE  FdInvs'
<1>1. /\ table' = [table EXCEPT ![w] = @ \ {fd[c]}]
      /\ st' = [st EXCEPT ![c] = "closed"] /\ fd' = [fd EXCEPT ![c] = 0]
  BY DEF handle_close
<1>2. FdInv(w)'
  BY <1>1, FdsClose DEF FdInvs, TypeOK
<1>3. \A v \in Workers \ {w} : SameFds(v)
  BY <1>1 DEF SameFds, Open, TypeOK
<1> QED
  BY <1>2, <1>3, FdsSame DEF FdInvs

\* The handlers of the events of connections.
LEMMA HandlerFds ==
  ASSUME WorkerInv, FdInvs, NEW w \in Workers, NEW c \in Conns,
         \/ event_http_read(w, c) \/ event_http_write(w, c)
         \/ event_http_reverse(w, c) \/ HandleError(w, c)
  PROVE  FdInvs'
<1>1. TypeOK /\ pc[w] = "loop" /\ Open(w, c)
  BY EventOpen DEF event_http_read, event_http_write, event_http_reverse,
                   HandleError, WorkerInv, Open
<1>2. CASE \/ event_http_read(w, c) \/ event_http_write(w, c)
           \/ HandleError(w, c)
  <2>1. UNCHANGED <<pc, cli_sock, refused, own>>
    BY <1>2 DEF event_http_read, event_http_write, HandleError
  <2>2. \/ UNCHANGED <<st, fd, table>>
        \/ \E s : handle_close(w, c, s, table[w])
    BY <1>2 DEF event_http_read, event_http_write, HandleError
  <2> QED
    BY <1>1, <2>1, <2>2, CloseFds, QuietFds
<1>3. CASE event_http_reverse(w, c)
  <2>1. UNCHANGED <<refused, own>>
    BY <1>3 DEF event_http_reverse
  <2>2. CASE handle_close(w, c, sd, table[w]) /\ UNCHANGED <<pc, cli_sock>>
    BY <1>1, <2>1, <2>2, CloseFds
  <2>3. CASE UNCHANGED <<pc, cli_sock, st, fd, table>>
    BY <1>1, <2>1, <2>3, QuietFds
  <2>4. ASSUME NEW n \in FreeFds(w), Opens(w, n), UNCHANGED <<st, fd>>,
               cli_sock' = [cli_sock EXCEPT ![w] = n],
               pc' = [pc EXCEPT ![w] = "backend"]
        PROVE  FdInvs'
    <3>1. FdInv(w)'
      BY <1>1, <2>1, <2>4, FdsDial DEF FdInvs, TypeOK
    <3>2. \A v \in Workers \ {w} : SameFds(v)
      BY <1>1, <2>1, <2>4 DEF SameFds, Opens, TypeOK
    <3> QED
      BY <3>1, <3>2, FdsSame DEF FdInvs
  <2> QED
    BY <1>3, <2>2, <2>3, <2>4 DEF event_http_reverse, netVars
<1> QED
  BY <1>2, <1>3

\* The end of the call to the back end.
LEMMA BackendFds ==
  ASSUME WorkerInv, FdInvs, NEW w \in Workers, Backend(w)
  PROVE  FdInvs'
<1>1. /\ TypeOK /\ pc[w] = "backend" /\ pc' = [pc EXCEPT ![w] = "loop"]
      /\ cli_sock' = [cli_sock EXCEPT ![w] = 0] /\ UNCHANGED own
  BY DEF Backend, BackendRefuses, BackendAnswers, BackendCloses, FromBackend,
         WorkerInv
<1>2. PICK c \in Conns : c = cur[w] /\ Open(w, c)
  BY <1>1 DEF WorkerInv, BackendHasConn, NoStaleRequest, Open
<1>3. CASE BackendRefuses(w)
  <2>1. /\ UNCHANGED <<st, fd, table>>
        /\ refused' = [refused EXCEPT ![w] = @ + 1]
    BY <1>3 DEF BackendRefuses
  <2>2. FdInv(w)'
    BY <1>1, <2>1, FdsRefused DEF FdInvs, TypeOK
  <2>3. \A v \in Workers \ {w} : SameFds(v)
    BY <1>1, <2>1 DEF SameFds, TypeOK
  <2> QED
    BY <2>2, <2>3, FdsSame DEF FdInvs
<1>4. CASE ~ BackendRefuses(w)
  <2>1. /\ UNCHANGED refused
        /\ \/ handle_close(w, c, sd, Closed(w))
           \/ /\ table' = [table EXCEPT ![w] = Closed(w)]
              /\ UNCHANGED <<st, fd>>
    BY <1>2, <1>4 DEF Backend, BackendAnswers, BackendCloses
  <2>2. CASE handle_close(w, c, sd, Closed(w))
    <3>1. /\ table' = [table EXCEPT ![w] = Closed(w) \ {fd[c]}]
          /\ st' = [st EXCEPT ![c] = "closed"] /\ fd' = [fd EXCEPT ![c] = 0]
      BY <2>2 DEF handle_close
    <3>2. FdInv(w)'
      BY <1>1, <1>2, <2>1, <3>1, FdsHangUpClose DEF FdInvs, TypeOK
    <3>3. \A v \in Workers \ {w} : SameFds(v)
      BY <1>1, <1>2, <2>1, <3>1 DEF SameFds, Open, TypeOK
    <3> QED
      BY <3>2, <3>3, FdsSame DEF FdInvs
  <2>3. CASE table' = [table EXCEPT ![w] = Closed(w)] /\ UNCHANGED <<st, fd>>
    <3>1. FdInv(w)'
      BY <1>1, <2>1, <2>3, FdsHangUp DEF FdInvs, TypeOK
    <3>2. \A v \in Workers \ {w} : SameFds(v)
      BY <1>1, <2>1, <2>3 DEF SameFds, TypeOK
    <3> QED
      BY <3>1, <3>2, FdsSame DEF FdInvs
  <2> QED
    BY <2>1, <2>2, <2>3
<1> QED
  BY <1>3, <1>4

\* The kernel closes everything a worker that dies had open, and nothing else.
LEMMA DiesFds ==
  ASSUME WorkerInv, FdInvs, NEW w \in Workers, Dies(w)
  PROVE  FdInvs'
<1>1. TypeOK /\ Die(w)
  BY CrashInHandler DEF Dies, Crash, CrashAccepting, WorkerInv
<1>2. \/ st' = [d \in Conns |-> Gone(w, d)] /\ UNCHANGED own
      \/ \E c \in Conns, s \in {"aborted", "lost"} :
           /\ st[c] = "backlog" /\ own' = [own EXCEPT ![c] = w]
           /\ st' = [d \in Conns |-> IF d = c THEN s ELSE Gone(w, d)]
  BY CrashInHandler DEF Dies, Crash, CrashAccepting, Accepting, Waiting
<1>3. pc'[w] = "down" /\ refused'[w] = 0
  BY <1>1 DEF Die, TypeOK
<1>4. \A c \in Conns : own'[c] = w => st'[c] \notin {"open", "stray"}
  BY <1>1, <1>2 DEF Gone, Holds, TypeOK
<1>5. \A v \in Workers \ {w} : SameFds(v)
  <2>1. ASSUME NEW v \in Workers \ {w} PROVE SameFds(v)
    <3>1. \A c \in Conns, x \in {"open", "stray"} :
            own'[c] = v /\ st'[c] = x <=> own[c] = v /\ st[c] = x
      BY <1>1, <1>2 DEF Gone, Holds, TypeOK
    <3>2. \A c \in Conns : own[c] = v => fd'[c] = fd[c]
      BY <1>1 DEF Die, Holds
    <3>3. /\ pc'[v] = pc[v] /\ cli_sock'[v] = cli_sock[v]
          /\ table'[v] = table[v] /\ refused'[v] = refused[v]
      BY <1>1 DEF Die, TypeOK
    <3> QED
      BY <3>1, <3>2, <3>3 DEF SameFds
  <2> QED
    BY <2>1
<1> QED
  BY <1>3, <1>4, <1>5, FdsDown, FdsSame DEF FdInvs

\* The master starts it again.
LEMMA RestartFds ==
  ASSUME TypeOK, FdInvs, NEW w \in Workers, Restart(w)
  PROVE  FdInvs'
<1>1. /\ pc[w] = "down" /\ pc' = [pc EXCEPT ![w] = "loop"]
      /\ table' = [table EXCEPT ![w] = SetUp]
      /\ UNCHANGED <<st, own, fd, cli_sock, refused>>
  BY DEF Restart
<1>2. FdInv(w)'
  BY <1>1, FdsStart DEF FdInvs, TypeOK
<1>3. \A v \in Workers \ {w} : SameFds(v)
  BY <1>1 DEF SameFds, TypeOK
<1> QED
  BY <1>2, <1>3, FdsSame DEF FdInvs

\* Every step keeps what is open and what is referred to in agreement.
LEMMA StepFds == WorkerInv /\ FdInvs /\ [Next]_vars => FdInvs'
<1> SUFFICES ASSUME WorkerInv, FdInvs, [Next]_vars PROVE FdInvs'
  OBVIOUS
<1>1. TypeOK
  BY DEF WorkerInv
<1>2. CASE UNCHANGED vars
  BY <1>1, <1>2, QuietFds DEF vars
<1>3. ASSUME NEW c \in Conns, Network(c) PROVE FdInvs'
  <2>1. /\ UNCHANGED <<pc, cli_sock, table, refused, own, fd>>
        /\ \/ UNCHANGED st
           \/ st[c] = "idle" /\ st' = [st EXCEPT ![c] = "backlog"]
    BY <1>3 DEF Network, Connect, Send, Fin, Rst, NetErr, PeerDoes, procVars
  <2> QED
    BY <1>1, <2>1, QuietFds
<1>4. ASSUME NEW w \in Workers, WorkerStep(w) PROVE FdInvs'
  <2>1. ASSUME \/ EpollWait(w) \/ AcceptStops(w)
               \/ \E k \in Listeners : handle_accept(w, k)
        PROVE  FdInvs'
    <3>1. UNCHANGED <<cli_sock, table, refused, own, fd, st>>
      BY <2>1 DEF EpollWait, AcceptStops, handle_accept, procVars
    <3>2. \A v \in Workers : /\ pc'[v] = "down" <=> pc[v] = "down"
                             /\ pc'[v] = "backend" <=> pc[v] = "backend"
      BY <1>1, <2>1
      DEF EpollWait, AcceptStops, handle_accept, procVars, TypeOK
    <3> QED
      BY <1>1, <3>1, <3>2, QuietFds
  <2> QED
    BY <1>1, <1>4, <2>1, AcceptFds, HandlerFds DEF WorkerStep
<1> QED
  BY <1>1, <1>2, <1>3, <1>4, BackendFds, DiesFds, RestartFds DEF Next

\* Nothing is forgotten when the workers start.
LEMMA InitFds == Init => FdInvs
<1> SUFFICES ASSUME Init, NEW w \in Workers PROVE FdInv(w)
  BY DEF FdInvs
<1>1. Referenced(w) = SetUp /\ Forgotten(w) = {} /\ Strays(w) = {}
  BY DEF Init, Referenced, Open, Forgotten, Strays
<1>2. ReferencesSound(w)
  BY <1>1 DEF Init, ReferencesSound, Open
<1>3. IsFiniteSet({}) /\ Cardinality({}) = 0
  BY FS_EmptySet
<1> QED
  BY <1>1, <1>2, <1>3 DEF Init, FdInv, Live

\* It is so in every state of every behaviour.
THEOREM FdInvariance == Spec => []FdInvs
<1>1. Init => FdInvs
  BY InitFds
<1>2. WorkerInv /\ FdInvs /\ [Next]_vars => FdInvs'
  BY StepFds
<1> QED
  BY <1>1, <1>2, WorkerInvariance, PTL DEF Spec

\* A worker refers to no descriptor that is closed, and to none twice, and what
\* it leaks is what refused back ends and set_non_blocking make it leak,
\* whatever was open when the server was started and whichever calls fail.
THEOREM DescriptorsSafe == Spec => []DescriptorsSound
<1>1. FdInvs => DescriptorsSound
  BY DEF FdInvs, FdInv, DescriptorsSound, Strays
<1> QED
  BY <1>1, FdInvariance, PTL

-----------------------------------------------------------------------------
(* Module Worker implements module Service.  The connections see only st,   *)
(* own and reply.  Lemma StepKinds says what a step may do to these three   *)
(* variables; the other lemmas need no more of the actions.                 *)

Answers == {"none", "partial", "full"}

\* A connection that waits or is served has not been answered.
Unanswered ==
  \A c \in Conns : st[c] \in {"idle", "backlog", "open", "stray"}
                     => reply[c] = "none"

\* The five things a step may do.
Nothing == UNCHANGED <<st, own, reply>>

Arrives(c) == /\ st[c] = "idle"
              /\ st' = [st EXCEPT ![c] = "backlog"]
              /\ UNCHANGED <<own, reply>>

Taken(w, c) == /\ st[c] = "backlog"
               /\ \E s \in {"open", "stray", "lost"} :
                    st' = [st EXCEPT ![c] = s]
               /\ own' = [own EXCEPT ![c] = w]
               /\ UNCHANGED reply

Ends(c) == /\ st[c] = "open"
           /\ st' = [st EXCEPT ![c] = "closed"]
           /\ \E r \in Answers : reply' = [reply EXCEPT ![c] = r]
           /\ UNCHANGED own

Falls(w) ==
  \/ /\ st' = [c \in Conns |-> Gone(w, c)]
     /\ UNCHANGED own
     /\ \/ UNCHANGED reply
        \/ \E c \in Conns, r \in Answers :
             st[c] = "open" /\ own[c] = w /\ reply' = [reply EXCEPT ![c] = r]
  \/ \E c \in Conns :
       /\ st[c] = "backlog"
       /\ \E s \in {"lost", "aborted"} :
            st' = [d \in Conns |-> IF d = c THEN s ELSE Gone(w, d)]
       /\ own' = [own EXCEPT ![c] = w]
       /\ UNCHANGED reply

AnyKind == \/ Nothing
           \/ \E c \in Conns : Arrives(c) \/ Ends(c)
           \/ \E w \in Workers : Falls(w) \/ \E c \in Conns : Taken(w, c)

\* A handler that calls handle_close for an open connection ends it.
LEMMA CloseEnds ==
  ASSUME WorkerInv, NEW w \in Workers, NEW c \in Conns, NEW s, NEW t,
         st[c] = "open", handle_close(w, c, s, t), UNCHANGED own,
         \/ UNCHANGED reply
         \/ \E r \in Answers : reply' = [reply EXCEPT ![c] = r]
  PROVE  Ends(c)
<1>1. reply \in [Conns -> Answers]
  BY DEF WorkerInv, TypeOK, Answers
<1>2. reply = [reply EXCEPT ![c] = reply[c]]
  BY <1>1
<1> QED
  BY <1>1, <1>2 DEF Ends, handle_close

\* A file or a back end's answer is written in part, in full or not at all.
LEMMA WriteAnswers ==
  ASSUME NEW c \in Conns PROVE WriteResults(c) \subseteq Answers
BY DEF WriteResults, Answers

\* What a step of the network may do.
LEMMA NetworkKinds ==
  ASSUME NEW c \in Conns, Network(c)
  PROVE  Nothing \/ Arrives(c)
<1>1. CASE Connect(c)
  BY <1>1 DEF Connect, Arrives
<1>2. CASE Send(c)
  BY <1>2 DEF Send, Nothing
<1>3. ASSUME NEW what, PeerDoes(c, what) PROVE Nothing
  BY <1>3 DEF PeerDoes, Nothing
<1> QED
  BY <1>1, <1>2, <1>3 DEF Network, Fin, Rst, NetErr

\* What a step of the accept loop may do.
LEMMA AcceptKinds ==
  ASSUME NEW w \in Workers, NEW c \in Conns,
         \/ AcceptConn(w, c) \/ AcceptAddFails(w, c)
         \/ AcceptNonblockFails(w, c)
  PROVE  Taken(w, c)
<1>1. CASE AcceptConn(w, c)
  BY <1>1 DEF AcceptConn, Accepting, Waiting, Taken
<1>2. CASE AcceptAddFails(w, c)
  BY <1>2 DEF AcceptAddFails, Accepting, Waiting, Taken
<1>3. CASE AcceptNonblockFails(w, c)
  BY <1>3 DEF AcceptNonblockFails, Accepting, Waiting, Taken
<1> QED
  BY <1>1, <1>2, <1>3

\* What the handler of an event may do.
LEMMA HandlerKinds ==
  ASSUME WorkerInv, NEW w \in Workers, NEW c \in Conns,
         \/ event_http_read(w, c) \/ event_http_write(w, c)
         \/ event_http_reverse(w, c) \/ HandleError(w, c)
  PROVE  Nothing \/ Ends(c)
<1>1. CASE event_http_read(w, c)
  <2>1. st[c] = "open"
    BY <1>1, EventOpen DEF event_http_read
  <2>2. UNCHANGED <<own, reply>>
    BY <1>1 DEF event_http_read
  <2>3. UNCHANGED st \/ \E s : handle_close(w, c, s, table[w])
    BY <1>1 DEF event_http_read
  <2> QED
    BY <2>1, <2>2, <2>3, CloseEnds DEF Nothing
<1>2. CASE event_http_write(w, c)
  <2>1. st[c] = "open"
    BY <1>2, EventOpen DEF event_http_write
  <2>2. PICK r \in WriteResults(c) :
          /\ reply' = [reply EXCEPT ![c] = r]
          /\ \E s : handle_close(w, c, s, table[w])
    BY <1>2 DEF event_http_write
  <2>3. UNCHANGED own
    BY <1>2 DEF event_http_write
  <2>4. r \in Answers
    BY WriteAnswers
  <2> QED
    BY <2>1, <2>2, <2>3, <2>4, CloseEnds
<1>3. CASE event_http_reverse(w, c)
  <2>1. st[c] = "open"
    BY <1>3, EventOpen DEF event_http_reverse
  <2>2. UNCHANGED <<own, reply>>
    BY <1>3 DEF event_http_reverse
  <2>3. UNCHANGED st \/ handle_close(w, c, sd, table[w])
    BY <1>3 DEF event_http_reverse
  <2> QED
    BY <2>1, <2>2, <2>3, CloseEnds DEF Nothing
<1>4. CASE HandleError(w, c)
  <2>1. st[c] = "open"
    BY <1>4, EventOpen DEF HandleError
  <2>2. UNCHANGED <<own, reply>> /\ handle_close(w, c, sd, table[w])
    BY <1>4 DEF HandleError
  <2> QED
    BY <2>1, <2>2, CloseEnds
<1> QED
  BY <1>1, <1>2, <1>3, <1>4

\* What the return of the call to the back end may do.
LEMMA BackendKinds ==
  ASSUME WorkerInv, NEW w \in Workers, Backend(w)
  PROVE  Nothing \/ \E c \in Conns : Ends(c)
<1>1. cur[w] \in Conns /\ st[cur[w]] = "open"
  BY DEF Backend, BackendRefuses, BackendAnswers, BackendCloses, FromBackend,
         WorkerInv, BackendHasConn, NoStaleRequest
<1>2. CASE BackendRefuses(w)
  BY <1>2 DEF BackendRefuses, Nothing
<1>3. CASE BackendAnswers(w)
  <2>1. UNCHANGED own
    BY <1>3 DEF BackendAnswers
  <2>2. \/ UNCHANGED <<st, reply>>
        \/ /\ handle_close(w, cur[w], sd, Closed(w))
           /\ \E r \in WriteResults(cur[w]) :
                reply' = [reply EXCEPT ![cur[w]] = r]
    BY <1>3 DEF BackendAnswers
  <2> QED
    BY <1>1, <2>1, <2>2, CloseEnds, WriteAnswers DEF Nothing
<1>4. CASE BackendCloses(w)
  <2>1. UNCHANGED <<own, reply>> /\ handle_close(w, cur[w], sd, Closed(w))
    BY <1>4 DEF BackendCloses
  <2> QED
    BY <1>1, <2>1, CloseEnds
<1> QED
  BY <1>2, <1>3, <1>4 DEF Backend

\* What the death of a worker may do.
LEMMA DeathKinds ==
  ASSUME WorkerInv, NEW w \in Workers, Dies(w)
  PROVE  Falls(w)
<1>1. CASE Crash(w)
  BY <1>1 DEF Crash, Falls
<1>2. ASSUME NEW c \in Conns, CrashAccepting(w, c) PROVE Falls(w)
  <2>1. st[c] = "backlog" /\ own' = [own EXCEPT ![c] = w]
    BY <1>2 DEF CrashAccepting, Accepting, Waiting
  <2>2. \E s \in {"lost", "aborted"} :
          st' = [d \in Conns |-> IF d = c THEN s ELSE Gone(w, d)]
    BY <1>2 DEF CrashAccepting
  <2>3. UNCHANGED reply
    BY <1>2 DEF CrashAccepting
  <2> QED
    BY <2>1, <2>2, <2>3 DEF Falls
<1>3. CASE \/ CrashProxying(w)
           \/ \E c \in Conns : CrashReading(w, c) \/ CrashAnswering(w, c)
  <2>1. /\ st' = [d \in Conns |-> Gone(w, d)] /\ UNCHANGED own
        /\ \/ UNCHANGED reply
           \/ \E c \in Conns :
                /\ st[c] = "open" /\ own[c] = w
                /\ \E r \in WriteResults(c) : reply' = [reply EXCEPT ![c] = r]
    BY <1>3, CrashInHandler
  <2> QED
    BY <2>1, WriteAnswers DEF Falls
<1> QED
  BY <1>1, <1>2, <1>3 DEF Dies

\* Every step does one of the five things.
LEMMA StepKinds ==
  ASSUME WorkerInv, [Next]_vars
  PROVE  AnyKind
<1>1. CASE UNCHANGED vars
  BY <1>1 DEF vars, Nothing, AnyKind
<1>2. ASSUME NEW c \in Conns, Network(c) PROVE AnyKind
  BY <1>2, NetworkKinds DEF AnyKind
<1>3. ASSUME NEW w \in Workers, WorkerStep(w) PROVE AnyKind
  <2>1. CASE EpollWait(w)
    BY <2>1 DEF EpollWait, Nothing, AnyKind
  <2>2. CASE \E k \in Listeners : handle_accept(w, k)
    BY <2>2 DEF handle_accept, Nothing, AnyKind
  <2>3. CASE AcceptStops(w)
    BY <2>3 DEF AcceptStops, Nothing, AnyKind
  <2> QED
    BY <1>3, <2>1, <2>2, <2>3, AcceptKinds, HandlerKinds
    DEF WorkerStep, AnyKind
<1>4. ASSUME NEW w \in Workers, Backend(w) PROVE AnyKind
  BY <1>4, BackendKinds DEF AnyKind
<1>5. ASSUME NEW w \in Workers, Dies(w) PROVE AnyKind
  BY <1>5, DeathKinds DEF AnyKind
<1>6. ASSUME NEW w \in Workers, Restart(w) PROVE AnyKind
  BY <1>6 DEF Restart, Nothing, AnyKind
<1> QED
  BY <1>1, <1>2, <1>3, <1>4, <1>5, <1>6 DEF Next

\* An answer is written only by a step that ends its connection.
LEMMA UnansweredStep ==
  ASSUME WorkerInv, Unanswered, AnyKind
  PROVE  Unanswered'
<1>0. /\ st \in [Conns -> {"idle", "backlog", "open", "closed", "stray",
                           "lost", "aborted"}]
      /\ reply \in [Conns -> Answers]
  BY DEF WorkerInv, TypeOK, Answers
<1>1. CASE Nothing
  BY <1>1 DEF Nothing, Unanswered
<1>2. ASSUME NEW c \in Conns, Arrives(c) PROVE Unanswered'
  BY <1>0, <1>2 DEF Arrives, Unanswered
<1>3. ASSUME NEW c \in Conns, Ends(c) PROVE Unanswered'
  BY <1>0, <1>3 DEF Ends, Unanswered
<1>4. ASSUME NEW w \in Workers, NEW c \in Conns, Taken(w, c) PROVE Unanswered'
  BY <1>0, <1>4 DEF Taken, Unanswered
<1>5. ASSUME NEW w \in Workers, Falls(w) PROVE Unanswered'
  BY <1>0, <1>5 DEF Falls, Gone, Holds, Unanswered
<1> QED
  BY <1>1, <1>2, <1>3, <1>4, <1>5 DEF AnyKind

\* Each of the five things is a step of Service.
LEMMA KindsAreSteps ==
  ASSUME WorkerInv, Unanswered, AnyKind
  PROVE  [Abstract!Next]_(Abstract!vars)
<1>0. /\ st \in [Conns -> {"idle", "backlog", "open", "closed", "stray",
                           "lost", "aborted"}]
      /\ own \in [Conns -> Workers \cup {None}]
      /\ reply \in [Conns -> Answers]
  BY DEF WorkerInv, TypeOK, Answers
<1>1. CASE Nothing
  BY <1>1 DEF Nothing, Phase, Abstract!vars
<1>2. ASSUME NEW c \in Conns, Arrives(c) PROVE Abstract!Arrive(c)
  BY <1>0, <1>2 DEF Arrives, Phase, Abstract!Arrive
<1>3. ASSUME NEW c \in Conns, Ends(c) PROVE Abstract!Finish(c)
  BY <1>0, <1>3 DEF Ends, Phase, Answers, Abstract!Finish
<1>4. ASSUME NEW w \in Workers, NEW c \in Conns, Taken(w, c)
      PROVE  Abstract!Take(w, c)
  <2>1. PICK s \in {"open", "stray", "lost"} : st' = [st EXCEPT ![c] = s]
    BY <1>4 DEF Taken
  <2>2. Phase[c] = "waiting"
    BY <1>4 DEF Taken, Phase
  <2>3. CASE s = "lost"
    <3>1. Phase' = [Phase EXCEPT ![c] = "over"]
      BY <1>0, <2>1, <2>3 DEF Phase
    <3> QED
      BY <1>4, <2>2, <3>1 DEF Taken, Abstract!Take
  <2>4. CASE s \in {"open", "stray"}
    <3>1. Phase' = [Phase EXCEPT ![c] = "served"]
      BY <1>0, <2>1, <2>4 DEF Phase
    <3> QED
      BY <1>4, <2>2, <3>1 DEF Taken, Abstract!Take
  <2> QED
    BY <2>3, <2>4
<1>5. ASSUME NEW w \in Workers, Falls(w) PROVE Abstract!Fail(w)
  <2>1. CASE /\ st' = [c \in Conns |-> Gone(w, c)]
             /\ UNCHANGED own
             /\ \/ UNCHANGED reply
                \/ \E c \in Conns, r \in Answers :
                     /\ st[c] = "open" /\ own[c] = w
                     /\ reply' = [reply EXCEPT ![c] = r]
    <3>1. Phase' = [c \in Conns |-> IF c \in Abstract!Served(w) \cup {}
                                   THEN "over" ELSE Phase[c]]
      BY <1>0, <2>1 DEF Phase, Gone, Holds, Abstract!Served
    <3>2. own' = [c \in Conns |-> IF c \in {} THEN w ELSE own[c]]
      BY <1>0, <2>1
    <3>3. \/ UNCHANGED reply
          \/ \E c \in Abstract!Served(w), r \in {"partial", "full"} :
               reply' = [reply EXCEPT ![c] = r]
      <4>1. CASE UNCHANGED reply
        BY <4>1
      <4>2. ASSUME NEW c \in Conns, NEW r \in Answers, st[c] = "open",
                   own[c] = w, reply' = [reply EXCEPT ![c] = r]
            PROVE  \/ UNCHANGED reply
                   \/ \E d \in Abstract!Served(w), x \in {"partial", "full"} :
                        reply' = [reply EXCEPT ![d] = x]
        <5>1. reply[c] = "none"
          BY <4>2 DEF Unanswered
        <5>2. CASE r = "none"
          BY <1>0, <4>2, <5>1, <5>2
        <5>3. c \in Abstract!Served(w)
          BY <4>2 DEF Phase, Abstract!Served
        <5>4. CASE r # "none"
          BY <4>2, <5>3, <5>4 DEF Answers
        <5> QED
          BY <5>2, <5>4
      <4> QED
        BY <2>1, <4>1, <4>2
    <3>4. /\ {} \in SUBSET {c \in Conns : Phase[c] = "waiting"}
          /\ \A c, d \in {} : c = d
      OBVIOUS
    <3> QED
      BY <3>1, <3>2, <3>3, <3>4, Zenon DEF Abstract!Fail
  <2>2. ASSUME NEW c \in Conns, st[c] = "backlog",
               NEW s \in {"lost", "aborted"},
               st' = [d \in Conns |-> IF d = c THEN s ELSE Gone(w, d)],
               own' = [own EXCEPT ![c] = w], UNCHANGED reply
        PROVE  Abstract!Fail(w)
    <3>1. Phase' = [d \in Conns |-> IF d \in Abstract!Served(w) \cup {c}
                                   THEN "over" ELSE Phase[d]]
      BY <1>0, <2>2 DEF Phase, Gone, Holds, Abstract!Served
    <3>2. own' = [d \in Conns |-> IF d \in {c} THEN w ELSE own[d]]
      BY <1>0, <2>2
    <3>3. {c} \in SUBSET {d \in Conns : Phase[d] = "waiting"}
      BY <2>2 DEF Phase
    <3> QED
      BY <2>2, <3>1, <3>2, <3>3 DEF Abstract!Fail
  <2> QED
    BY <1>5, <2>1, <2>2 DEF Falls
<1> QED
  BY <1>1, <1>2, <1>3, <1>4, <1>5 DEF AnyKind, Abstract!Next

\* The event loops implement Service: whatever the kernel reports, whichever
\* worker wins the race for a connection and whichever dies, a connection
\* belongs to one worker and is answered at most once, when it ends.
THEOREM Refinement == Spec => ServiceSpec
<1>1. Init => Unanswered /\ Abstract!Init
  BY DEF Init, Unanswered, Phase, Abstract!Init
<1>2. WorkerInv /\ Unanswered /\ [Next]_vars
        => Unanswered' /\ [Abstract!Next]_(Abstract!vars)
  BY StepKinds, UnansweredStep, KindsAreSteps
<1> QED
  BY <1>1, <1>2, WorkerInvariance, PTL DEF Spec, ServiceSpec, Abstract!Spec

-----------------------------------------------------------------------------
(* Edge-triggered delivery and the answers.  On top of WorkerInv, what the  *)
(* handlers of one round of epoll_wait still have before them.              *)

\* What an entry of evs[] says is still true when its handler runs, however
\* long the handlers before it took: the direction is the one epoll watches
\* and an error is one the peer caused.  Only the proxy waits for a back end.
EventsSound ==
  \A w \in Workers : \A c \in Conns :
    /\ "IN" \in evs[w][c] => want[c] = "IN"
    /\ "OUT" \in evs[w][c] => want[c] = "OUT"
    /\ "ERR" \in evs[w][c] => Failed(c)
    /\ cur[w] = c => Type(c) = "HTTP_PROXY"

EventInv ==
  /\ EventsSound
  /\ NoLostEdge
  /\ AnsweredUnlessFull

\* The invariant holds when the workers start.
LEMMA InitEvents == Init => EventInv
BY NoneAssumption
DEF Init, EventInv, EventsSound, NoLostEdge, AnsweredUnlessFull, NoEvents

\* The outcomes of a read loop, and what each says of the connection.
LEMMA ReadFacts ==
  ASSUME TypeOK, NEW c \in Conns, NEW buf
  PROVE  /\ ReadResult(c, buf) \in {"zero", "reset", "error", "again"}
         /\ ReadResult(c, buf) = "zero"
              => inbox[c] >= buf \/ peer[c] \in {"fin", "dead"}
         /\ ReadResult(c, buf) = "again" => peer[c] = "open"
BY DEF ReadResult, TypeOK

\* Handling an entry of evs[] takes away this entry and no other.
LEMMA HandledEvents ==
  ASSUME TypeOK, NEW w \in Workers, NEW c \in Conns,
         evs' = [evs EXCEPT ![w][c] = {}]
  PROVE  /\ evs'[w][c] = {}
         /\ \A v \in Workers, d \in Conns :
              v # w \/ d # c => evs'[v][d] = evs[v][d]
BY DEF TypeOK

\* The ways to end a connection: handle_close leaves it closed with no event.
\* The client saw an answer, or the connection was not one to the HTTP port
\* that the client still held open with room in the buffer.
LEMMA CloseEvents ==
  ASSUME WorkerInv, EventInv, NEW w \in Workers, NEW c \in Conns, NEW s,
         NEW t, st[c] = "open", own[c] = w, handle_close(w, c, s, t),
         \/ evs' = [evs EXCEPT ![w][c] = {}] /\ UNCHANGED cur
         \/ cur' = [cur EXCEPT ![w] = None] /\ UNCHANGED evs /\ cur[w] = c,
         UNCHANGED <<own, want, inbox>>,
         UNCHANGED peer \/ ErrorReported(c),
         \A d \in Conns \ {c} : reply'[d] = reply[d],
         \/ Type(c) # "HTTP" \/ peer'[c] # "open" \/ reply'[c] # "none"
         \/ inbox[c] >= HttpBuf
  PROVE  EventInv'
<1>1. /\ st' = [st EXCEPT ![c] = "closed"]
      /\ ready' = [ready EXCEPT ![w] = @ \ {c}]
  BY DEF handle_close
<1>2. /\ peer' \in [Conns -> {"open", "fin", "rst", "err", "dead"}]
      /\ \A d \in Conns \ {c} : peer'[d] = peer[d]
      /\ Failed(c) => Failed(c)'
  <2>1. peer \in [Conns -> {"open", "fin", "rst", "err", "dead"}]
    BY DEF WorkerInv, TypeOK
  <2> QED
    BY <2>1 DEF ErrorReported, Failed
<1>3. evs'[w][c] = {} /\ \A v \in Workers \ {w} : evs[v][c] = {}
  BY HandledEvents DEF WorkerInv, NoStaleRequest
<1>4. \A v \in Workers, d \in Conns :
        v # w \/ d # c => evs'[v][d] = evs[v][d]
  BY HandledEvents DEF WorkerInv
<1>5. \A v \in Workers, d \in Conns : cur'[v] = d => cur[v] = d
  BY NoneAssumption DEF WorkerInv, TypeOK
<1>6. EventsSound'
  BY <1>2, <1>3, <1>4, <1>5 DEF EventInv, EventsSound, Failed, Type
<1>7. NoLostEdge'
  BY <1>1, <1>2, <1>4 DEF EventInv, NoLostEdge, WorkerInv, TypeOK
<1>8. AnsweredUnlessFull'
  BY <1>1, <1>2 DEF EventInv, AnsweredUnlessFull, WorkerInv, TypeOK, Type
<1> QED
  BY <1>6, <1>7, <1>8 DEF EventInv

\* A connection that arrives is not open yet.
LEMMA ConnectEvents ==
  ASSUME WorkerInv, EventInv, NEW c \in Conns, Connect(c)
  PROVE  EventInv'
<1>1. EventsSound'
  BY DEF Connect, EventInv, EventsSound, Failed, Type, procVars, netVars
<1>2. NoLostEdge'
  BY DEF Connect, EventInv, NoLostEdge, WorkerInv, TypeOK, netVars
<1>3. AnsweredUnlessFull'
  BY DEF Connect, EventInv, AnsweredUnlessFull, WorkerInv, TypeOK, Type,
         netVars
<1> QED
  BY <1>1, <1>2, <1>3 DEF EventInv

\* Bytes for a connection whose input is watched are an edge; the others find
\* an answer that is still to be written, which is an event of its own.
LEMMA SendEvents ==
  ASSUME WorkerInv, EventInv, NEW c \in Conns, Send(c)
  PROVE  EventInv'
<1>1. EventsSound'
  BY DEF Send, EventInv, EventsSound, Failed, Type, procVars
<1>2. NoLostEdge'
  <2>1. \A v \in Workers : ready[v] \subseteq ready'[v]
    <3>1. Wake(c) \/ UNCHANGED ready
      BY DEF Send
    <3> QED
      BY <3>1 DEF Wake
  <2>2. \A v \in Workers : st[c] = "open" /\ own[c] = v /\ want[c] = "IN"
                             => c \in ready'[v]
    BY DEF Send, Wake, WorkerInv, TypeOK
  <2> QED
    BY <2>1, <2>2 DEF Send, EventInv, NoLostEdge, WorkerInv, TypeOK, procVars
<1>3. AnsweredUnlessFull'
  BY DEF Send, Present, EventInv, AnsweredUnlessFull, WorkerInv, TypeOK, Type
<1> QED
  BY <1>1, <1>2, <1>3 DEF EventInv

\* So are the end of the stream, a reset and an error, whatever is watched.
LEMMA PeerDoesEvents ==
  ASSUME WorkerInv, EventInv, NEW c \in Conns,
         NEW what \in {"fin", "rst", "dead", "err"}, PeerDoes(c, what),
         peer[c] = "open" \/ what = "dead"
  PROVE  EventInv'
<1>1. Failed(c) => Failed(c)'
  BY DEF PeerDoes, Failed, WorkerInv, TypeOK
<1>2. EventsSound'
  BY <1>1 DEF PeerDoes, EventInv, EventsSound, Failed, Type, procVars
<1>3. NoLostEdge'
  BY DEF PeerDoes, Wake, EventInv, NoLostEdge, WorkerInv, TypeOK, procVars
<1>4. AnsweredUnlessFull'
  BY DEF PeerDoes, Present, EventInv, AnsweredUnlessFull, WorkerInv, TypeOK,
         Type
<1> QED
  BY <1>2, <1>3, <1>4 DEF EventInv

\* epoll_wait drops an entry of the ready list only when nothing is to be
\* reported.
LEMMA EpollWaitEvents ==
  ASSUME WorkerInv, EventInv, NEW w \in Workers, EpollWait(w)
  PROVE  EventInv'
<1>1. PICK alone \in SUBSET {c \in ready[w] : Failed(c)} :
        evs' = [evs EXCEPT ![w] =
                  [c \in Conns |-> IF c \in ready[w]
                                   THEN Reported(c, c \in alone) ELSE {}]]
  BY DEF EpollWait
<1>2. /\ UNCHANGED <<cur, st, own, want, inbox, peer, reply>>
      /\ ready' = [ready EXCEPT ![w] = {}] /\ evs[w] = NoEvents
  BY DEF EpollWait, procVars, netVars
<1>3. EventsSound'
  BY <1>1, <1>2
  DEF EventInv, EventsSound, Reported, Failed, Type, WorkerInv, TypeOK
<1>4. NoLostEdge'
  <2>1. SUFFICES ASSUME NEW v \in Workers, NEW c \in Conns,
                        st[c] = "open", own[c] = v,
                        \/ inbox[c] > 0 \/ want[c] = "OUT"
                        \/ peer[c] \in {"fin", "rst", "err"}
                 PROVE  c \in ready'[v] \/ evs'[v][c] # {}
    BY <1>2 DEF NoLostEdge
  <2>2. c \in ready[v] \/ evs[v][c] # {}
    BY <2>1 DEF EventInv, NoLostEdge
  <2>3. CASE v # w
    BY <1>1, <1>2, <2>2, <2>3 DEF WorkerInv, TypeOK
  <2>4. CASE v = w
    <3>1. c \in ready[w]
      BY <1>2, <2>2, <2>4 DEF NoEvents
    <3>2. evs'[w][c] = Reported(c, c \in alone)
      BY <1>1, <3>1 DEF WorkerInv, TypeOK
    <3>3. Reported(c, c \in alone) # {}
      BY <2>1 DEF Reported, Failed
    <3> QED
      BY <2>4, <3>2, <3>3
  <2> QED
    BY <2>3, <2>4
<1>5. AnsweredUnlessFull'
  BY <1>2 DEF EventInv, AnsweredUnlessFull, Type
<1> QED
  BY <1>3, <1>4, <1>5 DEF EventInv

\* A step that touches neither a connection nor its events.
LEMMA QuietEvents ==
  ASSUME EventInv,
         UNCHANGED <<cur, ready, evs, st, own, want, inbox, peer, reply>>
  PROVE  EventInv'
BY DEF EventInv, EventsSound, NoLostEdge, AnsweredUnlessFull, Failed, Type

\* A connection that is ready when it is registered is put on the ready list.
LEMMA AcceptConnEvents ==
  ASSUME WorkerInv, EventInv, NEW w \in Workers, NEW c \in Conns,
         AcceptConn(w, c)
  PROVE  EventInv'
<1>1. /\ st[c] = "backlog" /\ st' = [st EXCEPT ![c] = "open"]
      /\ own' = [own EXCEPT ![c] = w] /\ want' = [want EXCEPT ![c] = "IN"]
      /\ UNCHANGED <<cur, evs, inbox, peer, reply>>
      /\ ready' = IF inbox[c] > 0 \/ peer[c] # "open"
                  THEN [ready EXCEPT ![w] = @ \cup {c}] ELSE ready
  BY DEF AcceptConn, Accepting, Waiting, netVars
<1>2. \A v \in Workers : evs[v][c] = {}
  BY <1>1 DEF WorkerInv, NoStaleRequest
<1>3. EventsSound'
  BY <1>1, <1>2
  DEF EventInv, EventsSound, Failed, Type, WorkerInv, TypeOK
<1>4. NoLostEdge'
  BY <1>1 DEF EventInv, NoLostEdge, WorkerInv, TypeOK
<1>5. AnsweredUnlessFull'
  BY <1>1 DEF EventInv, AnsweredUnlessFull, Type, WorkerInv, TypeOK
<1> QED
  BY <1>3, <1>4, <1>5 DEF EventInv

\* A connection that is accepted and not registered has no event to lose.
LEMMA AcceptFailsEvents ==
  ASSUME WorkerInv, EventInv, NEW w \in Workers, NEW c \in Conns,
         AcceptAddFails(w, c) \/ AcceptNonblockFails(w, c)
  PROVE  EventInv'
<1>1. /\ st' = [st EXCEPT ![c] = "lost"] \/ st' = [st EXCEPT ![c] = "stray"]
      /\ own' = [own EXCEPT ![c] = w]
      /\ UNCHANGED <<cur, ready, evs, want, inbox, peer, reply>>
  BY DEF AcceptAddFails, AcceptNonblockFails, Accepting, procVars, epollVars,
         netVars
<1>2. EventsSound'
  BY <1>1 DEF EventInv, EventsSound, Failed, Type
<1>3. NoLostEdge'
  BY <1>1 DEF EventInv, NoLostEdge, WorkerInv, TypeOK
<1>4. AnsweredUnlessFull'
  BY <1>1 DEF EventInv, AnsweredUnlessFull, Type, WorkerInv, TypeOK
<1> QED
  BY <1>2, <1>3, <1>4 DEF EventInv

\* A handler that keeps the connection open has drained it and cleared its
\* error, or has asked for EPOLLOUT, which is ready at once.
LEMMA KeptEvents ==
  ASSUME WorkerInv, EventInv, NEW w \in Workers, NEW c \in Conns,
         st[c] = "open", own[c] = w, want[c] = "IN",
         evs' = [evs EXCEPT ![w][c] = {}],
         Drained(c), UNCHANGED <<st, own, reply>>,
         \/ peer[c] = "open" /\ UNCHANGED peer
         \/ ErrorReported(c),
         \/ UNCHANGED <<want, ready>>
         \/ /\ want' = [want EXCEPT ![c] = "OUT"]
            /\ ready' = [ready EXCEPT ![w] = @ \cup {c}],
         \/ UNCHANGED cur
         \/ Type(c) = "HTTP_PROXY" /\ cur' = [cur EXCEPT ![w] = c]
  PROVE  EventInv'
<1>1. /\ peer' \in [Conns -> {"open", "fin", "rst", "err", "dead"}]
      /\ \A d \in Conns \ {c} : peer'[d] = peer[d]
      /\ peer'[c] \in {"open", "dead"}
  <2>1. peer \in [Conns -> {"open", "fin", "rst", "err", "dead"}]
    BY DEF WorkerInv, TypeOK
  <2> QED
    BY <2>1 DEF ErrorReported
<1>2. \A v \in Workers : evs'[v][c] = {}
  <2>1. \A v \in Workers \ {w} : evs[v][c] = {}
    BY DEF WorkerInv, NoStaleRequest
  <2>2. /\ evs'[w][c] = {}
        /\ \A v \in Workers, d \in Conns :
             v # w \/ d # c => evs'[v][d] = evs[v][d]
    BY HandledEvents DEF WorkerInv
  <2> QED
    BY <2>1, <2>2
<1>3. \A v \in Workers, d \in Conns : d # c => evs'[v][d] = evs[v][d]
  BY HandledEvents DEF WorkerInv
<1>4. /\ \A d \in Conns \ {c} : want'[d] = want[d]
      /\ \A v \in Workers : ready[v] \subseteq ready'[v]
      /\ want'[c] = "OUT" => c \in ready'[w]
  <2>1. CASE UNCHANGED <<want, ready>>
    BY <2>1
  <2>2. CASE /\ want' = [want EXCEPT ![c] = "OUT"]
             /\ ready' = [ready EXCEPT ![w] = @ \cup {c}]
    BY <2>2 DEF WorkerInv, TypeOK
  <2> QED
    BY <2>1, <2>2
<1>5. inbox'[c] = 0 /\ \A d \in Conns \ {c} : inbox'[d] = inbox[d]
  BY DEF Drained, WorkerInv, TypeOK
<1>6. EventsSound'
  <2>1. \A v \in Workers, d \in Conns :
          cur'[v] = d => Type(d) = "HTTP_PROXY"
    BY DEF EventInv, EventsSound, WorkerInv, TypeOK
  <2> QED
    BY <1>1, <1>2, <1>3, <1>4, <2>1
    DEF EventInv, EventsSound, Failed, Type
<1>7. NoLostEdge'
  BY <1>1, <1>3, <1>4, <1>5 DEF EventInv, NoLostEdge
<1>8. AnsweredUnlessFull'
  BY <1>1, <1>5 DEF EventInv, AnsweredUnlessFull, Type
<1> QED
  BY <1>6, <1>7, <1>8 DEF EventInv

\* event_http_read.
LEMMA event_http_readEvents ==
  ASSUME WorkerInv, EventInv, NEW w \in Workers, NEW c \in Conns,
         event_http_read(w, c)
  PROVE  EventInv'
<1>1. /\ st[c] = "open" /\ own[c] = w
      /\ evs' = [evs EXCEPT ![w][c] = {}]
  BY EventOpen DEF event_http_read
<1>2. UNCHANGED <<cur, own, reply>> /\ want[c] = "IN"
  BY DEF event_http_read, ConnEvent, EventInv, EventsSound
<1>3. CASE ReadResult(c, HttpBuf) = "zero"
  <2>1. /\ handle_close(w, c, sd, table[w])
        /\ UNCHANGED <<want, inbox, peer>>
    BY <1>3 DEF event_http_read, netVars
  <2>2. inbox[c] >= HttpBuf \/ peer'[c] # "open"
    BY <1>3, <2>1, ReadFacts DEF WorkerInv
  <2> QED
    BY <1>1, <1>2, <2>1, <2>2, CloseEvents
<1>4. CASE ReadResult(c, HttpBuf) = "reset"
  <2>1. /\ handle_close(w, c, CountedRead, table[w])
        /\ UNCHANGED <<want, inbox>> /\ ErrorReported(c)
    BY <1>4 DEF event_http_read
  <2>2. peer'[c] # "open"
    BY <2>1 DEF ErrorReported, WorkerInv, TypeOK
  <2> QED
    BY <1>1, <1>2, <2>1, <2>2, CloseEvents
<1>5. CASE ReadResult(c, HttpBuf) \in {"error", "again"}
  <2>1. /\ Drained(c) /\ UNCHANGED st
        /\ \/ UNCHANGED <<want, ready>>
           \/ /\ want' = [want EXCEPT ![c] = "OUT"]
              /\ ready' = [ready EXCEPT ![w] = @ \cup {c}]
    BY <1>5 DEF event_http_read
  <2>2. (peer[c] = "open" /\ UNCHANGED peer) \/ ErrorReported(c)
    BY <1>5, ReadFacts DEF event_http_read, WorkerInv
  <2> QED
    BY <1>1, <1>2, <2>1, <2>2, KeptEvents
<1> QED
  BY <1>3, <1>4, <1>5, ReadFacts DEF WorkerInv

\* handle_write closes after an answer, or after a write() that failed.
LEMMA event_http_writeEvents ==
  ASSUME WorkerInv, EventInv, NEW w \in Workers, NEW c \in Conns,
         event_http_write(w, c)
  PROVE  EventInv'
<1>1. /\ st[c] = "open" /\ own[c] = w
      /\ evs' = [evs EXCEPT ![w][c] = {}]
  BY EventOpen DEF event_http_write
<1>2. UNCHANGED <<cur, own, want, inbox, peer>>
  BY DEF event_http_write, netVars
<1>3. PICK r \in WriteResults(c) :
        /\ reply' = [reply EXCEPT ![c] = r]
        /\ handle_close(w, c, CountedWrite(r), table[w])
  BY DEF event_http_write
<1>4. peer'[c] # "open" \/ reply'[c] # "none"
  BY <1>2, <1>3 DEF WriteResults, Failed, WorkerInv, TypeOK
<1>5. \A d \in Conns \ {c} : reply'[d] = reply[d]
  BY <1>3 DEF WorkerInv, TypeOK
<1> QED
  BY <1>1, <1>2, <1>3, <1>4, <1>5, CloseEvents

\* server_make closes on an error the peer caused.
LEMMA HandleErrorEvents ==
  ASSUME WorkerInv, EventInv, NEW w \in Workers, NEW c \in Conns,
         HandleError(w, c)
  PROVE  EventInv'
<1>1. /\ st[c] = "open" /\ own[c] = w
      /\ evs' = [evs EXCEPT ![w][c] = {}]
  BY EventOpen DEF HandleError
<1>2. /\ UNCHANGED <<cur, own, want, inbox, peer, reply>>
      /\ handle_close(w, c, sd, table[w])
  BY DEF HandleError, netVars
<1>3. peer'[c] # "open"
  BY <1>2 DEF HandleError, ConnEvent, EventInv, EventsSound, Failed
<1> QED
  BY <1>1, <1>2, <1>3, CloseEvents

\* event_http_reverse works for connections to the proxy only.
LEMMA event_http_reverseEvents ==
  ASSUME WorkerInv, EventInv, NEW w \in Workers, NEW c \in Conns,
         event_http_reverse(w, c)
  PROVE  EventInv'
<1>1. /\ st[c] = "open" /\ own[c] = w
      /\ evs' = [evs EXCEPT ![w][c] = {}]
  BY EventOpen DEF event_http_reverse
<1>2. /\ UNCHANGED <<own, want, reply>> /\ want[c] = "IN"
      /\ Type(c) = "HTTP_PROXY"
  BY DEF event_http_reverse, ConnEvent, EventInv, EventsSound
<1>3. CASE ReadResult(c, ProxyBuf) = "zero"
  <2>1. handle_close(w, c, sd, table[w]) /\ UNCHANGED <<cur, inbox, peer>>
    BY <1>3 DEF event_http_reverse, netVars
  <2> QED
    BY <1>1, <1>2, <2>1, CloseEvents
<1>4. CASE ReadResult(c, ProxyBuf) # "zero"
  <2>1. /\ Drained(c) /\ UNCHANGED <<st, ready>>
        /\ UNCHANGED cur \/ cur' = [cur EXCEPT ![w] = c]
    BY <1>4 DEF event_http_reverse
  <2>2. (peer[c] = "open" /\ UNCHANGED peer) \/ ErrorReported(c)
    BY <1>4, ReadFacts DEF event_http_reverse, WorkerInv
  <2> QED
    BY <1>1, <1>2, <2>1, <2>2, KeptEvents
<1> QED
  BY <1>3, <1>4

\* A back end that cannot be reached leaves the connection as it was, drained.
LEMMA BackendRefusesEvents ==
  ASSUME WorkerInv, EventInv, NEW w \in Workers, BackendRefuses(w)
  PROVE  EventInv'
<1>1. /\ UNCHANGED <<ready, evs, st, own, want, inbox, peer, reply>>
      /\ cur' = [cur EXCEPT ![w] = None]
  BY DEF BackendRefuses, FromBackend, epollVars, netVars
<1>2. EventsSound'
  BY <1>1, NoneAssumption
  DEF EventInv, EventsSound, Failed, Type, WorkerInv, TypeOK
<1> QED
  BY <1>1, <1>2 DEF EventInv, NoLostEdge, AnsweredUnlessFull, Type

\* The answer of a back end closes a connection to the proxy; when it cannot
\* be written, the error has been reported.
LEMMA BackendAnswersEvents ==
  ASSUME WorkerInv, EventInv, NEW w \in Workers,
         BackendAnswers(w) \/ BackendCloses(w)
  PROVE  EventInv'
<1> DEFINE c == cur[w]
<1>1. /\ c \in Conns /\ cur[w] = c /\ st[c] = "open" /\ own[c] = w
      /\ cur' = [cur EXCEPT ![w] = None] /\ Type(c) = "HTTP_PROXY"
  BY DEF BackendAnswers, BackendCloses, FromBackend, WorkerInv,
         BackendHasConn, NoStaleRequest, EventInv, EventsSound
<1>2. UNCHANGED <<evs, own, want, inbox>>
  BY DEF BackendAnswers, BackendCloses, netVars
<1>3. CASE handle_close(w, c, sd, Closed(w))
  <2>1. UNCHANGED peer \/ ErrorReported(c)
    BY DEF BackendAnswers, BackendCloses, netVars
  <2>2. \A d \in Conns \ {c} : reply'[d] = reply[d]
    BY <1>1 DEF BackendAnswers, BackendCloses, WorkerInv, TypeOK
  <2> HIDE DEF c
  <2> QED
    BY <1>1, <1>2, <1>3, <2>1, <2>2, CloseEvents
<1>4. CASE ~ handle_close(w, c, sd, Closed(w))
  <2>1. /\ UNCHANGED <<st, ready, reply>>
        /\ peer' = [peer EXCEPT ![c] = "dead"]
    BY <1>4 DEF BackendAnswers, BackendCloses, ErrorReported
  <2>2. \A v \in Workers, d \in Conns : cur'[v] = d => cur[v] = d
    BY <1>1, NoneAssumption DEF WorkerInv, TypeOK
  <2> HIDE DEF c
  <2>3. EventsSound'
    BY <1>1, <1>2, <2>1, <2>2
    DEF EventInv, EventsSound, Failed, Type, WorkerInv, TypeOK
  <2>4. NoLostEdge'
    BY <1>1, <1>2, <2>1 DEF EventInv, NoLostEdge, WorkerInv, TypeOK
  <2>5. AnsweredUnlessFull'
    BY <1>1, <1>2, <2>1
    DEF EventInv, AnsweredUnlessFull, Type, WorkerInv, TypeOK
  <2> QED
    BY <2>3, <2>4, <2>5 DEF EventInv
<1> QED
  BY <1>3, <1>4

\* The events of a worker that dies are those of connections that end with it.
LEMMA DiesEvents ==
  ASSUME WorkerInv, EventInv, NEW w \in Workers, Dies(w)
  PROVE  EventInv'
<1>1. /\ ready' = [ready EXCEPT ![w] = {}]
      /\ evs' = [evs EXCEPT ![w] = NoEvents]
      /\ cur' = [cur EXCEPT ![w] = None]
      /\ UNCHANGED <<want, inbox, peer>>
  BY CrashInHandler DEF Dies, Crash, CrashAccepting, Die, netVars
<1>2. \A d \in Conns : st'[d] = "open" => /\ st[d] = "open" /\ own[d] # w
                                          /\ own'[d] = own[d]
  <2>1. CASE st' = [d \in Conns |-> Gone(w, d)] /\ UNCHANGED own
    BY <2>1 DEF Gone, Holds, WorkerInv, TypeOK
  <2>2. CASE \E c \in Conns : CrashAccepting(w, c)
    BY <2>2 DEF CrashAccepting, Accepting, Waiting, Gone, Holds, WorkerInv,
                TypeOK
  <2> QED
    BY <2>1, <2>2, CrashInHandler DEF Dies, Crash
<1>3. \A d \in Conns : st'[d] = "closed" => /\ st[d] = "closed"
                                            /\ reply'[d] = reply[d]
  <2>1. CASE Crash(w)
    BY <2>1 DEF Crash, Gone, Holds, WorkerInv, TypeOK
  <2>2. ASSUME NEW c \in Conns, CrashAccepting(w, c)
        PROVE  \A d \in Conns : st'[d] = "closed"
                 => st[d] = "closed" /\ reply'[d] = reply[d]
    BY <2>2 DEF CrashAccepting, Gone, Holds, WorkerInv, TypeOK
  <2>3. CASE \/ CrashProxying(w)
             \/ \E c \in Conns : CrashReading(w, c) \/ CrashAnswering(w, c)
    <3>1. /\ st' = [d \in Conns |-> Gone(w, d)]
          /\ \/ UNCHANGED reply
             \/ \E c \in Conns :
                  /\ st[c] = "open" /\ own[c] = w
                  /\ \E r \in WriteResults(c) :
                       reply' = [reply EXCEPT ![c] = r]
      BY <2>3, CrashInHandler
    <3> QED
      BY <3>1 DEF Gone, Holds, WorkerInv, TypeOK
  <2> QED
    BY <2>1, <2>2, <2>3 DEF Dies
<1>4. EventsSound'
  BY <1>1, NoneAssumption
  DEF EventInv, EventsSound, NoEvents, Failed, Type, WorkerInv, TypeOK
<1>5. NoLostEdge'
  BY <1>1, <1>2 DEF EventInv, NoLostEdge, WorkerInv, TypeOK
<1>6. AnsweredUnlessFull'
  BY <1>1, <1>3 DEF EventInv, AnsweredUnlessFull, Type
<1> QED
  BY <1>4, <1>5, <1>6 DEF EventInv

\* Every step keeps the invariant.
LEMMA StepEvents == WorkerInv /\ EventInv /\ [Next]_vars => EventInv'
<1> SUFFICES ASSUME WorkerInv, EventInv, [Next]_vars PROVE EventInv'
  OBVIOUS
<1>1. CASE UNCHANGED vars
  BY <1>1, QuietEvents DEF vars
<1>2. ASSUME NEW c \in Conns, Network(c) PROVE EventInv'
  BY <1>2, ConnectEvents, SendEvents, PeerDoesEvents
  DEF Network, Fin, Rst, NetErr
<1>3. ASSUME NEW w \in Workers, WorkerStep(w) PROVE EventInv'
  <2>1. ASSUME NEW k \in Listeners, handle_accept(w, k) PROVE EventInv'
    BY <2>1, QuietEvents DEF handle_accept, netVars
  <2>2. ASSUME AcceptStops(w) PROVE EventInv'
    BY <2>2, QuietEvents DEF AcceptStops, epollVars, netVars
  <2> QED
    BY <1>3, <2>1, <2>2, EpollWaitEvents, AcceptConnEvents,
       AcceptFailsEvents, event_http_readEvents, event_http_writeEvents,
       event_http_reverseEvents, HandleErrorEvents
    DEF WorkerStep
<1>4. ASSUME NEW w \in Workers, Backend(w) PROVE EventInv'
  BY <1>4, BackendRefusesEvents, BackendAnswersEvents DEF Backend
<1>5. ASSUME NEW w \in Workers, Restart(w) PROVE EventInv'
  BY <1>5, QuietEvents DEF Restart, netVars
<1> QED
  BY <1>1, <1>2, <1>3, <1>4, <1>5, DiesEvents DEF Next

\* The two invariants together hold in every state of every behaviour.
THEOREM EventInvariance == Spec => [](WorkerInv /\ EventInv)
<1>1. Init => WorkerInv /\ EventInv
  BY InitInv, InitEvents
<1>2. (WorkerInv /\ EventInv) /\ [Next]_vars => (WorkerInv /\ EventInv)'
  BY StepInv, StepEvents
<1> QED
  BY <1>1, <1>2, PTL DEF Spec

\* Edge-triggered delivery loses nothing: what arrives while the handlers run,
\* in whatever order, still has an event in the worker of its connection.
THEOREM EdgesDelivered == Spec => []NoLostEdge
<1>1. EventInv => NoLostEdge
  BY DEF EventInv
<1> QED
  BY <1>1, EventInvariance, PTL

\* A connection to the HTTP port that the server closes on a client that holds
\* it open has been answered, unless the request filled read_buf.
THEOREM AnsweredHttp == Spec => []AnsweredUnlessFull
<1>1. EventInv => AnsweredUnlessFull
  BY DEF EventInv
<1> QED
  BY <1>1, EventInvariance, PTL

-----------------------------------------------------------------------------
(* The queues of the listeners.                                             *)

\* accept() finds a descriptor whenever a connection waits: it fails with
\* EAGAIN only.
RoomToAccept ==
  \A w \in Workers :
    pc[w] = "accept" /\ Waiting(lis[w]) # {} => FreeFds(w) # {}

\* No connection waits when the workers start.
LEMMA InitAccept == Init => NoLostAccept
BY DEF Init, NoLostAccept

\* Connections leave the queues; a step that takes no event, keeps the accept
\* loops going and starts no worker loses nothing.
LEMMA QuietAccept ==
  ASSUME NoLostAccept, UNCHANGED <<lisReady, lisEvs, lis>>,
         \A w \in Workers : \/ pc'[w] = pc[w] \/ pc'[w] = "down"
                            \/ pc[w] \notin {"accept", "down"},
         \A c \in Conns : st'[c] = "backlog" => st[c] = "backlog"
  PROVE  NoLostAccept'
BY DEF NoLostAccept, Live, Type

\* A new connection is an edge for every worker that runs.
LEMMA ConnectAccept ==
  ASSUME TypeOK, NoLostAccept, NEW c \in Conns, Connect(c)
  PROVE  NoLostAccept'
<1>1. /\ UNCHANGED <<pc, lis, lisEvs>> /\ st' = [st EXCEPT ![c] = "backlog"]
      /\ \A w \in Workers :
           /\ lisReady[w] \subseteq lisReady'[w]
           /\ Live(w) => Port[c] \in lisReady'[w]
  BY ListenerAssumption DEF Connect, procVars, TypeOK
<1> QED
  BY <1>1 DEF NoLostAccept, Live, Type, TypeOK

\* epoll_wait passes on every listener with a connection, and drops the rest.
LEMMA EpollWaitAccept ==
  ASSUME TypeOK, NoLostAccept, NEW w \in Workers, EpollWait(w)
  PROVE  NoLostAccept'
<1>1. /\ UNCHANGED <<pc, lis, st>> /\ pc[w] = "loop" /\ lisEvs[w] = {}
      /\ lisEvs' = [lisEvs EXCEPT ![w] = {k \in lisReady[w] : Waiting(k) # {}}]
      /\ lisReady' = [lisReady EXCEPT ![w] = {}]
  BY DEF EpollWait, procVars
<1>2. SUFFICES ASSUME NEW c \in Conns, st[c] = "backlog",
                      Type(c) # "TCP_PROXY", NEW v \in Workers, Live(v)
               PROVE  \/ Port[c] \in lisReady'[v] \cup lisEvs'[v]
                      \/ pc[v] = "accept" /\ lis[v] = Port[c]
  BY <1>1 DEF NoLostAccept, Live, Type
<1>3. \/ Port[c] \in lisReady[v] \cup lisEvs[v]
      \/ pc[v] = "accept" /\ lis[v] = Port[c]
  BY <1>2 DEF NoLostAccept
<1>4. Waiting(Port[c]) # {}
  BY <1>2 DEF Waiting
<1> QED
  BY <1>1, <1>3, <1>4 DEF TypeOK

\* handle_accept enters the accept loop of the listener it takes the event of.
LEMMA handle_acceptAccept ==
  ASSUME TypeOK, NoLostAccept, NEW w \in Workers, NEW k \in Listeners,
         handle_accept(w, k)
  PROVE  NoLostAccept'
<1>1. /\ pc[w] = "loop" /\ UNCHANGED <<lisReady, st>>
      /\ lisEvs' = [lisEvs EXCEPT ![w] = @ \ {k}]
  BY DEF handle_accept
<1>2. CASE LisType[k] = "TCP_PROXY"
  <2>1. UNCHANGED <<pc, lis>>
    BY <1>2 DEF handle_accept
  <2> QED
    BY <1>1, <1>2, <2>1 DEF NoLostAccept, Live, Type, TypeOK
<1>3. CASE LisType[k] # "TCP_PROXY"
  <2>1. pc' = [pc EXCEPT ![w] = "accept"] /\ lis' = [lis EXCEPT ![w] = k]
    BY <1>3 DEF handle_accept
  <2> QED
    BY <1>1, <2>1 DEF NoLostAccept, Live, Type, TypeOK
<1> QED
  BY <1>2, <1>3

\* The accept loop ends when no connection waits any more.
LEMMA AcceptStopsAccept ==
  ASSUME TypeOK, NoLostAccept, RoomToAccept, "accept" \notin Faults,
         NEW w \in Workers, AcceptStops(w)
  PROVE  NoLostAccept'
<1>1. /\ pc[w] = "accept" /\ pc' = [pc EXCEPT ![w] = "loop"]
      /\ UNCHANGED <<lis, lisReady, lisEvs, st>>
  BY DEF AcceptStops, epollVars
<1>2. Waiting(lis[w]) = {}
  BY <1>1 DEF AcceptStops, RoomToAccept
<1>3. \A c \in Conns : st[c] = "backlog" => lis[w] # Port[c]
  BY <1>2 DEF Waiting
<1> QED
  BY <1>1, <1>3 DEF NoLostAccept, Live, Type, TypeOK

\* A worker that starts finds every listener where a connection waits ready.
LEMMA RestartAccept ==
  ASSUME TypeOK, NoLostAccept, NEW w \in Workers, Restart(w)
  PROVE  NoLostAccept'
<1>1. /\ pc' = [pc EXCEPT ![w] = "loop"] /\ UNCHANGED <<lis, lisEvs, st>>
      /\ lisReady' = [lisReady EXCEPT ![w] =
                        {k \in Listeners : Waiting(k) # {}}]
  BY DEF Restart
<1>2. \A c \in Conns : st[c] = "backlog"
                         => Port[c] \in {k \in Listeners : Waiting(k) # {}}
  BY ListenerAssumption DEF Waiting
<1> QED
  BY <1>1, <1>2 DEF NoLostAccept, Live, Type, TypeOK

\* The steps of a worker for its connections and those of the back ends.
LEMMA ConnAccept ==
  ASSUME WorkerInv, NoLostAccept, "nonblock" \notin Faults,
         NEW w \in Workers, NEW c \in Conns,
         \/ AcceptConn(w, c) \/ AcceptAddFails(w, c)
         \/ AcceptNonblockFails(w, c) \/ event_http_read(w, c)
         \/ event_http_write(w, c) \/ event_http_reverse(w, c)
         \/ HandleError(w, c) \/ Backend(w)
  PROVE  NoLostAccept'
<1>1. UNCHANGED <<lisReady, lisEvs, lis>>
  BY DEF AcceptConn, AcceptAddFails, AcceptNonblockFails, event_http_read,
         event_http_write, event_http_reverse, HandleError, Backend,
         BackendRefuses, BackendAnswers, BackendCloses, procVars, epollVars
<1>2. \A v \in Workers : \/ pc'[v] = pc[v]
                         \/ pc[v] \notin {"accept", "down"}
  BY DEF AcceptConn, AcceptAddFails, AcceptNonblockFails, event_http_read,
         event_http_write, event_http_reverse, ConnEvent, HandleError,
         Backend, BackendRefuses, BackendAnswers, BackendCloses, FromBackend,
         procVars, WorkerInv, TypeOK
<1>3. \A d \in Conns : st'[d] = "backlog" => st[d] = "backlog"
  <2>1. \/ UNCHANGED st
        \/ \E d \in Conns, x \in {"open", "lost", "stray", "closed"} :
             st' = [st EXCEPT ![d] = x]
    BY DEF AcceptConn, AcceptAddFails, AcceptNonblockFails, event_http_read,
           event_http_write, event_http_reverse, HandleError, handle_close,
           Backend, BackendRefuses, BackendAnswers, BackendCloses,
           FromBackend, WorkerInv, BackendHasConn
  <2> QED
    BY <2>1 DEF WorkerInv, TypeOK
<1> QED
  BY <1>1, <1>2, <1>3, QuietAccept

\* A worker that dies no longer has to have an event; the others keep theirs.
LEMMA DiesAccept ==
  ASSUME WorkerInv, NoLostAccept, NEW w \in Workers, Dies(w)
  PROVE  NoLostAccept'
<1>1. /\ pc' = [pc EXCEPT ![w] = "down"] /\ UNCHANGED lis
      /\ lisReady' = [lisReady EXCEPT ![w] = {}]
      /\ lisEvs' = [lisEvs EXCEPT ![w] = {}]
  BY CrashInHandler DEF Dies, Crash, CrashAccepting, Die
<1>2. \A d \in Conns : st'[d] = "backlog" => st[d] = "backlog"
  <2>1. \/ st' = [d \in Conns |-> Gone(w, d)]
        \/ \E c \in Conns : CrashAccepting(w, c)
    BY CrashInHandler DEF Dies, Crash
  <2> QED
    BY <2>1 DEF CrashAccepting, Gone, WorkerInv, TypeOK
<1> QED
  BY <1>1, <1>2 DEF NoLostAccept, Live, Type, WorkerInv, TypeOK

\* Every step keeps the events of the listeners.
LEMMA StepAccept ==
  ASSUME "accept" \notin Faults, "nonblock" \notin Faults
  PROVE  WorkerInv /\ NoLostAccept /\ RoomToAccept /\ [Next]_vars
           => NoLostAccept'
<1> SUFFICES ASSUME WorkerInv, NoLostAccept, RoomToAccept, [Next]_vars
             PROVE  NoLostAccept'
  OBVIOUS
<1>1. TypeOK
  BY DEF WorkerInv
<1>2. CASE UNCHANGED vars
  BY <1>2, QuietAccept DEF vars
<1>3. ASSUME NEW c \in Conns, Network(c) PROVE NoLostAccept'
  <2>1. CASE Connect(c)
    BY <1>1, <2>1, ConnectAccept
  <2>2. CASE ~ Connect(c)
    <3>1. UNCHANGED <<pc, lis, lisReady, lisEvs, st>>
      BY <1>3, <2>2
      DEF Network, Send, Fin, Rst, NetErr, PeerDoes, procVars
    <3> QED
      BY <3>1, QuietAccept
  <2> QED
    BY <2>1, <2>2
<1>4. ASSUME NEW w \in Workers, WorkerStep(w) PROVE NoLostAccept'
  BY <1>1, <1>4, EpollWaitAccept, handle_acceptAccept, AcceptStopsAccept,
     ConnAccept
  DEF WorkerStep
<1>5. ASSUME NEW w \in Workers, Backend(w) PROVE NoLostAccept'
  <2>1. PICK c \in Conns : c = cur[w]
    BY <1>5 DEF Backend, BackendRefuses, BackendAnswers, BackendCloses,
                FromBackend, WorkerInv, BackendHasConn
  <2> QED
    BY <1>5, ConnAccept
<1> QED
  BY <1>1, <1>2, <1>3, <1>4, <1>5, DiesAccept, RestartAccept DEF Next

\* No connection is forgotten in a listener's queue while accept() fails with
\* EAGAIN only: every worker that runs still has an event for it.
THEOREM AcceptsDelivered ==
  ASSUME "accept" \notin Faults, "nonblock" \notin Faults
  PROVE  Spec /\ []RoomToAccept => []NoLostAccept
<1>1. Init => NoLostAccept
  BY InitAccept
<1>2. WorkerInv /\ NoLostAccept /\ RoomToAccept /\ [Next]_vars
        => NoLostAccept'
  BY StepAccept
<1> QED
  BY <1>1, <1>2, WorkerInvariance, PTL DEF Spec

\* A connection in a queue holds no descriptor, so the others cannot hold more
\* than RLIMIT_NOFILE leaves when it leaves one for each of them and none has
\* been forgotten.
LEMMA EnoughDescriptors ==
  ASSUME FdInvs, \A w \in Workers : refused[w] = 0,
         \A c \in Conns : st[c] # "stray",
         MaxFd >= StdFds + LisNum + Cardinality(Conns)
  PROVE  RoomToAccept
<1>1. SUFFICES ASSUME NEW w \in Workers, pc[w] = "accept",
                      NEW c \in Waiting(lis[w]), FreeFds(w) = {}
               PROVE  FALSE
  BY DEF RoomToAccept
<1> DEFINE Fds == StdFds + LisNum + 1 .. MaxFd
           Others == Conns \ {c}
           f == [n \in Fds |-> CHOOSE d \in Others : fd[d] = n]
<1>2. c \in Conns /\ st[c] = "backlog"
  BY DEF Waiting
<1>3. /\ IsFiniteSet(Others)
      /\ Cardinality(Others) = Cardinality(Conns) - 1
      /\ Cardinality(Conns) \in Nat
  BY <1>2, FiniteAssumption, FS_RemoveElement, FS_CardinalityType
<1>4. Cardinality(Others) \in Nat
  BY <1>3, FS_CardinalityType
<1>5. IsFiniteSet(Fds) /\ Cardinality(Fds) >= Cardinality(Conns)
  <2>1. StdFds + LisNum + 1 \in Int /\ MaxFd \in Int
    BY SizeAssumption
  <2>2. /\ IsFiniteSet(Fds)
        /\ Cardinality(Fds) = IF StdFds + LisNum + 1 > MaxFd THEN 0
                              ELSE MaxFd - (StdFds + LisNum + 1) + 1
    BY <2>1, FS_Interval
  <2> HIDE DEF Fds, Others
  <2> QED
    BY <1>3, <1>4, <2>2, SizeAssumption
<1>6. \A n \in Fds : \E d \in Others : fd[d] = n
  <2>1. Fds \subseteq table[w] /\ Fds \cap SetUp = {}
    BY <1>1, SizeAssumption DEF FreeFds, SetUp
  <2>2. Strays(w) = {} /\ Cardinality({}) = 0
    BY FS_EmptySet DEF Strays
  <2>3. IsFiniteSet(Forgotten(w)) /\ Cardinality(Forgotten(w)) = 0
    BY <1>1, <2>2 DEF FdInvs, FdInv, Live
  <2>4. Forgotten(w) = {}
    BY <2>3, FS_EmptySet
  <2>5. Referenced(w) = SetUp \cup {fd[d] : d \in {e \in Conns : Open(w, e)}}
    BY <1>1 DEF Referenced
  <2>6. ~ Open(w, c)
    BY <1>2 DEF Open
  <2> HIDE DEF Fds
  <2> QED
    BY <2>1, <2>4, <2>5, <2>6 DEF Forgotten
<1>7. \A n \in Fds : f[n] \in Others /\ fd[f[n]] = n
  <2> HIDE DEF Fds, Others
  <2> QED
    BY <1>6
<1>8. f \in [Fds -> Others]
  <2> HIDE DEF Fds, Others
  <2> QED
    BY <1>7
<1>9. \E x, y \in Fds : x # y /\ f[x] = f[y]
  <2> HIDE DEF Fds, Others, f
  <2>1. Cardinality(Fds) \in Nat
    BY <1>5, FS_CardinalityType
  <2>2. Cardinality(Others) < Cardinality(Fds)
    BY <1>3, <1>5, <2>1
  <2> QED
    BY <1>3, <1>5, <1>8, <2>2, FS_PigeonHole
<1> QED
  <2> HIDE DEF Fds, Others, f
  <2> QED
    BY <1>7, <1>9

\* No back end has refused a worker, and set_non_blocking has not failed.
Faultless == /\ \A w \in Workers : refused[w] = 0
             /\ \A c \in Conns : st[c] # "stray"

\* It is so for good when these calls do not fail.
LEMMA NothingForgotten ==
  ASSUME "connect" \notin Faults, "nonblock" \notin Faults
  PROVE  Spec => []Faultless
<1>1. Init => Faultless
  BY DEF Init, Faultless
<1>2. WorkerInv /\ Faultless /\ [Next]_vars => Faultless'
  <2> SUFFICES ASSUME WorkerInv, Faultless, [Next]_vars PROVE Faultless'
    OBVIOUS
  <2>1. \A w \in Workers : refused'[w] = 0
    <3>1. ASSUME NEW w \in Workers, Dies(w) PROVE Die(w)
      BY <3>1, CrashInHandler DEF Dies, Crash, CrashAccepting
    <3>2. ASSUME NEW w \in Workers, Dies(w)
          PROVE  refused' = [refused EXCEPT ![w] = 0]
      BY <3>1, <3>2 DEF Die
    <3>3. ASSUME NEW w \in Workers, WorkerStep(w) \/ Backend(w) \/ Restart(w)
          PROVE  UNCHANGED refused
      BY <3>3
      DEF WorkerStep, EpollWait, handle_accept, AcceptConn, AcceptAddFails,
          AcceptNonblockFails, event_http_read, event_http_write,
          event_http_reverse, HandleError, AcceptStops, Backend,
          BackendRefuses, BackendAnswers, BackendCloses, Restart, procVars
    <3>4. ASSUME NEW c \in Conns, Network(c) PROVE UNCHANGED refused
      BY <3>4
      DEF Network, Connect, Send, Fin, Rst, NetErr, PeerDoes, procVars
    <3>5. refused \in [Workers -> Nat]
      BY DEF WorkerInv, TypeOK
    <3> QED
      BY <3>2, <3>3, <3>4, <3>5 DEF Next, vars, Faultless
  <2>2. \A c \in Conns : st'[c] # "stray"
    <3>1. ASSUME NEW c \in Conns, Arrives(c) \/ Ends(c) PROVE \A d \in Conns :
                                                               st'[d] # "stray"
      BY <3>1 DEF Arrives, Ends, Faultless, WorkerInv, TypeOK
    <3>2. ASSUME NEW w \in Workers, Falls(w)
          PROVE  \A d \in Conns : st'[d] # "stray"
      BY <3>2 DEF Falls, Gone, Holds, Faultless
    <3>3. ASSUME NEW w \in Workers, NEW c \in Conns,
                 AcceptConn(w, c) \/ AcceptAddFails(w, c)
          PROVE  \A d \in Conns : st'[d] # "stray"
      BY <3>3 DEF AcceptConn, AcceptAddFails, Faultless, WorkerInv, TypeOK
    <3>4. ASSUME NEW w \in Workers, NEW c \in Conns, AcceptNonblockFails(w, c)
          PROVE  FALSE
      BY <3>4 DEF AcceptNonblockFails
    <3>5. ASSUME NEW c \in Conns, Network(c)
          PROVE  \A d \in Conns : st'[d] # "stray"
      BY <3>1, <3>5, NetworkKinds DEF Nothing, Faultless
    <3>6. ASSUME NEW w \in Workers, WorkerStep(w)
          PROVE  \A d \in Conns : st'[d] # "stray"
      <4>1. CASE \/ EpollWait(w) \/ AcceptStops(w)
                 \/ \E k \in Listeners : handle_accept(w, k)
        BY <4>1 DEF EpollWait, AcceptStops, handle_accept, Faultless
      <4> QED
        BY <3>1, <3>3, <3>4, <3>6, <4>1, HandlerKinds
        DEF WorkerStep, Nothing, Faultless
    <3>7. ASSUME NEW w \in Workers, Backend(w)
          PROVE  \A d \in Conns : st'[d] # "stray"
      BY <3>1, <3>7, BackendKinds DEF Nothing, Faultless
    <3>8. ASSUME NEW w \in Workers, Dies(w)
          PROVE  \A d \in Conns : st'[d] # "stray"
      BY <3>2, <3>8, DeathKinds
    <3>9. ASSUME NEW w \in Workers, Restart(w)
          PROVE  \A d \in Conns : st'[d] # "stray"
      BY <3>9 DEF Restart, Faultless
    <3> QED
      BY <3>5, <3>6, <3>7, <3>8, <3>9 DEF Next, vars, Faultless
  <2> QED
    BY <2>1, <2>2 DEF Faultless
<1> QED
  BY <1>1, <1>2, WorkerInvariance, PTL DEF Spec

\* With a descriptor for every connection, back ends that can be reached and
\* no other failure of accept(), no connection is forgotten in a queue.
THEOREM AcceptsDeliveredWithRoom ==
  ASSUME Faults \cap {"accept", "nonblock", "connect"} = {},
         MaxFd >= StdFds + LisNum + Cardinality(Conns)
  PROVE  Spec => []NoLostAccept
<1>1. /\ "accept" \notin Faults /\ "nonblock" \notin Faults
      /\ "connect" \notin Faults
  OBVIOUS
<1>2. FdInvs /\ Faultless => RoomToAccept
  BY EnoughDescriptors DEF Faultless
<1>3. Spec /\ []RoomToAccept => []NoLostAccept
  BY <1>1, AcceptsDelivered
<1>4. Spec => []Faultless
  BY <1>1, NothingForgotten
<1> QED
  BY <1>2, <1>3, <1>4, FdInvariance, PTL

-----------------------------------------------------------------------------
(* The counters in the shared memory.                                       *)

\* The connections accept_num counts, those close_num counts, and those whose
\* request has been counted and whose answer has not been written.
Counted == {c \in Conns : st[c] \in {"open", "closed", "lost"}}
Ended == {c \in Conns : st[c] = "closed"}
Owed == {c \in Conns : st[c] = "open" /\ want[c] = "OUT"}

\* The connections that may have had a request counted.
Asked == {c \in Conns : \/ st[c] \in {"closed", "lost"}
                        \/ st[c] = "open" /\ want[c] = "OUT"}

\* Subsets of the connections have a size, and a smaller one has a smaller.
LEMMA SizeFacts ==
  /\ \A S \in SUBSET Conns : IsFiniteSet(S) /\ Cardinality(S) \in Nat
  /\ \A S \in SUBSET Conns :
       \A T \in SUBSET S : Cardinality(T) <= Cardinality(S)
  /\ \A S \in SUBSET Conns, c \in Conns :
       /\ Cardinality(S \cup {c})
            = IF c \in S THEN Cardinality(S) ELSE Cardinality(S) + 1
       /\ Cardinality(S \ {c})
            = IF c \in S THEN Cardinality(S) - 1 ELSE Cardinality(S)
<1>1. \A S \in SUBSET Conns : IsFiniteSet(S)
  BY FiniteAssumption, FS_Subset
<1>2. \A S \in SUBSET Conns : Cardinality(S) \in Nat
  BY <1>1, FS_CardinalityType
<1>3. \A S \in SUBSET Conns :
        \A T \in SUBSET S : Cardinality(T) <= Cardinality(S)
  BY <1>1, FS_Subset
<1>4. \A S \in SUBSET Conns, c \in Conns :
        /\ Cardinality(S \cup {c})
             = IF c \in S THEN Cardinality(S) ELSE Cardinality(S) + 1
        /\ Cardinality(S \ {c})
             = IF c \in S THEN Cardinality(S) - 1 ELSE Cardinality(S)
  BY <1>1, FS_AddElement, FS_RemoveElement
<1> QED
  BY <1>1, <1>2, <1>3, <1>4

\* Accounting in terms of the four sets.
LEMMA AccountingSets ==
  Accounting <=> /\ sd.accept_num = Cardinality(Counted)
                 /\ sd.close_num = Cardinality(Ended)
                 /\ sd.write_num + Cardinality(Owed) <= sd.read_num
                 /\ sd.read_num <= Cardinality(Asked)
BY DEF Accounting, Counted, Ended, Owed, Asked

\* A step that counts no request, or that counts one of a connection that had
\* none, keeps read_num within what may have been counted.
LEMMA AskedStep ==
  ASSUME TypeOK, sd' \in Counters, sd.read_num <= Cardinality(Asked),
         Asked \subseteq Asked',
         \/ sd'.read_num = sd.read_num
         \/ /\ sd'.read_num = sd.read_num + 1
            /\ \E c \in Conns : c \notin Asked /\ c \in Asked'
  PROVE  sd'.read_num <= Cardinality(Asked')
<1>1. /\ Asked \in SUBSET Conns /\ Asked' \in SUBSET Conns
      /\ Asked \in SUBSET Asked'
  BY DEF Asked
<1>2. /\ Cardinality(Asked) <= Cardinality(Asked')
      /\ Cardinality(Asked) \in Nat /\ Cardinality(Asked') \in Nat
      /\ sd.read_num \in Nat
  BY <1>1, SizeFacts DEF TypeOK, Counters
<1>3. CASE sd'.read_num = sd.read_num
  BY <1>2, <1>3
<1>4. ASSUME sd'.read_num = sd.read_num + 1,
             NEW c \in Conns, c \notin Asked, c \in Asked'
      PROVE  sd'.read_num <= Cardinality(Asked')
  <2>1. Asked \cup {c} \in SUBSET Asked'
    BY <1>1, <1>4
  <2>2. Cardinality(Asked \cup {c}) <= Cardinality(Asked')
    BY <1>1, <2>1, SizeFacts
  <2>3. Cardinality(Asked \cup {c}) = Cardinality(Asked) + 1
    BY <1>1, <1>4, SizeFacts
  <2> QED
    BY <1>2, <1>4, <2>2, <2>3
<1> QED
  BY <1>3, <1>4

\* The counters one at a time.
LEMMA CounterFields ==
  ASSUME NEW s \in Counters
  PROVE  /\ s.accept_num \in Nat /\ s.read_num \in Nat
         /\ s.write_num \in Nat /\ s.close_num \in Nat
BY DEF Counters

\* A step that counts nothing, ends and accepts no connection, and forgets at
\* most a request (a worker died).
LEMMA NothingCounted ==
  ASSUME TypeOK, Accounting, UNCHANGED sd, Counted' = Counted, Ended' = Ended,
         Owed' \subseteq Owed, Asked \subseteq Asked'
  PROVE  Accounting'
<1>1. Owed \in SUBSET Conns /\ Owed' \in SUBSET Owed /\ Owed' \in SUBSET Conns
  BY DEF Owed
<1>2. Cardinality(Owed') <= Cardinality(Owed) /\ Cardinality(Owed) \in Nat
      /\ Cardinality(Owed') \in Nat
  BY <1>1, SizeFacts
<1>3. sd.write_num \in Nat /\ sd.read_num \in Nat
  BY CounterFields DEF TypeOK
<1>4. /\ sd'.accept_num = Cardinality(Counted')
      /\ sd'.close_num = Cardinality(Ended')
  BY AccountingSets
<1>5. sd'.write_num + Cardinality(Owed') <= sd'.read_num
  BY <1>2, <1>3, AccountingSets
<1>6. sd'.read_num <= Cardinality(Asked')
  BY AskedStep, AccountingSets DEF TypeOK
<1> QED
  BY <1>4, <1>5, <1>6 DEF Accounting, Counted, Ended, Owed, Asked

\* event_accept_http counts a connection that no one has counted.
LEMMA AcceptCounted ==
  ASSUME TypeOK, Accounting, NEW c \in Conns, CountAccept, c \notin Counted,
         Counted' = Counted \cup {c}, Ended' = Ended, Owed' \subseteq Owed,
         Asked \subseteq Asked'
  PROVE  Accounting'
<1>1. /\ Owed \in SUBSET Conns /\ Owed' \in SUBSET Owed
      /\ Owed' \in SUBSET Conns /\ Counted \in SUBSET Conns
  BY DEF Owed, Counted
<1>2. /\ Cardinality(Owed') <= Cardinality(Owed) /\ Cardinality(Owed) \in Nat
      /\ Cardinality(Owed') \in Nat
      /\ Cardinality(Counted \cup {c}) = Cardinality(Counted) + 1
  BY <1>1, SizeFacts
<1>3. sd.write_num \in Nat /\ sd.read_num \in Nat
  BY CounterFields DEF TypeOK
<1>4. /\ sd'.accept_num = sd.accept_num + 1 /\ sd'.close_num = sd.close_num
      /\ sd'.write_num = sd.write_num /\ sd'.read_num = sd.read_num
  BY DEF CountAccept, TypeOK, Counters
<1>5. /\ sd'.accept_num = Cardinality(Counted')
      /\ sd'.close_num = Cardinality(Ended')
  BY <1>2, <1>4, AccountingSets
<1>6. sd'.write_num + Cardinality(Owed') <= sd'.read_num
  BY <1>2, <1>3, <1>4, AccountingSets
<1>7. sd'.read_num <= Cardinality(Asked')
  BY <1>4, AskedStep, CountAcceptType, AccountingSets
<1> QED
  BY <1>5, <1>6, <1>7 DEF Accounting, Counted, Ended, Owed, Asked

\* event_http_read counts the request of a connection that had none, and starts
\* to owe an answer or dies.
LEMMA ReadCounted ==
  ASSUME TypeOK, Accounting, NEW c \in Conns, sd' = CountedRead,
         Counted' = Counted, Ended' = Ended, Owed' \subseteq Owed \cup {c},
         Asked \subseteq Asked', c \notin Asked, c \in Asked'
  PROVE  Accounting'
<1>1. /\ Owed \in SUBSET Conns /\ Owed' \in SUBSET Conns
      /\ Owed' \in SUBSET (Owed \cup {c}) /\ Owed \cup {c} \in SUBSET Conns
  BY DEF Owed
<1>2. /\ Cardinality(Owed') <= Cardinality(Owed \cup {c})
      /\ Cardinality(Owed) \in Nat /\ Cardinality(Owed') \in Nat
      /\ Cardinality(Owed \cup {c}) \in Nat
      /\ Cardinality(Owed \cup {c})
           = IF c \in Owed THEN Cardinality(Owed) ELSE Cardinality(Owed) + 1
  BY <1>1, SizeFacts
<1>3. sd.write_num \in Nat /\ sd.read_num \in Nat
  BY CounterFields DEF TypeOK
<1>4. /\ sd'.accept_num = sd.accept_num /\ sd'.close_num = sd.close_num
      /\ sd'.write_num = sd.write_num /\ sd'.read_num = sd.read_num + 1
  BY DEF CountedRead, TypeOK, Counters
<1>5. /\ sd'.accept_num = Cardinality(Counted')
      /\ sd'.close_num = Cardinality(Ended')
  BY <1>4, AccountingSets
<1>6. sd'.write_num + Cardinality(Owed') <= sd'.read_num
  BY <1>2, <1>3, <1>4, AccountingSets
<1>7. sd' \in Counters
  BY CountersUpdate DEF CountedRead, TypeOK
<1>8. sd'.read_num <= Cardinality(Asked')
  BY <1>4, <1>7, AskedStep, AccountingSets
<1> QED
  BY <1>5, <1>6, <1>8 DEF Accounting, Counted, Ended, Owed, Asked

\* handle_write counts the answer of a connection it owes one, and dies.
LEMMA WriteCounted ==
  ASSUME TypeOK, Accounting, NEW c \in Owed,
         sd' = [sd EXCEPT !.write_num = @ + 1],
         Counted' = Counted, Ended' = Ended, Owed' \subseteq Owed \ {c},
         Asked \subseteq Asked'
  PROVE  Accounting'
<1>1. /\ Owed \in SUBSET Conns /\ Owed' \in SUBSET Conns /\ c \in Conns
      /\ Owed \ {c} \in SUBSET Conns /\ Owed' \in SUBSET (Owed \ {c})
  BY DEF Owed
<1>2. /\ Cardinality(Owed') <= Cardinality(Owed \ {c})
      /\ Cardinality(Owed \ {c}) = Cardinality(Owed) - 1
      /\ Cardinality(Owed) \in Nat /\ Cardinality(Owed') \in Nat
  BY <1>1, SizeFacts
<1>3. sd.write_num \in Nat /\ sd.read_num \in Nat
  BY CounterFields DEF TypeOK
<1>4. /\ sd'.accept_num = sd.accept_num /\ sd'.close_num = sd.close_num
      /\ sd'.write_num = sd.write_num + 1 /\ sd'.read_num = sd.read_num
  BY DEF TypeOK, Counters
<1>5. /\ sd'.accept_num = Cardinality(Counted')
      /\ sd'.close_num = Cardinality(Ended')
  BY <1>4, AccountingSets
<1>6. sd'.write_num + Cardinality(Owed') <= sd'.read_num
  BY <1>2, <1>3, <1>4, AccountingSets
<1>7. sd' \in Counters
  BY CountersUpdate DEF TypeOK
<1>8. sd'.read_num <= Cardinality(Asked')
  BY <1>4, <1>7, AskedStep, AccountingSets
<1> QED
  BY <1>5, <1>6, <1>8 DEF Accounting, Counted, Ended, Owed, Asked

\* handle_close counts an open connection as closed.  Its caller has counted
\* nothing, a request, or the answer it owed.
LEMMA CloseCounted ==
  ASSUME TypeOK, Accounting, NEW w \in Workers, NEW c \in Conns, NEW t,
         NEW s \in {sd, CountedRead, [sd EXCEPT !.write_num = @ + 1]},
         s.write_num # sd.write_num => want[c] = "OUT",
         s.read_num # sd.read_num => want[c] = "IN",
         st[c] = "open", handle_close(w, c, s, t), UNCHANGED want
  PROVE  Accounting'
<1>1. /\ Counted \in SUBSET Conns /\ Ended \in SUBSET Conns
      /\ Owed \in SUBSET Conns
  BY DEF Counted, Ended, Owed
<1>2. st' = [st EXCEPT ![c] = "closed"] /\ sd' = [s EXCEPT !.close_num = @ + 1]
  BY DEF handle_close
<1>3. /\ Counted' = Counted /\ Ended' = Ended \cup {c} /\ c \notin Ended
      /\ Owed' = Owed \ {c} /\ (want[c] = "OUT" => c \in Owed)
  BY <1>2 DEF Counted, Ended, Owed, TypeOK
<1>4. /\ Cardinality(Ended') = Cardinality(Ended) + 1
      /\ Cardinality(Owed) \in Nat /\ Cardinality(Owed') \in Nat
      /\ Cardinality(Owed')
           = IF c \in Owed THEN Cardinality(Owed) - 1 ELSE Cardinality(Owed)
  BY <1>1, <1>3, SizeFacts
<1>5. sd.write_num \in Nat /\ sd.read_num \in Nat
  BY CounterFields DEF TypeOK
<1>6. /\ s \in Counters
      /\ s.accept_num = sd.accept_num /\ s.close_num = sd.close_num
      /\ \/ s.write_num = sd.write_num /\ s.read_num = sd.read_num
         \/ s.write_num = sd.write_num /\ s.read_num = sd.read_num + 1
         \/ s.write_num = sd.write_num + 1 /\ s.read_num = sd.read_num
  <2>1. sd \in Counters
    BY DEF TypeOK
  <2>2. CASE s = sd
    BY <2>1, <2>2
  <2>3. CASE s = CountedRead
    BY <2>1, <2>3 DEF CountedRead, Counters
  <2>4. CASE s = [sd EXCEPT !.write_num = @ + 1]
    BY <2>1, <2>4 DEF Counters
  <2> QED
    BY <2>2, <2>3, <2>4
<1>7. /\ sd'.accept_num = s.accept_num /\ sd'.close_num = s.close_num + 1
      /\ sd'.write_num = s.write_num /\ sd'.read_num = s.read_num
  BY <1>2, <1>6 DEF Counters
<1>8. /\ sd'.accept_num = Cardinality(Counted')
      /\ sd'.close_num = Cardinality(Ended')
  BY <1>3, <1>4, <1>6, <1>7, AccountingSets
<1>9. sd'.write_num + Cardinality(Owed') <= sd'.read_num
  BY <1>3, <1>4, <1>5, <1>6, <1>7, AccountingSets
<1>10. sd'.read_num <= Cardinality(Asked')
  <2>1. /\ Asked \subseteq Asked' /\ c \in Asked'
        /\ want[c] = "IN" => c \notin Asked
    BY <1>2 DEF Asked, TypeOK
  <2>2. sd' \in Counters
    BY <1>2, <1>6, CountersUpdate
  <2>3. \/ sd'.read_num = sd.read_num
        \/ sd'.read_num = sd.read_num + 1 /\ want[c] = "IN"
    BY <1>5, <1>6, <1>7
  <2> QED
    BY <2>1, <2>2, <2>3, AskedStep, AccountingSets
<1> QED
  BY <1>8, <1>9, <1>10 DEF Accounting, Counted, Ended, Owed, Asked

\* Nothing is counted when the workers start.
LEMMA InitAccounting == Init => Accounting
<1> SUFFICES ASSUME Init PROVE Accounting
  OBVIOUS
<1>1. Counted = {} /\ Ended = {} /\ Owed = {} /\ Asked = {}
  BY DEF Init, Counted, Ended, Owed, Asked
<1>2. /\ sd.accept_num = 0 /\ sd.close_num = 0 /\ sd.write_num = 0
      /\ sd.read_num = 0
  BY DEF Init
<1> QED
  BY <1>1, <1>2, FS_EmptySet, AccountingSets

\* The network counts nothing.
LEMMA NetworkAccounting ==
  ASSUME TypeOK, Accounting, NEW c \in Conns, Network(c)
  PROVE  Accounting'
<1>1. /\ UNCHANGED <<sd, want>>
      /\ UNCHANGED st \/ (st[c] = "idle" /\ st' = [st EXCEPT ![c] = "backlog"])
  BY DEF Network, Connect, Send, Fin, Rst, NetErr, PeerDoes, procVars, netVars
<1>2. Counted' = Counted /\ Ended' = Ended /\ Owed' = Owed /\ Asked' = Asked
  BY <1>1 DEF Counted, Ended, Owed, Asked, TypeOK
<1> QED
  BY <1>1, <1>2, NothingCounted

\* The accept loop counts each connection it keeps, or loses, once.
LEMMA AcceptAccounting ==
  ASSUME TypeOK, Accounting, NEW w \in Workers, NEW c \in Conns,
         \/ AcceptConn(w, c) \/ AcceptAddFails(w, c)
         \/ AcceptNonblockFails(w, c)
  PROVE  Accounting'
<1>1. st[c] = "backlog"
  BY DEF AcceptConn, AcceptAddFails, AcceptNonblockFails, Accepting, Waiting
<1>2. CASE AcceptConn(w, c)
  <2>1. /\ CountAccept /\ st' = [st EXCEPT ![c] = "open"]
        /\ want' = [want EXCEPT ![c] = "IN"]
    BY <1>2 DEF AcceptConn
  <2>2. /\ Counted' = Counted \cup {c} /\ c \notin Counted /\ Ended' = Ended
        /\ Owed' = Owed /\ Asked \subseteq Asked'
    BY <1>1, <2>1 DEF Counted, Ended, Owed, Asked, TypeOK
  <2> QED
    BY <2>1, <2>2, AcceptCounted
<1>3. CASE AcceptAddFails(w, c)
  <2>1. CountAccept /\ st' = [st EXCEPT ![c] = "lost"] /\ UNCHANGED want
    BY <1>3 DEF AcceptAddFails
  <2>2. /\ Counted' = Counted \cup {c} /\ c \notin Counted /\ Ended' = Ended
        /\ Owed' = Owed /\ Asked \subseteq Asked'
    BY <1>1, <2>1 DEF Counted, Ended, Owed, Asked, TypeOK
  <2> QED
    BY <2>1, <2>2, AcceptCounted
<1>4. CASE AcceptNonblockFails(w, c)
  <2>1. UNCHANGED <<sd, want>> /\ st' = [st EXCEPT ![c] = "stray"]
    BY <1>4 DEF AcceptNonblockFails
  <2>2. Counted' = Counted /\ Ended' = Ended /\ Owed' = Owed /\ Asked' = Asked
    BY <1>1, <2>1 DEF Counted, Ended, Owed, Asked, TypeOK
  <2> QED
    BY <2>1, <2>2, NothingCounted
<1> QED
  BY <1>2, <1>3, <1>4

\* A handler counts what it did for the connection of its event.
LEMMA HandlerAccounting ==
  ASSUME WorkerInv, EventInv, Accounting, NEW w \in Workers, NEW c \in Conns,
         \/ event_http_read(w, c) \/ event_http_write(w, c)
         \/ event_http_reverse(w, c) \/ HandleError(w, c)
  PROVE  Accounting'
<1>1. st[c] = "open" /\ TypeOK
  BY EventOpen DEF event_http_read, event_http_write, event_http_reverse,
                   HandleError, WorkerInv
<1>2. CASE event_http_read(w, c)
  <2>1. ReadResult(c, HttpBuf) \in {"zero", "reset", "error", "again"}
    BY <1>1, ReadFacts
  <2>2. want[c] = "IN"
    BY <1>2 DEF event_http_read, ConnEvent, EventInv, EventsSound
  <2>3. CASE ReadResult(c, HttpBuf) = "zero"
    <3>1. handle_close(w, c, sd, table[w]) /\ UNCHANGED want
      BY <1>2, <2>3 DEF event_http_read
    <3> QED
      BY <1>1, <3>1, CloseCounted
  <2>4. CASE ReadResult(c, HttpBuf) = "reset"
    <3>1. handle_close(w, c, CountedRead, table[w]) /\ UNCHANGED want
      BY <1>2, <2>4 DEF event_http_read
    <3>2. CountedRead.write_num = sd.write_num
      BY <1>1 DEF CountedRead, TypeOK, Counters
    <3> QED
      BY <1>1, <2>2, <3>1, <3>2, CloseCounted
  <2>5. CASE ReadResult(c, HttpBuf) = "error"
    <3>1. UNCHANGED <<st, sd, want>>
      BY <1>2, <2>5 DEF event_http_read
    <3> QED
      BY <1>1, <3>1, NothingCounted DEF Counted, Ended, Owed, Asked
  <2>6. CASE ReadResult(c, HttpBuf) = "again"
    <3>1. /\ UNCHANGED st /\ want' = [want EXCEPT ![c] = "OUT"]
          /\ sd' = CountedRead
      BY <1>2, <2>6 DEF event_http_read
    <3>2. /\ Counted' = Counted /\ Ended' = Ended
          /\ Owed' \subseteq Owed \cup {c}
          /\ Asked \subseteq Asked' /\ c \notin Asked /\ c \in Asked'
      BY <1>1, <2>2, <3>1 DEF Counted, Ended, Owed, Asked, TypeOK
    <3> QED
      BY <1>1, <3>1, <3>2, ReadCounted
  <2> QED
    BY <2>1, <2>3, <2>4, <2>5, <2>6
<1>3. CASE event_http_write(w, c)
  <2>1. want[c] = "OUT" /\ UNCHANGED want
    BY <1>3 DEF event_http_write, ConnEvent, EventInv, EventsSound
  <2>2. PICK s \in {sd, [sd EXCEPT !.write_num = @ + 1]} :
          handle_close(w, c, s, table[w])
    BY <1>3 DEF event_http_write, CountedWrite
  <2>3. s.read_num = sd.read_num
    BY <1>1 DEF TypeOK, Counters
  <2> QED
    BY <1>1, <2>1, <2>2, <2>3, CloseCounted
<1>4. CASE event_http_reverse(w, c)
  <2>1. /\ UNCHANGED want
        /\ handle_close(w, c, sd, table[w]) \/ UNCHANGED <<st, sd>>
    BY <1>4 DEF event_http_reverse
  <2> QED
    BY <1>1, <2>1, CloseCounted, NothingCounted
    DEF Counted, Ended, Owed, Asked
<1>5. CASE HandleError(w, c)
  <2>1. UNCHANGED want /\ handle_close(w, c, sd, table[w])
    BY <1>5 DEF HandleError
  <2> QED
    BY <1>1, <2>1, CloseCounted
<1> QED
  BY <1>2, <1>3, <1>4, <1>5

\* The proxy counts the connections it closes, and no requests.
LEMMA BackendAccounting ==
  ASSUME WorkerInv, Accounting, NEW w \in Workers, Backend(w)
  PROVE  Accounting'
<1>1. PICK c \in Conns : c = cur[w] /\ st[c] = "open"
  BY DEF Backend, BackendRefuses, BackendAnswers, BackendCloses, FromBackend,
         WorkerInv, BackendHasConn, NoStaleRequest
<1>2. /\ UNCHANGED want /\ TypeOK
      /\ handle_close(w, c, sd, Closed(w)) \/ UNCHANGED <<st, sd>>
  BY <1>1
  DEF Backend, BackendRefuses, BackendAnswers, BackendCloses, WorkerInv
<1>3. CASE handle_close(w, c, sd, Closed(w))
  BY <1>1, <1>2, <1>3, CloseCounted
<1>4. CASE UNCHANGED <<st, sd>>
  BY <1>2, <1>4, NothingCounted DEF Counted, Ended, Owed, Asked
<1> QED
  BY <1>2, <1>3, <1>4

\* Deaths take open connections to "lost": all of them stay counted, and what
\* they were owed is gone.
LEMMA GoneSets ==
  ASSUME TypeOK, NEW w \in Workers, st' = [d \in Conns |-> Gone(w, d)],
         UNCHANGED want
  PROVE  /\ Counted' = Counted /\ Ended' = Ended /\ Owed' \subseteq Owed
         /\ Asked \subseteq Asked'
         /\ \A c \in Conns : st[c] = "open" /\ own[c] = w
                               => c \notin Owed' /\ c \in Asked'
BY DEF Counted, Ended, Owed, Asked, Gone, Holds, TypeOK

\* So do deaths in the accept loop, which takes one more connection.
LEMMA GoneTakenSets ==
  ASSUME TypeOK, NEW w \in Workers, NEW c \in Conns, st[c] = "backlog",
         NEW x \in {"aborted", "lost"}, UNCHANGED want,
         st' = [d \in Conns |-> IF d = c THEN x ELSE Gone(w, d)]
  PROVE  /\ c \notin Counted /\ Ended' = Ended /\ Owed' \subseteq Owed
         /\ Counted' = IF x = "lost" THEN Counted \cup {c} ELSE Counted
         /\ Asked \subseteq Asked'
BY DEF Counted, Ended, Owed, Asked, Gone, Holds, TypeOK

\* What a worker that dies had counted stays counted, wherever it dies.
LEMMA DiesAccounting ==
  ASSUME WorkerInv, EventInv, Accounting, NEW w \in Workers, Dies(w)
  PROVE  Accounting'
<1>1. TypeOK /\ UNCHANGED want
  BY CrashInHandler DEF WorkerInv, Dies, Crash, CrashAccepting, Die
<1>2. CASE st' = [d \in Conns |-> Gone(w, d)] /\ UNCHANGED sd
  BY <1>1, <1>2, GoneSets, NothingCounted
<1>3. ASSUME NEW c \in Conns, CrashAccepting(w, c) PROVE Accounting'
  <2>1. st[c] = "backlog"
    BY <1>3 DEF CrashAccepting, Accepting, Waiting
  <2>2. CASE /\ st' = [d \in Conns |-> IF d = c THEN "aborted" ELSE Gone(w, d)]
             /\ UNCHANGED sd
    BY <1>1, <2>1, <2>2, GoneTakenSets, NothingCounted
  <2>3. CASE /\ st' = [d \in Conns |-> IF d = c THEN "lost" ELSE Gone(w, d)]
             /\ CountAccept
    BY <1>1, <2>1, <2>3, GoneTakenSets, AcceptCounted
  <2> QED
    BY <1>3, <2>2, <2>3 DEF CrashAccepting
<1>4. ASSUME NEW c \in Conns, CrashReading(w, c) PROVE Accounting'
  <2>1. /\ st[c] = "open" /\ own[c] = w /\ want[c] = "IN"
        /\ st' = [d \in Conns |-> Gone(w, d)] /\ sd' = CountedRead
    BY <1>4
    DEF CrashReading, WorkerInv, NoStaleRequest, EventInv, EventsSound
  <2>2. c \notin Asked /\ c \in Asked'
    BY <1>1, <2>1, GoneSets DEF Asked
  <2> QED
    BY <1>1, <2>1, <2>2, GoneSets, ReadCounted
<1>5. ASSUME NEW c \in Conns, CrashAnswering(w, c) PROVE Accounting'
  <2>1. /\ st[c] = "open" /\ own[c] = w /\ want[c] = "OUT"
        /\ st' = [d \in Conns |-> Gone(w, d)]
    BY <1>5
    DEF CrashAnswering, WorkerInv, NoStaleRequest, EventInv, EventsSound
  <2>2. UNCHANGED sd \/ sd' = [sd EXCEPT !.write_num = @ + 1]
    BY <1>5 DEF CrashAnswering, CountedWrite
  <2>3. c \in Owed /\ c \notin Owed'
    BY <1>1, <2>1, GoneSets DEF Owed
  <2> QED
    BY <1>1, <1>2, <2>1, <2>2, <2>3, GoneSets, WriteCounted
<1> QED
  BY <1>2, <1>3, <1>4, <1>5 DEF Dies, Crash, CrashProxying

\* Every step keeps the counters and the connections in agreement.
LEMMA StepAccounting ==
  WorkerInv /\ EventInv /\ Accounting /\ [Next]_vars => Accounting'
<1> SUFFICES ASSUME WorkerInv, EventInv, Accounting, [Next]_vars
             PROVE  Accounting'
  OBVIOUS
<1>1. TypeOK
  BY DEF WorkerInv
<1>2. ASSUME UNCHANGED <<st, sd, want>> PROVE Accounting'
  BY <1>2 DEF Accounting
<1>3. ASSUME NEW w \in Workers, WorkerStep(w) PROVE Accounting'
  <2>1. ASSUME \/ EpollWait(w) \/ AcceptStops(w)
               \/ \E k \in Listeners : handle_accept(w, k)
        PROVE  Accounting'
    BY <1>2, <2>1 DEF EpollWait, AcceptStops, handle_accept
  <2> QED
    BY <1>1, <1>3, <2>1, AcceptAccounting, HandlerAccounting DEF WorkerStep
<1>4. ASSUME NEW w \in Workers, Restart(w) PROVE Accounting'
  BY <1>2, <1>4 DEF Restart
<1>5. CASE UNCHANGED vars
  BY <1>2, <1>5 DEF vars
<1> QED
  BY <1>1, <1>3, <1>4, <1>5, NetworkAccounting, BackendAccounting,
     DiesAccounting
  DEF Next

\* Whatever the workers do at the same time, and wherever they die, the
\* shared counters agree with the connections.
THEOREM CountersAddUp == Spec => []Accounting
<1>1. Init => Accounting
  BY InitAccounting
<1>2. (WorkerInv /\ EventInv) /\ Accounting /\ [Next]_vars => Accounting'
  BY StepAccounting
<1> QED
  BY <1>1, <1>2, EventInvariance, PTL DEF Spec
=============================================================================
