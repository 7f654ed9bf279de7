-------------------------------- MODULE Https --------------------------------
(***************************************************************************)
(* The HTTPS and HTTPS_PROXY side of one worker: event_accept_https,       *)
(* handle_https_read_write and event_https_reverse (dm_events.c), called   *)
(* from server_make's loop.                                                *)
(*                                                                         *)
(* event_accept_https makes one req_t, with one SSL object, and uses it    *)
(* for every connection it accepts until the listening socket is drained.  *)
(* The model follows that object: which descriptor it was given last, and  *)
(* with which connection it made its handshake.  A connection stands for   *)
(* the client and for the descriptor accept() returned.                    *)
(***************************************************************************)
EXTENDS Naturals, FiniteSets

CONSTANTS
  Conns,
  None,        \* "no connection"
  MaxTries,    \* the limit of retryTimes (100)
  MaxOpen,     \* descriptors the worker can have for connections
  MaxRecords,  \* bound: records a client sends
  Faults       \* which of "nonblock", "add", "ssl", "err" happen

ASSUME HttpsAssumption ==
  /\ None \notin Conns /\ IsFiniteSet(Conns)
  /\ MaxTries \in Nat /\ MaxOpen \in Nat /\ MaxRecords \in Nat \ {0}

Calls == 0 .. Cardinality(Conns)

VARIABLES
  type,       \* lis_infs[k].type
  pc,         \* "loop", "accept", "handshake", "backend", "dead"
  edge,       \* the listening socket is on the ready list
  k,          \* calls of event_accept_https, and the req_t of the last one
  retryTimes,
  ended,      \* how the last call ended: "drained", "failed" or "full"
  sslFd,      \* the connection SSL_set_fd gave to req k's SSL object
  keyed,      \* the connection it made its handshake with
  freed,      \* the SSL objects that were freed
  cur,        \* the connection in its handshake, or for the back end the one
              \* whose request is forwarded
  leak,       \* sockets to the back end that client_socket forgot
  st,         \* "idle", "waiting", "open", "closed", and "stray": not
              \* registered and not closed
  call,       \* the call whose SSL object the connection was given to
  ready,      \* connections on the epoll instance's ready list
  inbox,      \* records that are not read
  fin,        \* connections the client has closed
  sent,       \* the records each client has sent
  answers     \* the answers to a request each client was sent

callVars == <<k, retryTimes, ended>>
sslVars == <<sslFd, keyed, freed>>
netVars == <<ready, inbox, fin, sent>>
vars == <<type, pc, edge, cur, leak, st, call, answers, k, retryTimes, ended,
          sslFd, keyed, freed, ready, inbox, fin, sent>>

Init ==
  /\ type \in {"HTTPS", "HTTPS_PROXY"}
  /\ pc = "loop" /\ edge = FALSE /\ k = 0 /\ retryTimes = 0
  /\ ended = "drained"
  /\ sslFd = [r \in Calls |-> None] /\ keyed = [r \in Calls |-> None]
  /\ freed = {} /\ cur = None /\ leak = 0
  /\ st = [c \in Conns |-> "idle"] /\ call = [c \in Conns |-> 0]
  /\ ready = {} /\ inbox = [c \in Conns |-> 0] /\ fin = {}
  /\ sent = [c \in Conns |-> 0] /\ answers = [c \in Conns |-> 0]

Waiting == {c \in Conns : st[c] = "waiting"}
Held == Cardinality({c \in Conns : st[c] \in {"open", "stray"}}) + leak
Becomes(c, s) == st' = [st EXCEPT ![c] = s]

\* epoll knows the connection: its handshake is over.
Registered(c) == st[c] = "open" /\ ~ (pc = "handshake" /\ c = cur)

-----------------------------------------------------------------------------
(* The clients.                                                             *)

Arrive(c) ==
  /\ st[c] = "idle"
  /\ Becomes(c, "waiting") /\ edge' = TRUE
  /\ UNCHANGED <<type, pc, cur, leak, call, answers, callVars, sslVars,
                 netVars>>

\* Only the client that made the handshake has a session to send requests in.
\* What arrives makes an edge, the end of a record or only its beginning.
Send(c) ==
  /\ st[c] = "open" /\ c \notin fin /\ c = keyed[call[c]]
  /\ sent[c] < MaxRecords
  /\ ready' = ready \cup {c}
  /\ \/ /\ sent' = [sent EXCEPT ![c] = @ + 1]
        /\ inbox' = [inbox EXCEPT ![c] = @ + 1]
     \/ UNCHANGED <<sent, inbox>>
  /\ UNCHANGED <<type, pc, edge, cur, leak, st, call, answers, callVars,
                 sslVars, fin>>

Hangup(c) ==
  /\ st[c] = "open" /\ c \notin fin
  /\ fin' = fin \cup {c}
  /\ ready' = IF Registered(c) THEN ready \cup {c} ELSE ready
  /\ UNCHANGED <<type, pc, edge, cur, leak, st, call, answers, callVars,
                 sslVars, inbox, sent>>

-----------------------------------------------------------------------------
(* event_accept_https                                                       *)

event_accept_https ==
  /\ pc = "loop" /\ edge
  /\ edge' = FALSE /\ k' = k + 1 /\ retryTimes' = 0 /\ pc' = "accept"
  /\ UNCHANGED <<type, cur, leak, st, call, answers, ended, sslVars, netVars>>

Returns(how) == pc' = "loop" /\ ended' = how

\* accept() returns -1: nobody waits, or there is no descriptor.
AcceptEnds ==
  /\ pc = "accept"
  /\ \/ Waiting = {} /\ Returns("drained")
     \/ Waiting # {} /\ Held >= MaxOpen /\ Returns("full")
  /\ UNCHANGED <<type, edge, cur, leak, st, call, answers, k, retryTimes,
                 sslVars, netVars>>

\* set_non_blocking fails and the function returns, or the req's SSL object is
\* turned to the new descriptor.
Accept(c) ==
  /\ pc = "accept" /\ c \in Waiting /\ Held < MaxOpen
  /\ \/ /\ "nonblock" \in Faults
        /\ Becomes(c, "stray") /\ Returns("failed")
        /\ UNCHANGED <<call, sslFd, cur>>
     \/ /\ call' = [call EXCEPT ![c] = k]
        /\ sslFd' = [sslFd EXCEPT ![k] = c]
        /\ cur' = c /\ pc' = "handshake" /\ Becomes(c, "open")
        /\ UNCHANGED ended
  /\ UNCHANGED <<type, edge, leak, answers, k, retryTimes, keyed, freed,
                 netVars>>

\* Mutant: if in the place of while.
BugRegisters(c) ==
  /\ pc' = "loop" /\ cur' = None /\ UNCHANGED <<st, ready>>

\* req->fd and epoll_ctl, whose failure is only reported; what already lies in
\* the socket, or its end, makes an edge.
Registers(c) ==
  /\ pc' = "accept" /\ cur' = None
  /\ \/ /\ ready' = IF inbox'[c] > 0 \/ c \in fin THEN ready \cup {c}
                                              ELSE ready
        /\ UNCHANGED st
     \/ "add" \in Faults /\ Becomes(c, "stray") /\ UNCHANGED ready

\* SSL_accept returns 1: the handshake is made, or the object has a session
\* already, from the call's first connection, and SSL_accept does nothing: the
\* client's hello stays in the socket.
Shaken ==
  /\ pc = "handshake"
  /\ \/ /\ keyed[k] = None
        /\ keyed' = [keyed EXCEPT ![k] = cur] /\ UNCHANGED inbox
     \/ /\ keyed[k] # None
        /\ inbox' = [inbox EXCEPT ![cur] = 1] /\ UNCHANGED keyed
  /\ Registers(cur)
  /\ UNCHANGED <<type, edge, leak, call, answers, callVars, sslFd, freed, fin,
                 sent>>

\* SSL_accept returns -1: SSL_ERROR_WANT_READ, with tries left.
Retry ==
  /\ pc = "handshake" /\ keyed[k] = None /\ retryTimes < MaxTries
  /\ retryTimes' = retryTimes + 1
  /\ UNCHANGED <<type, pc, edge, cur, leak, st, call, answers, k, ended,
                 sslVars, netVars>>

\* Mutant: SSL_clear before SSL_accept, so that any handshake may fail.
BugShakeFails ==
  /\ pc = "handshake" /\ "ssl" \in Faults
  /\ Becomes(cur, "closed") /\ freed' = freed \cup {k}
  /\ cur' = None /\ Returns("failed")
  /\ UNCHANGED <<type, edge, leak, call, answers, k, retryTimes, sslFd, keyed,
                 netVars>>

\* Another error, or no tries left: close, SSL_free and return.
ShakeFails ==
  /\ pc = "handshake" /\ keyed[k] = None
  /\ "ssl" \in Faults \/ retryTimes = MaxTries
  /\ Becomes(cur, "closed") /\ freed' = freed \cup {k}
  /\ cur' = None /\ Returns("failed")
  /\ UNCHANGED <<type, edge, leak, call, answers, k, retryTimes, sslFd, keyed,
                 netVars>>

-----------------------------------------------------------------------------
(* The handlers of an event of connection c, whose req_t is call[c].        *)

\* Mutant: the handlers use the last req_t made.
BugTarget(c) == sslFd[k]

\* The connection whose socket the handler reads and writes.
Target(c) == sslFd[call[c]]

\* SSL_read returns a request.
Readable(c) == /\ call[c] \notin freed /\ keyed[call[c]] = Target(c)
               /\ inbox[Target(c)] > 0

\* Mutant: SSL_read in a loop, each time into the same buffer.
BugReadAll(c) ==
  /\ pc = "loop" /\ c \in ready
  /\ ready' = ready \ {c}
  /\ inbox' = [inbox EXCEPT ![Target(c)] = 0]

\* One SSL_read, which takes at most one record.  epoll still knows the
\* connection c, but req->ssl, and req->fd, are those of its last companion.
SSL_read(c) ==
  /\ pc = "loop" /\ c \in ready
  /\ ready' = ready \ {c}
  /\ inbox' = [inbox EXCEPT ![Target(c)] = IF @ > 0 THEN @ - 1 ELSE 0]

\* The request is sent back, behind a header; what was not read is not sent
\* back, but the header is.
handle_https_read_write(c) ==
  /\ type = "HTTPS" /\ SSL_read(c)
  /\ answers' = IF Readable(c) THEN [answers EXCEPT ![Target(c)] = @ + 1]
                               ELSE answers
  /\ UNCHANGED <<type, pc, edge, cur, leak, st, call, callVars, sslVars, fin,
                 sent>>

\* Up to recv(), whatever SSL_read returned: client_socket gets no socket, or
\* does not connect and forgets its socket, or the worker waits.
event_https_reverse(c) ==
  /\ type = "HTTPS_PROXY" /\ SSL_read(c)
  /\ \/ UNCHANGED <<pc, cur, leak>>
     \/ Held < MaxOpen /\ leak' = leak + 1 /\ UNCHANGED <<pc, cur>>
     \/ /\ Held < MaxOpen /\ UNCHANGED leak
        /\ pc' = "backend" /\ cur' = IF Readable(c) THEN Target(c) ELSE None
  /\ UNCHANGED <<type, edge, st, call, answers, callVars, sslVars, fin, sent>>

\* recv() returns: the answer is passed on, or there is none.
BackendAnswers ==
  /\ pc = "backend"
  /\ \/ UNCHANGED answers
     \/ cur # None /\ answers' = [answers EXCEPT ![cur] = @ + 1]
  /\ pc' = "loop" /\ cur' = None
  /\ UNCHANGED <<type, edge, leak, st, call, callVars, sslVars, netVars>>

\* EPOLLHUP or EPOLLERR alone: handle_close closes req->fd and then follows
\* req->sd, which event_accept_https never sets.
ErrorEvent(c) ==
  /\ pc = "loop" /\ st[c] = "open" /\ "err" \in Faults
  /\ Becomes(Target(c), "closed") /\ pc' = "dead"
  /\ UNCHANGED <<type, edge, cur, leak, call, answers, callVars, sslVars,
                 netVars>>

-----------------------------------------------------------------------------
Handles(c) == handle_https_read_write(c) \/ event_https_reverse(c)
Accepts == \/ event_accept_https \/ AcceptEnds \/ Shaken \/ Retry \/ ShakeFails
           \/ \E c \in Conns : Accept(c)

Next == \/ Accepts \/ BackendAnswers
        \/ \E c \in Conns : \/ Handles(c) \/ ErrorEvent(c)
                            \/ Arrive(c) \/ Send(c) \/ Hangup(c)

Spec == Init /\ [][Next]_vars

\* The worker is scheduled, handles every event that epoll_wait returns and is
\* answered by the back end; nobody has to arrive or to send.
FairSpec == /\ Spec /\ WF_vars(Accepts) /\ WF_vars(BackendAnswers)
            /\ \A c \in Conns : WF_vars(Handles(c))

-----------------------------------------------------------------------------
TypeOK ==
  /\ pc \in {"loop", "accept", "handshake", "backend", "dead"}
  /\ edge \in BOOLEAN /\ k \in Calls /\ retryTimes \in 0 .. MaxTries
  /\ sslFd \in [Calls -> Conns \cup {None}]
  /\ keyed \in [Calls -> Conns \cup {None}] /\ freed \subseteq Calls
  /\ cur \in Conns \cup {None} /\ leak \in 0 .. MaxOpen
  /\ st \in [Conns -> {"idle", "waiting", "open", "stray", "closed"}]
  /\ call \in [Conns -> Calls] /\ ready \cup fin \subseteq Conns
  /\ inbox \in [Conns -> Nat] /\ answers \in [Conns -> Nat]
  /\ sent \in [Conns -> 0 .. MaxRecords]

Alone(c) == \A d \in Conns : call[d] = call[c] => d = c

\* The SSL object a registered connection's handler uses speaks to that
\* connection, with its keys, exactly when no other was accepted in the same
\* call: two connections that wait together are both cut off.
OwnSession ==
  \A c \in Conns : Registered(c) /\ pc \in {"loop", "backend"} =>
    (Target(c) = c /\ keyed[call[c]] = c <=> Alone(c))

\* An event is one of a registered connection, and its handler never gets a
\* freed SSL object, although a failed handshake frees the one that all
\* connections of the call share: it fails for the first.
NoFreedSession ==
  pc # "dead" =>
    \A c \in Conns : /\ c \in ready => Registered(c)
                     /\ Registered(c) => call[c] \notin freed

\* What a handler finds behind req->ssl, whichever connections shared a call
\* of event_accept_https and whichever handshakes failed: an object that is
\* alive, and that is the connection's own exactly if it was accepted alone.
SessionsSound == TypeOK /\ OwnSession /\ NoFreedSession

\* A connection is left waiting, with the edge that announced it spent, only by
\* a call that gave up: a handshake or a system call failed, or no descriptor
\* was left.
StrandedOnlyByFailure ==
  Waiting # {} /\ pc \in {"loop", "backend"} => edge \/ ended # "drained"

\* Requests of a connection that wait for the back end.
Forwarded(c) == IF pc = "backend" /\ cur = c THEN 1 ELSE 0

\* A connection that was accepted alone gets one answer to each of its requests
\* that was read, and on a proxied port at most one; whichever handler reads,
\* none is lost to another connection's SSL_read.  One that shared a call is
\* never answered, though its requests or its hello lie in the socket.
AnswersMatchRequests ==
  \A c \in Conns : st[c] = "open" =>
    IF Alone(c)
    THEN /\ answers[c] + Forwarded(c) + inbox[c] <= sent[c]
         /\ type = "HTTPS" => answers[c] + inbox[c] = sent[c]
    ELSE answers[c] = 0

\* While an event of a connection accepted alone is ready, its oldest unread
\* request is answered or the worker dies.  One event is one answer: a second
\* request behind the same edge stays where it is, and no answer is promised.
AloneAnswered ==
  \A c \in Conns, n \in 0 .. MaxRecords - 1 :
    (/\ type = "HTTPS" /\ Registered(c) /\ pc = "loop" /\ Alone(c)
     /\ c \in ready /\ inbox[c] > 0 /\ answers[c] = n)
      ~> (answers[c] > n \/ pc = "dead")
=============================================================================
