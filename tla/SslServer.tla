------------------------------ MODULE SslServer ------------------------------
(***************************************************************************)
(* The stand-alone TLS echo server, epoll_ssl_server (dm_server.c).  It    *)
(* finds the session of a descriptor in a linked list whose first node is  *)
(* a dummy with its fd never set; `list` holds the nodes behind the dummy. *)
(*                                                                         *)
(* Events are edge triggered: the listening socket is accepted from once   *)
(* and a connection is read from once for each edge.  epoll_wait takes     *)
(* edges off the ready list, and its loop handles them one by one while    *)
(* clients make new ones.                                                  *)
(***************************************************************************)
EXTENDS Naturals, FiniteSets, SequencesExt

CONSTANTS
  Conns,
  None,        \* no session: what the dummy's ssl points to
  serfd,       \* the listening socket
  Fds,         \* the descriptors a connection can have, a set of numbers > 0
  MaxRecords   \* bound: records of a connection that are not read or that
               \* shared an edge

ASSUME SslAssumption ==
  /\ IsFiniteSet(Conns) /\ None \notin Conns /\ serfd \notin Conns
  /\ Fds \subseteq Nat \ {0} /\ MaxRecords \in Nat

VARIABLES
  pc,      \* "loop", "cleanup", "returned"; "crashed": undefined behaviour
  dummy,   \* fsm_head->fd, never initialised
  list,    \* fsm_head->next
  ready,   \* the sockets on the ready list
  evs,     \* events[], what is left of it
  hups,    \* the connections whose event has EPOLLHUP
  st,      \* "idle", "waiting", "open", "closed"; "stray": not registered
  fd,
  inbox,   \* records that are not read
  hup,     \* connections that were reset
  shared   \* arrivals at a socket that was ready already, and edges of the
           \* listening socket that accept() failed at

epollVars == <<ready, evs, hups>>
vars == <<pc, dummy, list, ready, evs, hups, st, fd, inbox, hup, shared>>

Sockets == Conns \cup {serfd}

Init ==
  /\ pc = "loop" /\ dummy \in Fds \cup {0}
  /\ list = << >> /\ ready = {} /\ evs = {} /\ hups = {} /\ hup = {}
  /\ st = [c \in Conns |-> "idle"] /\ fd = [c \in Conns |-> 0]
  /\ inbox = [c \in Conns |-> 0] /\ shared = [x \in Sockets |-> 0]

In(s) == {c \in Conns : st[c] = s}
Becomes(c, s) == st' = [st EXCEPT ![c] = s]
FreeFds == Fds \ {fd[c] : c \in In("open") \cup In("stray")}

-----------------------------------------------------------------------------
(* The clients.                                                             *)

\* What arrives at a socket that is ready already makes no edge of its own.
Arrives(x) ==
  /\ ready' = ready \cup {x}
  /\ shared' = [shared EXCEPT ![x] = IF x \in ready THEN @ + 1 ELSE @]

Arrive(c) ==
  /\ pc = "loop" /\ st[c] = "idle"
  /\ Becomes(c, "waiting") /\ Arrives(serfd)
  /\ UNCHANGED <<pc, dummy, list, evs, hups, fd, inbox, hup>>

\* A record has arrived, to its last byte.
Send(c) ==
  /\ pc = "loop" /\ st[c] = "open" /\ c \notin hup
  /\ inbox[c] + shared[c] < MaxRecords
  /\ inbox' = [inbox EXCEPT ![c] = @ + 1] /\ Arrives(c)
  /\ UNCHANGED <<pc, dummy, list, evs, hups, st, fd, hup>>

\* The beginning of a record, or the client's FIN, after which it sends no
\* more: EPOLLRDHUP is not asked for, so both are an edge like any other.
Part(c) ==
  /\ pc = "loop" /\ st[c] = "open" /\ c \notin hup
  /\ ready' = ready \cup {c}
  /\ UNCHANGED <<pc, dummy, list, evs, hups, st, fd, inbox, hup, shared>>

Reset(c) ==
  /\ pc = "loop" /\ st[c] = "open" /\ c \notin hup
  /\ hup' = hup \cup {c} /\ ready' = ready \cup {c}
  /\ UNCHANGED <<pc, dummy, list, evs, hups, st, fd, inbox, shared>>

-----------------------------------------------------------------------------
(* The loop.                                                                *)

\* Up to 100 sockets of the ready list; EPOLLHUP is what it is now.
EpollWait ==
  /\ pc = "loop" /\ evs = {}
  /\ \E S \in SUBSET ready \ {{}} :
       /\ evs' = S /\ ready' = ready \ S /\ hups' = S \cap hup
  /\ UNCHANGED <<pc, dummy, list, st, fd, inbox, hup, shared>>

WaitFails ==
  /\ pc = "loop" /\ evs = {} /\ pc' = "cleanup"
  /\ UNCHANGED <<dummy, list, epollVars, st, fd, inbox, hup, shared>>

\* The turn of x in events[].
Event(x) == pc = "loop" /\ x \in evs

-----------------------------------------------------------------------------
(* An event of the listening socket.                                        *)

\* Mutant: no node is linked before another.
BugLinked(c, f) == IF list = << >> THEN <<[fd |-> f, ssl |-> c]>> ELSE list

\* The list with a node for c behind the dummy.
Linked(c, f) == <<[fd |-> f, ssl |-> c]>> \o list

\* One connection is accepted: it is registered, its handshake fails and it is
\* closed, or there is no SSL object for it and it is forgotten.
Accept(c) ==
  /\ Event(serfd) /\ st[c] = "waiting" /\ FreeFds # {}
  /\ evs' = evs \ {serfd}
  /\ LET f == CHOOSE x \in FreeFds : \A y \in FreeFds : x <= y
     IN /\ fd' = [fd EXCEPT ![c] = f]
        /\ \/ Becomes(c, "open") /\ list' = Linked(c, f)
           \/ Becomes(c, "closed") /\ UNCHANGED list
           \/ Becomes(c, "stray") /\ UNCHANGED list
  /\ UNCHANGED <<pc, dummy, ready, hups, inbox, hup, shared>>

\* accept() fails, for want of a descriptor or of memory.
AcceptFails ==
  /\ Event(serfd)
  /\ evs' = evs \ {serfd}
  /\ shared' = [shared EXCEPT ![serfd] = @ + 1]
  /\ UNCHANGED <<pc, dummy, list, ready, hups, st, fd, inbox, hup>>

-----------------------------------------------------------------------------
(* An event of a connection.                                                *)

Chain == <<[fd |-> dummy, ssl |-> None]>> \o list

\* Where the search stops: the first node with the descriptor, or the last
\* node, which is not compared.
Found(f) ==
  LET n == SelectInSeq(Front(Chain), LAMBDA node : node.fd = f)
  IN IF n > 0 THEN n ELSE Len(Chain)

\* The dummy's session, and pre when the search stops at the dummy, are wild.
Stray(c) == Found(fd[c]) = 1

Crash(c) ==
  /\ Event(c) /\ Stray(c)
  /\ pc' = "crashed"
  /\ UNCHANGED <<dummy, list, epollVars, st, fd, inbox, hup, shared>>

\* EPOLLHUP: the descriptor is closed, the session freed and the node unlinked.
Quit(c) ==
  /\ Event(c) /\ c \in hups /\ ~ Stray(c)
  /\ Becomes(c, "closed")
  /\ list' = RemoveAt(list, Found(fd[c]) - 1)
  /\ ready' = ready \ {c} /\ evs' = evs \ {c}
  /\ UNCHANGED <<pc, dummy, hups, fd, inbox, hup, shared>>

\* Mutant: SSL_read from the newest session.
BugRead(c) ==
  /\ Event(c) /\ c \notin hups /\ ~ Stray(c)
  /\ inbox' = [inbox EXCEPT ![Chain[2].ssl] = IF @ > 0 THEN @ - 1 ELSE 0]
  /\ evs' = evs \ {c}
  /\ UNCHANGED <<pc, dummy, list, ready, hups, st, fd, hup, shared>>

\* One SSL_read, from the session that was found, and its echo; SSL_read fails
\* when there is no complete record.
Read(c) ==
  /\ Event(c) /\ c \notin hups /\ ~ Stray(c)
  /\ inbox' = [inbox EXCEPT ![Chain[Found(fd[c])].ssl] =
                 IF @ > 0 THEN @ - 1 ELSE 0]
  /\ evs' = evs \ {c}
  /\ UNCHANGED <<pc, dummy, list, ready, hups, st, fd, hup, shared>>

-----------------------------------------------------------------------------
(* After the loop.                                                          *)

\* A turn of the loop closes and frees what the dummy holds, which is wild, and
\* stays at the dummy; it ends only when there is no other node.
Cleanup ==
  /\ pc = "cleanup"
  /\ \/ list = << >> /\ pc' = "returned"
     \/ list # << >> /\ pc' \in {"cleanup", "crashed"}
  /\ UNCHANGED <<dummy, list, epollVars, st, fd, inbox, hup, shared>>

Next == \/ EpollWait \/ WaitFails \/ AcceptFails \/ Cleanup
        \/ \E c \in Conns : \/ Arrive(c) \/ Send(c) \/ Part(c) \/ Reset(c)
                            \/ Accept(c) \/ Crash(c) \/ Quit(c) \/ Read(c)

Spec == Init /\ [][Next]_vars

-----------------------------------------------------------------------------
TypeOK ==
  /\ pc \in {"loop", "cleanup", "returned", "crashed"}
  /\ dummy \in Fds \cup {0}
  /\ ready \cup evs \subseteq In("open") \cup {serfd}
  /\ hup \subseteq Conns /\ hups \subseteq hup
  /\ st \in [Conns -> {"idle", "waiting", "open", "stray", "closed"}]
  /\ fd \in [Conns -> Fds \cup {0}] /\ inbox \in [Conns -> 0 .. MaxRecords]
  /\ shared \in [Sockets -> Nat]
  /\ \A n \in DOMAIN list : list[n].fd \in Fds /\ list[n].ssl \in Conns

\* The search stops at the connection's own session, although it does not look
\* at the last node, descriptors are used again and nodes come and go in the
\* middle; only the dummy can come in between, with what malloc left in it.
FindsOwnSession ==
  /\ TypeOK
  /\ \A c \in In("open") :
       Chain[Found(fd[c])].ssl = (IF dummy = fd[c] THEN None ELSE c)

\* The edges of a socket that are still to be handled.
Edges(x) == (IF x \in ready THEN 1 ELSE 0) + (IF x \in evs THEN 1 ELSE 0)

\* The server is behind its clients by what shared an edge and by nothing else:
\* no handler spends an edge on another connection's records.  As many
\* connections as shared one are left waiting for ever, as none is made up for;
\* a record that shared one is read when an edge without a record follows.
LagExplained ==
  /\ Cardinality(In("waiting")) = shared[serfd] + Edges(serfd)
  /\ \A c \in In("open") : inbox[c] <= shared[c] + Edges(c)
=============================================================================
