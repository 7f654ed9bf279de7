------------------------------ MODULE Service ------------------------------
(***************************************************************************)
(* What the pool of workers promises a connection, without descriptors,    *)
(* events or buffers: it waits until one worker takes it, it belongs to    *)
(* that worker alone, and it gets at most one answer, in the very step     *)
(* that ends it.  A worker that dies takes down the connections it serves, *)
(* and no others; one of them may just have got its answer, and one that   *)
(* waited may just have been taken.                                        *)
(* Module Worker is shown to implement this specification.                 *)
(***************************************************************************)
CONSTANTS Workers, Conns, None

VARIABLES phase, server, answer

vars == <<phase, server, answer>>

Init == /\ phase = [c \in Conns |-> "idle"]
        /\ server = [c \in Conns |-> None]
        /\ answer = [c \in Conns |-> "none"]

Arrive(c) == /\ phase[c] = "idle"
             /\ phase' = [phase EXCEPT ![c] = "waiting"]
             /\ UNCHANGED <<server, answer>>

\* The worker keeps the connection, or closes it right away.
Take(w, c) == /\ phase[c] = "waiting"
              /\ \E p \in {"served", "over"} : phase' = [phase EXCEPT ![c] = p]
              /\ server' = [server EXCEPT ![c] = w]
              /\ UNCHANGED answer

Finish(c) == /\ phase[c] = "served"
             /\ phase' = [phase EXCEPT ![c] = "over"]
             /\ \E r \in {"none", "partial", "full"} :
                  answer' = [answer EXCEPT ![c] = r]
             /\ UNCHANGED server

Served(w) == {c \in Conns : phase[c] = "served" /\ server[c] = w}

Fail(w) ==
  \E taken \in SUBSET {c \in Conns : phase[c] = "waiting"} :
    /\ \A c, d \in taken : c = d
    /\ phase' = [c \in Conns |-> IF c \in Served(w) \cup taken THEN "over"
                                                               ELSE phase[c]]
    /\ server' = [c \in Conns |-> IF c \in taken THEN w ELSE server[c]]
    /\ \/ UNCHANGED answer
       \/ \E c \in Served(w), r \in {"partial", "full"} :
            answer' = [answer EXCEPT ![c] = r]

Next == \/ \E c \in Conns : Arrive(c) \/ Finish(c)
        \/ \E w \in Workers : Fail(w) \/ \E c \in Conns : Take(w, c)

Spec == Init /\ [][Next]_vars
=============================================================================
