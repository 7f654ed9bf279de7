----------------------------- MODULE MCWorker -----------------------------
(* Instances of Worker for TLC.                                            *)
EXTENDS Worker, TLC

CONSTANTS w1, w2, c1, c2

\* Listener 0 serves files, listener 1 is the HTTP reverse proxy.
MCLisType == (0 :> "HTTP") @@ (1 :> "HTTP_PROXY")

\* One connection for each listener.
MCPort2 == (c1 :> 0) @@ (c2 :> 1)
\* Two connections race on one listener.
MCPortRace == (c1 :> 0) @@ (c2 :> 0)

MCSymmetry == Permutations({w1, w2})
=============================================================================
