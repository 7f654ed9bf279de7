----------------------------- MODULE MCMaster -----------------------------
(* Instances of Master for TLC.  Pids has one for each first fork, for     *)
(* each death (MaxCrash), and for each slot that the pass interrupted by   *)
(* SIGUSR1 may still refill: fork() always finds one.                      *)
EXTENDS Master
=============================================================================
