------------------------------ MODULE MCHttps ------------------------------
(* Module Https for TLC; all constants are given in the .cfg.               *)
EXTENDS Https
=============================================================================
