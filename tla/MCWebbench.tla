---------------------------- MODULE MCWebbench ----------------------------
(* Values for the constants of module Webbench that a .cfg cannot write.    *)
EXTENDS Webbench

Counts_NegativeToTwo == {-1, 0, 2}
=============================================================================
