---------------------------- MODULE MCTimerList ----------------------------
(* Module TimerList with a few timers and intervals.                         *)
EXTENDS TimerList
=============================================================================
