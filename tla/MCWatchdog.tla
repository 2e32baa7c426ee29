----------------------------- MODULE MCWatchdog -----------------------------
(* The watchdog with two targets. *)
EXTENDS Watchdog

CONSTANTS t1, t2
=============================================================================
