------------------------------- MODULE MCTimers -------------------------------
(* Timers with three timers of different durations, one of them 0.          *)
EXTENDS Timers, TLC

CONSTANTS t1, t2, t3

MCExpire == (t1 :> 0) @@ (t2 :> 2) @@ (t3 :> 3)
=============================================================================
