---------------------------- MODULE MCScheduler ----------------------------
(* Scheduler with a few coroutines and at most one thread beside main.     *)
EXTENDS Scheduler

CONSTANTS c1, c2, c3, main, worker

ThreeCoros == {c1, c2, c3}
TwoThreads == {main, worker}
NormalHigh == {1, 3}
=============================================================================
