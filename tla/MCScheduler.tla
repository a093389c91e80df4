---------------------------- MODULE MCScheduler ----------------------------
(* A small instance of Scheduler for TLC: a frequent task and a rare one.  *)
EXTENDS Scheduler

TwoIntervals == <<1, 3>>
=============================================================================
