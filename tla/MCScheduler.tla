---------------------------- MODULE MCScheduler ----------------------------
(* An instance of Scheduler for TLC. *)
EXTENDS Scheduler
CONSTANTS c1, c2, c3, s1
MCLoops == 0..2
MCWord == 0..2
=============================================================================
