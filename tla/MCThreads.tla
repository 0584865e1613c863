----------------------------- MODULE MCThreads -----------------------------
(* The two threads of test_aco_tutorial_3.c, with four rounds instead of six. *)
EXTENDS Threads
MCRounds == 4
=============================================================================
