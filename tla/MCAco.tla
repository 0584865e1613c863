------------------------------- MODULE MCAco -------------------------------
(* Small instances of module Aco for TLC. *)
EXTENDS Aco, TLC

CONSTANTS c1, c2, c3, s1, s2, w1, w2

MCSymmetry == Permutations(Co) \cup Permutations(Stack) \cup Permutations(Word)
=============================================================================
