----------------------------- MODULE MCAcoStats -----------------------------
(* Small instances of module AcoStats for TLC. *)
EXTENDS AcoStats, TLC

CONSTANTS c1, c2, s1, w1

MCSymmetry == Permutations(Co)
=============================================================================
