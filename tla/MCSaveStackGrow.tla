-------------------------- MODULE MCSaveStackGrow --------------------------
(* An instance of SaveStackGrow for TLC: every size of a 6-bit size_t. *)
EXTENDS SaveStackGrow
MCWidth == 6
MCMod == 64
=============================================================================
