-------------------------- MODULE MCShareStackSize --------------------------
(* Small instances of module ShareStackSize for TLC: size_t of 9 bits. *)
EXTENDS ShareStackSize

MCPageSizes == {1, 16, 64, 128}
MCAddrs == {16, 128, 256}
=============================================================================
