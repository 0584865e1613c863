--------------------------- MODULE MCShortMemcpy ---------------------------
(* An instance of ShortMemcpy for TLC: all lengths with up to ten units. *)
EXTENDS ShortMemcpy
MCSizes == 1..168
MCOffsets == {0, 1, 4, 8}
=============================================================================
