------------------------------ MODULE MCAcoSw ------------------------------
(* Instances of AcoSw for TLC. *)
EXTENDS AcoSw
MCSetting == 0..1
=============================================================================
