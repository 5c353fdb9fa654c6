------------------------------ MODULE MCDrift ------------------------------
(***************************************************************************)
(* Drift.tla for TLC: two addresses and two passwords.                     *)
(***************************************************************************)
EXTENDS Drift

CONSTANTS a1, a2, p1, p2

MCAddress == {a1, a2}
MCPassword == {p1, p2}

=============================================================================
