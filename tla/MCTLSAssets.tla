---------------------------- MODULE MCTLSAssets ----------------------------
(***************************************************************************)
(* TLSAssets.tla for TLC: a certificate and its renewal.                   *)
(***************************************************************************)
EXTENDS TLSAssets

MCGeneration == {"first", "renewed"}

=============================================================================
