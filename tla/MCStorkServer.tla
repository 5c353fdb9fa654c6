--------------------------- MODULE MCStorkServer ---------------------------
(***************************************************************************)
(* StorkServer.tla for TLC: a password and its replacement.                *)
(***************************************************************************)
EXTENDS StorkServer

MCPassword == {"first", "replaced"}

=============================================================================
