---------------------------- MODULE MCReconcile ----------------------------
(***************************************************************************)
(* Reconcile.tla for TLC: the managed settings have one of two values, and *)
(* the operator's texts up to two items.                                   *)
(***************************************************************************)
EXTENDS Reconcile

MCValue == {"old", "new"}

=============================================================================
