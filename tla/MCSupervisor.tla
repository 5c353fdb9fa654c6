---------------------------- MODULE MCSupervisor ----------------------------
(***************************************************************************)
(* Supervisor.tla for TLC: of the servers the one that init waits for only *)
(* until the core is complete, beside init, the agent and what may be      *)
(* switched off.                                                           *)
(***************************************************************************)
EXTENDS Supervisor

MCServer == {"bind"}

=============================================================================
