---------------------------- MODULE MCEntrypoint ----------------------------
(***************************************************************************)
(* Entrypoint.tla for TLC: two settings, of which the operator may choose  *)
(* another at every boot; a domain name that is empty, of the longest      *)
(* length allowed, or one longer, with which LongDomainRefused is refuted. *)
(***************************************************************************)
EXTENDS Entrypoint

CONSTANTS old, new   \* settings before and after the change

MCSetting == {old, new}
MCNameLength == {15}
MCNameOrNone == {0, 15}
MCAnyNameLength == {0, 15, 16}

============================================================================
