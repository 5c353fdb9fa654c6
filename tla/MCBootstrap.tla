---------------------------- MODULE MCBootstrap ----------------------------
(***************************************************************************)
(* Bootstrap.tla for TLC: the samba-tool commands that fail when what they *)
(* create is already there. Raising the level to the current one, adding a *)
(* zone, a record or a user a second time fail; setting an expiry, adding  *)
(* a group member and exporting a keytab may be repeated.                  *)
(***************************************************************************)
EXTENDS Bootstrap

MCNonIdempotent ==
  {LevelRaise, ReverseZone, ReversePtr, HostCname, KeaUser, LdapUser}

============================================================================
