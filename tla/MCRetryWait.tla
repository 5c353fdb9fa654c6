---------------------------- MODULE MCRetryWait ----------------------------
(***************************************************************************)
(* RetryWait.tla for TLC: Samba's LDAP and KDC with a deadline each, then  *)
(* the Stork server without.                                               *)
(***************************************************************************)
EXTENDS RetryWait

MCDeadlined == {1, 2}

============================================================================
