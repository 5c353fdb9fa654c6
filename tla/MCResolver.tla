----------------------------- MODULE MCResolver -----------------------------
(***************************************************************************)
(* Resolver.tla for TLC: the cluster's DNS, and a platform that hands out  *)
(* the address of the domain controller itself, which may be given to the  *)
(* container or not.                                                       *)
(***************************************************************************)
EXTENDS Resolver

CONSTANTS clusterDNS, self, other

MCAddress == {self, other}
MCServer == {clusterDNS, self}

============================================================================
