------------------------------ MODULE Resolver ------------------------------
(***************************************************************************)
(* The name servers of the platform: entrypoint.sh reads them from         *)
(* /etc/resolv.conf, points that file at the container itself, and has     *)
(* BIND forward the platform's own domain (DIB_CLUSTER_DOMAIN) to them, so *)
(* that in-cluster names still resolve.                                    *)
(*                                                                         *)
(* /etc/resolv.conf belongs to the pod: a container started again in the   *)
(* same one may find it as it was left, or find it written anew by the     *)
(* runtime. BIND's files are on a volume and outlive the pod. The script   *)
(* runs under `set -e': a failure anywhere ends the container, as a stop   *)
(* does.                                                                   *)
(*                                                                         *)
(* Abstracted: of resolv.conf only the name servers count; the two files   *)
(* writeClusterForwarding writes are one, as both have the zone or neither.*)
(*                                                                         *)
(* Operators whose name ends in _Variant are wrong on purpose: each is a   *)
(* plausible slip in the definition after it.                              *)
(***************************************************************************)
EXTENDS Integers

CONSTANTS
  Address,   \* the addresses a container may be given
  Server,    \* the name servers a platform may hand out
  MaxBoots   \* bound on the number of starts in one pod

ASSUME ResolverAssumption ==
  /\ Address # {}
  /\ MaxBoots \in Nat \ {0}

VARIABLES
  platform,   \* the name servers the platform gave this pod
  ip,         \* the container's address in it
  domainSet,  \* DIB_CLUSTER_DOMAIN is given
  resolv,     \* the name servers in /etc/resolv.conf
  upstream,   \* UPSTREAM_NAMESERVERS of this boot
  zone,       \* the forwarders in named.conf.cluster; none: no zone
  pc,
  boots       \* starts of a container in this pod

vars == <<platform, ip, domainSet, resolv, upstream, zone, pc, boots>>

PC == {"down", "read", "tee", "fill", "bind", "fillBind", "running"}

TypeOK ==
  /\ platform \subseteq Server
  /\ ip \in Address
  /\ domainSet \in BOOLEAN
  /\ resolv \subseteq Server \cup Address
  /\ upstream \subseteq Server \cup Address
  /\ zone \subseteq Server \cup Address
  /\ pc \in PC
  /\ boots \in 0 .. MaxBoots

(* A new pod, with the file the platform writes for it.                    *)
Init ==
  /\ platform \in SUBSET Server
  /\ ip \in Address
  /\ domainSet \in BOOLEAN
  /\ resolv = platform
  /\ upstream = {}
  /\ zone = {}
  /\ pc = "down"
  /\ boots = 0

(* The pod is deleted and created again, perhaps with another address.     *)
Recreate ==
  /\ platform' \in SUBSET Server
  /\ ip' \in Address
  /\ domainSet' \in BOOLEAN
  /\ resolv' = platform'
  /\ pc' = "down"
  /\ boots' = 0
  /\ UNCHANGED <<upstream, zone>>

(* A container is started in the pod.                                      *)
Boot ==
  /\ pc = "down"
  /\ boots < MaxBoots
  /\ boots' = boots + 1
  /\ resolv' \in {resolv, platform}
  /\ upstream' = {}
  /\ pc' = "read"
  /\ UNCHANGED <<platform, ip, domainSet, zone>>

(* The container stops: it is interrupted, or a command of its fails.      *)
Stop ==
  /\ pc # "down"
  /\ pc' = "down"
  /\ UNCHANGED <<platform, ip, domainSet, resolv, upstream, zone, boots>>

(* The container's own address is taken for one of the platform's servers. *)
ReadResolv_Variant ==
  /\ pc = "read"
  /\ upstream' = resolv
  /\ pc' = "tee"
  /\ UNCHANGED <<platform, ip, domainSet, resolv, zone, boots>>

(* awk picks the name servers other than the container itself.             *)
ReadResolv ==
  /\ pc = "read"
  /\ upstream' = resolv \ {ip}
  /\ pc' = "tee"
  /\ UNCHANGED <<platform, ip, domainSet, resolv, zone, boots>>

(* tee truncates the file, then fills it.                                  *)
TruncateResolv ==
  /\ pc = "tee"
  /\ resolv' = {}
  /\ pc' = "fill"
  /\ UNCHANGED <<platform, ip, domainSet, upstream, zone, boots>>

WriteResolv ==
  /\ pc = "fill"
  /\ resolv' = {ip}
  /\ pc' = "bind"
  /\ UNCHANGED <<platform, ip, domainSet, upstream, zone, boots>>

(* A file that exists is kept, like BIND's other files.                    *)
TruncateZone_Variant ==
  /\ pc = "bind"
  /\ zone' = zone
  /\ pc' = IF zone = {} THEN "fillBind" ELSE "running"
  /\ UNCHANGED <<platform, ip, domainSet, resolv, upstream, boots>>

(* os.WriteFile truncates the file, then fills it, at every boot.          *)
TruncateZone ==
  /\ pc = "bind"
  /\ zone' = {}
  /\ pc' = "fillBind"
  /\ UNCHANGED <<platform, ip, domainSet, resolv, upstream, boots>>

(* A zone is written if a domain is given and there is a server to forward *)
(* it to.                                                                  *)
WriteClusterForwarding ==
  /\ pc = "fillBind"
  /\ zone' = IF domainSet THEN upstream ELSE {}
  /\ pc' = "running"
  /\ UNCHANGED <<platform, ip, domainSet, resolv, upstream, boots>>

Next ==
  \/ Recreate
  \/ Boot
  \/ Stop
  \/ ReadResolv
  \/ TruncateResolv
  \/ WriteResolv
  \/ TruncateZone
  \/ WriteClusterForwarding

Spec == Init /\ [][Next]_vars

(***************************************************************************)
(* Properties.                                                             *)
(***************************************************************************)

(* What BIND forwards to is current: servers of this pod's platform,       *)
(* whatever an earlier pod left in resolv.conf or on BIND's volume, and    *)
(* never the container's own address, which would be a loop.               *)
ForwardersCurrent ==
  pc = "running" => zone \subseteq platform \ {ip}

(* The container resolves through its own DNS once it is configured, and   *)
(* through nothing else, and has no forwarded zone it was not asked for.   *)
ResolvesThroughItself ==
  pc = "running" => resolv = {ip} /\ (~domainSet => zone = {})

(* The first container of a pod to come up without an interruption has     *)
(* the platform's servers: no earlier pod takes them away.                 *)
FirstBootForwards ==
  pc = "running" /\ boots = 1 /\ domainSet => zone = platform \ {ip}

(* What the steps of the script leave for the next ones. resolv.conf never *)
(* names a server of another pod; what was read from it excludes the       *)
(* container itself, and is all there is in a pod's first start.           *)
HasRead == {"tee", "fill", "bind", "fillBind", "running"}

PodInv ==
  /\ resolv \subseteq platform \cup {ip}
  /\ boots = 0 => pc = "down" /\ resolv = platform
  /\ boots = 1 /\ pc = "read" => resolv = platform

UpstreamInv ==
  pc \in HasRead =>
    /\ upstream \subseteq platform \ {ip}
    /\ boots = 1 => upstream = platform \ {ip}

WrittenInv ==
  /\ pc \in {"bind", "fillBind", "running"} => resolv = {ip}
  /\ pc = "running" => zone = IF domainSet THEN upstream ELSE {}

(* The inductive invariant.                                                *)
IInv ==
  /\ TypeOK
  /\ PodInv
  /\ UpstreamInv
  /\ WrittenInv

(* "BIND forwards that domain back to the cluster DNS the pod started      *)
(* with" (tests/README.md:82-83).                                          *)
ForwardingKept ==
  pc = "running" /\ domainSet => zone = platform \ {ip}

============================================================================
