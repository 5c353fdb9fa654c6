--------------------------- MODULE RestartProofs ---------------------------
(***************************************************************************)
(* Theorems about what a container that is started again takes over from   *)
(* the starts before it: about Resolver.tla, whatever an earlier pod left  *)
(* behind, BIND forwards to the servers of the current one and never to    *)
(* the container itself; about Drift.tla, which places hold the address in *)
(* force and whose password the directory has. For any addresses, servers  *)
(* and passwords and any number of starts, changes and faults.             *)
(***************************************************************************)
EXTENDS Resolver, Drift, TLAPS

(* Resolver's labels are always visible to the provers.                    *)
USE ResolverAssumption DEF PC, HasRead

(* A new pod on an empty volume.                                           *)
LEMMA InitIInv == Init => IInv
  BY DEF Init, IInv, TypeOK, PodInv, UpstreamInv, WrittenInv

(* A new pod on the same volume: resolv.conf is the platform's for it.     *)
LEMMA RecreateIInv == IInv /\ Recreate => IInv'
<1> SUFFICES ASSUME IInv, Recreate PROVE IInv'
  OBVIOUS
<1>1. TypeOK'
  BY DEF IInv, TypeOK, Recreate
<1>2. PodInv'
  BY DEF PodInv, Recreate
<1>3. UpstreamInv' /\ WrittenInv'
  BY DEF UpstreamInv, WrittenInv, Recreate
<1> QED
  BY <1>1, <1>2, <1>3 DEF IInv

(* A container starts on its pod's resolv.conf, old or written anew.        *)
LEMMA BootIInv == IInv /\ Boot => IInv'
<1> SUFFICES ASSUME IInv, Boot PROVE IInv'
  OBVIOUS
<1>1. TypeOK'
  BY DEF IInv, TypeOK, Boot
<1>2. PodInv'
  BY DEF IInv, TypeOK, PodInv, Boot
<1>3. UpstreamInv' /\ WrittenInv'
  BY DEF UpstreamInv, WrittenInv, Boot
<1> QED
  BY <1>1, <1>2, <1>3 DEF IInv

(* A container that stops takes nothing back.                              *)
LEMMA StopIInv == IInv /\ Stop => IInv'
<1> SUFFICES ASSUME IInv, Stop PROVE IInv'
  OBVIOUS
<1>1. TypeOK'
  BY DEF IInv, TypeOK, Stop
<1>2. PodInv'
  BY DEF IInv, PodInv, Stop
<1>3. UpstreamInv' /\ WrittenInv'
  BY DEF UpstreamInv, WrittenInv, Stop
<1> QED
  BY <1>1, <1>2, <1>3 DEF IInv

(* The platform's servers are read, without the container's own address,   *)
(* and in the first start of a pod nothing has overwritten them.           *)
LEMMA ReadResolvIInv == IInv /\ ReadResolv => IInv'
<1> SUFFICES ASSUME IInv, ReadResolv PROVE IInv'
  OBVIOUS
<1>1. TypeOK'
  BY DEF IInv, TypeOK, ReadResolv
<1>2. PodInv'
  BY DEF IInv, PodInv, ReadResolv
<1>3. UpstreamInv'
  BY DEF IInv, PodInv, UpstreamInv, ReadResolv
<1>4. WrittenInv'
  BY DEF WrittenInv, ReadResolv
<1> QED
  BY <1>1, <1>2, <1>3, <1>4 DEF IInv

(* resolv.conf is truncated and filled with the container's address.       *)
LEMMA RewriteIInv == IInv /\ (TruncateResolv \/ WriteResolv) => IInv'
<1> SUFFICES ASSUME IInv, TruncateResolv \/ WriteResolv PROVE IInv'
  OBVIOUS
<1> USE DEF TruncateResolv, WriteResolv
<1>1. TypeOK'
  BY DEF IInv, TypeOK
<1>2. PodInv'
  BY DEF IInv, PodInv
<1>3. UpstreamInv'
  BY DEF IInv, UpstreamInv
<1>4. WrittenInv'
  BY DEF WrittenInv
<1> QED
  BY <1>1, <1>2, <1>3, <1>4 DEF IInv

(* The zone is truncated and filled with the servers that were read.       *)
LEMMA ForwardIInv ==
  IInv /\ (TruncateZone \/ WriteClusterForwarding) => IInv'
<1> SUFFICES ASSUME IInv, TruncateZone \/ WriteClusterForwarding PROVE IInv'
  OBVIOUS
<1> USE DEF TruncateZone, WriteClusterForwarding
<1>1. TypeOK'
  BY DEF IInv, TypeOK
<1>2. PodInv'
  BY DEF IInv, PodInv
<1>3. UpstreamInv'
  BY DEF IInv, UpstreamInv
<1>4. WrittenInv'
  BY DEF IInv, WrittenInv
<1> QED
  BY <1>1, <1>2, <1>3, <1>4 DEF IInv

(* Every step preserves the inductive invariant.                           *)
LEMMA NextIInv == IInv /\ [Next]_vars => IInv'
<1> SUFFICES ASSUME IInv, [Next]_vars PROVE IInv'
  OBVIOUS
<1>1. CASE UNCHANGED vars
  BY <1>1 DEF vars, IInv, TypeOK, PodInv, UpstreamInv, WrittenInv
<1> QED
  BY <1>1, RecreateIInv, BootIInv, StopIInv, ReadResolvIInv, RewriteIInv,
     ForwardIInv DEF Next

(* Every reachable state satisfies the inductive invariant, however often  *)
(* the container and its pod are started.                                  *)
THEOREM Invariance == Spec => []IInv
  BY InitIInv, NextIInv, PTL DEF Spec

(* The state keeps its types.                                              *)
THEOREM TypeCorrect == Spec => []TypeOK
<1>1. IInv => TypeOK
  BY DEF IInv
<1> QED
  BY <1>1, Invariance, PTL

(* writeClusterForwarding never leaves a server of another pod, or the     *)
(* container's own address, to forward to.                                 *)
THEOREM ForwardsInPod == Spec => []ForwardersCurrent
<1>1. IInv => ForwardersCurrent
  BY DEF IInv, UpstreamInv, WrittenInv, ForwardersCurrent
<1> QED
  BY <1>1, Invariance, PTL

(* A configured container resolves through its own DNS, and has no zone it *)
(* was not asked for.                                                      *)
THEOREM OwnResolver == Spec => []ResolvesThroughItself
<1>1. IInv => ResolvesThroughItself
  BY DEF IInv, WrittenInv, ResolvesThroughItself
<1> QED
  BY <1>1, Invariance, PTL

(* The first start in a pod that reaches the launch forwards to all of the *)
(* platform's servers.                                                     *)
THEOREM FirstForwards == Spec => []FirstBootForwards
<1>1. IInv => FirstBootForwards
  BY DEF IInv, UpstreamInv, WrittenInv, FirstBootForwards
<1> QED
  BY <1>1, Invariance, PTL

-----------------------------------------------------------------------------
(* Drift. The nine steps of a start, of which no two are the same.         *)
LEMMA StepNames ==
  /\ DOMAIN Steps = 1 .. 9 /\ Len(Steps) = 9
  /\ \A i, j \in 1 .. 9 : Steps[i] = Steps[j] => i = j
  /\ \A i \in 1 .. 9 :
       Steps[i] \notin {"down", "aborted", "launched", "bootstrap", "running", "failed"}
  /\ ToSet(Steps) = Renewed \cup Kept \cup {"sync", "sentinel"}
  /\ Head(Steps) = Steps[1]
  /\ Steps[2] = "smb.conf" /\ Steps[9] = "sentinel"
<1>1. DOMAIN Steps = 1 .. 9 /\ Len(Steps) = 9 /\ Head(Steps) = Steps[1]
  BY DEF Steps
<1>2. /\ Steps[1] = "resolv.conf" /\ Steps[2] = "smb.conf" /\ Steps[3] = "krb5.conf"
      /\ Steps[4] = "sync" /\ Steps[5] = "chrony.conf" /\ Steps[6] = "named.conf.options"
      /\ Steps[7] = "kea-dhcp4.conf" /\ Steps[8] = "agent.env" /\ Steps[9] = "sentinel"
  BY DEF Steps
<1>3. \A i \in 1 .. 9 : i \in {1, 2, 3, 4, 5, 6, 7, 8, 9}
  OBVIOUS
<1>4. \A i, j \in 1 .. 9 : Steps[i] = Steps[j] => i = j
  BY <1>2, <1>3
<1>5. \A i \in 1 .. 9 :
        Steps[i] \notin {"down", "aborted", "launched", "bootstrap", "running", "failed"}
  BY <1>2, <1>3
<1>6. ToSet(Steps) = Renewed \cup Kept \cup {"sync", "sentinel"}
  BY <1>1, <1>2, <1>3 DEF ToSet, Renewed, Kept
<1> QED
  BY <1>1, <1>2, <1>4, <1>5, <1>6

(* A step that is taken is behind the start afterwards, and nothing else    *)
(* is that was not before.                                                 *)
LEMMA BehindStep ==
  ASSUME Continue, NEW s \in ToSet(Steps)
  PROVE  /\ at \in ToSet(Steps) /\ at' \in ToSet(Steps) \cup {"launched"}
         /\ at' = "launched" => at = "sentinel"
         /\ Behind(s)' => Behind(s) \/ s = at
<1>1. PICK i \in 1 .. 9 : /\ Steps[i] = at
                         /\ at' = IF i = 9 THEN "launched" ELSE Steps[i + 1]
  BY StepNames DEF Continue
<1>2. PICK k \in 1 .. 9 : Steps[k] = s
  BY StepNames DEF ToSet
<1>3. at \in ToSet(Steps)
  BY <1>1, StepNames DEF ToSet
<1>4. at' \in ToSet(Steps) \cup {"launched"}
  BY <1>1, StepNames DEF ToSet
<1>5. at' = "launched" => at = "sentinel"
  BY <1>1, StepNames
<1>6. ASSUME Behind(s)' PROVE Behind(s) \/ s = at
  <2>1. CASE i = 9
    BY <1>1, <1>2, <2>1, StepNames DEF Behind
  <2>2. CASE i # 9
    <3>1. i + 1 \in 1 .. 9 /\ at' = Steps[i + 1]
      BY <1>1, <2>2
    <3>2. ~Launched'
      BY <3>1, StepNames DEF Launched
    <3>3. PICK m, n \in 1 .. 9 : m < n /\ Steps[m] = s /\ Steps[n] = at'
      BY <1>6, <3>2, StepNames DEF Behind
    <3>4. m <= i
      BY <3>1, <3>3, StepNames
    <3> QED
      BY <1>1, <3>3, <3>4, StepNames DEF Behind
  <2> QED
    BY <2>1, <2>2
<1> QED
  BY <1>3, <1>4, <1>5, <1>6

(* A start that has not begun, or has just, has nothing behind it.         *)
LEMMA NothingBehind ==
  ASSUME NEW s, at' \in {"down", "aborted", Head(Steps)}
  PROVE  ~Behind(s)'
<1>1. ~Launched'
  BY StepNames DEF Launched
<1>2. \A i, j \in 1 .. 9 : i < j => Steps[j] # at'
  BY StepNames
<1> QED
  BY <1>1, <1>2, StepNames DEF Behind

LEMMA DriftInitInv == DriftInit => DriftInv
<1> SUFFICES ASSUME DriftInit PROVE DriftInv
  OBVIOUS
<1>1. at = "down" /\ ~Launched
  BY DEF DriftInit, Launched
<1>2. \A s : ~Behind(s)
  BY <1>1, StepNames DEF Behind
<1>3. DriftTypeOK
  <2>1. holds \in [Renewed \cup Kept -> HostAddress \cup {None}]
    BY DEF DriftInit
  <2>2. {provisioned, complete, init, pending, moved, changed} \subseteq BOOLEAN
    BY DEF DriftInit
  <2>3. faults \in 0 .. MaxFaults /\ changes \in 0 .. MaxChanges
    BY DriftAssumption DEF DriftInit
  <2> QED
    BY <2>1, <2>2, <2>3 DEF DriftInit, DriftTypeOK
<1>4. PlacesInv
  BY <1>2 DEF DriftInit, PlacesInv
<1>5. DomainInv
  BY <1>1, StepNames DEF DriftInit, DomainInv, ToSet, Kept
<1>6. PasswordInv
  BY <1>2 DEF DriftInit, PasswordInv
<1> QED
  BY <1>3, <1>4, <1>5, <1>6 DEF DriftInv

(* The environment changes between two starts; what was moved or changed    *)
(* is noted.                                                               *)
LEMMA ChangeInv == DriftInv /\ Change => DriftInv'
<1> SUFFICES ASSUME DriftInv, Change PROVE DriftInv'
  OBVIOUS
<1> USE DEF Change, environment, flags
<1>1. \A s : ~Behind(s)'
  BY NothingBehind
<1>2. ~Launched' /\ at' \notin ToSet(Steps)
  BY StepNames DEF Launched, ToSet
<1>3. DriftTypeOK'
  BY DriftAssumption DEF DriftInv, DriftTypeOK
<1>4. PlacesInv'
  BY <1>1 DEF DriftInv, DriftTypeOK, PlacesInv
<1>5. DomainInv'
  BY <1>2 DEF DriftInv, DomainInv
<1>6. PasswordInv'
  BY <1>1 DEF DriftInv, DriftTypeOK, PasswordInv
<1> QED
  BY <1>3, <1>4, <1>5, <1>6 DEF DriftInv

(* A start begins with what the sentinels say, or is refused.              *)
LEMMA BeginStartInv == DriftInv /\ BeginStart => DriftInv'
<1> SUFFICES ASSUME DriftInv, BeginStart PROVE DriftInv'
  OBVIOUS
<1> USE DEF BeginStart, environment, history
<1>1. \A s : ~Behind(s)'
  BY NothingBehind
<1>2. at' \in {"aborted", Steps[1]} /\ Steps[1] \in ToSet(Steps) /\ ~Launched'
  BY StepNames DEF Launched, ToSet
<1>3. DriftTypeOK'
  BY <1>2 DEF DriftInv, DriftTypeOK
<1>4. PlacesInv'
  BY <1>1 DEF DriftInv, PlacesInv
<1>5. DomainInv'
  BY <1>2 DEF DriftInv, DomainInv
<1>6. PasswordInv'
  BY <1>1 DEF DriftInv, PasswordInv
<1> QED
  BY <1>3, <1>4, <1>5, <1>6 DEF DriftInv

(* A start that ends, at whatever point, takes nothing back.               *)
LEMMA EndStartInv == DriftInv /\ (Fault \/ Restart) => DriftInv'
<1> SUFFICES ASSUME DriftInv, Fault \/ Restart PROVE DriftInv'
  OBVIOUS
<1>1. EndStart /\ at' = "down"
  BY DEF Fault, Restart, EndStart
<1> USE DEF EndStart, environment, flags, history
<1>2. \A s : ~Behind(s)'
  BY <1>1, NothingBehind
<1>3. ~Launched' /\ at' \notin ToSet(Steps)
  BY <1>1, StepNames DEF Launched, ToSet
<1>4. faults' \in 0 .. MaxFaults
  BY DriftAssumption DEF DriftInv, DriftTypeOK, Fault, Restart
<1>5. DriftTypeOK'
  BY <1>1, <1>4 DEF DriftInv, DriftTypeOK
<1>6. PlacesInv'
  BY <1>1, <1>2 DEF DriftInv, PlacesInv
<1>7. DomainInv'
  BY <1>1, <1>3 DEF DriftInv, DomainInv
<1>8. PasswordInv'
  BY <1>1, <1>2 DEF DriftInv, PasswordInv
<1> QED
  BY <1>5, <1>6, <1>7, <1>8 DEF DriftInv

(* An address is in force while a start goes on, and what smb.conf says is  *)
(* said of one of the steps.                                               *)
LEMMA Starting ==
  ASSUME DriftInv, at \in ToSet(Steps)
  PROVE  /\ address \in HostAddress /\ address # None
         /\ ~Launched
         /\ init = ~provisioned
<1>1. at \notin {"down", "aborted"} /\ ~Launched
  BY StepNames DEF ToSet, Launched
<1> QED
  BY <1>1 DEF DriftInv, DriftTypeOK, DomainInv

(* What the steps that write a place have in common: where the start is     *)
(* afterwards, and that nothing else changes.                              *)
LEMMA WriteTypes ==
  ASSUME DriftInv, Continue,
         holds' \in [Renewed \cup Kept -> HostAddress \cup {None}],
         UNCHANGED <<environment, directory, provisioned, complete, flags, history, faults>>
  PROVE  DriftTypeOK'
<1>1. at \in ToSet(Steps) /\ at' \in ToSet(Steps) \cup {"launched"}
  BY BehindStep, StepNames DEF Renewed
<1>2. address # None
  BY <1>1, Starting
<1> QED
  BY <1>1, <1>2 DEF DriftInv, DriftTypeOK, environment, flags, history

(* The resolver and the Kerberos file are written with the address.        *)
LEMMA RenewInv == DriftInv /\ Renew => DriftInv'
<1> SUFFICES ASSUME DriftInv,
                    NEW f \in Renewed, at = f, holds' = [holds EXCEPT ![f] = address],
                    Continue,
                    UNCHANGED <<environment, directory, provisioned, complete, flags, history, faults>>
             PROVE  DriftInv'
  BY DEF Renew
<1> USE DEF environment, flags, history
<1>1. /\ at \in ToSet(Steps) /\ at' \in ToSet(Steps) /\ ~Launched'
      /\ \A s \in ToSet(Steps) : Behind(s)' => Behind(s) \/ s = at
  BY BehindStep, StepNames DEF Renewed, Launched, ToSet
<1>2. Renewed \cup Kept \cup {"sync"} \subseteq ToSet(Steps) /\ f \notin Kept
  BY StepNames DEF Renewed, Kept
<1>3. holds \in [Renewed \cup Kept -> HostAddress \cup {None}] /\ address \in HostAddress
  BY <1>1, Starting DEF DriftInv, DriftTypeOK
<1>4. DriftTypeOK'
  <2>1. holds' \in [Renewed \cup Kept -> HostAddress \cup {None}]
    BY <1>3
  <2> QED
    BY <2>1, WriteTypes
<1>5. PlacesInv'
  BY <1>1, <1>2, <1>3 DEF DriftInv, PlacesInv
<1>6. DomainInv'
  BY <1>1, <1>2, <1>3 DEF DriftInv, DomainInv, Kept
<1>7. PasswordInv'
  BY <1>1, <1>2 DEF DriftInv, PasswordInv, Renewed
<1> QED
  BY <1>4, <1>5, <1>6, <1>7 DEF DriftInv

(* What is there is kept; what is not is written with the address.         *)
LEMMA KeepInv == DriftInv /\ Keep => DriftInv'
<1> SUFFICES ASSUME DriftInv,
                    NEW f \in Kept \ {"smb.conf"}, at = f,
                    holds' = [holds EXCEPT ![f] = IF @ = None THEN address ELSE @],
                    Continue,
                    UNCHANGED <<environment, directory, provisioned, complete, flags, history, faults>>
             PROVE  DriftInv'
  BY DEF Keep
<1> USE DEF environment, flags, history
<1>1. /\ at \in ToSet(Steps) /\ at' \in ToSet(Steps) /\ ~Launched'
      /\ \A s \in ToSet(Steps) : Behind(s)' => Behind(s) \/ s = at
  BY BehindStep, StepNames DEF Kept, Launched, ToSet
<1>2. Renewed \cup Kept \cup {"sync"} \subseteq ToSet(Steps) /\ f \notin Renewed
  BY StepNames DEF Renewed, Kept
<1>3. /\ holds \in [Renewed \cup Kept -> HostAddress \cup {None}]
      /\ address \in HostAddress /\ address # None
  BY <1>1, Starting DEF DriftInv, DriftTypeOK
<1>4. DriftTypeOK'
  <2>1. holds' \in [Renewed \cup Kept -> HostAddress \cup {None}]
    BY <1>3
  <2> QED
    BY <2>1, WriteTypes
<1>5. PlacesInv'
  BY <1>1, <1>2, <1>3 DEF DriftInv, PlacesInv
<1>6. DomainInv'
  BY <1>1, <1>2, <1>3 DEF DriftInv, DomainInv, Kept
<1>7. PasswordInv'
  BY <1>1, <1>2 DEF DriftInv, PasswordInv, Kept
<1> QED
  BY <1>4, <1>5, <1>6, <1>7 DEF DriftInv

(* A start that is to set the domain up without a password leaves it as it   *)
(* was; one that goes on has set it up, or found it set up.                *)
LEMMA ProvisionInv == DriftInv /\ Provision => DriftInv'
<1> SUFFICES ASSUME DriftInv, Provision PROVE DriftInv'
  OBVIOUS
<1> USE DEF Provision, environment, flags, history
<1>1. at = "smb.conf" /\ at \in ToSet(Steps)
  BY StepNames DEF Kept
<1>2. Renewed \cup Kept \cup {"sync"} \subseteq ToSet(Steps) /\ "smb.conf" \in Kept \ Renewed
  BY StepNames DEF Renewed, Kept
<1>3. /\ holds \in [Renewed \cup Kept -> HostAddress \cup {None}]
      /\ address \in HostAddress /\ address # None /\ init = ~provisioned
  BY <1>1, Starting DEF DriftInv, DriftTypeOK
<1>4. CASE at' = "aborted" /\ UNCHANGED <<holds, directory>>
  <2>1. (\A s : ~Behind(s)') /\ ~Launched' /\ at' \notin ToSet(Steps)
    BY <1>4, NothingBehind, StepNames DEF Launched, ToSet
  <2>2. DriftTypeOK'
    BY <1>4 DEF DriftInv, DriftTypeOK
  <2>3. PlacesInv' /\ DomainInv' /\ PasswordInv'
    BY <1>4, <2>1 DEF DriftInv, PlacesInv, DomainInv, PasswordInv
  <2> QED
    BY <2>2, <2>3 DEF DriftInv
<1>5. CASE Continue
  <2>1. /\ at' \in ToSet(Steps) /\ ~Launched'
        /\ \A s \in ToSet(Steps) : Behind(s)' => Behind(s) \/ s = at
    BY <1>1, <1>5, BehindStep, StepNames DEF Launched, ToSet
  <2>2. CASE /\ init /\ holds["smb.conf"] = None /\ password # None
             /\ holds' = [holds EXCEPT !["smb.conf"] = address] /\ directory' = password
    <3>1. DriftTypeOK'
      <4>1. holds' \in [Renewed \cup Kept -> HostAddress \cup {None}]
        BY <1>3, <2>2
      <4> QED
        BY <1>3, <2>1, <2>2, <4>1 DEF DriftInv, DriftTypeOK
    <3>2. PlacesInv'
      BY <1>1, <1>2, <1>3, <2>1, <2>2 DEF DriftInv, PlacesInv
    <3>3. DomainInv'
      BY <1>1, <1>2, <1>3, <2>1, <2>2 DEF DriftInv, DomainInv
    <3>4. PasswordInv'
      BY <1>1, <1>2, <2>1, <2>2 DEF DriftInv, PasswordInv
    <3> QED
      BY <3>1, <3>2, <3>3, <3>4 DEF DriftInv
  <2>3. CASE (~init \/ holds["smb.conf"] # None) /\ UNCHANGED <<holds, directory>>
    <3>1. holds["smb.conf"] # None
      BY <1>3, <2>3 DEF DriftInv, DomainInv
    <3>2. DriftTypeOK'
      BY <1>3, <1>5, <2>3, WriteTypes
    <3>3. PlacesInv'
      BY <1>1, <1>2, <2>1, <2>3, <3>1 DEF DriftInv, PlacesInv
    <3>4. DomainInv'
      BY <1>1, <2>1, <2>3 DEF DriftInv, DomainInv
    <3>5. PasswordInv'
      BY <1>1, <1>2, <2>1, <2>3 DEF DriftInv, PasswordInv
    <3> QED
      BY <3>2, <3>3, <3>4, <3>5 DEF DriftInv
  <2>4. at' # "aborted"
    BY <2>1, StepNames DEF ToSet
  <2> QED
    BY <2>2, <2>3, <2>4
<1> QED
  BY <1>4, <1>5

(* The directory is given the password of the environment at a restart      *)
(* that is asked to.                                                       *)
LEMMA SynchroniseInv == DriftInv /\ Synchronise => DriftInv'
<1> SUFFICES ASSUME DriftInv, Synchronise PROVE DriftInv'
  OBVIOUS
<1> USE DEF Synchronise, environment, flags, history
<1>1. /\ at = "sync" /\ at \in ToSet(Steps) /\ at' \in ToSet(Steps) /\ ~Launched'
      /\ \A s \in ToSet(Steps) : Behind(s)' => Behind(s) \/ s = at
  BY BehindStep, StepNames DEF Launched, ToSet
<1>2. Renewed \cup Kept \cup {"sync"} \subseteq ToSet(Steps) /\ "sync" \notin Renewed \cup Kept
  BY StepNames DEF Renewed, Kept
<1>3. /\ address # None /\ init = ~provisioned
      /\ password \in Password \cup {None}
  BY <1>1, Starting DEF DriftInv, DriftTypeOK
<1>4. DriftTypeOK'
  BY <1>1, <1>3 DEF DriftInv, DriftTypeOK
<1>5. PlacesInv'
  BY <1>1, <1>2 DEF DriftInv, PlacesInv
<1>6. DomainInv'
  BY <1>1, <1>3 DEF DriftInv, DomainInv
<1>7. PasswordInv'
  BY <1>1, <1>3 DEF DriftInv, PasswordInv
<1> QED
  BY <1>4, <1>5, <1>6, <1>7 DEF DriftInv

(* The sentinel is the last step: everything is behind the start.           *)
LEMMA SentinelInv == DriftInv /\ Sentinel => DriftInv'
<1> SUFFICES ASSUME DriftInv, Sentinel PROVE DriftInv'
  OBVIOUS
<1> USE DEF Sentinel, environment, flags, history
<1>1. /\ at = "sentinel" /\ at \in ToSet(Steps) /\ at' \in ToSet(Steps) \cup {"launched"}
      /\ \A s \in ToSet(Steps) : Behind(s)' => Behind(s) \/ s = at
  BY BehindStep, StepNames DEF Launched, ToSet
<1>2. /\ Renewed \cup Kept \cup {"sync"} \subseteq ToSet(Steps)
      /\ "sentinel" \notin Renewed \cup Kept \cup {"sync"} /\ "smb.conf" \in Kept
  BY StepNames DEF Renewed, Kept
<1>3. address # None /\ init = ~provisioned /\ at' \notin ToSet(Steps)
  <2>1. at' = "launched"
    BY <1>1, StepNames DEF Continue
  <2> QED
    BY <1>1, <2>1, Starting, StepNames DEF ToSet
<1>4. provisioned' /\ holds["smb.conf"] # None
  <2>1. Behind("smb.conf")
    BY <1>1, StepNames DEF Behind
  <2> QED
    BY <1>2, <1>3, <2>1 DEF DriftInv, PlacesInv
<1>5. DriftTypeOK'
  BY <1>1, <1>3 DEF DriftInv, DriftTypeOK
<1>6. PlacesInv'
  BY <1>1, <1>2 DEF DriftInv, PlacesInv
<1>7. DomainInv'
  BY <1>3, <1>4 DEF DriftInv, DomainInv
<1>8. PasswordInv'
  BY <1>1, <1>2 DEF DriftInv, PasswordInv
<1> QED
  BY <1>5, <1>6, <1>7, <1>8 DEF DriftInv

(* What follows the launch leaves the places and the directory alone.       *)
LEMMA LaunchInv == DriftInv /\ (WaitForBIND \/ BootstrapCore) => DriftInv'
<1> SUFFICES ASSUME DriftInv, WaitForBIND \/ BootstrapCore PROVE DriftInv'
  OBVIOUS
<1> USE DEF WaitForBIND, BootstrapCore, environment, flags, history
<1>1. /\ Launched /\ Launched' /\ at' \notin ToSet(Steps)
      /\ at' \in {"bootstrap", "running", "failed"}
  BY StepNames DEF Launched, ToSet
<1>2. \A s : Behind(s)
  BY <1>1 DEF Behind
<1>3. DriftTypeOK'
  BY <1>1 DEF DriftInv, DriftTypeOK, Launched
<1>4. PlacesInv'
  BY <1>2 DEF DriftInv, PlacesInv
<1>5. DomainInv'
  BY <1>1 DEF DriftInv, DomainInv
<1>6. PasswordInv'
  BY <1>2 DEF DriftInv, PasswordInv
<1> QED
  BY <1>3, <1>4, <1>5, <1>6 DEF DriftInv

LEMMA DriftNextInv == DriftInv /\ [DriftNext]_DriftVars => DriftInv'
<1> SUFFICES ASSUME DriftInv, [DriftNext]_DriftVars PROVE DriftInv'
  OBVIOUS
<1>1. CASE UNCHANGED DriftVars
  BY <1>1 DEF DriftVars, environment, flags, history, DriftInv, DriftTypeOK, PlacesInv,
     DomainInv, PasswordInv, Behind, Launched
<1> QED
  BY <1>1, ChangeInv, BeginStartInv, EndStartInv, RenewInv, ProvisionInv, KeepInv,
     SynchroniseInv, SentinelInv, LaunchInv DEF DriftNext, Start

(* What each start may rely on holds whenever starts are cut off and        *)
(* whatever environment the next one has.                                  *)
THEOREM DriftInvariance == DriftSpec => []DriftInv
  BY DriftInitInv, DriftNextInv, PTL DEF DriftSpec

(* The state keeps its types.                                              *)
THEOREM DriftTypeCorrect == DriftSpec => []DriftTypeOK
<1>1. DriftInv => DriftTypeOK
  BY DEF DriftInv
<1> QED
  BY <1>1, DriftInvariance, PTL

(* The services are started with the address in force in resolv.conf and    *)
(* the Kerberos file, and, as long as the container has had no other, in    *)
(* the files that are written once.                                        *)
THEOREM AddressInForce == DriftSpec => []AddressesCurrent
<1>1. DriftInv => AddressesCurrent
  <2> SUFFICES ASSUME DriftInv, Launched,
                      NEW f \in Renewed \cup (IF moved THEN {} ELSE Kept)
               PROVE  holds[f] = address
    BY DEF AddressesCurrent
  <2> QED
    BY DEF DriftInv, PlacesInv, Behind
<1> QED
  BY <1>1, DriftInvariance, PTL

(* No step but the synchronisation, at a start that found the sentinel,     *)
(* overwrites the Administrator's password.                                *)
LEMMA OverwritesOnlySync ==
  DriftInv /\ [DriftNext]_DriftVars =>
    (directory' # directory /\ directory # None => sync /\ provisioned)
<1> SUFFICES ASSUME DriftInv, [DriftNext]_DriftVars,
                    directory' # directory, directory # None
             PROVE  sync /\ provisioned
  OBVIOUS
<1>1. CASE Provision
  BY <1>1 DEF Provision, DriftInv, DomainInv
<1>2. CASE Synchronise
  <2>1. at \in ToSet(Steps)
    BY <1>2, BehindStep, StepNames DEF Synchronise
  <2> QED
    BY <1>2, <2>1, Starting DEF Synchronise
<1> QED
  BY <1>1, <1>2 DEF DriftNext, DriftVars, Change, BeginStart, Fault, Restart, EndStart, Start,
     Renew, Keep, Sentinel, WaitForBIND, BootstrapCore

(* The launch is reached from the sentinel, behind which the directory has   *)
(* a password: the environment's if that was never another, or if it was    *)
(* to be synchronised.                                                     *)
LEMMA LaunchesWithPassword ==
  DriftInv /\ [DriftNext]_DriftVars =>
    (at' = "launched" /\ at # "launched" =>
       /\ sync /\ ~init /\ password # None => directory' = password
       /\ ~changed => directory' = password)
<1> SUFFICES ASSUME DriftInv, [DriftNext]_DriftVars, at' = "launched", at # "launched"
             PROVE  /\ sync /\ ~init /\ password # None => directory' = password
                    /\ ~changed => directory' = password
  OBVIOUS
<1>1. DriftInv'
  BY DriftNextInv
<1>2. Continue
  BY StepNames DEF DriftNext, DriftVars, Change, BeginStart, Fault, Restart, EndStart, Start,
     Renew, Provision, Keep, Synchronise, Sentinel, WaitForBIND, BootstrapCore
<1>3. Sentinel
  <2>1. at = "sentinel"
    BY <1>2, BehindStep, StepNames DEF Renewed
  <2> QED
    BY <2>1, StepNames DEF DriftNext, DriftVars, Change, BeginStart, Fault, Restart, EndStart,
       Start, Renew, Provision, Keep, Synchronise, Renewed, Kept, WaitForBIND, BootstrapCore
<1>4. /\ UNCHANGED <<directory, password, sync, init, changed>>
      /\ Launched' /\ Behind("sync")'
  BY <1>3 DEF Sentinel, environment, flags, history, Launched, Behind
<1> QED
  BY <1>1, <1>4 DEF DriftInv, DomainInv, PasswordInv

(* The Administrator's password is overwritten by a restart only that is    *)
(* asked to, and the services are started with the environment's one if      *)
(* that was never another or was to be synchronised.                        *)
THEOREM PasswordKept == DriftSpec => PasswordFollows
  BY DriftInvariance, OverwritesOnlySync, LaunchesWithPassword, PTL
  DEF DriftSpec, PasswordFollows, OnlySyncSets

(* A wait for BIND that is in vain, and a password that is refused, are the  *)
(* work of an environment that changed: the places and the directory are   *)
(* otherwise right.                                                        *)
LEMMA FailsExplained ==
  DriftInv /\ FailureExplained /\ [DriftNext]_DriftVars => FailureExplained'
<1> SUFFICES ASSUME DriftInv, FailureExplained, [DriftNext]_DriftVars, at' = "failed"
             PROVE  FailureExplained'
  BY DEF FailureExplained
<1>1. CASE WaitForBIND
  <2>1. /\ UNCHANGED <<address, moved, holds>>
        /\ holds["named.conf.options"] # address
        /\ Launched
    BY <1>1 DEF WaitForBIND, environment, history, Launched
  <2>2. holds["named.conf.options"] # None /\ moved
    BY <2>1 DEF DriftInv, DriftTypeOK, PlacesInv, Behind, Kept
  <2> QED
    BY <2>1, <2>2 DEF FailureExplained
<1>2. CASE BootstrapCore
  <2>1. /\ UNCHANGED <<password, sync, init, changed, directory>>
        /\ directory # password
        /\ Launched
    BY <1>2 DEF BootstrapCore, environment, flags, history, Launched
  <2>2. directory # None
    BY <2>1 DEF DriftInv, DomainInv
  <2>3. changed /\ (init \/ ~sync \/ password = None)
    BY <2>1, <2>2 DEF DriftInv, DriftTypeOK, PasswordInv, Behind
  <2> QED
    BY <2>1, <2>3 DEF FailureExplained
<1>3. CASE UNCHANGED DriftVars
  BY <1>3 DEF DriftVars, environment, flags, history, FailureExplained
<1>4. ~Continue
  BY StepNames DEF Continue
<1> QED
  BY <1>1, <1>2, <1>3, <1>4 DEF DriftNext, Change, BeginStart, Fault, Restart, EndStart,
     Start, Renew, Provision, Keep, Synchronise, Sentinel, Steps

(* The bootstrap of the core does not fail of itself: RunOnce's commands    *)
(* are refused, and BIND is not reached, only where the address or the     *)
(* password has changed since the domain was set up.                       *)
THEOREM FailureHasCause == DriftSpec => []FailureExplained
<1>1. DriftInit => FailureExplained
  BY DEF DriftInit, FailureExplained
<1> QED
  BY <1>1, FailsExplained, DriftInvariance, PTL DEF DriftSpec

=============================================================================
