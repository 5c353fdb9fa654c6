------------------------------- MODULE Drift -------------------------------
(***************************************************************************)
(* Restarts under another environment: the container's address and the     *)
(* Administrator's password, which the entry point and the configure       *)
(* commands put into files and the directory, and which the bootstrap of   *)
(* the core needs to be the ones in force. Some places are written at      *)
(* every start (renewed), some once (kept); the password is set when the   *)
(* domain is provisioned, and by a restart that is asked to synchronise.   *)
(*                                                                         *)
(* A write, and the provisioning, happens wholly or not at all here: what  *)
(* half of one leaves is Entrypoint.tla's subject, the steps of the        *)
(* bootstrap are Bootstrap.tla's, and the other managed values are         *)
(* Reconcile.tla's.                                                        *)
(*                                                                         *)
(* Operators whose name ends in _Variant are wrong on purpose: each is a   *)
(* plausible slip in the definition after it.                              *)
(***************************************************************************)
EXTENDS Integers, Sequences, SequencesExt

CONSTANTS
  HostAddress,  \* addresses the interface may have
  Password,     \* values of DIB_DOMAIN_ADMIN_PASSWORD
  None,         \* no address, no password set, nothing written
  MaxFaults,    \* bound on crashes and failures
  MaxChanges    \* bound on changes of the environment

ASSUME DriftAssumption ==
  /\ None \notin HostAddress \cup Password
  /\ MaxFaults \in Nat /\ MaxChanges \in Nat

VARIABLES
  address, password, sync,  \* the environment of the present start
  holds,               \* the address that each place was written with
  directory,           \* the Administrator's password in the directory
  provisioned, complete,  \* the entry point's two sentinels
  init, pending,       \* INIT_DOMAIN and DIB_BOOTSTRAP_PENDING, as exported
  at,                  \* how far this start is
  moved, changed,      \* history: the address, the password ever changed
  faults, changes

environment == <<address, password, sync>>
flags == <<init, pending>>
history == <<moved, changed, changes>>
DriftVars == <<environment, holds, directory, provisioned, complete, flags, at, history, faults>>

Renewed == {"resolv.conf", "krb5.conf"}
Kept == {"smb.conf", "chrony.conf", "named.conf.options", "kea-dhcp4.conf", "agent.env"}

(* The places in the order they are written in, and what comes between.    *)
Steps == <<"resolv.conf", "smb.conf", "krb5.conf", "sync", "chrony.conf",
           "named.conf.options", "kea-dhcp4.conf", "agent.env", "sentinel">>

DriftTypeOK ==
  /\ address \in HostAddress \cup {None} /\ password \in Password \cup {None} /\ sync \in BOOLEAN
  /\ holds \in [Renewed \cup Kept -> HostAddress \cup {None}]
  /\ directory \in Password \cup {None}
  /\ {provisioned, complete, init, pending, moved, changed} \subseteq BOOLEAN
  /\ at \in ToSet(Steps) \cup {"down", "aborted", "launched", "bootstrap", "running", "failed"}
  /\ at \notin {"down", "aborted"} => address # None
  /\ faults \in 0 .. MaxFaults /\ changes \in 0 .. MaxChanges

DriftInit ==
  /\ address \in HostAddress /\ password \in Password \cup {None} /\ sync \in BOOLEAN
  /\ holds = [f \in Renewed \cup Kept |-> None]
  /\ directory = None
  /\ provisioned = FALSE /\ complete = FALSE
  /\ init = TRUE /\ pending = TRUE
  /\ at = "down"
  /\ moved = FALSE /\ changed = FALSE
  /\ faults = 0 /\ changes = 0

-----------------------------------------------------------------------------
Continue ==
  \E i \in DOMAIN Steps :
    /\ Steps[i] = at
    /\ at' = IF i = Len(Steps) THEN "launched" ELSE Steps[i + 1]

(* The operator redeploys, or the network gives out another address.       *)
Change ==
  /\ at = "down"
  /\ changes < MaxChanges
  /\ changes' = changes + 1
  /\ address' \in HostAddress \cup {None} /\ password' \in Password \cup {None}
  /\ sync' \in BOOLEAN
  /\ environment' # environment
  /\ moved' = (moved \/ address' # address)
  /\ changed' = (changed \/ password' # password)
  /\ UNCHANGED <<holds, directory, provisioned, complete, flags, at, faults>>

(* The address is not checked.                                             *)
BeginStart_Variant ==
  /\ at = "down"
  /\ init' = ~provisioned
  /\ pending' = ~complete
  /\ at' = Head(Steps)
  /\ UNCHANGED <<environment, holds, directory, provisioned, complete, history, faults>>

(* A start without an address ends before anything is written.             *)
BeginStart ==
  /\ at = "down"
  /\ init' = ~provisioned
  /\ pending' = ~complete
  /\ at' = IF address = None THEN "aborted" ELSE Head(Steps)
  /\ UNCHANGED <<environment, holds, directory, provisioned, complete, history, faults>>

EndStart ==
  /\ at # "down"
  /\ at' = "down"
  /\ UNCHANGED <<environment, holds, directory, provisioned, complete, flags, history>>

(* The container crashes, or a command fails.                              *)
Fault == faults < MaxFaults /\ faults' = faults + 1 /\ EndStart

(* The container is restarted; after a failed bootstrap nothing else       *)
(* starts that again.                                                      *)
Restart == at \in {"aborted", "running", "failed"} /\ EndStart /\ UNCHANGED faults

Renew ==
  \E f \in Renewed :
    /\ at = f
    /\ holds' = [holds EXCEPT ![f] = address]
    /\ Continue
    /\ UNCHANGED <<environment, directory, provisioned, complete, flags, history, faults>>

(* The domain is set up, with the address and the password in force, at a  *)
(* start that finds no sentinel and no smb.conf. Without a password it is  *)
(* not, and the start ends.                                                *)
Provision ==
  /\ at = "smb.conf"
  /\ IF ~init \/ holds["smb.conf"] # None
     THEN Continue /\ UNCHANGED <<holds, directory>>
     ELSE IF password = None
     THEN at' = "aborted" /\ UNCHANGED <<holds, directory>>
     ELSE /\ holds' = [holds EXCEPT !["smb.conf"] = address]
          /\ directory' = password
          /\ Continue
  /\ UNCHANGED <<environment, provisioned, complete, flags, history, faults>>

Keep ==
  \E f \in Kept \ {"smb.conf"} :
    /\ at = f
    /\ holds' = [holds EXCEPT ![f] = IF @ = None THEN address ELSE @]
    /\ Continue
    /\ UNCHANGED <<environment, directory, provisioned, complete, flags, history, faults>>

(* The condition on INIT_DOMAIN is the other way round.                    *)
Synchronise_Variant ==
  /\ at = "sync"
  /\ directory' = IF init /\ sync /\ password # None THEN password ELSE directory
  /\ Continue
  /\ UNCHANGED <<environment, holds, provisioned, complete, flags, history, faults>>

(* A password that is not set is not set in the directory either.          *)
Synchronise ==
  /\ at = "sync"
  /\ directory' = IF ~init /\ sync /\ password # None THEN password ELSE directory
  /\ Continue
  /\ UNCHANGED <<environment, holds, provisioned, complete, flags, history, faults>>

Sentinel ==
  /\ at = "sentinel"
  /\ provisioned' = (provisioned \/ init)
  /\ Continue
  /\ UNCHANGED <<environment, holds, directory, complete, flags, history, faults>>

(* The bootstrap of the core, if it is pending, waits for BIND at the      *)
(* address in force: named listens on the one in its options.              *)
WaitForBIND ==
  /\ at = "launched"
  /\ at' = IF ~pending THEN "running"
           ELSE IF holds["named.conf.options"] = address THEN "bootstrap" ELSE "failed"
  /\ UNCHANGED <<environment, holds, directory, provisioned, complete, flags, history, faults>>

(* Its commands authenticate with the password in force, if one is set.    *)
BootstrapCore ==
  /\ at = "bootstrap"
  /\ IF password = directory
     THEN complete' = TRUE /\ at' = "running"
     ELSE complete' = complete /\ at' = "failed"
  /\ UNCHANGED <<environment, holds, directory, provisioned, flags, history, faults>>

Start == Renew \/ Provision \/ Keep \/ Synchronise \/ Sentinel \/ WaitForBIND \/ BootstrapCore

DriftNext == Change \/ BeginStart \/ Fault \/ Restart \/ Start

DriftSpec == DriftInit /\ [][DriftNext]_DriftVars

(* The container is started when it is down; the operator, or the runtime,  *)
(* restarts it when it or its bootstrap has failed.                        *)
DriftFairSpec ==
  DriftSpec /\ WF_DriftVars(Start) /\ WF_DriftVars(BeginStart) /\ WF_DriftVars(at # "running" /\ Restart)

-----------------------------------------------------------------------------
Launched == at \in {"launched", "bootstrap", "running", "failed"}

(* What is written at every start holds the address in force; the rest     *)
(* does too if the address has never been another, however many starts     *)
(* were cut off on the way.                                                *)
AddressesCurrent ==
  Launched => \A f \in Renewed \cup (IF moved THEN {} ELSE Kept) : holds[f] = address

(* The Administrator's password, once set, is not overwritten unless a     *)
(* restart is asked to, whatever starts were cut off before.               *)
OnlySyncSets ==
  [][directory' # directory /\ directory # None => sync /\ provisioned]_DriftVars

(* A restart after the domain was set up that is asked to synchronise      *)
(* starts the services with the password of the environment; so does every *)
(* start as long as the environment's never was another.                   *)
PasswordFollows ==
  /\ OnlySyncSets
  /\ [][at' = "launched" /\ at # "launched" =>
          /\ sync /\ ~init /\ password # None => directory' = password
          /\ ~changed => directory' = password]_DriftVars

(* Why these hold. What a start has put behind it is every step before the  *)
(* one it is at.                                                           *)
Behind(s) ==
  \/ Launched
  \/ \E i, j \in DOMAIN Steps : i < j /\ Steps[i] = s /\ Steps[j] = at

(* A place that the start has behind it is written, one that is renewed     *)
(* with the address in force; so is what was kept if there never was       *)
(* another address.                                                        *)
PlacesInv ==
  /\ \A f \in Renewed : Behind(f) => holds[f] = address
  /\ \A f \in Kept : /\ Behind(f) => holds[f] # None
                     /\ ~moved => holds[f] \in {None, address}

(* The domain is set up where there is an smb.conf, and the sentinel, which *)
(* decides whether a start is the first, is never ahead of it.              *)
DomainInv ==
  /\ directory = None <=> holds["smb.conf"] = None
  /\ provisioned => directory # None
  /\ at \in ToSet(Steps) => init = ~provisioned
  /\ Launched => provisioned

(* Whose password the directory has.                                        *)
PasswordInv ==
  /\ ~changed => directory \in {None, password}
  /\ Behind("sync") /\ sync /\ ~init /\ password # None => directory = password

DriftInv == DriftTypeOK /\ PlacesInv /\ DomainInv /\ PasswordInv

(* A bootstrap of the core fails, faults apart, only after the environment  *)
(* has changed: named is configured for another address, or the directory  *)
(* has another password that this start did not, or could not, synchronise: *)
(* it was not asked to, takes itself for the first, or has no password.    *)
FailureExplained ==
  at = "failed" =>
    \/ moved /\ holds["named.conf.options"] \notin {address, None}
    \/ changed /\ directory # password /\ (init \/ ~sync \/ password = None)

(* README: restarts synchronise the password if they are asked to. A       *)
(* start was cut off after the domain was provisioned; the next one, the   *)
(* sentinel missing, takes itself for the first: this does not hold.       *)
SyncHonoured ==
  Launched /\ sync => directory = password

(* When there is an address and a password, the core's bootstrap completes, *)
(* unless named was configured for another address, or the directory has   *)
(* another password and no restart is to synchronise it.                   *)
Completes ==
  <>[](address # None /\ password # None) =>
    []<>(\/ complete
         \/ holds["named.conf.options"] \notin {address, None}
         \/ directory # password /\ ~sync)

=============================================================================
