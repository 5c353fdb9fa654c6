----------------------------- MODULE Entrypoint -----------------------------
(***************************************************************************)
(* What happens between the start of a container and supervisord:          *)
(* entrypoint.sh, which decides from a sentinel on the Samba volume        *)
(* whether the domain is still to be set up, and the `configure' and       *)
(* `validate' handlers of the three services it runs in order.             *)
(*                                                                         *)
(* A configuration file is written once, when it is missing, and kept at   *)
(* every later boot; only the values Domain-In-A-Box manages are brought   *)
(* up to date, and only by boots that do not set the domain up. The        *)
(* script runs under `set -e': a failing command ends the container, which *)
(* the restart policy starts again. Interruption and failure are therefore *)
(* one action here, at any point, and what matters is what is on disk.     *)
(*                                                                         *)
(* A file is written with os.WriteFile: it exists, empty, from the moment  *)
(* it is opened until its contents follow. The managed values are replaced *)
(* through a temporary file and a rename, which is one step.               *)
(*                                                                         *)
(* Abstracted: the operator's managed settings (pool, forwarders, metrics) *)
(* and the other variables a file is made from are one value per boot; the *)
(* TLS assets and the Administrator password are left out.                 *)
(*                                                                         *)
(* Operators whose name ends in _Variant are wrong on purpose: each is a   *)
(* plausible slip in the definition after it.                              *)
(***************************************************************************)
EXTENDS Integers

CONSTANTS
  Setting,      \* the values the operator may configure
  NameLength,   \* the lengths DIB_DOMAIN may have
  MaxFaults     \* bound on the number of interruptions

ASSUME EntrypointAssumption ==
  /\ Setting # {}
  /\ Setting \cap {"absent", "torn"} = {}
  /\ NameLength \subseteq Nat
  /\ MaxFaults \in Nat

(* The files, by the handler that writes them. named.conf.cluster stands   *)
(* for itself and named.conf.cluster-options, written alike.               *)
BindFiles ==
  {"named.conf", "named.conf.options", "named.conf.local",
   "named.conf.root-hints"}
OnceFiles ==
  BindFiles \cup {"chrony.conf", "kea-dhcp4.conf", "kea-dhcp-ddns.conf",
                  "agent.env"}
File == OnceFiles \cup {"smb.conf", "named.conf.cluster"}

(* Files with a value that is reconciled on restart.                       *)
Managed == {"smb.conf", "named.conf.options", "kea-dhcp4.conf"}

(* Files whose validation rejects an empty one: chronyd and                *)
(* named-checkconf accept it.                                              *)
Checked == {"kea-dhcp4.conf", "kea-dhcp-ddns.conf", "agent.env"}

VARIABLES
  provisioned,  \* /var/lib/samba/.dib-provisioned exists
  file,         \* the contents of each file: a setting, "torn" or "absent"
  krb5,         \* /var/lib/samba/private/krb5.conf exists
  rndc,         \* rndc.key: missing, or how far its ownership got
  wanted,       \* the settings in the environment of this boot
  domainLength, \* the number of characters of DIB_DOMAIN
  command,      \* the container was started with a command of its own
  initDomain,   \* INIT_DOMAIN
  pc,           \* where the script is
  todo,         \* the BIND files not yet visited
  writing,      \* the file opened for writing, or "none"
  faults        \* interruptions so far

disk == <<provisioned, file, krb5, rndc>>
env  == <<wanted, domainLength, command, initDomain>>
vars == <<disk, env, pc, todo, writing, faults>>

Exists(f) == file[f] # "absent"

ActivePC ==
  {"checks", "smb", "provision", "fillDomain", "kerberos", "metrics",
   "chrony", "bind", "cluster", "rndc", "rndcChown", "rndcChmod", "dhcp4",
   "ddns", "forwarders", "pool", "agentEnv", "sentinel", "validate"}
LaunchedPC == {"running", "command"}

TypeOK ==
  /\ provisioned \in BOOLEAN
  /\ file \in [File -> Setting \cup {"absent", "torn"}]
  /\ krb5 \in BOOLEAN
  /\ rndc \in {"absent", "root", "bind", "shared"}
  /\ wanted \in Setting
  /\ domainLength \in NameLength
  /\ command \in BOOLEAN
  /\ initDomain \in BOOLEAN
  /\ pc \in ActivePC \cup LaunchedPC \cup {"down"}
  /\ todo \subseteq BindFiles
  /\ writing \in File \cup {"none"}
  /\ faults \in 0 .. MaxFaults

(* Fresh volumes. They are empty, or filled from the image, in which the   *)
(* bind9 package left a key that named can read.                           *)
Init ==
  /\ provisioned = FALSE
  /\ file = [f \in File |-> "absent"]
  /\ krb5 = FALSE
  /\ rndc \in {"absent", "shared"}
  /\ wanted \in Setting
  /\ domainLength \in NameLength
  /\ command = FALSE
  /\ initDomain = FALSE
  /\ pc = "down"
  /\ todo = {}
  /\ writing = "none"
  /\ faults = 0

(* The container is started, with the environment the operator gave it.    *)
Boot ==
  /\ pc = "down"
  /\ wanted' \in Setting
  /\ domainLength' \in NameLength
  /\ command' \in BOOLEAN
  /\ initDomain' = FALSE
  /\ pc' = "checks"
  /\ UNCHANGED <<disk, todo, writing, faults>>

(* A command of the script fails, or the container is killed.              *)
Interrupt ==
  /\ pc \in ActivePC
  /\ faults < MaxFaults
  /\ faults' = faults + 1
  /\ pc' = "down"
  /\ todo' = {}
  /\ writing' = "none"
  /\ UNCHANGED <<disk, env>>

(* The operator restarts a container that was launched.                    *)
Restart ==
  /\ pc \in LaunchedPC
  /\ pc' = "down"
  /\ UNCHANGED <<disk, env, todo, writing, faults>>

(* The script ends with an error that is on the disk to stay.              *)
Abort ==
  /\ pc' = "down"
  /\ UNCHANGED <<disk, env, todo, writing, faults>>

GoTo(label) ==
  /\ pc' = label
  /\ UNCHANGED <<env, faults>>

(***************************************************************************)
(* entrypoint.sh up to the first handler.                                  *)
(***************************************************************************)

(* The shell's ${DIB_DOMAIN:?message} is an error if the variable is unset *)
(* or empty, and expands to its value otherwise.                           *)
ExpansionFails == domainLength = 0

Refused == ExpansionFails \/ (domainLength > 15 /\ ExpansionFails)

(* The sentinel is touched as soon as it was found missing.                *)
Checks_Variant ==
  /\ pc = "checks"
  /\ ~Refused
  /\ provisioned => Exists("smb.conf")
  /\ initDomain' = ~provisioned
  /\ provisioned' = TRUE
  /\ pc' = "smb"
  /\ UNCHANGED <<file, krb5, rndc, wanted, domainLength, command, todo,
                 writing, faults>>

(* The name must be given (line 11); its length is tested by an expansion  *)
(* that does not fail (line 19). A provisioned domain must have smb.conf.  *)
Checks ==
  /\ pc = "checks"
  /\ ~Refused
  /\ provisioned => Exists("smb.conf")
  /\ initDomain' = ~provisioned
  /\ pc' = "smb"
  /\ UNCHANGED <<disk, wanted, domainLength, command, todo, writing, faults>>

(* The script also refuses to start without the other variables it         *)
(* requires (lines 10, 13 to 15) and with an interface that has no address *)
(* or no route (lines 43 to 51). All of that is at this place, before      *)
(* anything is written, and lasts as long as the environment does: a name  *)
(* of no characters stands for all of it.                                  *)
RefuseName == pc = "checks" /\ Refused /\ Abort

(***************************************************************************)
(* The identity handler.                                                   *)
(***************************************************************************)
(* Provisioning is repeated until it has left its last file.               *)
CheckSmbConf_Variant ==
  /\ pc = "smb"
  /\ \/ initDomain /\ ~krb5 /\ GoTo("provision")
     \/ (initDomain => krb5) /\ GoTo("kerberos")
  /\ UNCHANGED <<disk, todo, writing>>

CheckSmbConf ==
  /\ pc = "smb"
  /\ \/ initDomain /\ file["smb.conf"] = "absent" /\ GoTo("provision")
     \/ (initDomain => file["smb.conf"] # "absent") /\ GoTo("kerberos")
  /\ UNCHANGED <<disk, todo, writing>>

(* samba-tool domain provision writes smb.conf first and the domain's      *)
(* Kerberos configuration last.                                            *)
ProvisionConf ==
  /\ pc = "provision"
  /\ file' = [file EXCEPT !["smb.conf"] = wanted]
  /\ GoTo("fillDomain")
  /\ UNCHANGED <<provisioned, krb5, rndc, todo, writing>>

ProvisionDomain ==
  /\ pc = "fillDomain"
  /\ krb5' = TRUE
  /\ GoTo("kerberos")
  /\ UNCHANGED <<provisioned, file, rndc, todo, writing>>

(* configureKerberos needs the file provisioning left; the metrics setting *)
(* is reconciled unless the domain is being set up.                        *)
ConfigureKerberos ==
  /\ pc = "kerberos"
  /\ \/ krb5 /\ GoTo(IF initDomain THEN "chrony" ELSE "metrics")
        /\ UNCHANGED <<disk, todo, writing>>
     \/ ~krb5 /\ Abort

(* writeAtomically: the managed value is replaced by a rename. A file that *)
(* does not have the managed directive, like an empty one, is an error.    *)
Reconcile(f, next) ==
  \/ /\ file[f] \in Setting
     /\ file' = [file EXCEPT ![f] = wanted]
     /\ GoTo(next)
     /\ UNCHANGED <<provisioned, krb5, rndc, todo, writing>>
  \/ /\ file[f] \notin Setting
     /\ Abort

UpdateSambaMetrics == pc = "metrics" /\ Reconcile("smb.conf", "chrony")

(***************************************************************************)
(* Files written once.                                                     *)
(***************************************************************************)
Open(f) ==
  /\ writing = "none"
  /\ file' = [file EXCEPT ![f] = "torn"]
  /\ writing' = f
  /\ UNCHANGED <<provisioned, krb5, rndc, env, pc, faults>>

Fill(f) ==
  /\ writing = f
  /\ file' = [file EXCEPT ![f] = wanted]
  /\ writing' = "none"
  /\ UNCHANGED <<provisioned, krb5, rndc>>

Keep(f) ==
  /\ writing = "none"
  /\ Exists(f)
  /\ UNCHANGED <<disk, writing>>

(* The file is written at every boot.                                      *)
WriteIfMissing_Variant(f, next) ==
  \/ Open(f) /\ UNCHANGED todo
  \/ Fill(f) /\ GoTo(next) /\ UNCHANGED todo

(* Keep f if it is there, write it if it is missing, then go on.           *)
WriteIfMissing(f, next) ==
  \/ Keep(f) /\ GoTo(next) /\ UNCHANGED todo
  \/ ~Exists(f) /\ Open(f) /\ UNCHANGED todo
  \/ Fill(f) /\ GoTo(next) /\ UNCHANGED todo

ConfigureChrony ==
  /\ pc = "chrony"
  /\ \/ Keep("chrony.conf") /\ GoTo("bind") /\ todo' = BindFiles
     \/ ~Exists("chrony.conf") /\ Open("chrony.conf") /\ UNCHANGED todo
     \/ Fill("chrony.conf") /\ GoTo("bind") /\ todo' = BindFiles

(* The BIND files are a Go map: they are visited in any order.             *)
ConfigureBind ==
  /\ pc = "bind"
  /\ \/ \E f \in todo :
          \/ (Keep(f) \/ Fill(f)) /\ GoTo("bind") /\ todo' = todo \ {f}
          \/ ~Exists(f) /\ Open(f) /\ UNCHANGED todo
     \/ todo = {} /\ GoTo("cluster") /\ UNCHANGED <<disk, todo, writing>>

(* The cluster forwarding is written anew at every boot.                   *)
WriteClusterForwarding ==
  /\ pc = "cluster"
  /\ \/ Open("named.conf.cluster")
     \/ Fill("named.conf.cluster") /\ GoTo("rndc")
  /\ UNCHANGED todo

(* An existing key is an error.                                            *)
CheckRndcKey_Variant ==
  /\ pc = "rndc"
  /\ \/ rndc # "absent" /\ Abort
     \/ /\ rndc = "absent" /\ rndc' = "root" /\ GoTo("rndcChown")
        /\ UNCHANGED <<provisioned, file, krb5, todo, writing>>

(* The key is generated, given to the bind group and opened to it; a key   *)
(* that exists is left as it is.                                           *)
CheckRndcKey ==
  /\ pc = "rndc"
  /\ \/ rndc # "absent" /\ rndc' = rndc /\ GoTo("dhcp4")
     \/ rndc = "absent" /\ rndc' = "root" /\ GoTo("rndcChown")
  /\ UNCHANGED <<provisioned, file, krb5, todo, writing>>

ChownRndcKey ==
  /\ pc = "rndcChown"
  /\ rndc' = "bind"
  /\ GoTo("rndcChmod")
  /\ UNCHANGED <<provisioned, file, krb5, todo, writing>>

ChmodRndcKey ==
  /\ pc = "rndcChmod"
  /\ rndc' = "shared"
  /\ GoTo("dhcp4")
  /\ UNCHANGED <<provisioned, file, krb5, todo, writing>>

(* The handler returns before its last part at every boot.                 *)
ConfigureKea_Variant ==
  \/ pc = "dhcp4" /\ WriteIfMissing("kea-dhcp4.conf", "ddns")
  \/ pc = "ddns" /\ WriteIfMissing("kea-dhcp-ddns.conf", "agentEnv")

(* The reconciliation of forwarders and pool follows unless the domain is  *)
(* being set up.                                                           *)
ConfigureKea ==
  \/ pc = "dhcp4" /\ WriteIfMissing("kea-dhcp4.conf", "ddns")
  \/ /\ pc = "ddns"
     /\ WriteIfMissing("kea-dhcp-ddns.conf",
                       IF initDomain THEN "agentEnv" ELSE "forwarders")

UpdateBindForwarders ==
  pc = "forwarders" /\ Reconcile("named.conf.options", "pool")

UpdateKeaDHCPPool ==
  pc = "pool" /\ Reconcile("kea-dhcp4.conf", "agentEnv")

WriteStorkAgentEnvironment ==
  pc = "agentEnv" /\ WriteIfMissing("agent.env", "sentinel")

(***************************************************************************)
(* The end of entrypoint.sh.                                               *)
(***************************************************************************)
TouchSentinel ==
  /\ pc = "sentinel"
  /\ provisioned' = (provisioned \/ initDomain)
  /\ GoTo(IF command THEN "command" ELSE "validate")
  /\ UNCHANGED <<file, krb5, rndc, todo, writing>>

(* That the Stork agent's file exists is taken for enough.                 *)
Validate_Variant ==
  /\ pc = "validate"
  /\ LET validated == Checked \ {"agent.env"}
     IN \/ /\ \A f \in validated : file[f] # "torn"
           /\ GoTo("running")
           /\ UNCHANGED <<disk, todo, writing>>
        \/ /\ \E f \in validated : file[f] = "torn"
           /\ Abort

Validate ==
  /\ pc = "validate"
  /\ \/ /\ \A f \in Checked : file[f] # "torn"
        /\ GoTo("running")
        /\ UNCHANGED <<disk, todo, writing>>
     \/ /\ \E f \in Checked : file[f] = "torn"
        /\ Abort

RunScript ==
  \/ Checks
  \/ RefuseName
  \/ CheckSmbConf
  \/ ProvisionConf
  \/ ProvisionDomain
  \/ ConfigureKerberos
  \/ UpdateSambaMetrics
  \/ ConfigureChrony
  \/ ConfigureBind
  \/ WriteClusterForwarding
  \/ CheckRndcKey
  \/ ChownRndcKey
  \/ ChmodRndcKey
  \/ ConfigureKea
  \/ UpdateBindForwarders
  \/ UpdateKeaDHCPPool
  \/ WriteStorkAgentEnvironment
  \/ TouchSentinel
  \/ Validate

Next == Boot \/ RunScript \/ Interrupt \/ Restart

Spec == Init /\ [][Next]_vars

(* The restart policy starts the container, and the script runs.           *)
FairSpec == Spec /\ WF_vars(Boot) /\ WF_vars(RunScript)

(***************************************************************************)
(* Properties.                                                             *)
(***************************************************************************)

(* The provision sentinel means that everything the first setup writes is  *)
(* there, whatever interrupted it: later boots take it for granted.        *)
ProvisionedSound ==
  provisioned =>
    /\ krb5
    /\ \A f \in File : Exists(f)
    /\ rndc # "absent"

(* What an interruption can leave behind: a domain whose provisioning was  *)
(* cut off, a file that was opened and not filled, a key named cannot read.*)
HalfProvisioned == Exists("smb.conf") /\ ~krb5 /\ pc # "fillDomain"
TornFile == \E f \in OnceFiles : file[f] = "torn" /\ writing # f
KeyUnreadable == rndc \in {"root", "bind"} /\ pc \notin {"rndcChown", "rndcChmod"}
Damaged == HalfProvisioned \/ TornFile \/ KeyUnreadable

(* supervisord is only started on a domain that is set up, with every file *)
(* there and those that are checked whole; and with nothing amiss but what *)
(* an interruption left behind in one of three windows.                    *)
LaunchedComplete ==
  pc = "running" =>
    /\ provisioned
    /\ \A f \in Checked : file[f] \in Setting
    /\ \/ Damaged
       \/ (\A f \in File : file[f] \in Setting) /\ krb5 /\ rndc = "shared"

(* No later boot repairs the damage: what decides whether to write a file, *)
(* provision or own the key is that it exists.                             *)
DamageIsPermanent == [][Damaged => Damaged']_vars

(* It takes an interruption to do damage, at the end of the provisioning,  *)
(* while a file is open, or before rndc.key has its owner and mode.        *)
OnlyInterruptionsDamage ==
  [][~Damaged /\ Damaged' =>
       /\ faults' = faults + 1
       /\ \/ pc \in {"fillDomain", "rndcChown", "rndcChmod"}
          \/ writing # "none"]_vars

(* The script gives up by itself only on what an earlier interruption left *)
(* behind, or for want of a domain name: it never fails on what it, or an  *)
(* earlier boot of it, set up.                                             *)
OnlyDamageAborts ==
  [][pc' = "down" /\ pc \in ActivePC =>
       faults' = faults + 1 \/ Damaged \/ domainLength = 0]_vars

(* How many steps the script has left, the longest way: two for each file  *)
(* that is written and one for everything else.                            *)
LeftAt ==
  [down |-> 0, running |-> 0, command |-> 0,
   validate |-> 1, sentinel |-> 2, agentEnv |-> 4, pool |-> 5,
   forwarders |-> 6, ddns |-> 8, dhcp4 |-> 10, rndcChmod |-> 11,
   rndcChown |-> 12, rndc |-> 13, cluster |-> 15, bind |-> 16, chrony |-> 26,
   metrics |-> 27, kerberos |-> 28, fillDomain |-> 29, provision |-> 30,
   smb |-> 31, checks |-> 32]

Left ==
  LET ToVisit(f) == IF pc = "bind" /\ f \in todo THEN 2 ELSE 0
  IN  LeftAt[pc] + ToVisit("named.conf") + ToVisit("named.conf.options")
        + ToVisit("named.conf.local") + ToVisit("named.conf.root-hints")
        - (IF writing = "none" THEN 0 ELSE 1)

(* Every step of the script brings it nearer to its end, whatever the boot *)
(* finds and in whatever order it visits the BIND files.                   *)
ScriptEnds ==
  [][(pc \in ActivePC) => Left \in 1 .. 32 /\ Left' \in 0 .. Left - 1]_vars

(* A restart of a domain that was set up applies the operator's settings.  *)
SettingsReconciled ==
  pc = "running" /\ ~initDomain =>
    \A f \in Managed \cup {"named.conf.cluster"} : file[f] = wanted

(* Existing files are preserved: no boot changes one that is whole but for *)
(* its managed value, and that change never leaves the file incomplete.    *)
ConfigurationPreserved ==
  [][\A f \in OnceFiles : file[f] \in Setting =>
       \/ file'[f] = file[f]
       \/ f \in Managed /\ ~initDomain /\ file'[f] = wanted]_vars

(* When interruptions stop, every start of the container ends in a launch, *)
(* unless an earlier interruption did damage or DIB_DOMAIN is not set.      *)
Launches == []<>(pc \in LaunchedPC \/ Damaged \/ domainLength = 0)

(***************************************************************************)
(* The inductive invariant: what the script may rely on at each label.     *)
(***************************************************************************)
AgentDone == {"sentinel", "validate"} \cup LaunchedPC
DdnsDone == {"forwarders", "pool", "agentEnv"} \cup AgentDone
Dhcp4Done == {"ddns"} \cup DdnsDone
KeyMade == {"rndcChown", "rndcChmod", "dhcp4"} \cup Dhcp4Done
ClusterDone == {"rndc"} \cup KeyMade
BindDone == {"cluster"} \cup ClusterDone
ChronyDone == {"bind"} \cup BindDone
DomainDone == {"metrics", "chrony"} \cup ChronyDone

(* The managed values are only touched by boots that do not set up, and    *)
(* the boots that do have no sentinel before the end.                      *)
ModeInv ==
  /\ pc \in {"metrics", "forwarders", "pool"} => ~initDomain
  /\ pc \notin {"down", "checks"} => initDomain \/ provisioned
  /\ pc \in {"validate", "running"} => provisioned
  /\ pc = "provision" => ~Exists("smb.conf")

(* A file that is open is torn until it is filled, and nothing else is done*)
(* meanwhile.                                                              *)
WritingInv ==
  /\ file["smb.conf"] # "torn"
  /\ writing # "none" =>
       /\ writing # "smb.conf"
       /\ file[writing] = "torn"
       /\ pc \in {"chrony", "bind", "cluster", "dhcp4", "ddns", "agentEnv"}
       /\ pc = "bind" => writing \in todo

(* What exists once its writer was passed.                                 *)
ProgressInv ==
  /\ pc \in {"fillDomain", "kerberos"} \/ krb5 => Exists("smb.conf")
  /\ pc \in DomainDone => krb5
  /\ pc \in ChronyDone => Exists("chrony.conf")
  /\ pc = "bind" => \A f \in BindFiles \ todo : Exists(f)
  /\ pc \in BindDone => \A f \in BindFiles : Exists(f)
  /\ pc \in KeyMade => rndc # "absent"
  /\ pc \in Dhcp4Done => Exists("kea-dhcp4.conf")
  /\ pc \in DdnsDone => Exists("kea-dhcp-ddns.conf")
  /\ pc \in AgentDone => Exists("agent.env")

(* Which settings are those of this boot once they were dealt with.        *)
WantedInv ==
  /\ pc \in ClusterDone => file["named.conf.cluster"] = wanted
  /\ ~initDomain =>
       /\ pc \in DomainDone \ {"metrics"} => file["smb.conf"] = wanted
       /\ pc \in {"pool", "agentEnv"} \cup AgentDone =>
            file["named.conf.options"] = wanted
       /\ pc \in {"agentEnv"} \cup AgentDone =>
            file["kea-dhcp4.conf"] = wanted

(* validate_service_configs has seen the files that are checked.           *)
ValidatedInv == pc = "running" => \A f \in Checked : file[f] # "torn"

IInv ==
  /\ TypeOK
  /\ ModeInv
  /\ WritingInv
  /\ ProgressInv
  /\ WantedInv
  /\ ValidatedInv
  /\ ProvisionedSound

(* "DIB_DHCP_POOL [...] updates are applied on restart" and                *)
(* "DIB_DNS_FORWARDERS [...] updates are applied on restart"               *)
(* (README.md:283-284): what runs has the settings of its environment.     *)
UpdatesApplied ==
  pc = "running" /\ ~TornFile =>
    /\ file["kea-dhcp4.conf"] = wanted
    /\ file["named.conf.options"] = wanted

(* entrypoint.sh:19 refuses a DIB_DOMAIN that "is longer than 15           *)
(* characters". This does not hold: the expansion does not fail.           *)
LongDomainRefused ==
  domainLength > 15 => pc \in {"down", "checks"}

============================================================================
