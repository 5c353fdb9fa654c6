----------------------------- MODULE Bootstrap -----------------------------
(***************************************************************************)
(* The one-time bootstrap of a Domain-In-A-Box container:                  *)
(* dib-bootstrap-ctl, which supervisord starts as the program `init', the  *)
(* bootstrap handlers of the identity, network and observability services  *)
(* it runs one after the other, the marker files and sentinels through     *)
(* which successive boots of the container agree on what is done, and the  *)
(* Stork agent and the cron job that run beside it.                        *)
(*                                                                         *)
(* Three kinds of state are told apart by what survives:                   *)
(*   - the data volumes (markers, sentinels, Samba's database, keytab,     *)
(*     Stork credentials) survive everything;                              *)
(*   - the container's own file layer (credential cache, crontab) survives *)
(*     a restart of the container but not its re-creation;                 *)
(*   - processes and their environment live for one boot.                  *)
(* The environment of a boot is frozen by entrypoint.sh: the two `pending' *)
(* flags are computed once, and a second attempt in the same boot sees     *)
(* them unchanged even if the sentinels were written meanwhile.            *)
(*                                                                         *)
(* Operators whose name ends in _Variant are wrong on purpose: each is a    *)
(* plausible slip in the definition after it, and PROJECT.json names the   *)
(* property that rules it out.                                             *)
(*                                                                         *)
(* samba-tool, stork-agent register, kinit and crontab are external: a     *)
(* command takes effect and reports success, or fails, and a failing       *)
(* samba-tool or register may have taken effect nonetheless.               *)
(***************************************************************************)
EXTENDS Integers

CONSTANTS
  LongHostname,    \* the host name is longer than 15 characters
  NonIdempotent,   \* the steps whose command fails if its effect is there
  MaxFaults        \* bound on the number of crashes and transient failures

(* The one-time steps, in the order of the program.                        *)
LevelRaise  == 1
ReverseZone == 2
ReversePtr  == 3
HostCname   == 4
KeaUser     == 5
KeaExpiry   == 6
KeaGroup    == 7
KeaKeytab   == 8
LdapUser    == 9
LdapExpiry  == 10
Step == LevelRaise .. LdapExpiry

(* Registration of the Stork agent has its own marker and is not run       *)
(* through RunOnce, but it is a step of the setup like the others.         *)
Registration == 11

ASSUME BootstrapAssumption ==
  /\ LongHostname \in BOOLEAN
  /\ NonIdempotent \subseteq Step
  /\ MaxFaults \in Nat

(* The steps this container has: the CNAME is for long host names only.    *)
Required  == IF LongHostname THEN Step ELSE Step \ {HostCname}
CoreSteps == {s \in Required : s <= KeaKeytab}
LdapSteps == {LdapUser, LdapExpiry}

(* The dependencies dib-bootstrap-ctl waits for, in the order of waiting.  *)
Bind       == 1
Ldap       == 2
Kdc        == 3
PostgreSQL == 4
Dependency == Bind .. PostgreSQL

VARIABLES
  (* data volumes *)
  marker,          \* the RunOnce steps whose marker file exists
  effect,          \* the steps whose command has taken effect
  coreComplete,    \* /var/lib/samba/.dib-bootstrap-complete exists
  storkComplete,   \* /var/lib/stork-agent/.dib-bootstrap-complete exists
  keytab,          \* keaddns.keytab: who may read it
  creds,           \* the registered Stork credentials: their owner
  registered,      \* /var/lib/stork-agent/.stork-agent-registered exists
  (* container layer *)
  cache,           \* /run/kea/keaddns.ccache
  cron,            \* the crontab of _kea has the kinit entry
  (* one boot *)
  storkHost,       \* STORK_SERVER_HOST is set
  corePending,     \* DIB_BOOTSTRAP_PENDING
  storkPending,    \* DIB_STORK_BOOTSTRAP_PENDING
  waiting,         \* the dependencies not yet reached
  pc,              \* where dib-bootstrap-ctl is
  step,            \* the RunOnce step it is at
  retried,         \* supervisord has used its retry of init
  agent,           \* the isc-stork-agent program
  faults           \* crashes and transient failures so far

samba   == <<marker, effect, coreComplete, keytab>>
stork   == <<storkComplete, creds, registered>>
layer   == <<cache, cron>>
flags   == <<storkHost, corePending, storkPending>>
process == <<waiting, pc, step, retried>>
vars    == <<samba, stork, layer, flags, process, agent, faults>>

RunOncePC  == {"stat", "act", "mark"}
RefreshPC  == {"keytab", "chown", "chmod", "ccache", "kinit", "cron"}
RegisterPC == {"registered", "server", "register", "chownCreds", "markCreds"}
ActivePC   == RunOncePC \cup RefreshPC \cup RegisterPC
                \cup {"deps", "coreSentinel", "storkSentinel"}
EndedPC    == {"done", "failed"}
PC         == ActivePC \cup EndedPC \cup {"down"}

TypeOK ==
  /\ marker \subseteq Step
  /\ effect \subseteq Step
  /\ coreComplete \in BOOLEAN
  /\ storkComplete \in BOOLEAN
  /\ keytab \in {"absent", "root", "group", "shared"}
  /\ creds \in {"absent", "root", "agent"}
  /\ registered \in BOOLEAN
  /\ cache \in {"absent", "stale", "empty", "fresh"}
  /\ cron \in BOOLEAN
  /\ storkHost \in BOOLEAN
  /\ corePending \in BOOLEAN
  /\ storkPending \in BOOLEAN
  /\ waiting \subseteq Dependency
  /\ pc \in PC
  /\ step \in Step
  /\ retried \in BOOLEAN
  /\ agent \in {"off", "waiting", "running"}
  /\ faults \in 0 .. MaxFaults

(***************************************************************************)
(* Booting and stopping the container.                                     *)
(***************************************************************************)
Dependencies(core, storkToo) ==
  {Ldap, Kdc} \cup (IF core THEN {Bind} ELSE {})
              \cup (IF storkToo THEN {PostgreSQL} ELSE {})

(* A fresh image on empty volumes.                                         *)
Init ==
  /\ marker = {}
  /\ effect = {}
  /\ coreComplete = FALSE
  /\ storkComplete = FALSE
  /\ keytab = "absent"
  /\ creds = "absent"
  /\ registered = FALSE
  /\ cache = "absent"
  /\ cron = FALSE
  /\ storkHost = FALSE
  /\ corePending = FALSE
  /\ storkPending = FALSE
  /\ waiting = {}
  /\ pc = "down"
  /\ step = LevelRaise
  /\ retried = FALSE
  /\ agent = "off"
  /\ faults = 0

(* Pending is taken to mean "not yet begun".                               *)
Boot_Variant ==
  /\ pc = "down"
  /\ storkHost' \in BOOLEAN
  /\ corePending' = (marker = {})
  /\ storkPending' = (storkHost' /\ ~storkComplete)
  /\ waiting' = Dependencies(corePending', storkPending')
  /\ pc' = "deps"
  /\ step' = LevelRaise
  /\ retried' = FALSE
  /\ agent' = IF storkHost' THEN "waiting" ELSE "off"
  /\ UNCHANGED <<samba, stork, layer, faults>>

(* entrypoint.sh computes the pending flags from the sentinels, then       *)
(* supervisord starts init and the agent; without a Stork server the agent *)
(* exits 0 and is not restarted. Stork may be switched on or off per boot. *)
Boot ==
  /\ pc = "down"
  /\ storkHost' \in BOOLEAN
  /\ corePending' = ~coreComplete
  /\ storkPending' = (storkHost' /\ ~storkComplete)
  /\ waiting' = Dependencies(corePending', storkPending')
  /\ pc' = "deps"
  /\ step' = LevelRaise
  /\ retried' = FALSE
  /\ agent' = IF storkHost' THEN "waiting" ELSE "off"
  /\ UNCHANGED <<samba, stork, layer, faults>>

(* The container stops: processes are gone, and so is the container layer  *)
(* if the container is re-created. A ticket that survives is an old one.   *)
Stop ==
  /\ pc' = "down"
  /\ waiting' = {}
  /\ agent' = "off"
  /\ \/ /\ cache' = IF cache = "fresh" THEN "stale" ELSE cache
        /\ cron' = cron
     \/ /\ cache' = "absent"
        /\ cron' = FALSE
  /\ UNCHANGED <<samba, stork, flags, step, retried>>

(* The operator restarts a container whose bootstrap has ended...          *)
RestartAfter(end) ==
  /\ pc = end
  /\ Stop
  /\ UNCHANGED faults

(* ... or the container is interrupted while the bootstrap runs.           *)
Crash ==
  /\ pc \in ActivePC
  /\ faults < MaxFaults
  /\ Stop
  /\ faults' = faults + 1

(* supervisord: startretries=1 and autorestart=false. An init that ended   *)
(* within startsecs, whatever its exit code, is started once more, in the  *)
(* same environment; any other end is final for this boot.                 *)
RetryInit ==
  /\ pc \in EndedPC
  /\ ~retried
  /\ retried' = TRUE
  /\ pc' = "deps"
  /\ waiting' = Dependencies(corePending, storkPending)
  /\ step' = LevelRaise
  /\ UNCHANGED <<samba, stork, layer, flags, agent, faults>>

(***************************************************************************)
(* Control flow of dib-bootstrap-ctl.                                      *)
(***************************************************************************)
GoTo(label, s) ==
  /\ pc' = label
  /\ step' = s

StayInBoot == UNCHANGED <<flags, waiting, retried, agent, faults>>

(* What follows the network bootstrap, and what follows the core sentinel. *)
AfterCore ==
  \/ storkPending /\ GoTo("stat", LdapUser)
  \/ ~storkPending /\ GoTo("done", step)

(* The sentinel is left for the end of a run that also sets up Stork.      *)
AfterNetwork_Variant ==
  \/ corePending /\ ~storkPending /\ GoTo("coreSentinel", step)
  \/ (corePending => storkPending) /\ AfterCore

AfterNetwork ==
  \/ corePending /\ GoTo("coreSentinel", step)
  \/ ~corePending /\ AfterCore

(* What follows RunOnce of step s: the next step of the same service, the  *)
(* next service, or the rest of the handler the step is in.                *)
SuccessorOf(s) ==
  IF s = ReversePtr /\ ~LongHostname THEN KeaUser ELSE s + 1

AfterStep(s) ==
  \/ s \notin {KeaKeytab, LdapExpiry} /\ GoTo("stat", SuccessorOf(s))
  \/ s = KeaKeytab /\ GoTo("keytab", s)
  \/ s = LdapExpiry /\ GoTo("registered", s)

(* waitForTCP succeeded for the next dependency of the list.               *)
Reach(d) ==
  /\ pc = "deps"
  /\ d \in waiting
  /\ \A e \in waiting : d <= e
  /\ waiting' = waiting \ {d}
  /\ UNCHANGED <<samba, stork, layer, flags, pc, step, retried, agent, faults>>

(* Nothing is done when nothing one-time is pending.                       *)
Begin_Variant ==
  /\ pc = "deps"
  /\ waiting = {}
  /\ \/ corePending /\ GoTo("stat", LevelRaise)
     \/ ~corePending /\ storkPending /\ GoTo("keytab", step)
     \/ ~corePending /\ ~storkPending /\ GoTo("done", step)
  /\ UNCHANGED <<samba, stork, layer>>
  /\ StayInBoot

(* All dependencies answer: the identity bootstrap runs only if pending,   *)
(* the network bootstrap always.                                           *)
Begin ==
  /\ pc = "deps"
  /\ waiting = {}
  /\ \/ corePending /\ GoTo("stat", LevelRaise)
     \/ ~corePending /\ GoTo("keytab", step)
  /\ UNCHANGED <<samba, stork, layer>>
  /\ StayInBoot

(***************************************************************************)
(* RunOnce: look for the marker, run the command, write the marker.        *)
(***************************************************************************)

StatMarker ==
  /\ pc = "stat"
  /\ \/ step \in marker /\ AfterStep(step)
     \/ step \notin marker /\ GoTo("act", step)
  /\ UNCHANGED <<samba, stork, layer>>
  /\ StayInBoot

(* "Already exists" counts as success.                                     *)
Refused_Variant(s) == FALSE

(* The command refuses to do what was done before.                         *)
Refused(s) == s \in effect /\ s \in NonIdempotent

TakeEffect(s) ==
  /\ effect' = effect \cup {s}
  /\ keytab' = IF s = KeaKeytab THEN "root" ELSE keytab
  /\ UNCHANGED <<marker, coreComplete>>

Execute ==
  /\ pc = "act"
  /\ ~Refused(step)
  /\ TakeEffect(step)
  /\ GoTo("mark", step)
  /\ UNCHANGED <<stork, layer>>
  /\ StayInBoot

Refuse ==
  /\ pc = "act"
  /\ Refused(step)
  /\ GoTo("failed", step)
  /\ UNCHANGED <<samba, stork, layer>>
  /\ StayInBoot

WriteMarker ==
  /\ pc = "mark"
  /\ marker' = marker \cup {step}
  /\ AfterStep(step)
  /\ UNCHANGED <<effect, coreComplete, keytab, stork, layer>>
  /\ StayInBoot

(***************************************************************************)
(* The part of the network bootstrap that runs at every boot.              *)
(***************************************************************************)
CheckKeytab ==
  /\ pc = "keytab"
  /\ keytab # "absent"
  /\ GoTo("chown", step)
  /\ UNCHANGED <<samba, stork, layer>>
  /\ StayInBoot

ChownKeytab ==
  /\ pc = "chown"
  /\ keytab' = IF keytab = "root" THEN "group" ELSE keytab
  /\ GoTo("chmod", step)
  /\ UNCHANGED <<marker, effect, coreComplete, stork, layer>>
  /\ StayInBoot

(* The mode is left as exportkeytab made it.                               *)
ChmodKeytab_Variant ==
  /\ pc = "chmod"
  /\ GoTo("ccache", step)
  /\ UNCHANGED <<samba, stork, layer>>
  /\ StayInBoot

ChmodKeytab ==
  /\ pc = "chmod"
  /\ keytab' = IF keytab = "group" THEN "shared" ELSE keytab
  /\ GoTo("ccache", step)
  /\ UNCHANGED <<marker, effect, coreComplete, stork, layer>>
  /\ StayInBoot

(* The cache is emptied before a new ticket is asked for.                  *)
TruncateCache ==
  /\ pc = "ccache"
  /\ cache' = "empty"
  /\ GoTo("kinit", step)
  /\ UNCHANGED <<samba, stork, cron>>
  /\ StayInBoot

(* chown of the cache and kinit: either failing leaves the cache empty.    *)
Kinit ==
  /\ pc = "kinit"
  /\ cache' = "fresh"
  /\ GoTo("cron", step)
  /\ UNCHANGED <<samba, stork, cron>>
  /\ StayInBoot

EnsureCronEntry ==
  /\ pc = "cron"
  /\ cron' = TRUE
  /\ AfterNetwork
  /\ UNCHANGED <<samba, stork, cache>>
  /\ StayInBoot

(* The markers are cleared away: the sentinel says it all.                 *)
WriteCoreSentinel_Variant ==
  /\ pc = "coreSentinel"
  /\ coreComplete' = TRUE
  /\ marker' = {}
  /\ AfterCore
  /\ UNCHANGED <<effect, keytab, stork, layer>>
  /\ StayInBoot

WriteCoreSentinel ==
  /\ pc = "coreSentinel"
  /\ coreComplete' = TRUE
  /\ AfterCore
  /\ UNCHANGED <<marker, effect, keytab, stork, layer>>
  /\ StayInBoot

(***************************************************************************)
(* Registration of the Stork agent.                                        *)
(***************************************************************************)
CheckRegistered ==
  /\ pc = "registered"
  /\ \/ registered /\ GoTo("storkSentinel", step)
     \/ ~registered /\ GoTo("server", step)
  /\ UNCHANGED <<samba, stork, layer>>
  /\ StayInBoot

(* The Stork server answers and the database yields a server token.        *)
FetchToken ==
  /\ pc = "server"
  /\ GoTo("register", step)
  /\ UNCHANGED <<samba, stork, layer>>
  /\ StayInBoot

(* The credentials are not handed over.                                    *)
Register_Variant ==
  /\ pc = "register"
  /\ creds' = "root"
  /\ GoTo("markCreds", step)
  /\ UNCHANGED <<samba, storkComplete, registered, layer>>
  /\ StayInBoot

Register ==
  /\ pc = "register"
  /\ creds' = "root"
  /\ GoTo("chownCreds", step)
  /\ UNCHANGED <<samba, storkComplete, registered, layer>>
  /\ StayInBoot

ChownCredentials ==
  /\ pc = "chownCreds"
  /\ creds' = "agent"
  /\ GoTo("markCreds", step)
  /\ UNCHANGED <<samba, storkComplete, registered, layer>>
  /\ StayInBoot

(* The sentinel is thought to make the registration marker redundant.      *)
MarkRegistered_Variant ==
  /\ pc = "markCreds"
  /\ GoTo("storkSentinel", step)
  /\ UNCHANGED <<samba, stork, layer>>
  /\ StayInBoot

MarkRegistered ==
  /\ pc = "markCreds"
  /\ registered' = TRUE
  /\ GoTo("storkSentinel", step)
  /\ UNCHANGED <<samba, storkComplete, creds, layer>>
  /\ StayInBoot

WriteStorkSentinel ==
  /\ pc = "storkSentinel"
  /\ storkComplete' = TRUE
  /\ GoTo("done", step)
  /\ UNCHANGED <<samba, creds, registered, layer>>
  /\ StayInBoot

(***************************************************************************)
(* Any step of the run may fail: an unset variable, a dependency that does *)
(* not answer in time, a command that exits non-zero, a file that cannot   *)
(* be written. A samba-tool command or a registration that fails may have  *)
(* taken effect (its reply was lost).                                      *)
(***************************************************************************)
Fail ==
  /\ pc \in ActivePC
  /\ faults < MaxFaults
  /\ faults' = faults + 1
  /\ GoTo("failed", step)
  /\ \/ UNCHANGED <<samba, stork>>
     \/ /\ pc = "act"
        /\ ~Refused(step)
        /\ TakeEffect(step)
        /\ UNCHANGED stork
     \/ /\ pc = "register"
        /\ creds' = "root"
        /\ UNCHANGED <<samba, storkComplete, registered>>
  /\ UNCHANGED <<layer, flags, waiting, retried, agent>>

(***************************************************************************)
(* The programs that run beside the bootstrap.                             *)
(***************************************************************************)
(* waitForFile saw the marker and the agent is executed. When its attempts *)
(* run out it exits and supervisord starts it over: a stutter here.        *)
StartAgent ==
  /\ agent = "waiting"
  /\ registered
  /\ agent' = "running"
  /\ UNCHANGED <<samba, stork, layer, flags, process, faults>>

AgentExit ==
  /\ agent = "running"
  /\ agent' = "waiting"
  /\ UNCHANGED <<samba, stork, layer, flags, process, faults>>

(* The cron job of _kea asks for a new ticket.                             *)
CronKinit ==
  /\ pc # "down"
  /\ cron
  /\ keytab = "shared"
  /\ cache' = "fresh"
  /\ UNCHANGED <<samba, stork, cron, flags, process, agent, faults>>

RunBootstrap ==
  \/ \E d \in Dependency : Reach(d)
  \/ Begin
  \/ StatMarker
  \/ Execute
  \/ Refuse
  \/ WriteMarker
  \/ CheckKeytab
  \/ ChownKeytab
  \/ ChmodKeytab
  \/ TruncateCache
  \/ Kinit
  \/ EnsureCronEntry
  \/ WriteCoreSentinel
  \/ CheckRegistered
  \/ FetchToken
  \/ Register
  \/ ChownCredentials
  \/ MarkRegistered
  \/ WriteStorkSentinel

Next ==
  \/ Boot
  \/ RunBootstrap
  \/ Fail
  \/ Crash
  \/ RetryInit
  \/ \E end \in EndedPC : RestartAfter(end)
  \/ StartAgent
  \/ AgentExit
  \/ CronKinit

Spec == Init /\ [][Next]_vars

(* The processes make progress, the agent's wait notices the marker, and   *)
(* the operator restarts a container whose bootstrap failed.               *)
FairSpec ==
  /\ Spec
  /\ WF_vars(Boot)
  /\ WF_vars(RunBootstrap)
  /\ WF_vars(RestartAfter("failed"))
  /\ WF_vars(StartAgent)

(***************************************************************************)
(* Properties.                                                             *)
(***************************************************************************)

(* The setup happens in program order across any history of crashes,       *)
(* failures and retries: once a command has taken effect, every earlier    *)
(* step of this container has its marker, and Stork's account is touched   *)
(* only in a completed core. Consequently at most one step is in doubt.    *)
SetupInOrder ==
  /\ \A s \in effect, t \in Required : t < s => t \in marker
  /\ effect \cap LdapSteps # {} => coreComplete
  /\ effect \subseteq Required

(* A marker is never left behind by a command that did not take effect.    *)
MarkersSound == marker \subseteq effect

(* The core sentinel, which makes every later boot skip the core steps, is *)
(* only there when all of them are done and marked and the Kea DDNS keytab *)
(* is in place with its final ownership.                                   *)
CoreSentinelSound ==
  coreComplete => CoreSteps \subseteq marker /\ keytab = "shared"

(* The Stork sentinel is only there with a complete core, the LDAP account *)
(* set up and the agent registered.                                        *)
StorkSentinelSound ==
  storkComplete => coreComplete /\ LdapSteps \subseteq marker /\ registered

(* A running agent can read its credentials: they were handed to the       *)
(* stork-agent user before registration was marked complete, and nothing   *)
(* registers again afterwards.                                             *)
AgentReadsCredentials ==
  registered \/ agent = "running" => registered /\ creds = "agent"

(* Only steps without a marker are run, and once the core sentinel exists  *)
(* only Stork's: a retry with the flags of the boot, still pending though  *)
(* the sentinel was written meanwhile, repeats nothing.                    *)
OnlyMissingStepsRun ==
  pc = "act" => step \notin marker /\ (coreComplete => step \in LdapSteps)

(* The network bootstrap never finds the keytab missing: neither in the    *)
(* boot that exports it nor in those that trust the sentinel.              *)
KeytabFound == pc = "keytab" => keytab # "absent"

(* A boot whose bootstrap succeeded has done all that was pending and has  *)
(* this boot's Kea DDNS credentials and their renewal in place.            *)
SuccessMeansReady ==
  pc = "done" =>
    /\ coreComplete
    /\ storkPending => storkComplete
    /\ keytab = "shared" /\ cache = "fresh" /\ cron

(* A command that refuses to be repeated took effect without its marker    *)
(* being written, and no process is about to write it.                     *)
InDoubt(s) ==
  /\ s \in effect
  /\ s \notin marker
  /\ ~(pc = "mark" /\ step = s)

Wedged == \E s \in NonIdempotent : InDoubt(s)

(* Nothing the program does gets it out of that state: no boot, retry or   *)
(* restart ever marks the step. Only an operator can.                      *)
WedgeIsPermanent == [][Wedged => Wedged']_vars

(* It takes a fault to get into it, one between the start of a command     *)
(* that cannot be repeated and the writing of its marker; and faults apart *)
(* a bootstrap fails for no other reason than being in it.                 *)
OnlyFaultsWedge ==
  [][/\ ~Wedged /\ Wedged' =>
          faults' = faults + 1 /\ pc \in {"act", "mark"} /\ step \in NonIdempotent
     /\ pc' = "failed" /\ pc # "failed" => faults' = faults + 1 \/ Wedged]_vars

(* How many steps dib-bootstrap-ctl has left, the longest way: three for    *)
(* each RunOnce step, seven for the rest of the network bootstrap and its  *)
(* sentinel, six for the registration.                                     *)
LeftAt ==
  [down |-> 0, done |-> 0, failed |-> 0,
   storkSentinel |-> 1, markCreds |-> 2, chownCreds |-> 3, register |-> 4,
   server |-> 5, registered |-> 6, mark |-> 7, act |-> 8, stat |-> 9,
   coreSentinel |-> 13, cron |-> 14, kinit |-> 15, ccache |-> 16,
   chmod |-> 17, chown |-> 18, keytab |-> 19, deps |-> 44]

Left(label, s) ==
  LeftAt[label] +
    IF label \in RunOncePC
    THEN 3 * (LdapExpiry - s) + (IF s \in LdapSteps THEN 0 ELSE 7)
    ELSE 0

(* The dependencies, and the retry with an attempt of its own, included.    *)
Remaining ==
  LET Awaited(d) == IF d \in waiting THEN 1 ELSE 0
  IN  Left(pc, step) + Awaited(Bind) + Awaited(Ldap) + Awaited(Kdc)
        + Awaited(PostgreSQL) + (IF retried THEN 0 ELSE 49)

(* A bootstrap does not go round in circles: whatever fails, and however    *)
(* it is retried, each step of a boot that is not the agent's or cron's    *)
(* brings the boot nearer to its end, of which it is never more than 97    *)
(* steps away.                                                             *)
BootEnds ==
  [][pc # "down" /\ pc' # "down" =>
       \/ UNCHANGED process
       \/ Remaining \in 1 .. 97 /\ Remaining' \in 0 .. Remaining - 1]_vars

(* The inductive strengthening of the invariants above: what each point of *)
(* the run may rely on. Every fact about the run is a fact about the disk  *)
(* that no other boot, retry or fault can take back.                       *)
StorkPC == RegisterPC \cup {"storkSentinel"}

(* Where RunOnce is: all earlier steps have their marker, the step is of   *)
(* this container, and it is run only if its phase is pending.             *)
RunOnceInv ==
  pc \in RunOncePC =>
    /\ step \in Required
    /\ \A t \in Required : t < step => t \in marker
    /\ step \in LdapSteps => coreComplete
    /\ pc = "act" => step \notin marker
    /\ pc = "mark" => step \in effect /\ step \notin marker

(* After the core steps: the keytab is there, and shared after its chmod.  *)
RefreshInv ==
  /\ pc \in RefreshPC \cup {"coreSentinel"} => CoreSteps \subseteq marker
  /\ pc = "chmod" => keytab \in {"group", "shared"}
  /\ pc \in {"ccache", "kinit", "cron", "coreSentinel"} => keytab = "shared"
  /\ keytab = "absent" => KeaKeytab \notin effect

(* In the Stork phase: the core is complete, and registration is undone    *)
(* until its marker is about to be looked past.                            *)
StorkInv ==
  /\ pc \in StorkPC => coreComplete /\ LdapSteps \subseteq marker
  /\ pc \in RegisterPC \ {"registered"} => ~registered
  /\ pc = "chownCreds" => creds = "root"
  /\ pc = "markCreds" => creds = "agent"
  /\ pc = "storkSentinel" => registered
  /\ creds # "absent" => LdapSteps \subseteq marker

(* The flags of the boot are not more optimistic than the sentinels.       *)
FlagsInv == pc # "down" /\ ~corePending => coreComplete

(* From the core sentinel on, this boot's credentials are in place.        *)
PastRefresh ==
  \/ pc \in StorkPC \cup {"coreSentinel", "done"}
  \/ pc \in RunOncePC /\ step \in LdapSteps

ReadyInv ==
  /\ pc = "cron" => cache = "fresh"
  /\ PastRefresh => cache = "fresh" /\ cron
  /\ pc = "done" => coreComplete /\ (storkPending => storkComplete)

IInv ==
  /\ TypeOK
  /\ SetupInOrder
  /\ MarkersSound
  /\ CoreSentinelSound
  /\ StorkSentinelSound
  /\ AgentReadsCredentials
  /\ RunOnceInv
  /\ RefreshInv
  /\ StorkInv
  /\ FlagsInv
  /\ ReadyInv

(* The markers and sentinels implement the journal of StepJournal.tla.     *)
Journal == INSTANCE StepJournal WITH
  Core       <- CoreSteps,
  Stork      <- LdapSteps \cup {Registration},
  done       <- marker \cup (IF registered THEN {Registration} ELSE {}),
  doubt      <- (effect \ marker) \cup
                  (IF creds # "absent" /\ ~registered THEN {Registration}
                                                      ELSE {}),
  coreReady  <- coreComplete,
  storkReady <- storkComplete

ImplementsJournal == Journal!Spec

(* When faults stop, the core bootstrap completes, unless a fault hit the  *)
(* window between a command that cannot be repeated and its marker.        *)
CoreConverges == <>(coreComplete \/ Wedged)

(* When faults stop and the container stays up with Stork configured, at   *)
(* its first boot or enabled later, the agent eventually runs, with the    *)
(* same exception.                                                         *)
StorkConverges ==
  <>[](storkHost /\ pc # "down") => <>(agent = "running" \/ Wedged)

(* Kubernetes sends traffic when LDAP answers and the agent's exporters    *)
(* do: "LDAP answers well before Kea DDNS and the Stork agent finish, so   *)
(* readiness tracks the observability endpoints that close out bootstrap"  *)
(* (statefulset.yaml:166-167). This does not hold after a restart, when    *)
(* the agent's marker is there before this boot's bootstrap has run.       *)
ReadyMeansBootstrapped ==
  pc # "down" /\ Ldap \notin waiting /\ agent = "running"
    => cache = "fresh" /\ cron

============================================================================
