# A verification of Domain-In-A-Box

This directory holds TLA+ models of Domain-In-A-Box, the model checker's
configurations for them and machine-checked proofs about them. Domain-In-A-Box
is one container that is an Active Directory domain controller: Samba, BIND,
chrony, Kea DHCP and the Stork agent under supervisord, set up by a shell
entrypoint and a handful of Go programs. What is hard about it is not any one
command but that a *one-time* setup is spread over many commands, files and
marker files, in a container that may be stopped at any point and started
again with another environment. That is what the models are about.

Paths are those of the repository, without the leading `src/` where no
confusion arises; every definition's lines are in `PROJECT.json` under `map`.

## 1. Inventory

### Parts, state and operations

| Part | State | Operations |
|---|---|---|
| **Entrypoint** (`entrypoint.sh`) | sentinels `.dib-provisioned`, `.dib-bootstrap-complete` (Samba and Stork volumes), `/etc/resolv.conf`, the exported environment | check the environment, compute `INIT_DOMAIN` and the two pending flags once, point the resolver at itself, run `configure` of the services in order, touch the sentinel, validate, replace itself by supervisord or the operator's command |
| **identity-core configure** (`internal/services/identitycore`) | `smb.conf`, the domain's `krb5.conf`, `/etc/krb5.conf`, TLS assets, metrics setting | `provision`, the password's synchronisation, `configureKerberos`, `installTLSAssets`, `updateSambaMetrics` |
| **network-core configure** (`internal/services/networkcore`) | chrony, BIND and Kea files, `rndc.key`, `named.conf.cluster*` | `configureChrony`, `configureBind`, `configureKea`, `updateBindForwarders`, `updateKeaDHCPPool`, `Validate` |
| **observability configure** (`internal/services/observability`) | `agent.env`, and `server.env` in the server role | `Configure`, `Validate`, `Run` (wait for the registration marker or the database, then become the agent or server) |
| **Bootstrap** (`cmd/dib-bootstrap-ctl`, the three `Bootstrap` handlers, `RunOnce`) | one marker file per step, two completion sentinels, `keaddns.keytab`, `/run/kea/keaddns.ccache`, the crontab of `_kea`, Stork's credentials and registration marker | wait for dependencies, run each step once, refresh the Kea DDNS credentials, register the agent, write the sentinels |
| **Supervision** (`supervisord.conf`) | programs, their failed starts | start every program, restart it after a late end according to `autorestart`, give it up after `startretries` early ones (`init`: one) |
| **Retry and wait** (`internal/platform/retry`, `wait`, `waitForTCP`, `waitFor`) | attempts, the context's deadline | dial, delay, give up |
| **Database service** (`internal/services/db`, the separate Stork server's PostgreSQL) | the installed versions, a cluster per version | choose a version, create its cluster, validate, start PostgreSQL; each command chooses for itself |
| **Command line, log, probe, exec, config** (`internal/platform/...`) | none | dispatch and I/O |
| **Test runner** (`tests/test-runner`) | none of the product's | domain join, lease and DNS probes |
| **Deployment** (chart, compose, lab scripts) | which directories persist, readiness | declarative |

### How they interact

`entrypoint.sh` runs first and alone. It reads the sentinels, runs the
`configure` and `validate` handlers of identity, network and observability one
after the other, and passes what it decided to supervisord's programs through
the environment (`INIT_DOMAIN`, `DIB_BOOTSTRAP_PENDING`,
`DIB_STORK_BOOTSTRAP_PENDING`). Under supervisord, `init` is
`dib-bootstrap-ctl`: it waits until BIND, LDAP, the KDC and (for Stork)
PostgreSQL accept connections, and then runs the three `Bootstrap` handlers.
Beside it run the servers, the Stork agent's wrapper (which waits for the
registration marker), and cron, which runs the kinit entry the network
bootstrap installed. Boots communicate through files only: those on volumes
survive everything, those in the container's layer survive a restart but not a
re-creation, and `/etc/resolv.conf` belongs to the pod.

### What is hard, and what makes each part correct

- *A crash between an effect and its record.* `RunOnce` performs a command and
  then writes a marker. Correct: steps take effect in program order, a marker
  or sentinel is never ahead of what it stands for, and at most one step is in
  doubt. Several `samba-tool` commands fail when repeated, so a step in doubt
  is a dead end, and it must be the only one.
- *Flags frozen at boot.* A retry of `init` sees the pending flags of its boot
  though the sentinels have been written since. Correct: nothing is repeated.
- *Concurrent programs.* The agent starts the moment the registration marker
  appears; cron rewrites the credential cache beside the bootstrap. Correct:
  credentials belong to the agent whenever it can start.
- *Write-once configuration.* A file that exists is kept. Correct: the operator's
  files are preserved, the managed values follow the environment, and what an
  interrupted first setup leaves behind is either completed or found out.
- *Time.* Attempts, delays and deadlines coincide. Correct: a wait ends, not too
  early, not too late, and not while its dependency is up.
- *Files whose owner is someone else.* The resolver is read from a file the
  script overwrites. Correct: BIND forwards to the servers of the current pod,
  and never to itself.

- *Sets of files copied one by one.* The TLS certificate, key and CA come from a
  mount that is renewed while they are copied. Correct: what Samba is launched
  on belongs together, or one can say exactly when it may not.
- *Files two parties write.* The operator edits files that a restart reconciles.
  Correct: the operator's part survives, the managed value is applied, and what
  an overlapping edit may lose is no more than that edit.
- *An environment that changes between starts.* Addresses, passwords and the
  installed versions are read at one time and used at another. Correct: which
  places follow a change, and which only while there was none.
- *Giving up.* supervisord gives programs up. Correct: the bootstrap is not run
  too often, and a program that merely waits is not given up.

Every place in the code where one of these bites is listed in `PROJECT.json`
under `hazards`, with the properties that cover it or the reason none does yet.

## 2. The modules

| Module | Models |
|---|---|
| `Bootstrap.tla` | dib-bootstrap-ctl, `RunOnce`, the bootstrap handlers, the agent, cron, boots and crashes |
| `StepJournal.tla` | abstract specification: what a crash-safe one-time setup promises |
| `Entrypoint.tla` | entrypoint.sh and the configure and validate handlers: write-once files, reconciliation, damage |
| `RetryWait.tla` | `retry.Do` under a deadline, once per dependency, in time |
| `Resolver.tla` | `/etc/resolv.conf`, the upstream servers and BIND's cluster forwarding across containers and pods |
| `TLSAssets.tla` | `installTLSAssets` while `/certs` is renewed, withdrawn or interrupted |
| `StorkServer.tla` | the Stork server's container, its write-once `server.env`, and the directory's account |
| `ManagedText.tla` | what of a text the program takes for its own, as operators: search, refusal, rewriting |
| `AtomicFile.tla` | abstract specification: a file that is edited and replaced only as a whole |
| `Reconcile.tla` | the reconciliation of `smb.conf`, `named.conf.options`, `kea-dhcp4.conf` and the crontab beside an operator who edits them |
| `Database.tla` | dib-db-ctl: the version, its cluster, and the three commands |
| `Drift.tla` | starts under another address or password |
| `Supervisor.tla` | supervisord's programs, the run commands, the agent's wait |
| `MC...` | one module per component with the constants for TLC |
| `...Proofs` | theorems for all values of the constants: of the module named; `RestartProofs` is about `Resolver` and `Drift`, `ServerProofs` about `StorkServer` and `Database`, `BootstrapProofs` also about `StepJournal`, `ReconcileProofs` also about `ManagedText` |

The modules overlap where one looks closer at what another takes as a whole:
`Entrypoint` has the script with all its files, and `TLSAssets`, `Reconcile`,
`StorkServer` and `Drift` each open one handler of it; `Bootstrap` is what
`Supervisor` sees as `init`; `RetryWait` is the wait that `Bootstrap`,
`Supervisor` and `StorkServer` take as one step that succeeds or fails.

Operators whose name ends in `_Variant` precede the definition they falsify.
No specification uses them: each is a plausible slip in the code, and a run
with it in the definition's place must violate the property `PROJECT.json`
gives under `mutants`.

### Bootstrap

The state is split by what survives: volumes (`marker`, `effect`,
`coreComplete`, `storkComplete`, `keytab`, `creds`, `registered`), the
container's layer (`cache`, `cron`) and one boot (flags, `waiting`, `pc`,
`step`, `retried`, `agent`). `effect` is the external truth, what a command has
done to Samba's database, which the program cannot see. There is one action per
point where the program may be interrupted: `Reach` (a dependency answers),
`Begin`, `StatMarker` / `Execute` / `Refuse` / `WriteMarker` (one `RunOnce`),
`CheckKeytab` ... `EnsureCronEntry` (the refresh of the Kea DDNS credentials,
done at every boot), `WriteCoreSentinel`, `CheckRegistered` ...
`MarkRegistered`, `WriteStorkSentinel`. `Refuse` is a command that fails
because its effect is already there; which commands do so is the constant
`NonIdempotent`. `Fail` is any other failure, which for a command or a
registration may hide a success. `Crash`, `RestartAfter` and `Boot` end and
begin boots, with the container layer kept or not; `RetryInit` is supervisord's
one retry; `StartAgent`, `AgentExit` and `CronKinit` run beside.

`StepJournal` says what this amounts to: steps are performed in order, one at a
time in doubt, committed, and a phase is declared complete when all its steps
are committed. `Bootstrap` implements it with `done` read off the markers (and
the registration marker), and `doubt` off what is performed and not marked.

That a retry of `init`, which goes by flags older than the sentinels, repeats
nothing is `OnlyMissingStepsRun`: to the journal such a repetition would be a
stutter.

### Entrypoint

`file` maps each configuration file to the setting it was made from, `"torn"`
or `"absent"`: `os.WriteFile` creates the file empty and fills it in a second
step, while a reconciliation writes a temporary file and renames it, which is
one step. `wanted` is the environment of the boot, chosen anew at each; one
value stands for the pool, the forwarders and the metrics setting, as nothing
tells them apart but the file they go to. `pc` names the handler that runs, and
the BIND files are visited in any order, as Go ranges over a map. A failing
command and a kill of the container are the same `Interrupt`: the script runs
under `set -e` and only what is on disk remains. Failures that are on disk
(no Kerberos configuration, an empty file that is validated, a missing
directive) are not faults: they are guards, and lead to `Abort`. So are those in
the environment: a name of no characters stands for any required variable that is
not given and for an interface without address or route, which the script refuses
at the same place and with the same exit (`RefuseName`).

### RetryWait

Time is a counter of ticks. `Tick` is enabled while a dial is under way or Go's
`select` has nothing to take; `Change` lets the dependency flap at any moment;
`Connect`, `Refused`, `Retry` and `Cancel` are the outcomes of a dial and of the
`select`, which picks either branch when both are ready. Waits up to the last
are `waitForTCP`'s with a deadline each, the last is the observability handler's
without one.

### Resolver

`resolv` is the pod's `/etc/resolv.conf` and `zone` the forwarders in
`named.conf.cluster` on BIND's volume. A container that starts may find
`resolv` as it was left or rewritten by the runtime (`Boot`); a new pod may
come with another address and other servers, on the same volume (`Recreate`).
The two files are truncated and filled in separate steps, between which the
container may stop.

### TLSAssets

`certs` is the mount, `installed` Samba's three files and the trust store's
anchor, `bundle` what `update-ca-certificates` made of the anchor. `Stat` looks at
one asset after the other, `Decide` is none, some or all, `Copy` reads an asset
and truncates its copy, `Fill` fills it. `Rotate` changes the whole set or one
file at any moment, `Interrupt` stops between any two steps. `moved` and `whole`
are history variables that say when the promise is off.

### StorkServer

A start keeps `server.env` if it exists, or else requires the settings that have
no default (`named`), decides on TLS, creates the file empty and fills it with
lines in order: the database's host and port, TLS, the password. A failed write
leaves some of them, the last perhaps cut. The endpoint to wait for is read back
from the file (`ReadEndpoint`), the database may come and go (`WaitForDatabase`),
and the server then serves. Beside it the controller's bootstrap creates the
account once, and the operator changes the secret and the TLS files and recreates
either container. `ServesConfigured` and `PasswordsAgree` say when the server has
what it should, `StaysAmiss` what becomes of the rest: a file that was cut short, a
password that is not the account's, or TLS settings its files contradict are not
mended by anything short of a new container.

### ManagedText, AtomicFile and Reconcile

A text is a set of items by place; only the kind matters to the search: the
setting as the program writes it, something the search takes for it or misses, an
empty line, which the crontab loses, or anything else. `Found`, `Refused` and `Rewritten` are the handlers' searches,
`Live` and `Valid` the servers' reading. `Reconcile` goes through the files in
the order of the code: `ReadFile`, `CreateTemp` (root's, with the old mode),
`Write`, `Rename`, then `Validate` and the crontab. The operator edits texts and
access at any time; `lost` and `overtaken` keep account of what a replacement
undid. `AtomicFile` is what this promises for each file: it changes by an edit, or
as a whole to what was read of it, rewritten; refinement with `seen` mapped to
what has been read or is in the temporary file. That the replacement is atomic is
checked here; `Entrypoint` takes it as one step. A temporary file that was written
in part is never renamed, and the empty one between `CreateTemp` and `Write` stands
for it.

### Database

Each command finds the version anew: `postgresVersion` folds `versionLess`, which
compares numerically if both names are numbers (to `Atoi`, so of either sign) and
as text otherwise, over the sorted directory listing. On mixed names that is not an
order: `GreatestServes` says of them that whatever is greater as text than the one
chosen is a smaller number, and of numbers that the greatest is chosen. Versions are installed and removed between the
commands, a creation that is cut off leaves half a cluster, listed or not. That
configure, validate and run follow one another is taken from the other services,
as no image ships the command.

### Drift

`holds` is the address each place was written with. Places are renewed at every
start (`resolv.conf`, `krb5.conf`) or kept (`smb.conf`, `chrony.conf`,
`named.conf.options`, `kea-dhcp4.conf`, `agent.env`). `directory` is the
Administrator's password in Samba's database. A core bootstrap that is pending
waits for BIND at the address in force and authenticates with the password in
force; a restart synchronises the two if it is asked to and a password is set
(`None` if it is not). The project's README.md asks for a static address; the model
says what stays behind when it is not, and `FailureExplained` that, faults apart,
only a change of the address or the password keeps a core bootstrap from
completing.

### Supervisor

`state`, `fails` and `process` are supervisord's view of each program and what
runs: the run command of its service or the server that replaced it. `Exit`
is the rule for ends before and after the first second; `Serve`, `Decline` and
`WaitedOut` are the run commands. `init` works off `todo`, which the flags frozen at
`Boot` determine: the dependencies one after another (`Reach`, or `GiveUp` when the
one it waits for does not come up), the bootstrap (`Complete`) and the agent's
registration (`Register`).

## 3. The runs

Run any of them with `tlc -config <cfg> <module>`.

| Run | Shows |
|---|---|
| `bootstrap` | over up to four crashes, failures and lost replies at any point: the step journal is implemented (order, markers, at most one step in doubt, sentinels), the core sentinel means a shared keytab, credentials are readable, success means ready, a retry repeats nothing; a step in doubt that cannot be repeated stays so; when faults stop, the bootstrap completes and the agent runs, unless there is such a step |
| `entrypoint` | over two interruptions anywhere: what is marked set up is set up; what is launched is complete but for three kinds of damage; damage is permanent; restarts apply the operator's settings and preserve the rest; every start ends in a launch once interruptions stop, unless there is damage or no domain name |
| `entrypoint_updates` | **violated:** an interrupted first setup launches with the settings of before |
| `retrywait` | each wait, and all of them together, end in bounded time; none is given up early, and each notices a dependency that came up; the waits never get stuck (deadlock is checked) |
| `resolver` | BIND forwards to servers of the current pod only and never to itself; a pod's first container forwards when asked to |
| `resolver_kept` | **violated:** a container restarted in its pod loses the forwarding |
| `tlsassets` | Samba is launched on the set it was provided with; certificate and key match, but for an installation cut short, raced, or made half-way through a renewal; a set left alone ends up installed |
| `storkserver` | which database is waited for, with which settings the server serves, when its password is the account's, that what is amiss in its file stays so, and when it comes up |
| `reconcile` | the operator's text and restrictions survive, the wanted values are launched, the renewal is scheduled once, each file is replaced atomically, and a start gets through unless a file is refused |
| `database` | what the choice among versions comes to, mixed names included, and that every start ends with a database, up to its stated exceptions |
| `drift` | for which reasons alone a core bootstrap fails, when the directory has the environment's password, and when a pending bootstrap completes |
| `supervisor` | the bootstrap runs at most twice per start, the agent is not given up while it waits, and the container settles |

### What the violated runs found

Each states a sentence of the repository about the program and is refuted by
what the code does; `PROJECT.json` quotes the sentence under `findings`.

1. *Updates on restart.* `DIB_DHCP_POOL` and `DIB_DNS_FORWARDERS` "updates are
   applied on restart", but not by a restart that completes an interrupted first
   setup: the files exist already, and reconciliation is skipped while the
   sentinel is missing (`entrypoint_updates`).
2. *Cluster forwarding.* The platform's servers are read from the file that the
   previous start in the same pod overwrote (`resolver_kept`).

### Other statements that do not hold

Six more are stated in the modules and are not part of a run. To see the
counterexample, put the invariant into the configuration named, with
`SPECIFICATION Spec` (in `Drift`, `DriftSpec`).

- `ReadyMeansBootstrapped` (`bootstrap.cfg`). The agent's exporters "close out
  bootstrap" only at the first boot: the registration marker persists, so after
  a restart they come up while Kea's credential cache is old or missing
  (statefulset.yaml:166).
- `LongDomainRefused` (`entrypoint.cfg` with `NameLength <- MCAnyNameLength`).
  `${VAR:?message}` fails only for an empty variable, so the test that refuses a
  name that "is longer than 15 characters" never does (entrypoint.sh:19).
- `ChecksWithinTimeout` (`retrywait.cfg`). `DIB_BOOTSTRAP_TIMEOUT_SECONDS`, the
  "maximum time for post-start dependency checks", is the maximum of each
  (README.md:287). What does hold is `ChecksBounded`: the sum of the limits of the
  waits so far.
- `LDAPPasswordShared` (`storkserver.cfg`). After a change of the shared password
  and new containers the server has the new one and the account the old
  (docker-compose.yml:28, "Shared with Stork Server for LDAP authentication").
- `ReadableKept` (`reconcile.cfg`). A replaced file takes over the old one's mode,
  not its owner or group: what was opened to its server's group only is closed
  to the server after a restart.
- `SyncHonoured` (`drift.cfg`). A restart asked to synchronise the password, after
  a first setup that was cut off between provisioning and its sentinel, neither
  provisions nor synchronises (README.md:355).

### Three windows

`entrypoint` does not claim that whatever is launched is whole; it says
exactly what may be wrong with it: a domain whose provisioning was cut off
after `smb.conf` (never launched, as Kerberos configuration is missing), a
write-once file that was created and not filled (launched if chrony's or
BIND's, refused by validation if Kea's or the agent's), and an `rndc.key` whose
ownership was not yet handed over. `DamageIsPermanent` says that no later boot
repairs any of them, since existence decides, `OnlyInterruptionsDamage` that
nothing but an interruption opens one of these windows. `Wedged` in `Bootstrap` is the
same for commands. The liveness properties name these as their only exceptions.

### Bounds

- `MaxFaults` counts crashes, failures and interruptions: four in `Bootstrap`
  (one to leave a step in doubt, one while that is found out, two more in the
  Stork phase), two in `Entrypoint`, `TLSAssets`, `StorkServer`, `Reconcile` and
  `Database` (one to do damage, one while living with it), three in `Drift`. In
  `Supervisor` it counts programs that fail by themselves; boots and restarts are
  bounded in none of these modules.
- `NonIdempotent` are the commands that fail when repeated; the host name is a
  long one, which adds a step.
- Two settings, `old` and `new`, chosen freely at every boot: a file can be
  this boot's or another's, and no property tells more apart. The name's
  lengths are none and the longest allowed.
- Three waits, two with a deadline; a timeout of three attempts, a second of two
  ticks: dials and delays can end on the same tick as the deadline, or between.
- Two addresses of which one is also among the platform's servers, two servers,
  three starts per pod (`MaxBoots`), any number of pods.
- `MaxRotations` 2: a set and its renewal, of which one may be piecemeal.
- `MaxOperations` 3: a change of the secret or the TLS files, and both containers
  made anew.
- `Places` 2 and `MaxEdits` 1: texts with the setting missing, once, twice, or
  beside something that looks like it, edited before or during a reconciliation.
- Five names of versions: three numbers, one of them negative, one with a dot and a
  copy (`10-old`); `MaxChanges` 2: one installed and one removed. With mixed names
  the order is not transitive and 9 can win over 10.
- `Drift`: two addresses, two passwords or none, `MaxChanges` 3: there and back and once
  more.
- `Supervisor`: one server, the one `init` waits for only while the core is
  pending, beside `init`, the agent and what is switched off; two attempts of the
  agent's wait. A server's own giving up takes four early ends and is not reached;
  the agent's and that of what is switched off take the same action.

In the proof modules the bounds are gone: the theorems hold for any constants that meet
the modules' assumptions. `MaxFaults` and the like occur there only as the range of a
counter.

### Fairness

- `Bootstrap`: weak fairness of `RunBootstrap` (the process makes progress: every
  command and dial returns), of `Boot` (a stopped container is started: restart
  policy or orchestrator), of `StartAgent` (`waitForFile` polls and supervisord
  restarts the wrapper when it gives up), and of `RestartAfter("failed")`: nothing
  in the image retries a failed `init`, so an operator who restarts the
  container is assumed, and nothing weaker would do. `Crash` and `Fail` have
  none and are bounded: "when faults stop".
- `Entrypoint`: weak fairness of `RunScript` and of `Boot`. Kubernetes restarts a
  container whose entrypoint exits; under compose, where the core service has no
  restart policy, it is the operator.
- `TLSAssets`: weak fairness of `InstallTLSAssets` and of `Boot`, as in `Entrypoint`.
- `StorkServer`: weak fairness of `RunServer`, which includes the start by the
  restart policy of docker-compose.yml and the end of a wait for a database that
  does not answer.
- `Reconcile`: weak fairness of `Run` and of `Boot` for a container that is down.
- `Database`: weak fairness of `Commands` and of `Boot`.
- `Drift`: weak fairness of `Start`, of `Boot`, and of `Restart` when the container
  or its bootstrap has failed: the operator's or the runtime's, as in `Bootstrap`.
- `Supervisor`: weak fairness of what supervisord and the run commands do by
  themselves: each program's start, its first second and its command's next step,
  the steps of `init` and the end of the agent's wait. Boots and failures have none; `Settles` is about behaviours
  in which the container is left alone from some time on.
- `RetryWait` and `Resolver` need none: that a wait ends is stated as a bound on
  the clock, and that the clock cannot be stuck is TLC's check for deadlock.

## 4. The proofs

Run `tlapm <module>.tla`. All theorems are proved down to the last leaf, with no
assumption but the constants' (`BootstrapAssumption`: `NonIdempotent` is a set of
steps; `EntrypointAssumption`: settings are neither `"absent"` nor `"torn"`;
`RetryWaitAssumption`: a positive timeout and tick; `DatabaseAssumption`: names
differ and are not empty, some are numbers, and they are at most twelve, up to which Go's
`sort.Slice` is the insertion sort that `postgresVersion` models;
`ResolverAssumption`, `DriftAssumption`, `TLSAssumption`, `StorkAssumption`,
`TextAssumption`, `ReconcileAssumption` and `SupervisorAssumption`: bounds are
natural numbers, and the constants' values are none of the markers such as "none"
that the state uses beside them).

Each component has one inductive invariant (`IInv`; `DriftInv` and `DatabaseInv`
in those two), of which the type invariant is the first conjunct. Every safety
invariant and action property of a run that passes is a theorem. The modules state
more than the runs check, and these are proved as well; TLC agrees when they are
added to the configuration:

- the inductive and type invariants; in `Bootstrap` `SetupInOrder`,
  `MarkersSound`, `StorkSentinelSound` and `KeytabFound`; `WaitBounded` and
  `ProbesSpaced`; `ResolvesThroughItself`; `AddressesCurrent` and
  `RunsWhatWasValidated`;
- *where damage comes from*: `OnlyFaultsWedge`, `OnlyInterruptionsDamage`,
  `OnlyFaultsTear` and `OnlyEditsBreak` are the other half of `WedgeIsPermanent`
  and `DamageIsPermanent`: what no boot repairs, no boot does by itself either;
- *why a start fails*: `OnlyDamageAborts`, `OnlyPartsRefused`, `FailureExplained`
  and the second half of `OnlyFaultsWedge` name the only reasons for which a
  program gives up when nothing is done to it;
- *that a program ends*: `BootEnds`, `ScriptEnds` and `BringsEndNearer` give a
  measure that every step makes smaller.

The last two kinds are the safety core of the liveness properties: that a program
under weak fairness ends, and that it ends well but for the exceptions those
properties name.

- **`BootstrapProofs`.** The properties are facts about the disk, and their proof
  needs what each program point may rely on: in `RunOnce` all earlier steps are
  marked (`RunOnceInv`); after it the keytab has the ownership the next line
  assumes (`RefreshInv`); the Stork phase has a complete core and no registration
  yet (`StorkInv`); the frozen flags never promise more than the sentinels
  (`FlagsInv`, which a retry in the same boot depends on); and what is behind the
  refresh stays there, cron notwithstanding (`ReadyInv`). From it follow all
  invariants of the run, `WedgePermanent`, and `JournalImplemented`, the
  refinement: every action is mapped to `Perform`, `Commit`, a completion or a
  stutter, one lemma for each kind. What the journal is worth is proved of
  `StepJournal` alone (`JournalPromises`, `JournalKeeps`): steps are in order, one
  at most in doubt, what is committed or declared complete stays so. `BootsEnd`
  counts: a table says how many steps each program point has before it (`LeftAt`),
  dependencies still awaited and a retry still allowed are added, and no boot is
  longer than 97.
- **`EntrypointProofs`.** `ProvisionedSound` is not inductive: that everything is
  there when the sentinel is touched rests on the order of the handlers. The
  invariant therefore says for each label what exists (`ProgressInv`), which mode
  the boot is in (`ModeInv`), that a torn file is open or damage (`WritingInv`),
  whose settings the files have (`WantedInv`), and what validation saw
  (`ValidatedInv`). One lemma per action shows it preserved. `LaunchedComplete`,
  `SettingsReconciled` and the action properties follow. `AbortNeedsDamage` goes
  through the places where the script gives up and shows of each that, without
  damage, its condition contradicts the invariant; `ScriptsEnd` adds to the table
  of labels the BIND files not yet visited, in whatever order they come.
- **`RetryWaitProofs`.** The invariant keeps account of time: where the clock may
  be in a dial and in a delay (`ClockInv`), when the last dial may begin under a
  deadline (`DeadlineInv`), how much the attempts so far have taken at least
  (`ProbesSpaced`) and at most (`AttemptsInv`). The two products in it are beyond
  linear arithmetic and are dealt with in the lemmas `Products`, `Monotone` and
  `Limits`. `ChecksEndInTime` sums the limits over the waits, of any number, with
  a recursive function; `EndsAfterAll` is the variant of the last wait, the only
  one without a deadline.
- **`RestartProofs`.** What BIND forwards to is what was read, so the invariant
  follows the servers from the file to the zone: `resolv.conf` never names a
  server of another pod (`PodInv`), what was read excludes the container
  (`UpstreamInv`), and the zone is written anew from it (`WrittenInv`). In
  `Drift`, what a place holds when the start is past it is the address in force
  (`PlacesInv`), whether an interrupted start put it there or this one; the domain
  exists once the sentinel does (`DomainInv`), and as long as the password never
  changed the directory has no other (`PasswordInv`). From these follow
  `AddressesCurrent`, `PasswordFollows` and `FailureExplained`.
- **`TLSAssetsProofs`.** What has been counted was there, as many as were counted
  (`StatInv`), what has been copied is what `/certs` holds (`CopyInv`, `FillInv`)
  as long as nothing moved, and a whole installation stays whole (`WholeInv`); at
  the launch (`LaunchInv`) these give both invariants of the run. The count is
  needed for `OnlyPartsRefused`.
- **`ServerProofs`.** A program past the file has one (`BegunInv`), every line is
  right whenever it was written (`LinesInv`), so is what is about to be written
  (`FillInv`), and the endpoint is what the file says (`EndpointInv`); with these,
  `RightSettings`, `SamePassword` and `AmissForGood`. In
  `Database`, what was validated is what the search finds while nothing is
  installed or removed (`CheckedInv`). The substance is `PostgresVersionGreatest`:
  the pass over the names in the order of their text, a recursive function, ends
  with the greatest number though text puts 10 before 9, and where names are mixed
  with one that only smaller numbers exceed as text. The library's induction
  theorems take an operator as a parameter, which the provers do not instantiate;
  the lemma `Induction` is about a set in the operator's place, proved from the
  least element of its complement.
- **`ReconcileProofs`.** The invariant follows one replacement: what was read is
  the file unless an edit overtook it (`ReadInv`), the temporary file is that,
  rewritten, with the mode it had then (`ModeInv`, `TempInv`), and what was
  reconciled before it is as wanted (`StepInv`, `FoundInv`, `PoolInv`). From it
  follow the invariants of the run, for texts of any length, and `Implements`:
  every action is an edit, a reading, a replacement or a stutter of `AtomicFile`.
  Of the rewriting itself `RewritingSettles` says that doing it again changes
  nothing and that its result is found and not refused; with that,
  `NothingBroken`.
- **`SupervisorProofs`.** How far `init` is says how often it ran (`RunsOfInit`),
  and an agent that waits has no failed starts (`AgentWaits`), if it looks more
  than once. `EnabledServe` says what may run at all.

Only model-checked: liveness (`CoreConverges`, `StorkConverges`, `Launches`,
`Installs`, `ServerComesUp`, `GetsThrough`, `Serves`, `Completes` and `Settles`).
It needs fairness and with it `ENABLED`, of which the prover has no rules.

## 5. What is not modelled, and why

- Commands of other programs (samba-tool, kinit, stork-agent, named, Kea) are
  external: an effect, and a reply that may be lost.
- Text beyond the managed settings: the wording of generated files. A text is
  the items of `ManagedText`, at most two in the run.
- In `Entrypoint`: `/etc/hosts` with the deletion of lines by the address's
  prefix, the link `/etc/samba`, log directories, the spelling of the metrics
  switch.
- `/etc/resolv.conf`'s search list. At every start in the same pod one more copy
  of the domain is put in front of it; no property depends on its length.
- The overflow of a timeout of more than 292 years.
- In the database service: the runtime directory's mode, set at every start, and
  the health probe, which nothing calls.
- supervisord's priorities, which order the first starts only.
- Loss of a single volume, and clocks of different machines.
- Configuration loading, command line, logging, probes: no state, no order of
  their own. The chart, compose file and lab scripts are declarative. The test
  runner is not part of the product.

## 6. Plan

Every component with state of its own is modelled, and every safety invariant and
action property of the runs is proved. What is left, in order:

1. Variants, as `BootEnds` and `ScriptEnds` are, for the programs that have none
   yet: `StorkServer`, `Database`, `Reconcile`, `TLSAssets` and `Drift`.
2. `Supervisor` composed with `Bootstrap`, so that the retry of `init` and the
   agent's wait see the steps in between.
3. `/etc/hosts`, and the test runner's join fallback and lease check.
