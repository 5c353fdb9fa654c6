----------------------------- MODULE Supervisor -----------------------------
(***************************************************************************)
(* supervisord with the container's programs, each started through the run *)
(* command of its service: the command replaces itself by the server, or   *)
(* ends because the component is switched off, or, for the Stork agent,    *)
(* waits for the marker that the bootstrap (program init) sets when the    *)
(* agent is registered, and fails when it has waited too long.             *)
(*                                                                         *)
(* supervisord is modelled as it is documented: a program that ends within *)
(* the first second (startsecs is not set) is started again after a while, *)
(* whatever its exit code and autorestart say, and given up after          *)
(* startretries more such starts; one that ends later is restarted         *)
(* according to autorestart. Nothing but a restart of the container takes  *)
(* up what was given up. Of init, what it waits for and in which order;    *)
(* what it does then, in detail, is Bootstrap.tla's.                       *)
(*                                                                         *)
(* Operators whose name ends in _Variant are wrong on purpose: each is a   *)
(* plausible slip in the definition after it.                              *)
(***************************************************************************)
EXTENDS Integers, Sequences

CONSTANTS
  Server,     \* chrony, samba, bind, cron and the Kea programs, or some of them
  Attempts,   \* DIB_BOOTSTRAP_TIMEOUT_SECONDS, of a second each
  MaxFaults   \* bound on servers and commands that fail by themselves

ASSUME SupervisorAssumption ==
  /\ Server \cap {"init", "samba-metrics", "stork-agent"} = {}
  /\ Attempts \in Nat \ {0} /\ MaxFaults \in Nat

VARIABLES
  state,     \* what supervisord says of each program
  fails,     \* how many starts in a row ended within a second
  process,   \* what runs: the run command, or the server in its place
  stork, metrics, pendingCore, pendingStork,  \* the environment of this start
  complete, registered,  \* the core's sentinel, the agent's marker and sentinel
  todo,      \* what init has before it: dependencies to wait for, then its work
  runs,      \* history: how often init was run in this start
  faults

config == <<stork, metrics, pendingCore, pendingStork>>
markers == <<complete, registered>>
vars == <<state, fails, process, config, markers, todo, runs, faults>>

Program == Server \cup {"init", "samba-metrics", "stork-agent"}

Disabled == (IF stork THEN {} ELSE {"stork-agent"}) \cup (IF metrics THEN {} ELSE {"samba-metrics"})

(* always and unexpected are mixed up.                                     *)
autorestart_Variant(p) ==
  CASE p = "init" -> "false"
    [] p \in Server -> "unexpected"
    [] OTHER -> "true"

autorestart(p) ==
  CASE p = "init" -> "false"
    [] p \in Server -> "true"
    [] OTHER -> "unexpected"

(* Left out, the default applies to init too.                              *)
startretries_Variant(p) == 3

startretries(p) == IF p = "init" THEN 1 ELSE 3

(* The programs that answer to the dependencies; PostgreSQL is elsewhere.  *)
Dependency == [BIND |-> "bind", LDAP |-> "samba", KDC |-> "samba", PostgreSQL |-> "elsewhere"]

(* What init waits for follows from the flags that the script has set.     *)
Dependencies ==
  (IF pendingCore THEN <<"BIND">> ELSE <<>>) \o <<"LDAP", "KDC">>
    \o (IF pendingStork THEN <<"PostgreSQL">> ELSE <<>>)

Agenda == Dependencies \o <<"core">> \o (IF pendingStork THEN <<"agent">> ELSE <<>>)

TypeOK ==
  /\ state \in [Program -> {"stopped", "starting", "running", "backoff", "exited", "fatal"}]
  /\ fails \in [Program -> 0 .. 4]
  /\ process \in [Program -> {"none", "command", "server"}]
  /\ {stork, metrics, pendingCore, pendingStork, complete, registered} \subseteq BOOLEAN
  /\ todo \in Seq(DOMAIN Dependency \cup {"core", "agent"})
  /\ runs \in Nat /\ faults \in 0 .. MaxFaults
  /\ \A p \in Program :
       /\ process[p] = "none" <=> state[p] \notin {"starting", "running"}
       /\ process[p] = "server" => p # "init"
       /\ fails[p] <= startretries(p) <=> state[p] # "fatal"

Init ==
  /\ state = [p \in Program |-> "stopped"]
  /\ fails = [p \in Program |-> 0]
  /\ process = [p \in Program |-> "none"]
  /\ stork \in BOOLEAN /\ metrics \in BOOLEAN
  /\ complete = FALSE /\ registered = FALSE
  /\ pendingCore = TRUE /\ pendingStork = stork
  /\ todo = <<>> /\ runs = 0 /\ faults = 0

-----------------------------------------------------------------------------
(* The container is restarted, perhaps with other components switched on;  *)
(* what is pending is found out before anything runs, and not again.       *)
Boot ==
  /\ state' = [p \in Program |-> "stopped"]
  /\ fails' = [p \in Program |-> 0]
  /\ process' = [p \in Program |-> "none"]
  /\ stork' \in BOOLEAN /\ metrics' \in BOOLEAN
  /\ pendingCore' = ~complete /\ pendingStork' = (stork' /\ ~registered)
  /\ todo' = <<>> /\ runs' = 0
  /\ UNCHANGED <<markers, faults>>

Spawn(p) ==
  /\ state[p] \in {"stopped", "backoff"}
  /\ state' = [state EXCEPT ![p] = "starting"]
  /\ process' = [process EXCEPT ![p] = "command"]
  /\ IF p = "init"
       THEN runs' = runs + 1 /\ todo' = Agenda
       ELSE UNCHANGED <<runs, todo>>
  /\ UNCHANGED <<fails, config, markers, faults>>

(* It is still there after a second.                                       *)
Survive(p) ==
  /\ state[p] = "starting"
  /\ state' = [state EXCEPT ![p] = "running"]
  /\ fails' = [fails EXCEPT ![p] = 0]
  /\ UNCHANGED <<process, config, markers, todo, runs, faults>>

(* A program that ended within its first second is started again, so often *)
(* as startretries allows; one that ended later, as autorestart says.      *)
Exit(p, code) ==
  LET early == state[p] = "starting"
      again == \/ autorestart(p) = "true"
               \/ autorestart(p) = "unexpected" /\ code # 0
  IN  /\ fails' = [fails EXCEPT ![p] = IF early THEN @ + 1 ELSE 0]
      /\ state' = [state EXCEPT ![p] =
                     IF early THEN IF fails'[p] > startretries(p) THEN "fatal" ELSE "backoff"
                     ELSE IF again THEN "stopped" ELSE "exited"]
      /\ process' = [process EXCEPT ![p] = "none"]
      /\ todo' = IF p = "init" THEN <<>> ELSE todo
      /\ UNCHANGED <<config, runs>>

(* The command of a component that is switched on replaces itself by the   *)
(* server; the agent's waits for the marker first.                         *)
Serve(p) ==
  /\ p # "init" /\ p \notin Disabled
  /\ process[p] = "command"
  /\ p = "stork-agent" => registered
  /\ process' = [process EXCEPT ![p] = "server"]
  /\ UNCHANGED <<state, fails, config, markers, todo, runs, faults>>

(* One that is switched off ends at once, and successfully.                *)
Decline(p) ==
  /\ p \in Disabled
  /\ process[p] = "command"
  /\ Exit(p, 0)
  /\ UNCHANGED <<markers, faults>>

(* It looks for the marker once.                                           *)
WaitedOut_Variant ==
  /\ process["stork-agent"] = "command"
  /\ stork /\ ~registered
  /\ Exit("stork-agent", 1)
  /\ UNCHANGED <<markers, faults>>

(* The agent's command looks for the marker every second. The last look is *)
(* Attempts - 1 seconds after the first: with a single one the command     *)
(* ends at once.                                                           *)
WaitedOut ==
  /\ process["stork-agent"] = "command"
  /\ stork /\ ~registered
  /\ Attempts = 1 \/ state["stork-agent"] = "running"
  /\ Exit("stork-agent", 1)
  /\ UNCHANGED <<markers, faults>>

(* A command or server ends by itself, with any code.                      *)
Fault(p) ==
  /\ faults < MaxFaults
  /\ faults' = faults + 1
  /\ process[p] = "server" \/ (process[p] = "command" /\ p \in Server \cup {"init"})
  /\ \E code \in 0 .. 1 : (p = "init" => code = 1) /\ Exit(p, code)
  /\ UNCHANGED markers

(* What init has next to do, or to wait for.                               *)
Now(item) == process["init"] = "command" /\ todo # <<>> /\ Head(todo) = item

(* A dependency outside the model may answer, or not.                      *)
Up(d) == Dependency[d] \in Server => process[Dependency[d]] = "server"

Down(d) == Dependency[d] \in Server => process[Dependency[d]] # "server"

(* The dependencies are waited for one after another: one that has once    *)
(* answered is not looked at again.                                        *)
Reach(d) ==
  /\ Now(d) /\ Up(d)
  /\ todo' = Tail(todo)
  /\ UNCHANGED <<state, fails, process, config, markers, runs, faults>>

(* The one that is waited for did not come up within its time.             *)
GiveUp(d) ==
  /\ Now(d) /\ Down(d)
  /\ Attempts = 1 \/ state["init"] = "running"
  /\ Exit("init", 1)
  /\ UNCHANGED <<markers, faults>>

(* With all of them up, the core's bootstrap if it is pending, and in any  *)
(* case the network's; then the agent's registration. A failure of these   *)
(* is a Fault.                                                             *)
Complete ==
  /\ Now("core")
  /\ complete' = (complete \/ pendingCore)
  /\ todo' = Tail(todo)
  /\ UNCHANGED <<state, fails, process, config, registered, runs, faults>>

Register ==
  /\ Now("agent")
  /\ registered' = TRUE
  /\ todo' = Tail(todo)
  /\ UNCHANGED <<state, fails, process, config, complete, runs, faults>>

Succeed ==
  /\ process["init"] = "command" /\ todo = <<>>
  /\ Exit("init", 0)
  /\ UNCHANGED <<markers, faults>>

Bootstrap ==
  \/ Complete \/ Register \/ Succeed
  \/ \E d \in DOMAIN Dependency : Reach(d) \/ GiveUp(d)

Step(p) == Spawn(p) \/ Survive(p) \/ Serve(p) \/ Decline(p)

Next ==
  \/ Boot \/ WaitedOut \/ Bootstrap
  \/ \E p \in Program : Step(p) \/ Fault(p)

Spec == Init /\ [][Next]_vars

(* supervisord and the commands go on; time passes.                        *)
FairSpec ==
  /\ Spec
  /\ WF_vars(WaitedOut) /\ WF_vars(Bootstrap)
  /\ \A p \in Program : WF_vars(Step(p))

-----------------------------------------------------------------------------
(* In one start of the container the bootstrap is run at most twice, and   *)
(* again only if it had ended within a second: it is not run against       *)
(* markers that change under its feet, and its failure is not retried.     *)
InitAtMostTwice ==
  runs <= 2 /\ (runs = 2 => fails["init"] >= 1 \/ state["init"] \in {"running", "exited"})

(* An agent that is to run is not given up while it waits for its          *)
(* registration, however long the bootstrap takes and whether it fails,    *)
(* provided its command looks for the marker more than once.               *)
WaitsForRegistration ==
  Attempts > 1 /\ stork /\ state["stork-agent"] = "fatal" => registered

(* What runs is what this start of the container has switched on, with the *)
(* agent registered; and a server is never left ended: it is run, about to *)
(* be run again, or was given up.                                          *)
OnlyEnabledServe ==
  /\ \A p \in Program :
       process[p] = "server" => p \notin Disabled /\ (p = "stork-agent" => registered)
  /\ \A p \in Server : state[p] # "exited"

(* How far init is says how often it was run.                              *)
RunsOfInit ==
  LET f == fails["init"]
  IN  CASE state["init"] = "stopped" -> f = 0 /\ runs = 0
        [] state["init"] = "starting" -> f \in 0 .. 1 /\ runs = f + 1
        [] state["init"] = "backoff" -> f = 1 /\ runs = 1
        [] state["init"] = "fatal" -> f = 2 /\ runs = 2
        [] OTHER -> f = 0 /\ runs \in 1 .. 2

(* Until it is registered, the agent's command waits or is started again.  *)
AgentWaits ==
  Attempts > 1 /\ stork /\ ~registered =>
    /\ fails["stork-agent"] = 0
    /\ state["stork-agent"] \in {"stopped", "starting", "running"}
    /\ process["stork-agent"] # "server"

(* The inductive invariant: what the two properties rest on.               *)
IInv == TypeOK /\ RunsOfInit /\ AgentWaits

(* Once the container is not restarted any more: servers are restarted     *)
(* whenever they end, also successfully, unless they were given up; the    *)
(* agent runs if it is registered, unless it ended successfully; and what  *)
(* is switched off comes to rest.                                          *)
Settles ==
  <>[][~Boot]_vars =>
    /\ \A p \in Server : <>[](process[p] = "server" \/ state[p] = "fatal")
    /\ <>[](stork /\ registered =>
              process["stork-agent"] = "server" \/ state["stork-agent"] \in {"fatal", "exited"})
    /\ <>[](\A p \in Disabled : state[p] \in {"fatal", "exited"})

=============================================================================
