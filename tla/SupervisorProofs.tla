------------------------- MODULE SupervisorProofs -------------------------
(***************************************************************************)
(* Theorems about Supervisor.tla, for any set of servers, any timeout and  *)
(* any number of restarts and faults.                                      *)
(***************************************************************************)
EXTENDS Supervisor, TLAPS

USE SupervisorAssumption DEF config, markers, Program

LEMMA ProgramFacts ==
  /\ "init" \in Program /\ "stork-agent" \in Program
  /\ \A p \in Program : startretries(p) \in {1, 3}
  /\ startretries("init") = 1
BY DEF startretries

(* What init has before it is made of dependencies and its work.           *)
LEMMA AgendaType ==
  ASSUME pendingCore \in BOOLEAN, pendingStork \in BOOLEAN
  PROVE  Agenda \in Seq(DOMAIN Dependency \cup {"core", "agent"})
<1> DEFINE T == DOMAIN Dependency \cup {"core", "agent"}
<1>1. {"BIND", "LDAP", "KDC", "PostgreSQL", "core", "agent"} \subseteq T
  BY DEF Dependency
<1>2. /\ <<>> \in Seq(T) /\ <<"BIND">> \in Seq(T) /\ <<"LDAP", "KDC">> \in Seq(T)
      /\ <<"PostgreSQL">> \in Seq(T) /\ <<"core">> \in Seq(T) /\ <<"agent">> \in Seq(T)
  <2> HIDE DEF T
  <2> QED BY <1>1
<1>3. \A s, t \in Seq(T) : s \o t \in Seq(T)
  <2> HIDE DEF T
  <2> QED OBVIOUS
<1>4. Dependencies \in Seq(T)
  <2> HIDE DEF T
  <2> QED BY <1>2, <1>3 DEF Dependencies
<1>5. Agenda \in Seq(T)
  <2> HIDE DEF T
  <2> QED BY <1>2, <1>3, <1>4 DEF Agenda
<1> QED
  BY <1>5

(* Of a sequence that is not empty, the rest is one too.                   *)
LEMMA RestType ==
  ASSUME NEW T, NEW s \in Seq(T), s # <<>>
  PROVE  Tail(s) \in Seq(T)
OBVIOUS

(* supervisord has started nothing yet.                                    *)
LEMMA InitIInv == Init => IInv
<1> SUFFICES ASSUME Init PROVE IInv
  OBVIOUS
<1>1. TypeOK
  <2>1. /\ state \in [Program -> {"stopped", "starting", "running", "backoff", "exited", "fatal"}]
        /\ process \in [Program -> {"none", "command", "server"}]
    BY DEF Init
  <2>2. fails \in [Program -> 0 .. 4]
    BY DEF Init
  <2>3. /\ {stork, metrics, pendingCore, pendingStork, complete, registered} \subseteq BOOLEAN
        /\ todo \in Seq(DOMAIN Dependency \cup {"core", "agent"})
    <3>1. todo \in Seq(DOMAIN Dependency \cup {"core", "agent"})
      BY DEF Init
    <3>2. stork \in BOOLEAN /\ metrics \in BOOLEAN /\ pendingStork = stork
      BY DEF Init
    <3>3. pendingCore \in BOOLEAN /\ complete \in BOOLEAN /\ registered \in BOOLEAN
      BY DEF Init
    <3> QED
      BY <3>1, <3>2, <3>3
  <2>4. runs \in Nat /\ faults \in 0 .. MaxFaults
    BY DEF Init
  <2>5. ASSUME NEW p \in Program
        PROVE  /\ process[p] = "none" <=> state[p] \notin {"starting", "running"}
               /\ process[p] = "server" => p # "init"
               /\ fails[p] <= startretries(p) <=> state[p] # "fatal"
    BY ProgramFacts DEF Init
  <2> QED
    BY <2>1, <2>2, <2>3, <2>4, <2>5 DEF TypeOK
<1>2. RunsOfInit /\ AgentWaits
  BY ProgramFacts DEF Init, RunsOfInit, AgentWaits
<1> QED
  BY <1>1, <1>2 DEF IInv

(* The container's restart leaves nothing running.                         *)
LEMMA BootIInv == IInv /\ Boot => IInv'
<1> SUFFICES ASSUME IInv, Boot PROVE IInv'
  OBVIOUS
<1>1. TypeOK'
  BY ProgramFacts DEF IInv, TypeOK, Boot
<1>2. RunsOfInit'
  BY ProgramFacts DEF IInv, TypeOK, RunsOfInit, Boot
<1>3. AgentWaits'
  BY ProgramFacts DEF IInv, TypeOK, AgentWaits, Boot
<1> QED
  BY <1>1, <1>2, <1>3 DEF IInv

(* A start of init is counted, and allowed only before it is given up.     *)
LEMMA SpawnIInv == ASSUME NEW p \in Program PROVE IInv /\ Spawn(p) => IInv'
<1> SUFFICES ASSUME IInv, Spawn(p) PROVE IInv'
  OBVIOUS
<1>1. TypeOK'
  <2>1. todo' \in Seq(DOMAIN Dependency \cup {"core", "agent"})
    BY AgendaType DEF IInv, TypeOK, Spawn
  <2> QED
    BY <2>1, ProgramFacts DEF IInv, TypeOK, Spawn
<1>2. RunsOfInit'
  BY ProgramFacts DEF IInv, TypeOK, RunsOfInit, Spawn
<1>3. AgentWaits'
  BY ProgramFacts DEF IInv, TypeOK, AgentWaits, Spawn
<1> QED
  BY <1>1, <1>2, <1>3 DEF IInv

(* A program past its first second has no failed starts.                   *)
LEMMA SurviveIInv == ASSUME NEW p \in Program PROVE IInv /\ Survive(p) => IInv'
<1> SUFFICES ASSUME IInv, Survive(p) PROVE IInv'
  OBVIOUS
<1>1. TypeOK'
  BY ProgramFacts DEF IInv, TypeOK, Survive
<1>2. RunsOfInit'
  BY ProgramFacts DEF IInv, TypeOK, RunsOfInit, Survive
<1>3. AgentWaits'
  BY ProgramFacts DEF IInv, TypeOK, AgentWaits, Survive
<1> QED
  BY <1>1, <1>2, <1>3 DEF IInv

(* The agent's server needs the marker, and init has none.                 *)
LEMMA ServeIInv == ASSUME NEW p \in Program PROVE IInv /\ Serve(p) => IInv'
<1> SUFFICES ASSUME IInv, Serve(p) PROVE IInv'
  OBVIOUS
<1>1. TypeOK'
  BY ProgramFacts DEF IInv, TypeOK, Serve, Disabled
<1>2. RunsOfInit'
  BY ProgramFacts DEF IInv, TypeOK, RunsOfInit, Serve, Disabled
<1>3. AgentWaits'
  BY ProgramFacts DEF IInv, TypeOK, AgentWaits, Serve, Disabled
<1> QED
  BY <1>1, <1>2, <1>3 DEF IInv

(* A command that is switched off is not the agent's that is to run.       *)
LEMMA DeclineIInv == ASSUME NEW p \in Program PROVE IInv /\ Decline(p) => IInv'
<1> SUFFICES ASSUME IInv, Decline(p) PROVE IInv'
  OBVIOUS
<1>1. TypeOK'
  BY ProgramFacts DEF IInv, TypeOK, Decline, Exit, Disabled
<1>2. RunsOfInit'
  BY ProgramFacts DEF IInv, TypeOK, RunsOfInit, Decline, Exit, autorestart, Disabled
<1>3. AgentWaits'
  BY ProgramFacts DEF IInv, TypeOK, AgentWaits, Decline, Exit, autorestart, Disabled
<1> QED
  BY <1>1, <1>2, <1>3 DEF IInv

(* Past the first second the agent's command is just restarted.            *)
LEMMA WaitedOutIInv == IInv /\ WaitedOut => IInv'
<1> SUFFICES ASSUME IInv, WaitedOut PROVE IInv'
  OBVIOUS
<1>1. TypeOK'
  BY ProgramFacts DEF IInv, TypeOK, WaitedOut, Exit
<1>2. RunsOfInit'
  BY ProgramFacts DEF IInv, TypeOK, RunsOfInit, WaitedOut, Exit, autorestart
<1>3. AgentWaits'
  BY ProgramFacts DEF IInv, TypeOK, AgentWaits, WaitedOut, Exit, autorestart
<1> QED
  BY <1>1, <1>2, <1>3 DEF IInv

(* Only servers, their commands and init fail by themselves.               *)
LEMMA FaultIInv == ASSUME NEW p \in Program PROVE IInv /\ Fault(p) => IInv'
<1> SUFFICES ASSUME IInv, Fault(p) PROVE IInv'
  OBVIOUS
<1>1. TypeOK'
  BY ProgramFacts DEF IInv, TypeOK, Fault, Exit
<1>2. RunsOfInit'
  BY ProgramFacts DEF IInv, TypeOK, RunsOfInit, Fault, Exit, autorestart
<1>3. AgentWaits'
  BY ProgramFacts DEF IInv, TypeOK, AgentWaits, Fault, Exit, autorestart
<1> QED
  BY <1>1, <1>2, <1>3 DEF IInv

(* The bootstrap's end, failed or not, concerns init only.                 *)
LEMMA InitExitIInv ==
  ASSUME NEW code \in 0 .. 1, process["init"] = "command", Exit("init", code),
         UNCHANGED <<markers, faults>>
  PROVE  IInv => IInv'
<1> SUFFICES ASSUME IInv PROVE IInv'
  OBVIOUS
<1>1. TypeOK'
  BY ProgramFacts DEF IInv, TypeOK, Exit
<1>2. RunsOfInit'
  BY ProgramFacts DEF IInv, TypeOK, RunsOfInit, Exit, autorestart
<1>3. AgentWaits'
  BY ProgramFacts DEF IInv, TypeOK, AgentWaits, Exit, autorestart
<1> QED
  BY <1>1, <1>2, <1>3 DEF IInv

(* While it is under way it changes the markers only, and sets them.       *)
LEMMA InitWorkIInv ==
  ASSUME todo # <<>>, todo' = Tail(todo),
         complete' \in BOOLEAN, registered' \in {registered, TRUE},
         UNCHANGED <<state, fails, process, config, runs, faults>>
  PROVE  IInv => IInv'
<1> SUFFICES ASSUME IInv PROVE IInv'
  OBVIOUS
<1>1. todo' \in Seq(DOMAIN Dependency \cup {"core", "agent"})
  BY RestType DEF IInv, TypeOK
<1>2. TypeOK'
  BY <1>1 DEF IInv, TypeOK
<1>3. RunsOfInit' /\ AgentWaits'
  BY DEF IInv, TypeOK, RunsOfInit, AgentWaits
<1> QED
  BY <1>2, <1>3 DEF IInv

(* Whatever init does, the invariant holds afterwards.                     *)
LEMMA BootstrapIInv == IInv /\ Bootstrap => IInv'
<1> SUFFICES ASSUME IInv, Bootstrap PROVE IInv'
  OBVIOUS
<1>1. CASE Complete
  BY <1>1, InitWorkIInv DEF Complete, Now, IInv, TypeOK
<1>2. CASE Register
  BY <1>2, InitWorkIInv DEF Register, Now, IInv, TypeOK
<1>3. CASE Succeed
  BY <1>3, InitExitIInv DEF Succeed
<1>4. ASSUME NEW d \in DOMAIN Dependency, Reach(d) PROVE IInv'
  BY <1>4, InitWorkIInv DEF Reach, Now, IInv, TypeOK
<1>5. ASSUME NEW d \in DOMAIN Dependency, GiveUp(d) PROVE IInv'
  BY <1>5, InitExitIInv DEF GiveUp, Now
<1> QED
  BY <1>1, <1>2, <1>3, <1>4, <1>5 DEF Bootstrap

(* Steps that leave the variables alone.                                   *)
LEMMA StutterIInv == IInv /\ UNCHANGED vars => IInv'
BY DEF IInv, TypeOK, RunsOfInit, AgentWaits, vars

(* The inductive invariant, for every number of servers and every timeout: *)
(* how far init is and how often it ran agree, and the agent's wait counts *)
(* no failed starts.                                                       *)
THEOREM Invariance == Spec => []IInv
<1>1. Init => IInv
  BY InitIInv
<1>2. IInv /\ [Next]_vars => IInv'
  <2> SUFFICES ASSUME IInv, [Next]_vars PROVE IInv'
    OBVIOUS
  <2>1. CASE Boot
    BY <2>1, BootIInv
  <2>2. CASE WaitedOut
    BY <2>2, WaitedOutIInv
  <2>3. CASE Bootstrap
    BY <2>3, BootstrapIInv
  <2>4. ASSUME NEW p \in Program, Step(p) PROVE IInv'
    BY <2>4, SpawnIInv, SurviveIInv, ServeIInv, DeclineIInv DEF Step
  <2>5. ASSUME NEW p \in Program, Fault(p) PROVE IInv'
    BY <2>5, FaultIInv
  <2>6. CASE UNCHANGED vars
    BY <2>6, StutterIInv
  <2> QED
    BY <2>1, <2>2, <2>3, <2>4, <2>5, <2>6 DEF Next
<1> QED
  BY <1>1, <1>2, PTL DEF Spec

(* A program has a process exactly while it is starting or running, and is *)
(* given up exactly when its starts are used up.                           *)
THEOREM TypeCorrect == Spec => []TypeOK
<1>1. IInv => TypeOK
  BY DEF IInv
<1> QED
  BY <1>1, Invariance, PTL

(* The bootstrap is run at most twice in one start of the container, and   *)
(* again only after an end within the first second.                        *)
THEOREM AtMostTwice == Spec => []InitAtMostTwice
<1>1. IInv => InitAtMostTwice
  BY ProgramFacts DEF IInv, TypeOK, RunsOfInit, InitAtMostTwice
<1> QED
  BY <1>1, Invariance, PTL

(* However long the bootstrap takes, an agent that is to run and looks for *)
(* the marker more than once is not given up before it is registered.      *)
THEOREM KeepsWaiting == Spec => []WaitsForRegistration
<1>1. IInv => WaitsForRegistration
  BY DEF IInv, TypeOK, AgentWaits, WaitsForRegistration
<1> QED
  BY <1>1, Invariance, PTL

(* A program's end leaves others as they are, and ends no server for good. *)
LEMMA ExitServes ==
  ASSUME IInv, OnlyEnabledServe, NEW p \in Program, NEW code, Exit(p, code),
         registered => registered'
  PROVE  OnlyEnabledServe'
<1> USE DEF IInv, TypeOK, OnlyEnabledServe
<1>1. process' = [process EXCEPT ![p] = "none"] /\ UNCHANGED <<stork, metrics>>
  BY DEF Exit
<1>2. Disabled' = Disabled
  BY <1>1 DEF Disabled
<1>3. ASSUME NEW q \in Program, process'[q] = "server"
      PROVE  q \notin Disabled' /\ (q = "stork-agent" => registered')
  BY <1>1, <1>2, <1>3
<1>4. p \in Server => autorestart(p) = "true"
  BY DEF autorestart
<1>5. ASSUME NEW q \in Server PROVE state'[q] # "exited"
  BY <1>4 DEF Exit
<1> QED
  BY <1>3, <1>5

(* supervisord and the commands start only what is switched on and, for    *)
(* the agent, registered.                                                  *)
LEMMA StepServes ==
  ASSUME IInv, OnlyEnabledServe, NEW p \in Program, Spawn(p) \/ Survive(p) \/ Serve(p)
  PROVE  OnlyEnabledServe'
<1> USE DEF IInv, TypeOK, OnlyEnabledServe, Disabled
<1>1. CASE Spawn(p)
  BY <1>1 DEF Spawn
<1>2. CASE Survive(p)
  BY <1>2 DEF Survive
<1>3. CASE Serve(p)
  BY <1>3 DEF Serve
<1> QED
  BY <1>1, <1>2, <1>3

(* A component that is switched off never serves, nor the agent before it  *)
(* is registered, however the switches change from start to start; and no  *)
(* server that ends, successfully or not, is left so.                      *)
THEOREM EnabledServe == Spec => []OnlyEnabledServe
<1>1. Init => OnlyEnabledServe
  BY DEF Init, OnlyEnabledServe
<1>2. ASSUME IInv, OnlyEnabledServe, [Next]_vars
      PROVE  OnlyEnabledServe'
  <2>1. CASE Boot
    BY <2>1 DEF Boot, OnlyEnabledServe
  <2>2. CASE WaitedOut
    BY <1>2, <2>2, ProgramFacts, ExitServes DEF WaitedOut
  <2>3. CASE Bootstrap
    <3>1. CASE Complete \/ Register \/ \E d \in DOMAIN Dependency : Reach(d)
      <4>1. UNCHANGED <<state, process, stork, metrics>> /\ registered' \in {registered, TRUE}
        BY <3>1 DEF Complete, Register, Reach
      <4>2. Disabled' = Disabled
        BY <4>1 DEF Disabled
      <4>3. registered => registered'
        BY <4>1
      <4> QED
        BY <1>2, <4>1, <4>2, <4>3 DEF OnlyEnabledServe
    <3>2. CASE Succeed \/ \E d \in DOMAIN Dependency : GiveUp(d)
      <4>1. PICK code \in 0 .. 1 : Exit("init", code)
        BY <3>2 DEF Succeed, GiveUp
      <4>2. registered' = registered
        BY <3>2 DEF Succeed, GiveUp
      <4> QED
        BY <1>2, <4>1, <4>2, ProgramFacts, ExitServes
    <3> QED
      BY <2>3, <3>1, <3>2 DEF Bootstrap
  <2>4. ASSUME NEW p \in Program, Decline(p) \/ Fault(p)
        PROVE  OnlyEnabledServe'
    BY <1>2, <2>4, ExitServes DEF Decline, Fault
  <2>5. ASSUME NEW p \in Program, Spawn(p) \/ Survive(p) \/ Serve(p)
        PROVE  OnlyEnabledServe'
    BY <1>2, <2>5, StepServes
  <2>6. CASE UNCHANGED vars
    BY <1>2, <2>6 DEF vars, OnlyEnabledServe, Disabled
  <2> QED
    BY <1>2, <2>1, <2>2, <2>3, <2>4, <2>5, <2>6 DEF Next, Step
<1> QED
  BY <1>1, <1>2, Invariance, PTL DEF Spec

=============================================================================
