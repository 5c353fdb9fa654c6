-------------------------- MODULE BootstrapProofs --------------------------
(***************************************************************************)
(* Proofs about Bootstrap.tla, for every host name, every set of commands  *)
(* that cannot be repeated and any number of crashes and failures:         *)
(*   - IInv is inductive, and with it all the invariants of the model;     *)
(*   - a command in doubt that cannot be repeated stays in doubt;          *)
(*   - the markers and sentinels implement the journal of StepJournal.tla. *)
(***************************************************************************)
EXTENDS Bootstrap, TLAPS

(* The names of the steps, dependencies and program points are always      *)
(* visible to the provers.                                                 *)
USE DEF LevelRaise, ReverseZone, ReversePtr, HostCname, KeaUser, KeaExpiry,
        KeaGroup, KeaKeytab, LdapUser, LdapExpiry, Step, Registration,
        Required, CoreSteps, LdapSteps,
        Bind, Ldap, Kdc, PostgreSQL, Dependency,
        RunOncePC, RefreshPC, RegisterPC, StorkPC, ActivePC, EndedPC, PC

(* The empty volumes and the stopped container satisfy the invariant.      *)
LEMMA InitIInv == Init => IInv
<1> SUFFICES ASSUME Init PROVE IInv
  OBVIOUS
<1>1. TypeOK
  <2>1. /\ coreComplete \in BOOLEAN
        /\ storkComplete \in BOOLEAN
        /\ registered \in BOOLEAN
        /\ cron \in BOOLEAN
        /\ storkHost \in BOOLEAN
        /\ corePending \in BOOLEAN
        /\ storkPending \in BOOLEAN
        /\ retried \in BOOLEAN
    BY DEF Init
  <2>2. faults \in 0 .. MaxFaults
    BY BootstrapAssumption DEF Init
  <2>3. pc \in PC /\ step \in Step
    BY DEF Init
  <2> QED
    BY <2>1, <2>2, <2>3 DEF Init, TypeOK
<1>2. SetupInOrder /\ MarkersSound /\ CoreSentinelSound /\ StorkSentinelSound
  BY DEF Init, SetupInOrder, MarkersSound, CoreSentinelSound,
         StorkSentinelSound
<1>3. AgentReadsCredentials /\ RunOnceInv /\ RefreshInv /\ StorkInv
  BY DEF Init, AgentReadsCredentials, RunOnceInv, RefreshInv, StorkInv
<1>4. FlagsInv /\ ReadyInv
  BY DEF Init, FlagsInv, ReadyInv, PastRefresh
<1> QED
  BY <1>1, <1>2, <1>3, <1>4 DEF IInv

(* The definitions the invariant is made of, for the proofs of its         *)
(* preservation.                                                           *)
USE DEF IInv, TypeOK, SetupInOrder, MarkersSound, CoreSentinelSound,
        StorkSentinelSound, AgentReadsCredentials, RunOnceInv, RefreshInv,
        StorkInv, FlagsInv, ReadyInv, PastRefresh,
        samba, stork, layer, flags, process, GoTo, StayInBoot

(* A new boot: the flags it computes agree with the sentinels.             *)
LEMMA BootIInv ==
  ASSUME IInv, Boot
  PROVE  IInv'
<1>1. (/\ storkHost \in BOOLEAN
       /\ corePending \in BOOLEAN
       /\ storkPending \in BOOLEAN
       /\ retried \in BOOLEAN)'
  BY Zenon DEF Boot
<1>2. (waiting \subseteq Dependency)'
  BY DEF Boot, Dependencies
<1>3. (agent \in {"off", "waiting", "running"})'
  BY DEF Boot
<1>4. TypeOK'
  BY <1>1, <1>2, <1>3 DEF Boot
<1>5. (SetupInOrder /\ MarkersSound /\ CoreSentinelSound /\ StorkSentinelSound)'
  BY DEF Boot
<1>6. (AgentReadsCredentials /\ RunOnceInv /\ RefreshInv /\ StorkInv)'
  BY DEF Boot
<1>7. (FlagsInv /\ ReadyInv)'
  BY DEF Boot
<1> QED
  BY <1>4, <1>5, <1>6, <1>7

(* The end of a boot, with or without the container layer.                 *)
LEMMA StopIInv ==
  ASSUME IInv, Stop, faults' \in 0 .. MaxFaults
  PROVE  IInv'
<1>1. CASE /\ cache' = IF cache = "fresh" THEN "stale" ELSE cache
           /\ cron' = cron
  BY <1>1 DEF Stop
<1>2. CASE cache' = "absent" /\ cron' = FALSE
  <2>1. cron' \in BOOLEAN
    BY <1>2
  <2> QED
    BY <1>2, <2>1 DEF Stop
<1> QED
  BY <1>1, <1>2 DEF Stop

(* A failing step, by what it leaves behind.                               *)
LEMMA FailIInv ==
  ASSUME IInv, Fail
  PROVE  IInv'
<1>1. faults' \in 0 .. MaxFaults
  BY BootstrapAssumption DEF Fail
<1>2. CASE UNCHANGED <<samba, stork>>
  BY <1>1, <1>2 DEF Fail
<1>3. CASE pc = "act" /\ TakeEffect(step) /\ UNCHANGED stork
  BY <1>1, <1>3 DEF Fail, TakeEffect
<1>4. CASE /\ pc = "register"
           /\ creds' = "root"
           /\ UNCHANGED <<samba, storkComplete, registered>>
  BY <1>1, <1>4 DEF Fail
<1> QED
  BY <1>2, <1>3, <1>4 DEF Fail

(* Every step of the program, of its supervisor and of its environment     *)
(* preserves the invariant.                                                *)
LEMMA NextIInv == IInv /\ [Next]_vars => IInv'
<1> SUFFICES ASSUME IInv, [Next]_vars
             PROVE  IInv'
  OBVIOUS
<1>1. CASE Boot
  BY <1>1, BootIInv
<1>2. ASSUME NEW d \in Dependency, Reach(d)
      PROVE  IInv'
  BY <1>2 DEF Reach
<1>3. CASE Begin
  BY <1>3 DEF Begin
<1>4. CASE StatMarker
  BY <1>4 DEF StatMarker, AfterStep, SuccessorOf
<1>5. CASE Execute
  BY <1>5 DEF Execute, TakeEffect
<1>6. CASE Refuse
  BY <1>6 DEF Refuse
<1>7. CASE WriteMarker
  BY <1>7 DEF WriteMarker, AfterStep, SuccessorOf
<1>8. CASE CheckKeytab
  BY <1>8 DEF CheckKeytab
<1>9. CASE ChownKeytab
  BY <1>9 DEF ChownKeytab
<1>10. CASE ChmodKeytab
  BY <1>10 DEF ChmodKeytab
<1>11. CASE TruncateCache
  BY <1>11 DEF TruncateCache
<1>12. CASE Kinit
  BY <1>12 DEF Kinit
<1>13. CASE EnsureCronEntry
  BY <1>13 DEF EnsureCronEntry, AfterNetwork, AfterCore
<1>14. CASE WriteCoreSentinel
  BY <1>14 DEF WriteCoreSentinel, AfterCore
<1>15. CASE CheckRegistered
  BY <1>15 DEF CheckRegistered
<1>16. CASE FetchToken
  BY <1>16 DEF FetchToken
<1>17. CASE Register
  BY <1>17 DEF Register
<1>18. CASE ChownCredentials
  BY <1>18 DEF ChownCredentials
<1>19. CASE MarkRegistered
  BY <1>19 DEF MarkRegistered
<1>20. CASE WriteStorkSentinel
  BY <1>20 DEF WriteStorkSentinel
<1>21. CASE Fail
  BY <1>21, FailIInv
<1>22. CASE Crash
  <2>1. faults' \in 0 .. MaxFaults
    BY <1>22, BootstrapAssumption DEF Crash
  <2> QED
    BY <1>22, <2>1, StopIInv DEF Crash
<1>23. CASE RetryInit
  BY <1>23 DEF RetryInit, Dependencies
<1>24. ASSUME NEW end \in EndedPC, RestartAfter(end)
       PROVE  IInv'
  BY <1>24, StopIInv DEF RestartAfter
<1>25. CASE StartAgent
  BY <1>25 DEF StartAgent
<1>26. CASE AgentExit
  BY <1>26 DEF AgentExit
<1>27. CASE CronKinit
  BY <1>27 DEF CronKinit
<1>28. CASE UNCHANGED vars
  BY <1>28 DEF vars
<1> QED
  BY <1>1, <1>2, <1>3, <1>4, <1>5, <1>6, <1>7, <1>8, <1>9, <1>10, <1>11,
     <1>12, <1>13, <1>14, <1>15, <1>16, <1>17, <1>18, <1>19, <1>20, <1>21,
     <1>22, <1>23, <1>24, <1>25, <1>26, <1>27, <1>28
  DEF Next, RunBootstrap

(* From here on the invariant is used by name.                             *)
HIDE DEF IInv, TypeOK, SetupInOrder, MarkersSound, CoreSentinelSound,
         StorkSentinelSound, AgentReadsCredentials, RunOnceInv, RefreshInv,
         StorkInv, FlagsInv, ReadyInv, PastRefresh,
         samba, stork, layer, flags, process, GoTo, StayInBoot

(* The inductive invariant of the bootstrap.                               *)
THEOREM Invariance == Spec => []IInv
  BY InitIInv, NextIInv, PTL DEF Spec

(* The types of the state.                                                 *)
THEOREM TypeCorrect == Spec => []TypeOK
<1>1. IInv => TypeOK
  BY DEF IInv
<1> QED
  BY <1>1, Invariance, PTL

(* Commands take effect in program order across crashes, failures, retries *)
(* and restarts, each after the markers of all before it.                  *)
THEOREM Ordered == Spec => []SetupInOrder
<1>1. IInv => SetupInOrder
  BY DEF IInv
<1> QED
  BY <1>1, Invariance, PTL

(* However the container is interrupted, at most one command is in doubt:  *)
(* every other one either has its marker or was never performed.           *)
THEOREM OneInDoubt ==
  Spec => [](\A s, t \in effect \ marker : s = t)
<1>1. IInv => \A s, t \in effect \ marker : s = t
  BY DEF IInv, SetupInOrder, TypeOK
<1> QED
  BY <1>1, Invariance, PTL

(* A marker, once written, is never ahead of its command's effect.         *)
THEOREM MarkersHonest == Spec => []MarkersSound
<1>1. IInv => MarkersSound
  BY DEF IInv
<1> QED
  BY <1>1, Invariance, PTL

(* The core sentinel is only there when all it stands for is done.         *)
THEOREM SentinelsSound == Spec => []CoreSentinelSound
<1>1. IInv => CoreSentinelSound
  BY DEF IInv
<1> QED
  BY <1>1, Invariance, PTL

(* So is Stork's, which also stands for a completed core.                  *)
THEOREM StorkSound == Spec => []StorkSentinelSound
<1>1. IInv => StorkSentinelSound
  BY DEF IInv
<1> QED
  BY <1>1, Invariance, PTL

(* The agent that runs can read the credentials it was registered with.    *)
THEOREM AgentCanRead == Spec => []AgentReadsCredentials
<1>1. IInv => AgentReadsCredentials
  BY DEF IInv
<1> QED
  BY <1>1, Invariance, PTL

(* A command is run only for want of its marker, a core command only       *)
(* before the core sentinel.                                               *)
THEOREM NothingRepeated == Spec => []OnlyMissingStepsRun
<1>1. IInv => OnlyMissingStepsRun
  BY DEF IInv, MarkersSound, CoreSentinelSound, RunOnceInv, RefreshInv,
         OnlyMissingStepsRun
<1> QED
  BY <1>1, Invariance, PTL

(* The keytab the network bootstrap needs is never missing.                *)
THEOREM KeytabThere == Spec => []KeytabFound
<1>1. IInv => KeytabFound
  BY DEF IInv, MarkersSound, CoreSentinelSound, RunOnceInv, RefreshInv, KeytabFound
<1> QED
  BY <1>1, Invariance, PTL

(* A bootstrap that reports success has made all its boot was to make.     *)
THEOREM SuccessSound == Spec => []SuccessMeansReady
<1>1. IInv => SuccessMeansReady
  BY DEF IInv, CoreSentinelSound, ReadyInv, PastRefresh, SuccessMeansReady
<1> QED
  BY <1>1, Invariance, PTL


(* A step of the program, of its supervisor or of its environment neither  *)
(* marks a command in doubt that cannot be repeated nor undoes it.         *)
LEMMA WedgedStep == IInv /\ Wedged /\ [Next]_vars => Wedged'
<1> SUFFICES ASSUME IInv, Wedged, [Next]_vars
             PROVE  Wedged'
  OBVIOUS
<1> USE DEF samba, stork, layer, flags, process, GoTo, StayInBoot
<1>1. PICK s \in NonIdempotent : InDoubt(s)
  BY DEF Wedged
<1>2. SUFFICES InDoubt(s)'
  BY <1>1 DEF Wedged
<1> USE DEF InDoubt
<1>3. CASE Execute
  BY <1>1, <1>3 DEF Execute, TakeEffect, Refused
<1>4. CASE WriteMarker
  BY <1>1, <1>4 DEF WriteMarker, AfterStep
<1>5. CASE StatMarker
  BY <1>1, <1>5 DEF StatMarker, AfterStep
<1>6. CASE Fail
  BY <1>1, <1>6 DEF Fail, TakeEffect
<1>7. CASE Boot \/ RetryInit
  BY <1>1, <1>7 DEF Boot, RetryInit
<1>8. CASE Crash \/ \E end \in EndedPC : RestartAfter(end)
  BY <1>1, <1>8 DEF Crash, RestartAfter, Stop
<1>9. CASE Begin \/ Refuse \/ \E d \in Dependency : Reach(d)
  BY <1>1, <1>9 DEF Begin, Refuse, Reach
<1>10. CASE CheckKeytab \/ ChownKeytab \/ ChmodKeytab \/ TruncateCache \/ Kinit
  BY <1>1, <1>10 DEF CheckKeytab, ChownKeytab, ChmodKeytab, TruncateCache,
                     Kinit
<1>11. CASE EnsureCronEntry \/ WriteCoreSentinel
  BY <1>1, <1>11 DEF EnsureCronEntry, WriteCoreSentinel, AfterNetwork,
                     AfterCore
<1>12. CASE CheckRegistered \/ FetchToken \/ Register
  BY <1>1, <1>12 DEF CheckRegistered, FetchToken, Register
<1>13. CASE ChownCredentials \/ MarkRegistered \/ WriteStorkSentinel
  BY <1>1, <1>13 DEF ChownCredentials, MarkRegistered, WriteStorkSentinel
<1>14. CASE StartAgent \/ AgentExit \/ CronKinit \/ UNCHANGED vars
  BY <1>1, <1>14 DEF StartAgent, AgentExit, CronKinit, vars
<1> QED
  BY <1>3, <1>4, <1>5, <1>6, <1>7, <1>8, <1>9, <1>10, <1>11, <1>12, <1>13,
     <1>14
  DEF Next, RunBootstrap

(* A container whose bootstrap is wedged stays so: RunOnce, which runs the *)
(* command again for want of its marker, can never succeed.                *)
THEOREM WedgePermanent == Spec => WedgeIsPermanent
<1>1. IInv /\ [Next]_vars => [Wedged => Wedged']_vars
  BY WedgedStep
<1> QED
  BY <1>1, Invariance, PTL DEF Spec, WedgeIsPermanent

(* A step other than a fault leaves no command in doubt that was not so    *)
(* before: a command that takes effect is followed by its marker.          *)
LEMMA DoubtNeedsFault ==
  ASSUME IInv, Next, ~Fail, ~Crash, NEW s \in NonIdempotent, InDoubt(s)'
  PROVE  InDoubt(s)
<1> USE DEF samba, stork, layer, flags, process, GoTo, StayInBoot, InDoubt
<1>1. CASE Execute
  BY <1>1 DEF Execute, TakeEffect
<1>2. CASE WriteMarker
  BY <1>2 DEF WriteMarker, AfterStep
<1>3. CASE StatMarker
  BY <1>3 DEF StatMarker, AfterStep
<1>4. CASE Boot \/ RetryInit
  BY <1>4 DEF Boot, RetryInit
<1>5. CASE \E end \in EndedPC : RestartAfter(end)
  BY <1>5 DEF RestartAfter, Stop
<1>6. CASE Begin \/ Refuse \/ \E d \in Dependency : Reach(d)
  BY <1>6 DEF Begin, Refuse, Reach
<1>7. CASE CheckKeytab \/ ChownKeytab \/ ChmodKeytab \/ TruncateCache \/ Kinit
  BY <1>7 DEF CheckKeytab, ChownKeytab, ChmodKeytab, TruncateCache, Kinit
<1>8. CASE EnsureCronEntry \/ WriteCoreSentinel
  BY <1>8 DEF EnsureCronEntry, WriteCoreSentinel, AfterNetwork, AfterCore
<1>9. CASE CheckRegistered \/ FetchToken \/ Register
  BY <1>9 DEF CheckRegistered, FetchToken, Register
<1>10. CASE ChownCredentials \/ MarkRegistered \/ WriteStorkSentinel
  BY <1>10 DEF ChownCredentials, MarkRegistered, WriteStorkSentinel
<1>11. CASE StartAgent \/ AgentExit \/ CronKinit
  BY <1>11 DEF StartAgent, AgentExit, CronKinit
<1> QED
  BY <1>1, <1>2, <1>3, <1>4, <1>5, <1>6, <1>7, <1>8, <1>9, <1>10, <1>11
  DEF Next, RunBootstrap

(* The fault that puts a command in doubt strikes while it runs or before  *)
(* its marker is written.                                                  *)
LEMMA FaultAtDoubt ==
  ASSUME Fail \/ Crash, NEW s \in NonIdempotent, InDoubt(s)', ~InDoubt(s)
  PROVE  faults' = faults + 1 /\ pc \in {"act", "mark"} /\ step = s
<1> USE DEF samba, stork, InDoubt
<1>1. CASE Fail
  <2>1. CASE s \in effect
    <3>1. marker' = marker
      BY <1>1 DEF Fail, TakeEffect
    <3> QED
      BY <1>1, <2>1, <3>1 DEF Fail
  <2>2. CASE s \notin effect
    BY <1>1, <2>2 DEF Fail, TakeEffect
  <2> QED
    BY <2>1, <2>2
<1>2. CASE Crash
  BY <1>2 DEF Crash, Stop
<1> QED
  BY <1>1, <1>2

(* The program fails by a fault or by the refusal of a command in doubt.   *)
LEMMA FailureStep ==
  ASSUME IInv, Next, pc' = "failed", pc # "failed"
  PROVE  faults' = faults + 1 \/ Wedged
<1> USE DEF process, GoTo, StayInBoot
<1>1. CASE Fail
  BY <1>1 DEF Fail
<1>2. CASE Refuse
  BY <1>2 DEF Refuse, Refused, IInv, RunOnceInv, Wedged, InDoubt
<1>3. ~(Boot \/ RetryInit \/ Crash \/ \E end \in EndedPC : RestartAfter(end))
  BY DEF Boot, RetryInit, Crash, RestartAfter, Stop
<1>4. ~(Begin \/ Execute \/ \E d \in Dependency : Reach(d))
  BY DEF Begin, Execute, Reach
<1>5. ~(StatMarker \/ WriteMarker)
  BY DEF StatMarker, WriteMarker, AfterStep
<1>6. ~(CheckKeytab \/ ChownKeytab \/ ChmodKeytab \/ TruncateCache \/ Kinit)
  BY DEF CheckKeytab, ChownKeytab, ChmodKeytab, TruncateCache, Kinit
<1>7. ~(EnsureCronEntry \/ WriteCoreSentinel)
  BY DEF EnsureCronEntry, WriteCoreSentinel, AfterNetwork, AfterCore
<1>8. ~(CheckRegistered \/ FetchToken \/ Register)
  BY DEF CheckRegistered, FetchToken, Register
<1>9. ~(ChownCredentials \/ MarkRegistered \/ WriteStorkSentinel)
  BY DEF ChownCredentials, MarkRegistered, WriteStorkSentinel
<1>10. ~(StartAgent \/ AgentExit \/ CronKinit)
  BY DEF StartAgent, AgentExit, CronKinit
<1> QED
  BY <1>1, <1>2, <1>3, <1>4, <1>5, <1>6, <1>7, <1>8, <1>9, <1>10
  DEF Next, RunBootstrap

(* A bootstrap is wedged by nothing but a crash or failure between the     *)
(* start of a command that cannot be repeated and its marker, and once     *)
(* faults stop it fails for no other reason than having been wedged.       *)
THEOREM WedgeNeedsFault == Spec => OnlyFaultsWedge
<1>1. ASSUME IInv, [Next]_vars, ~Wedged, Wedged'
      PROVE  /\ faults' = faults + 1
             /\ pc \in {"act", "mark"}
             /\ step \in NonIdempotent
  <2>1. PICK s \in NonIdempotent : InDoubt(s)' /\ ~InDoubt(s)
    BY <1>1 DEF Wedged
  <2>2. Next
    BY <1>1, <2>1 DEF vars, samba, process, InDoubt
  <2>3. Fail \/ Crash
    BY <1>1, <2>1, <2>2, DoubtNeedsFault
  <2> QED
    BY <2>1, <2>3, FaultAtDoubt
<1>2. ASSUME IInv, [Next]_vars, pc' = "failed", pc # "failed"
      PROVE  faults' = faults + 1 \/ Wedged
  <2>1. Next
    BY <1>2 DEF vars, process
  <2> QED
    BY <1>2, <2>1, FailureStep
<1>3. IInv /\ [Next]_vars =>
        [/\ ~Wedged /\ Wedged' =>
               /\ faults' = faults + 1
               /\ pc \in {"act", "mark"}
               /\ step \in NonIdempotent
         /\ pc' = "failed" /\ pc # "failed" => faults' = faults + 1 \/ Wedged]_vars
  BY <1>1, <1>2
<1> QED
  BY <1>3, Invariance, PTL DEF Spec, OnlyFaultsWedge


(* A run is never more than 44 steps from its end, and is over with none   *)
(* left.                                                                   *)
LEMMA LeftType ==
  ASSUME NEW label \in PC, NEW s \in Step
  PROVE  /\ Left(label, s) \in 0 .. 44
         /\ label \in ActivePC => Left(label, s) >= 1
         /\ label \in EndedPC => Left(label, s) = 0
  BY DEF Left, LeftAt, ActivePC

(* The next step of the same service is nearer to the end than the marker  *)
(* of this one.                                                            *)
LEMMA AfterStepNearer ==
  ASSUME step \in Required, AfterStep(step)
  PROVE  /\ step' \in Step /\ pc' \in {"stat", "keytab", "registered"}
         /\ Left(pc', step') < Left("mark", step)
<1>1. CASE step = LdapExpiry
  BY <1>1 DEF AfterStep, GoTo, Left, LeftAt
<1>2. CASE step = KeaKeytab
  BY <1>2 DEF AfterStep, GoTo, Left, LeftAt
<1>3. CASE step \notin {KeaKeytab, LdapExpiry}
  <2>1. pc' = "stat" /\ step' = SuccessorOf(step)
    BY <1>3 DEF AfterStep, GoTo
  <2>2. SuccessorOf(step) \in Step /\ SuccessorOf(step) > step
    BY <1>3 DEF SuccessorOf
  <2>3. step \in LdapSteps <=> SuccessorOf(step) \in LdapSteps
    BY <1>3 DEF SuccessorOf
  <2> QED
    BY <2>1, <2>2, <2>3 DEF Left, LeftAt
<1> QED
  BY <1>1, <1>2, <1>3

(* Where the wait and the retry are left alone, the end is as near as the  *)
(* run's own.                                                              *)
LEMMA NearerByRun ==
  ASSUME TypeOK, UNCHANGED <<waiting, retried>>,
         pc' \in PC, step' \in Step, Left(pc', step') < Left(pc, step)
  PROVE  Remaining \in 1 .. 97 /\ Remaining' \in 0 .. Remaining - 1
<1>1. Left(pc, step) \in 0 .. 44 /\ Left(pc', step') \in 0 .. 44
  BY LeftType DEF TypeOK
<1> QED
  BY <1>1 DEF Remaining, TypeOK

(* Every step of the bootstrap is nearer to its end than the one before.   *)
LEMMA RunNearer ==
  ASSUME IInv, RunBootstrap \/ Fail
  PROVE  Remaining \in 1 .. 97 /\ Remaining' \in 0 .. Remaining - 1
<1> USE DEF IInv, TypeOK, GoTo, StayInBoot
<1>1. ASSUME NEW d \in Dependency, Reach(d)
      PROVE  Remaining \in 1 .. 97 /\ Remaining' \in 0 .. Remaining - 1
  BY <1>1 DEF Reach, Remaining, Left, LeftAt
<1>2. CASE Begin
  BY <1>2, NearerByRun DEF Begin, Left, LeftAt
<1>3. CASE StatMarker
  <2>1. pc = "stat" /\ step \in Required /\ UNCHANGED <<waiting, retried>>
    BY <1>3 DEF StatMarker, RunOnceInv
  <2>2. CASE AfterStep(step)
    <3>1. Left("mark", step) < Left(pc, step)
      BY <2>1 DEF Left, LeftAt
    <3>2. pc' \in PC /\ step' \in Step /\ Left(pc', step') < Left("mark", step)
      BY <2>1, <2>2, AfterStepNearer
    <3>3. Left(pc, step) \in Int /\ Left("mark", step) \in Int /\ Left(pc', step') \in Int
      BY <3>2, LeftType
    <3>4. Left(pc', step') < Left(pc, step)
      BY <3>1, <3>2, <3>3
    <3> QED
      BY <2>1, <3>2, <3>4, NearerByRun
  <2>3. CASE GoTo("act", step)
    BY <2>1, <2>3, NearerByRun DEF Left, LeftAt
  <2> QED
    BY <1>3, <2>2, <2>3 DEF StatMarker
<1>4. CASE WriteMarker
  <2>1. pc = "mark" /\ step \in Required /\ UNCHANGED <<waiting, retried>>
    BY <1>4 DEF WriteMarker, RunOnceInv
  <2>2. pc' \in PC /\ step' \in Step /\ Left(pc', step') < Left(pc, step)
    BY <1>4, <2>1, AfterStepNearer DEF WriteMarker
  <2> QED
    BY <2>1, <2>2, NearerByRun
<1>5. CASE Execute \/ Refuse
  BY <1>5, NearerByRun DEF Execute, Refuse, Left, LeftAt
<1>6. CASE CheckKeytab \/ ChownKeytab \/ ChmodKeytab
  BY <1>6, NearerByRun DEF CheckKeytab, ChownKeytab, ChmodKeytab, Left, LeftAt
<1>7. CASE TruncateCache \/ Kinit
  BY <1>7, NearerByRun DEF TruncateCache, Kinit, Left, LeftAt
<1>8. CASE EnsureCronEntry
  BY <1>8, NearerByRun DEF EnsureCronEntry, AfterNetwork, AfterCore, Left, LeftAt
<1>9. CASE WriteCoreSentinel
  BY <1>9, NearerByRun DEF WriteCoreSentinel, AfterCore, Left, LeftAt
<1>10. CASE CheckRegistered \/ FetchToken \/ Register
  BY <1>10, NearerByRun DEF CheckRegistered, FetchToken, Register, Left, LeftAt
<1>11. CASE ChownCredentials \/ MarkRegistered \/ WriteStorkSentinel
  BY <1>11, NearerByRun DEF ChownCredentials, MarkRegistered, WriteStorkSentinel, Left, LeftAt
<1>12. CASE Fail
  <2>1. pc \in ActivePC /\ pc' = "failed" /\ step' = step
        /\ UNCHANGED <<waiting, retried>>
    BY <1>12 DEF Fail
  <2>2. /\ Left(pc, step) \in 0 .. 44 /\ Left(pc, step) >= 1
        /\ Left(pc', step') = 0
    BY <2>1, LeftType
  <2>3. Left(pc', step') < Left(pc, step)
    BY <2>2
  <2> QED
    BY <2>1, <2>3, NearerByRun
<1> QED
  BY <1>1, <1>2, <1>3, <1>4, <1>5, <1>6, <1>7, <1>8, <1>9, <1>10, <1>11, <1>12
  DEF RunBootstrap

(* So is the one retry supervisord grants.                                 *)
LEMMA RetryNearer ==
  ASSUME IInv, RetryInit
  PROVE  Remaining \in 1 .. 97 /\ Remaining' \in 0 .. Remaining - 1
<1>1. Left(pc, step) = 0 /\ Left(pc', step') = 44
  BY DEF RetryInit, Left, LeftAt, IInv, TypeOK
<1>2. retried = FALSE /\ retried' = TRUE
  BY DEF RetryInit, IInv, TypeOK
<1> QED
  BY <1>1, <1>2 DEF Remaining

(* No boot goes round in circles: its steps and those of its retry are     *)
(* numbered down to its end, whatever fails.                               *)
THEOREM BootsEnd == Spec => BootEnds
<1>1. ASSUME IInv, [Next]_vars, pc # "down", pc' # "down", ~UNCHANGED process
      PROVE  Remaining \in 1 .. 97 /\ Remaining' \in 0 .. Remaining - 1
  <2>1. ~(StartAgent \/ AgentExit \/ CronKinit \/ UNCHANGED vars)
    BY <1>1 DEF StartAgent, AgentExit, CronKinit, vars
  <2>2. ~(Boot \/ Crash \/ \E end \in EndedPC : RestartAfter(end))
    BY <1>1 DEF Boot, Crash, RestartAfter, Stop
  <2> QED
    BY <1>1, <2>1, <2>2, RunNearer, RetryNearer DEF Next
<1>2. IInv /\ [Next]_vars =>
        [pc # "down" /\ pc' # "down" =>
           \/ UNCHANGED process
           \/ Remaining \in 1 .. 97 /\ Remaining' \in 0 .. Remaining - 1]_vars
  BY <1>1
<1> QED
  BY <1>2, Invariance, PTL DEF Spec, BootEnds


(* While a core step is outstanding nothing of Stork's has happened.       *)
LEMMA CoreBeforeStork ==
  ASSUME IInv, NEW s \in CoreSteps, s \notin marker
  PROVE  ~coreComplete /\ effect \cap LdapSteps = {} /\ creds = "absent"
  BY DEF IInv, TypeOK, SetupInOrder, MarkersSound, CoreSentinelSound, StorkInv

(* Running the command of a RunOnce step performs it in the journal, or    *)
(* repeats one that was in doubt.                                          *)
LEMMA PerformStep ==
  ASSUME IInv, pc = "act", TakeEffect(step), UNCHANGED stork
  PROVE  [Journal!Next]_Journal!journalVars
<1> USE DEF stork, TakeEffect
<1>1. /\ step \in Required
      /\ step \notin marker
      /\ \A t \in Required : t < step => t \in marker
      /\ step \in LdapSteps => coreComplete
  BY DEF IInv, RunOnceInv
<1>2. \A s \in effect \ marker : s = step
  BY <1>1 DEF IInv, SetupInOrder
<1>3. ~(creds # "absent" /\ ~registered)
  <2>1. LdapSteps \subseteq marker => step \in CoreSteps
    BY <1>1
  <2>2. creds # "absent" => LdapSteps \subseteq marker
    BY DEF IInv, StorkInv
  <2> QED
    BY <1>1, <2>1, <2>2, CoreBeforeStork
<1>4. CASE step \in effect
  BY <1>4 DEF Journal!journalVars
<1>5. CASE step \notin effect
  <2>1. effect \ marker = {}
    BY <1>2, <1>5
  <2>2. (effect \ marker)' = {step}
    BY <1>1, <2>1
  <2>3. Journal!Perform(step)
    BY <1>1, <1>3, <2>1, <2>2 DEF Journal!Perform, Journal!AllSteps
  <2> QED
    BY <1>1, <2>3 DEF Journal!Next, Journal!AllSteps
<1> QED
  BY <1>4, <1>5


(* With the steps of both phases marked no command is in doubt.            *)
LEMMA NothingInDoubt ==
  ASSUME IInv, coreComplete, LdapSteps \subseteq marker
  PROVE  effect \ marker = {} /\ CoreSteps \subseteq marker
<1>1. CoreSteps \subseteq marker
  BY DEF IInv, CoreSentinelSound
<1>2. Required \subseteq CoreSteps \cup LdapSteps
  OBVIOUS
<1>3. effect \subseteq Required
  BY DEF IInv, SetupInOrder
<1> QED
  BY <1>1, <1>2, <1>3 DEF IInv

(* A registration performs its step in the journal, or repeats one that    *)
(* was in doubt.                                                           *)
LEMMA PerformRegistration ==
  ASSUME IInv, pc = "register", creds' = "root",
         UNCHANGED <<samba, storkComplete, registered>>
  PROVE  [Journal!Next]_Journal!journalVars
<1> USE DEF samba
<1>1. ~registered /\ coreComplete /\ LdapSteps \subseteq marker
  BY DEF IInv, StorkInv
<1>2. CoreSteps \subseteq marker
  BY <1>1, NothingInDoubt
<1>3. effect \ marker = {}
  BY <1>1, NothingInDoubt
<1>4. CASE creds = "absent"
  <2>1. marker \subseteq Step
    BY DEF IInv, TypeOK
  <2>2. Journal!Perform(Registration)
    BY <1>1, <1>2, <1>3, <1>4, <2>1 DEF Journal!Perform, Journal!AllSteps
  <2> QED
    BY <2>2 DEF Journal!Next, Journal!AllSteps
<1>5. CASE creds # "absent"
  BY <1>5 DEF Journal!journalVars
<1> QED
  BY <1>4, <1>5

(* Writing a marker commits the step in doubt.                             *)
LEMMA CommitStep ==
  ASSUME IInv, WriteMarker
  PROVE  [Journal!Next]_Journal!journalVars
<1> USE DEF stork, StayInBoot
<1>1. /\ pc = "mark"
      /\ step \in Required
      /\ step \in effect \ marker
      /\ marker' = marker \cup {step}
      /\ effect' = effect
      /\ UNCHANGED <<coreComplete, storkComplete, registered, creds>>
  BY DEF WriteMarker, IInv, RunOnceInv
<1>2. effect \ marker = {step}
  <2>1. \A s \in effect \ marker : s = step
    BY <1>1 DEF IInv, SetupInOrder, RunOnceInv
  <2> QED
    BY <1>1, <2>1
<1>3. ~(creds # "absent" /\ ~registered)
  <2>1. CASE step \in CoreSteps
    BY <1>1, <2>1, CoreBeforeStork
  <2>2. CASE step \in LdapSteps
    BY <1>1, <2>2 DEF IInv, StorkInv
  <2> QED
    BY <1>1, <2>1, <2>2
<1>4. (effect \ marker)' = {}
  BY <1>1, <1>2
<1>5. Journal!Commit(step)
  BY <1>1, <1>2, <1>3, <1>4 DEF Journal!Commit
<1> QED
  BY <1>1, <1>5 DEF Journal!Next, Journal!AllSteps

(* The marker of the registration commits it.                              *)
LEMMA CommitRegistration ==
  ASSUME IInv, MarkRegistered
  PROVE  [Journal!Next]_Journal!journalVars
<1> USE DEF samba
<1>1. /\ pc = "markCreds"
      /\ registered' = TRUE
      /\ UNCHANGED <<samba, storkComplete, creds>>
  BY DEF MarkRegistered
<1>2. ~registered /\ coreComplete /\ LdapSteps \subseteq marker
  BY <1>1 DEF IInv, StorkInv
<1>3. creds = "agent"
  BY <1>1 DEF IInv, StorkInv
<1>4. effect \ marker = {}
  BY <1>2, NothingInDoubt
<1>5. Journal!Commit(Registration)
  BY <1>1, <1>2, <1>3, <1>4 DEF Journal!Commit
<1> QED
  BY <1>5 DEF Journal!Next, Journal!AllSteps

(* Every step is a step of the journal or leaves it unchanged.             *)
LEMMA JournalStep == IInv /\ [Next]_vars => [Journal!Next]_Journal!journalVars
<1> SUFFICES ASSUME IInv, [Next]_vars
             PROVE  [Journal!Next]_Journal!journalVars
  OBVIOUS
<1> USE DEF samba, stork, layer, flags, process, GoTo, StayInBoot
<1>1. CASE Execute
  BY <1>1, PerformStep DEF Execute
<1>2. CASE Fail
  <2>1. CASE UNCHANGED <<samba, stork>>
    BY <2>1 DEF Journal!journalVars
  <2>2. CASE pc = "act" /\ TakeEffect(step) /\ UNCHANGED stork
    BY <2>2, PerformStep
  <2>3. CASE /\ pc = "register"
             /\ creds' = "root"
             /\ UNCHANGED <<samba, storkComplete, registered>>
    BY <2>3, PerformRegistration
  <2> QED
    BY <1>2, <2>1, <2>2, <2>3 DEF Fail
<1>3. CASE WriteMarker
  BY <1>3, CommitStep
<1>4. CASE Register
  BY <1>4, PerformRegistration DEF Register
<1>5. CASE MarkRegistered
  BY <1>5, CommitRegistration
<1>6. CASE WriteCoreSentinel
  <2>1. CoreSteps \subseteq marker
    BY <1>6 DEF WriteCoreSentinel, IInv, RefreshInv
  <2>2. Journal!CompleteCore
    BY <1>6, <2>1 DEF WriteCoreSentinel, Journal!CompleteCore
  <2> QED
    BY <2>2 DEF Journal!Next
<1>7. CASE WriteStorkSentinel
  <2>1. coreComplete /\ LdapSteps \subseteq marker /\ registered
    BY <1>7 DEF WriteStorkSentinel, IInv, StorkInv
  <2>2. Journal!CompleteStork
    BY <1>7, <2>1 DEF WriteStorkSentinel, Journal!CompleteStork
  <2> QED
    BY <2>2 DEF Journal!Next
<1>8. CASE ChownCredentials
  <2>1. creds = "root" /\ creds' = "agent" /\ UNCHANGED <<samba, storkComplete, registered>>
    BY <1>8 DEF ChownCredentials, IInv, StorkInv
  <2> QED
    BY <2>1 DEF Journal!journalVars
<1>9. ASSUME UNCHANGED <<marker, effect, coreComplete, stork>>
      PROVE  UNCHANGED Journal!journalVars
  BY <1>9 DEF Journal!journalVars
<1>10. CASE Boot \/ RetryInit \/ Crash \/ \E end \in EndedPC : RestartAfter(end)
  BY <1>9, <1>10 DEF Boot, RetryInit, Crash, RestartAfter, Stop
<1>11. CASE Begin \/ StatMarker \/ Refuse \/ \E d \in Dependency : Reach(d)
  BY <1>9, <1>11 DEF Begin, StatMarker, Refuse, Reach
<1>12. CASE \/ CheckKeytab \/ ChownKeytab \/ ChmodKeytab \/ TruncateCache
            \/ Kinit \/ EnsureCronEntry
  BY <1>9, <1>12 DEF CheckKeytab, ChownKeytab, ChmodKeytab, TruncateCache,
                     Kinit, EnsureCronEntry
<1>13. CASE CheckRegistered \/ FetchToken
  BY <1>9, <1>13 DEF CheckRegistered, FetchToken
<1>14. CASE StartAgent \/ AgentExit \/ CronKinit \/ UNCHANGED vars
  BY <1>9, <1>14 DEF StartAgent, AgentExit, CronKinit, vars
<1> QED
  BY <1>1, <1>2, <1>3, <1>4, <1>5, <1>6, <1>7, <1>8, <1>10, <1>11, <1>12,
     <1>13, <1>14
  DEF Next, RunBootstrap

(* The markers and sentinels implement the journal: setup in order, one    *)
(* step in doubt at most, phases complete only when committed.             *)
THEOREM JournalImplemented == Spec => ImplementsJournal
<1>1. Init => Journal!Init
  BY DEF Init, Journal!Init
<1>2. IInv /\ [Next]_vars => [Journal!Next]_Journal!journalVars
  BY JournalStep
<1> QED
  BY <1>1, <1>2, Invariance, PTL DEF Spec, ImplementsJournal, Journal!Spec

(* What the journal promises follows from its steps.                       *)
LEMMA JournalKeepsSound ==
  Journal!JournalSound /\ [Journal!Next]_Journal!journalVars => Journal!JournalSound'
<1> SUFFICES ASSUME Journal!JournalSound, [Journal!Next]_Journal!journalVars
             PROVE  Journal!JournalSound'
  OBVIOUS
<1> USE DEF Journal!JournalSound, Journal!InOrder, Journal!OneInDoubt,
            Journal!CompleteMeansDone, Journal!AllSteps
<1> QED
  BY DEF Journal!Next, Journal!Perform, Journal!Commit, Journal!CompleteCore,
         Journal!CompleteStork, Journal!journalVars

(* The markers and sentinels that RunOnce and the handlers leave behind    *)
(* are in order, leave one step in doubt at most, and are not declared     *)
(* complete before they are, whatever crashes: what StepJournal promises.  *)
THEOREM JournalPromises == Spec => []Journal!JournalSound
<1>1. Journal!Init => Journal!JournalSound
  BY DEF Journal!Init, Journal!JournalSound, Journal!InOrder,
         Journal!OneInDoubt, Journal!CompleteMeansDone
<1> QED
  BY <1>1, JournalKeepsSound, JournalImplemented, PTL
  DEF ImplementsJournal, Journal!Spec

(* No crash, failure or new container takes back a marker or a sentinel,   *)
(* and a command run without its marker leaves its step in doubt until     *)
(* RunOnce writes the marker.                                              *)
THEOREM JournalKeeps == Spec => Journal!NothingTakenBack
<1>1. Journal!JournalSound /\ [Journal!Next]_Journal!journalVars =>
        [Journal!Kept]_Journal!journalVars
  BY DEF Journal!JournalSound, Journal!OneInDoubt, Journal!Kept, Journal!Next,
         Journal!Perform, Journal!Commit, Journal!CompleteCore,
         Journal!CompleteStork, Journal!journalVars
<1> QED
  BY <1>1, JournalPromises, JournalImplemented, PTL
  DEF ImplementsJournal, Journal!Spec, Journal!NothingTakenBack

============================================================================
