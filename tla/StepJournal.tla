---------------------------- MODULE StepJournal ----------------------------
(***************************************************************************)
(* What the one-time setup of a domain controller promises, whatever       *)
(* crashes and failures interrupt it: a fixed list of steps is carried out *)
(* in order, a step is committed after it was performed and before the     *)
(* next one is begun, so that at any moment at most one step is in doubt   *)
(* (performed, but not known to be), and a phase is declared complete only *)
(* when all its steps are committed.                                       *)
(*                                                                         *)
(* The specification is implemented by Bootstrap.tla, where `done' is read *)
(* off the marker files and `doubt' off the state the commands leave       *)
(* behind.                                                                 *)
(***************************************************************************)
EXTENDS Integers

CONSTANTS Core,    \* the steps of the core phase
          Stork    \* the steps of the Stork phase, after all core steps

VARIABLES done,         \* the committed steps
          doubt,        \* the steps performed but not committed
          coreReady,    \* the core phase was declared complete
          storkReady    \* the Stork phase was declared complete

journalVars == <<done, doubt, coreReady, storkReady>>

AllSteps == Core \cup Stork

Init ==
  /\ done = {}
  /\ doubt = {}
  /\ coreReady = FALSE
  /\ storkReady = FALSE

(* A step is performed when all earlier ones are committed; a step of the  *)
(* Stork phase only in a complete core.                                    *)
Perform(s) ==
  /\ s \notin done
  /\ doubt = {}
  /\ \A t \in AllSteps : t < s => t \in done
  /\ s \in Stork => coreReady
  /\ doubt' = {s}
  /\ UNCHANGED <<done, coreReady, storkReady>>

Commit(s) ==
  /\ doubt = {s}
  /\ done' = done \cup {s}
  /\ doubt' = {}
  /\ UNCHANGED <<coreReady, storkReady>>

CompleteCore ==
  /\ Core \subseteq done
  /\ coreReady' = TRUE
  /\ UNCHANGED <<done, doubt, storkReady>>

CompleteStork ==
  /\ coreReady
  /\ Stork \subseteq done
  /\ storkReady' = TRUE
  /\ UNCHANGED <<done, doubt, coreReady>>

Next ==
  \/ \E s \in AllSteps : Perform(s) \/ Commit(s)
  \/ CompleteCore
  \/ CompleteStork

Spec == Init /\ [][Next]_journalVars

(***************************************************************************)
(* What follows from the journal.                                          *)
(***************************************************************************)
(* Every step was begun when all earlier ones were committed and, if it is *)
(* of Stork's, the core was complete; one step at most is in doubt; what   *)
(* was declared complete is committed.                                     *)
InOrder ==
  \A s \in done \cup doubt :
    /\ s \in AllSteps
    /\ \A t \in AllSteps : t < s => t \in done
    /\ s \in Stork => coreReady

OneInDoubt == \A s, t \in doubt : s = t /\ s \notin done

CompleteMeansDone ==
  /\ coreReady => Core \subseteq done
  /\ storkReady => coreReady /\ Stork \subseteq done

JournalSound == InOrder /\ OneInDoubt /\ CompleteMeansDone

(* What is committed stays so, a phase that is complete stays complete,    *)
(* and a step in doubt remains in doubt until it is committed.             *)
Kept ==
  /\ done \subseteq done'
  /\ coreReady => coreReady'
  /\ storkReady => storkReady'
  /\ doubt # {} => doubt' = doubt \/ done' = done \cup doubt

NothingTakenBack == [][Kept]_journalVars

============================================================================
