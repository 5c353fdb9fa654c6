----------------------------- MODULE AtomicFile -----------------------------
(***************************************************************************)
(* What the reconciliation of the files promises. A file is read, and      *)
(* later it is replaced as a whole by what was read with the managed       *)
(* setting brought up to date; a file that is refused is not replaced.     *)
(* Otherwise only the operator changes it, also when a reconciliation is   *)
(* cut off.                                                                *)
(*                                                                         *)
(* What is not promised is isolation: an edit between the reading and the  *)
(* replacing is overwritten.                                               *)
(*                                                                         *)
(* The specification is implemented by Reconcile.tla.                      *)
(***************************************************************************)
EXTENDS ManagedText

VARIABLES
  text,      \* the contents of each file
  intended,  \* its contents when the operator last edited it
  seen       \* what a reconciliation of it in progress has read, as a set

fileVars == <<text, intended, seen>>

AtomicInit ==
  /\ text \in [File -> SUBSET Item]
  /\ intended = text
  /\ seen = [f \in File |-> {}]

(* The operator edits the file, or has it made anew.                       *)
Edit(f) ==
  /\ text' \in [File -> SUBSET Item]
  /\ text' = [text EXCEPT ![f] = text'[f]]
  /\ intended' = [intended EXCEPT ![f] = text'[f]]
  /\ UNCHANGED seen

Read(f) ==
  /\ seen' = [seen EXCEPT ![f] = {text[f]}]
  /\ UNCHANGED <<text, intended>>

Forget(f) ==
  /\ seen' = [seen EXCEPT ![f] = {}]
  /\ UNCHANGED <<text, intended>>

Replace(f) ==
  /\ \E t \in seen[f], value \in Value :
       ~Refused(f, t) /\ text' = [text EXCEPT ![f] = Rewritten(f, t, value)]
  /\ seen' = [seen EXCEPT ![f] = {}]
  /\ UNCHANGED intended

AtomicNext == \E f \in File : Edit(f) \/ Read(f) \/ Forget(f) \/ Replace(f)

AtomicSpec == AtomicInit /\ [][AtomicNext]_fileVars

=============================================================================
