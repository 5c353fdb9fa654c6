----------------------------- MODULE Reconcile -----------------------------
(***************************************************************************)
(* The files shared between the operator and Domain-In-A-Box, once the     *)
(* domain is set up. Every start of the container reconciles smb.conf,     *)
(* named.conf.options and kea-dhcp4.conf, validates them and launches the  *)
(* servers; the bootstrap that follows renews the line in the crontab of   *)
(* _kea. A file is read, judged and rewritten in memory, written to a      *)
(* temporary file of root's that takes over the mode of the original, and  *)
(* renamed over it; the command crontab installs its table likewise. There *)
(* is no lock: the operator edits the files at any time, in between too.   *)
(*                                                                         *)
(* The files are on volumes, the crontab is in the container. The          *)
(* container starts again with the same settings, or a new one with others.*)
(*                                                                         *)
(* Abstracted: ManagedText says what of a text matters. The three settings *)
(* have one value per container. Of a file's attributes there is who may   *)
(* read it: everyone, or only its group, the server's or root's.           *)
(***************************************************************************)
EXTENDS ManagedText

CONSTANTS MaxEdits,   \* bound on the operator's edits
          MaxFaults   \* bound on crashes and failures

ASSUME ReconcileAssumption == MaxEdits \in Nat /\ MaxFaults \in Nat

VARIABLES
  text,      \* the contents of each file
  access,    \* who may read it
  wanted,    \* the value of the managed settings in this container
  current,   \* the file being reconciled
  contents,  \* what was read of it
  mode,      \* the mode it had when the temporary file was made
  temporary, \* what the temporary file is to become, as a set
  pc,
  intended,  \* history: each text as the operator left it
  given,     \* history: the access the operator gave
  overtaken, \* history: what of the current file was edited since it was read
  lost,      \* history: the edits that a replacement undid
  touched,   \* history: those edited since they were last replaced
  edits, faults

files == <<text, access>>
work == <<current, contents, mode, temporary>>
operator == <<intended, given, overtaken, lost, touched>>
vars == <<files, wanted, work, pc, operator, edits, faults>>

(* A group of root's is of no use to a server.                             *)
Access == {"everyone", "server", "root"}
Restricted(a) == a # "everyone"
PC == {"down", "read", "create", "write", "rename", "validate", "up", "failed"}

TypeOK ==
  /\ text \in [File -> SUBSET Item] /\ intended \in [File -> SUBSET Item]
  /\ access \in [File -> Access] /\ given \in [File -> Access]
  /\ wanted \in Value
  /\ current \in File
  /\ contents \subseteq Item
  /\ mode \in BOOLEAN
  /\ temporary \in SUBSET SUBSET Item
  /\ pc \in PC
  /\ overtaken \subseteq {"text", "access"}
  /\ lost \subseteq File \X {"text", "access"} /\ touched \subseteq File
  /\ edits \in 0 .. MaxEdits /\ faults \in 0 .. MaxFaults

(* The texts an operator may write; an item without the setting has no     *)
(* value to tell apart.                                                    *)
Written ==
  [f \in File |->
     {t \in SUBSET {i \in Item :
          /\ i.at # End
          /\ i.kind = "bare" => f = Dhcp4
          /\ i.kind = "blank" => f = Crontab
          /\ i.kind \in {"bare", "blank", "other"} => i.value = CHOOSE v \in Value : TRUE} :
        \A i, j \in t : i.at = j.at => i = j}]

(* What the first setup left, and an empty crontab.                        *)
Init ==
  /\ wanted \in Value
  /\ text = [f \in File |-> IF f = Crontab THEN {}
                            ELSE {[at |-> 1, kind |-> "directive", value |-> wanted]}]
  /\ intended = text
  /\ access = [f \in File |-> "everyone"] /\ given = access
  /\ current = Smb
  /\ contents = {} /\ mode = FALSE /\ temporary = {}
  /\ pc = "down"
  /\ overtaken = {} /\ lost = {} /\ touched = {}
  /\ edits = 0 /\ faults = 0

-----------------------------------------------------------------------------
(* The operator.                                                           *)
EditText(f) ==
  /\ edits < MaxEdits
  /\ \E t \in Written[f] :
       /\ t # text[f]
       /\ text' = [text EXCEPT ![f] = t]
       /\ intended' = [intended EXCEPT ![f] = t]
  /\ overtaken' = IF f = current /\ pc \in {"create", "write", "rename"}
                  THEN overtaken \cup {"text"} ELSE overtaken
  /\ lost' = lost \ {<<f, "text">>}
  /\ touched' = touched \cup {f}
  /\ edits' = edits + 1
  /\ UNCHANGED <<access, given, wanted, work, pc, faults>>

(* A file is closed to all but the server that reads it, or opened. Samba  *)
(* is root's.                                                              *)
ChangeAccess(f) ==
  /\ edits < MaxEdits
  /\ f \in {Options, Dhcp4}
  /\ \E a \in {"everyone", "server"} \ {access[f]} :
       access' = [access EXCEPT ![f] = a] /\ given' = [given EXCEPT ![f] = a]
  /\ overtaken' = IF f = current /\ pc \in {"write", "rename"}
                  THEN overtaken \cup {"access"} ELSE overtaken
  /\ lost' = lost \ {<<f, "access">>}
  /\ edits' = edits + 1
  /\ UNCHANGED <<text, intended, touched, wanted, work, pc, faults>>

(* The container is started again, or a new one with other settings is; it *)
(* has no crontab yet.                                                     *)
Boot ==
  /\ pc \in {"down", "up", "failed"}
  /\ pc' = "read" /\ current' = Smb
  /\ \/ UNCHANGED <<wanted, text, intended, lost, touched>>
     \/ /\ wanted' \in Value
        /\ text' = [text EXCEPT ![Crontab] = {}]
        /\ intended' = [intended EXCEPT ![Crontab] = {}]
        /\ lost' = lost \ {<<Crontab, "text">>} /\ touched' = touched \ {Crontab}
  /\ UNCHANGED <<access, given, overtaken, contents, mode, temporary, edits, faults>>

-----------------------------------------------------------------------------
(* The reconciliation of one file.                                         *)

(* A step fails: the handler returns the error and removes its temporary   *)
(* file. Before the launch this ends the script and the container, after   *)
(* it only the bootstrap.                                                  *)
Finish == contents' = {} /\ mode' = FALSE /\ temporary' = {} /\ overtaken' = {}

GiveUp ==
  /\ Finish
  /\ pc' = IF current = Crontab THEN "failed" ELSE "down"
  /\ UNCHANGED <<files, wanted, current, intended, given, lost, touched, edits>>

Working == pc \in {"read", "create", "write", "rename", "validate"}

Fail ==
  /\ Working
  /\ faults < MaxFaults
  /\ faults' = faults + 1
  /\ GiveUp

(* The container is killed. The temporary file stays, under a name that is *)
(* not used again.                                                         *)
Crash ==
  /\ pc # "down"
  /\ faults < MaxFaults
  /\ faults' = faults + 1
  /\ Finish
  /\ pc' = "down"
  /\ UNCHANGED <<files, wanted, current, intended, given, lost, touched, edits>>

(* updateSambaMetrics, updateBindForwarders, updateKeaDHCPPool and         *)
(* ensureCronEntry: a file that is refused is left alone. The crontab's    *)
(* new contents go to the command as they are.                             *)
ReadFile ==
  /\ pc = "read"
  /\ \/ /\ Refused(current, text[current])
        /\ GiveUp
        /\ UNCHANGED faults
     \/ /\ ~Refused(current, text[current])
        /\ contents' = text[current]
        /\ pc' = IF current = Crontab THEN "write" ELSE "create"
        /\ UNCHANGED <<files, wanted, current, mode, temporary, operator,
                       edits, faults>>

(* The mode is not taken over.                                             *)
CreateTemp_Variant ==
  /\ pc = "create"
  /\ mode' = FALSE
  /\ temporary' = {{}}
  /\ pc' = "write"
  /\ UNCHANGED <<files, wanted, current, contents, operator, edits, faults>>

(* writeAtomically looks up the mode and makes the temporary file, empty   *)
(* and root's. A file that is written in part stands in no other relation  *)
(* to the original than the empty one: a failed write removes it, a crash  *)
(* leaves it behind, and only a whole one is renamed.                      *)
CreateTemp ==
  /\ pc = "create"
  /\ mode' = Restricted(access[current])
  /\ temporary' = {{}}
  /\ pc' = "write"
  /\ UNCHANGED <<files, wanted, current, contents, operator, edits, faults>>

(* The temporary file is written over the file instead.                    *)
Write_Variant ==
  /\ pc = "write"
  /\ temporary' = {Rewritten(current, contents, wanted)}
  /\ text' = [text EXCEPT ![current] = {}]
  /\ pc' = "rename"
  /\ UNCHANGED <<access, wanted, current, contents, mode, operator, edits, faults>>

Write ==
  /\ pc = "write"
  /\ temporary' = {Rewritten(current, contents, wanted)}
  /\ pc' = "rename"
  /\ UNCHANGED <<files, wanted, current, contents, mode, operator, edits, faults>>

(* The forwarders are forgotten.                                           *)
Following_Variant == IF current = Smb THEN Dhcp4 ELSE Crontab

Following ==
  CASE current = Smb -> Options
    [] current = Options -> Dhcp4
    [] OTHER -> Crontab

(* The file is reconciled again until its server would find the directive. *)
Rename_Variant ==
  /\ pc = "rename"
  /\ \E t \in temporary :
       /\ text' = [text EXCEPT ![current] = t]
       /\ pc' = IF At(t, {"directive"}) = {} \/ current \in {Smb, Options} THEN "read"
                ELSE IF current = Dhcp4 THEN "validate" ELSE "up"
       /\ current' = IF At(t, {"directive"}) = {} \/ current = Dhcp4 THEN current
                     ELSE Following
  /\ Finish
  /\ UNCHANGED <<access, wanted, intended, given, lost, touched, edits, faults>>

(* The file is now the one that was written, root's with the old mode;     *)
(* whatever happened to the old one since it was read is gone with it.     *)
Rename ==
  /\ pc = "rename"
  /\ \E t \in temporary : text' = [text EXCEPT ![current] = t]
  /\ access' = IF current = Crontab THEN access
               ELSE [access EXCEPT ![current] = IF mode THEN "root" ELSE "everyone"]
  /\ lost' = lost \cup {current} \X overtaken
  /\ touched' = touched \ {current}
  /\ Finish
  /\ pc' = IF current = Dhcp4 THEN "validate"
           ELSE IF current = Crontab THEN "up" ELSE "read"
  /\ current' = IF current = Dhcp4 THEN Dhcp4 ELSE Following
  /\ UNCHANGED <<wanted, intended, given, edits, faults>>

(* The servers' own checks; then the servers are launched, and the         *)
(* bootstrap gets to the crontab.                                          *)
Validate ==
  /\ pc = "validate"
  /\ \/ /\ \E f \in File : ~Valid(f, text[f])
        /\ GiveUp
        /\ UNCHANGED faults
     \/ /\ \A f \in File : Valid(f, text[f])
        /\ current' = Crontab
        /\ pc' = "read"
        /\ UNCHANGED <<files, wanted, contents, mode, temporary, operator,
                       edits, faults>>

Run == ReadFile \/ CreateTemp \/ Write \/ Rename \/ Validate

Next ==
  \/ \E f \in File : EditText(f) \/ ChangeAccess(f)
  \/ Boot \/ Fail \/ Crash \/ Run

Spec == Init /\ [][Next]_vars

(* A container that stopped is started again, and the handlers go on.      *)
FairSpec == Spec /\ WF_vars(Run) /\ WF_vars(pc = "down" /\ Boot)

-----------------------------------------------------------------------------
Launched == current = Crontab /\ pc # "down"

(* The operator's part of a file is as the operator left it, through       *)
(* crashes, failures and restarts, unless a reconciliation overtook an     *)
(* edit; a job that names Kea's keytab is not the operator's part.         *)
OperatorsTextKept ==
  \A f \in File : <<f, "text">> \notin lost => Rest(f, text[f]) = Rest(f, intended[f])

(* A file that the operator restricted is never opened by replacing it.    *)
RestrictionKept ==
  \A f \in File : <<f, "access">> \notin lost => Restricted(access[f]) = Restricted(given[f])

(* The servers are launched with the settings of their container: what a   *)
(* server reads as the managed setting is the wanted value, if it was not  *)
(* edited after its replacement and not spelled in another way.            *)
LaunchedAsWanted ==
  Launched =>
    \A f \in {Smb, Options, Dhcp4} \ touched :
      \A i \in Live(f, text[f]) : i.value = wanted \/ i.kind = "odd"

(* When the bootstrap is through, the crontab has the renewal line, once.  *)
RenewalScheduled ==
  pc = "up" /\ Crontab \notin touched =>
    At(text[Crontab], {"directive", "odd"}) =
      {[at |-> End, kind |-> "directive", value |-> wanted]}

(* Only an edit makes a file one that the next start refuses, or one that  *)
(* its server rejects, unless the edit that corrected it was overtaken:    *)
(* what one start could reconcile and launch with, no replacement, crash   *)
(* or new container takes from the next.                                   *)
OnlyEditsBreak ==
  [][\A f \in File :
       /\ ~Refused(f, text[f]) /\ Refused(f, text'[f]) => edits' = edits + 1
       /\ Valid(f, text[f]) /\ ~Valid(f, text'[f]) =>
            edits' = edits + 1 \/ "text" \in overtaken]_vars

(* Each file is changed by the operator, or replaced as a whole by what    *)
(* was read of it with the setting brought up to date. A new container's   *)
(* crontab comes to the same as an edit.                                   *)
Atomic ==
  INSTANCE AtomicFile WITH
    seen <- [f \in File |-> IF f = current /\ pc \in {"create", "write", "rename"}
                            THEN {contents} ELSE {}]

ImplementsAtomicFile == Atomic!AtomicSpec

(* When the edits and faults come to rest, every start gets to the end,    *)
(* unless a file is refused or not valid; a bootstrap that failed waits    *)
(* for the operator.                                                       *)
GetsThrough ==
  []<>(pc \in {"up", "failed"} \/ \E f \in File : Refused(f, text[f]) \/ ~Valid(f, text[f]))

(* Inductive: what was read is the file unless it was edited since; the    *)
(* temporary file is made from that; the files already done in this start  *)
(* have the wanted value where the search finds the setting.               *)
Config == {Smb, Options, Dhcp4}

Replaced ==
  CASE pc = "down" -> {}
    [] pc = "validate" \/ current = Crontab -> Config
    [] pc # "validate" /\ current = Dhcp4 -> {Smb, Options}
    [] pc # "validate" /\ current = Options -> {Smb}
    [] OTHER -> {}

StepInv ==
  /\ pc = "validate" => current = Dhcp4
  /\ pc = "create" => current # Crontab
  /\ pc \in {"up", "failed"} => current = Crontab
ReadInv ==
  pc \in {"create", "write", "rename"} =>
    /\ ~Refused(current, contents)
    /\ "text" \notin overtaken => contents = text[current]
ModeInv ==
  pc \in {"write", "rename"} /\ current # Crontab /\ "access" \notin overtaken =>
    mode = Restricted(access[current])
TempInv == pc = "rename" => temporary = {Rewritten(current, contents, wanted)}
FoundInv == \A f \in Replaced \ touched : \A i \in Found(f, text[f]) : i.value = wanted
PoolInv ==
  Launched /\ Dhcp4 \notin touched =>
    \A i \in At(text[Dhcp4], {"directive"}) : i.value = wanted

IInv ==
  /\ TypeOK /\ StepInv /\ ReadInv /\ ModeInv /\ TempInv /\ FoundInv /\ PoolInv
  /\ OperatorsTextKept /\ RestrictionKept /\ RenewalScheduled

(* README.md says that existing configuration files are preserved and only *)
(* managed values reconciled: a server that the operator let read a file   *)
(* could read it still. This does not hold: the new file is root's.        *)
ReadableKept == \A f \in File : <<f, "access">> \notin lost => access[f] # "root"

=============================================================================
