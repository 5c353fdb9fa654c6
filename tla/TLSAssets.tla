----------------------------- MODULE TLSAssets -----------------------------
(***************************************************************************)
(* The certificate Samba serves LDAPS with. At every start                 *)
(* installTLSAssets looks for the operator's certificate, key and CA in    *)
(* /certs, and copies them one after the other to Samba's volume and the   *)
(* CA to the container's trust store. Nothing in /certs leaves things as   *)
(* they are; a part of the set is an error, which ends the start.          *)
(*                                                                         *)
(* The operator may renew or withdraw the files at any time, all at once   *)
(* or one by one, and the container may stop between any two steps. The    *)
(* volume outlives the container; the anchor and the bundle do not.        *)
(*                                                                         *)
(* A file's contents are the generation it belongs to. os.WriteFile makes  *)
(* the file empty and then fills it.                                       *)
(*                                                                         *)
(* Operators whose name ends in _Variant are wrong on purpose: each is a   *)
(* plausible slip in the definition after it.                              *)
(***************************************************************************)
EXTENDS Integers, FiniteSets

CONSTANTS
  Generation,    \* the operator's certificates: a cert, a key and a CA each
  MaxRotations,  \* bound on the operator's changes of /certs
  MaxFaults      \* bound on interruptions

ASSUME TLSAssumption ==
  /\ Generation \cap {"absent", "empty", "own"} = {}
  /\ MaxRotations \in Nat
  /\ MaxFaults \in Nat

VARIABLES
  certs,      \* /certs
  installed,  \* Samba's three files, and the anchor of the trust store
  bundle,     \* the CA in the trust store
  pc,
  present,    \* the assets found in /certs so far
  item,       \* the file being copied
  contents,   \* what was read for it
  moved,      \* history: /certs changed since the start
  whole,      \* history: the last installation was not cut short, /certs did
              \* not change during it, and held one generation only
  rotations, faults

files == <<installed, bundle>>
copying == <<present, item, contents>>
history == <<moved, whole>>
vars == <<certs, files, pc, copying, history, rotations, faults>>

(* Certificate, key and CA; the CA is copied once more, as the anchor.     *)
Asset == 1 .. 3
Anchor == 4
Item == 1 .. 4
Source(i) == IF i = Anchor THEN 3 ELSE i

Provided == Generation \cup {"absent", "empty"}
Contents == Provided \cup {"own"}
Present(a) == certs[a] \notin {"absent", "empty"}
Complete == \A a \in Asset : Present(a)
OneGeneration == \A a, b \in Asset : certs[a] = certs[b]
PC == {"down", "stat", "copy", "fill", "update", "launch", "launched"}

TypeOK ==
  /\ certs \in [Asset -> Provided]
  /\ installed \in [Item -> Contents]
  /\ bundle \in Contents
  /\ pc \in PC
  /\ present \in 0 .. 3
  /\ item \in Item
  /\ contents \in Provided
  /\ moved \in BOOLEAN
  /\ whole \in BOOLEAN
  /\ rotations \in 0 .. MaxRotations
  /\ faults \in 0 .. MaxFaults

Init ==
  /\ certs \in [Asset -> {"absent"}] \cup {[a \in Asset |-> g] : g \in Generation}
  /\ installed = [i \in Item |-> "absent"]
  /\ bundle = "absent"
  /\ pc = "down"
  /\ present = 0
  /\ item = 1
  /\ contents = "absent"
  /\ moved = FALSE
  /\ whole = TRUE
  /\ rotations = 0
  /\ faults = 0

(* The operator changes /certs: a set as a whole, or a file of it.         *)
Rotate ==
  /\ rotations < MaxRotations
  /\ \/ \E g \in Generation \cup {"absent"} : certs' = [a \in Asset |-> g]
     \/ \E a \in Asset, c \in Provided : certs' = [certs EXCEPT ![a] = c]
  /\ certs' # certs
  /\ moved' = TRUE
  /\ rotations' = rotations + 1
  /\ UNCHANGED <<files, pc, present, item, contents, whole, faults>>

(* The count of an earlier start is not forgotten.                         *)
Boot_Variant ==
  /\ pc = "down"
  /\ UNCHANGED files
  /\ item' = 1
  /\ moved' = FALSE
  /\ pc' = "stat"
  /\ UNCHANGED <<certs, present, contents, whole, rotations, faults>>

(* A container starts: the same one, or a new one without its layer.       *)
Boot ==
  /\ pc = "down"
  /\ \/ UNCHANGED files
     \/ /\ installed' = [installed EXCEPT ![Anchor] = "absent"]
        /\ bundle' = "absent"
  /\ present' = 0
  /\ item' = 1
  /\ contents' = "absent"
  /\ moved' = FALSE
  /\ pc' = "stat"
  /\ UNCHANGED <<certs, whole, rotations, faults>>

Stop ==
  /\ pc' = "down"
  /\ UNCHANGED <<certs, files, copying, history, rotations>>

(* A stop of the container, or a command of its that fails.                *)
Interrupt ==
  /\ pc # "down"
  /\ faults < MaxFaults
  /\ faults' = faults + 1
  /\ Stop

(* The operator restarts the container.                                    *)
Restart == pc = "launched" /\ Stop /\ UNCHANGED faults

Abort == Stop /\ UNCHANGED faults

(* The files in /certs are looked at one after the other.                  *)
Stat ==
  /\ pc = "stat" /\ item \in Asset
  /\ present' = IF Present(item) THEN present + 1 ELSE present
  /\ item' = item + 1
  /\ UNCHANGED <<certs, files, pc, contents, history, rotations, faults>>

(* None: all is left as it is. A part: the start fails. All: they are      *)
(* installed.                                                              *)
Decide ==
  /\ pc = "stat" /\ item = Anchor
  /\ \/ /\ present \in {0, 3}
        /\ pc' = IF present = 0 THEN "launch" ELSE "copy"
        /\ item' = 1
        /\ whole' = (whole /\ present = 0)
        /\ UNCHANGED <<certs, files, present, contents, moved, rotations, faults>>
     \/ present \notin {0, 3} /\ Abort

(* What is installed already is kept, as the configuration files are.      *)
Copy_Variant ==
  /\ pc = "copy"
  /\ contents' = IF installed[item] = "absent" THEN certs[Source(item)] ELSE installed[item]
  /\ installed' = [installed EXCEPT ![item] = "empty"]
  /\ pc' = "fill"
  /\ UNCHANGED <<certs, bundle, present, item, history, rotations, faults>>

(* An asset is read, and its copy truncated. That it is there, and not     *)
(* empty, was looked at before: it may have gone since.                    *)
Copy ==
  /\ pc = "copy"
  /\ \/ /\ certs[Source(item)] # "absent"
        /\ contents' = certs[Source(item)]
        /\ installed' = [installed EXCEPT ![item] = "empty"]
        /\ pc' = "fill"
        /\ UNCHANGED <<certs, bundle, present, item, history, rotations, faults>>
     \/ certs[Source(item)] = "absent" /\ Abort

(* The CA is not copied to the anchor.                                     *)
Fill_Variant ==
  /\ pc = "fill"
  /\ installed' = [installed EXCEPT ![item] = contents]
  /\ pc' = IF item = 3 THEN "update" ELSE "copy"
  /\ item' = IF item = 3 THEN 1 ELSE item + 1
  /\ UNCHANGED <<certs, bundle, present, contents, history, rotations, faults>>

(* The copy is filled.                                                     *)
Fill ==
  /\ pc = "fill"
  /\ installed' = [installed EXCEPT ![item] = contents]
  /\ pc' = IF item = Anchor THEN "update" ELSE "copy"
  /\ item' = IF item = Anchor THEN 1 ELSE item + 1
  /\ UNCHANGED <<certs, bundle, present, contents, history, rotations, faults>>

(* update-ca-certificates takes the anchor into the trust store.           *)
UpdateCACertificates ==
  /\ pc = "update"
  /\ bundle' = installed[Anchor]
  /\ pc' = "launch"
  /\ whole' = (~moved /\ OneGeneration)
  /\ UNCHANGED <<certs, installed, copying, moved, rotations, faults>>

(* The rest of the script, and Samba: without any of its files it makes a  *)
(* certificate of its own.                                                 *)
Launch ==
  /\ pc = "launch"
  /\ installed' = IF \A a \in Asset : installed[a] = "absent"
                  THEN [i \in Item |-> IF i \in Asset THEN "own" ELSE installed[i]]
                  ELSE installed
  /\ pc' = "launched"
  /\ UNCHANGED <<certs, bundle, copying, history, rotations, faults>>

InstallTLSAssets ==
  Stat \/ Decide \/ Copy \/ Fill \/ UpdateCACertificates \/ Launch

Next == Rotate \/ Boot \/ Interrupt \/ Restart \/ InstallTLSAssets

Spec == Init /\ [][Next]_vars

FairSpec == Spec /\ WF_vars(InstallTLSAssets) /\ WF_vars(Boot)

-----------------------------------------------------------------------------
(* What is served and trusted is what is in /certs.                        *)
Current == bundle = certs[3] /\ \A i \in Item : installed[i] = certs[Source(i)]

(* A certificate, key and CA that belong together, and no other CA in the  *)
(* trust store.                                                            *)
Matching ==
  /\ installed[1] = installed[2] /\ installed[2] = installed[3]
  /\ installed[1] # "empty"
  /\ installed[Anchor] = bundle
  /\ bundle \in {installed[3], "absent"}

(* A start that found a complete set launches Samba with it, and trusts    *)
(* its CA, if /certs did not change meanwhile, whatever earlier starts     *)
(* left behind.                                                            *)
InstalledIsProvided ==
  pc = "launched" /\ present = 3 /\ ~moved => Current

(* Samba is launched on a certificate and a key that belong together: the  *)
(* only exceptions are an installation that was cut short, raced by the    *)
(* operator, or made in the middle of a renewal, with no other one since.  *)
LaunchedTogether ==
  pc = "launched" /\ whole => Matching

(* A start gives up by itself only on a part of a set: a whole one, or     *)
(* none, ends with a launch unless it is interrupted or /certs changes     *)
(* meanwhile, whatever earlier starts left behind.                         *)
OnlyPartsRefused ==
  [][pc' = "down" /\ pc \notin {"down", "launched"} =>
       \/ faults' = faults + 1
       \/ moved
       \/ ~Complete /\ \E a \in Asset : Present(a)]_vars

(* The inductive invariant: what has been counted is what is there, what   *)
(* has been copied is what /certs holds, and a whole installation stays so.*)
Copied == IF pc = "update" THEN Item ELSE {i \in Item : i < item}

Found(a) == IF a < item /\ Present(a) THEN 1 ELSE 0

StatInv ==
  pc = "stat" =>
    /\ present < item
    /\ ~moved => present = Found(1) + Found(2) + Found(3)

CopyInv ==
  pc \in {"copy", "fill", "update"} =>
    /\ present = 3
    /\ ~whole
    /\ \A i \in Copied : installed[i] # "absent"
    /\ ~moved => Complete /\ \A i \in Copied : installed[i] = certs[Source(i)]

FillInv ==
  pc = "fill" =>
    /\ contents # "absent"
    /\ ~moved => contents = certs[Source(item)]

LaunchInv ==
  pc \in {"launch", "launched"} /\ present = 3 =>
    /\ installed[1] # "absent"
    /\ ~moved => Current

WholeInv == whole => Matching

IInv ==
  /\ TypeOK
  /\ StatInv
  /\ CopyInv
  /\ FillInv
  /\ LaunchInv
  /\ WholeInv

(* Once the operator leaves a complete set alone, every start ends with    *)
(* that set installed, when interruptions stop.                            *)
Installs ==
  <>[]Complete => <>[](pc = "stat" => <>(pc = "launched" /\ Current))

=============================================================================
