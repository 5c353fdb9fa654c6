-------------------------- MODULE TLSAssetsProofs --------------------------
(***************************************************************************)
(* Theorems about TLSAssets.tla, for any certificates and any number of    *)
(* rotations and interruptions.                                            *)
(***************************************************************************)
EXTENDS TLSAssets, TLAPS

USE TLSAssumption DEF Asset, Item, Anchor, Provided, Contents, PC, files, copying, history,
    Found

(* Nothing is installed yet.                                               *)
LEMMA InitIInv == Init => IInv
<1> SUFFICES ASSUME Init PROVE IInv
  OBVIOUS
<1>1. certs \in [Asset -> Provided]
  BY DEF Init
<1>2. TypeOK
  <2>1. /\ installed \in [Item -> Contents] /\ bundle \in Contents
        /\ contents \in Provided /\ pc \in PC
    BY DEF Init
  <2>2. present \in 0 .. 3 /\ item \in Item
    BY DEF Init
  <2>4. moved \in BOOLEAN /\ whole \in BOOLEAN
    BY DEF Init
  <2>3. rotations \in 0 .. MaxRotations /\ faults \in 0 .. MaxFaults
    BY DEF Init
  <2> QED
    BY <1>1, <2>1, <2>2, <2>3, <2>4 DEF TypeOK
<1>3. StatInv /\ CopyInv /\ FillInv /\ LaunchInv
  BY DEF Init, StatInv, CopyInv, FillInv, LaunchInv
<1>4. WholeInv
  BY DEF Init, WholeInv, Matching
<1> QED
  BY <1>2, <1>3, <1>4 DEF IInv

(* A rotation is remembered, and copies are not touched by it.             *)
LEMMA RotateIInv == IInv /\ Rotate => IInv'
<1> SUFFICES ASSUME IInv, Rotate PROVE IInv'
  OBVIOUS
<1>1. TypeOK'
  BY DEF IInv, TypeOK, Rotate
<1>2. StatInv' /\ FillInv'
  BY DEF IInv, TypeOK, StatInv, FillInv, Rotate
<1>3. CopyInv' /\ LaunchInv'
  BY DEF IInv, TypeOK, CopyInv, LaunchInv, Rotate, Copied
<1>4. WholeInv'
  BY DEF IInv, WholeInv, Matching, Rotate
<1> QED
  BY <1>1, <1>2, <1>3, <1>4 DEF IInv

(* A new container lacks the anchor and the bundle together.               *)
LEMMA BootIInv == IInv /\ Boot => IInv'
<1> SUFFICES ASSUME IInv, Boot PROVE IInv'
  OBVIOUS
<1>1. TypeOK'
  <2>1. /\ installed' \in [Item -> Contents]
        /\ bundle' \in Contents
    BY DEF IInv, TypeOK, Boot
  <2>2. /\ present' \in 0 .. 3 /\ item' \in Item
        /\ contents' \in Provided /\ pc' \in PC
    BY DEF Boot
  <2>3. UNCHANGED <<certs, whole, rotations, faults>> /\ moved' = FALSE
    BY DEF Boot
  <2> QED
    BY <2>1, <2>2, <2>3 DEF IInv, TypeOK
<1>2. StatInv' /\ FillInv' /\ CopyInv' /\ LaunchInv'
  BY DEF StatInv, FillInv, CopyInv, LaunchInv, Boot
<1>3. WholeInv'
  BY DEF IInv, TypeOK, WholeInv, Matching, Boot
<1> QED
  BY <1>1, <1>2, <1>3 DEF IInv

(* A start that ends, for whatever reason, leaves the files as they are.   *)
LEMMA StopIInv ==
  IInv /\ (Interrupt \/ Restart \/ (pc # "down" /\ Abort)) => IInv'
<1> SUFFICES ASSUME IInv, Interrupt \/ Restart \/ (pc # "down" /\ Abort) PROVE IInv'
  OBVIOUS
<1>1. TypeOK'
  BY DEF IInv, TypeOK, Interrupt, Restart, Abort, Stop
<1>2. StatInv' /\ FillInv' /\ CopyInv' /\ LaunchInv'
  BY DEF StatInv, FillInv, CopyInv, LaunchInv, Interrupt, Restart, Abort, Stop
<1>3. WholeInv'
  BY DEF IInv, WholeInv, Matching, Interrupt, Restart, Abort, Stop
<1> QED
  BY <1>1, <1>2, <1>3 DEF IInv

(* An asset is counted if it is there.                                     *)
LEMMA StatIInv == IInv /\ Stat => IInv'
<1> SUFFICES ASSUME IInv, Stat PROVE IInv'
  OBVIOUS
<1>1. TypeOK'
  BY DEF IInv, TypeOK, StatInv, Stat
<1>2. StatInv'
  <2>1. /\ item \in 1 .. 3 /\ item' = item + 1 /\ UNCHANGED <<certs, moved>>
        /\ present < item
        /\ present' = IF Present(item) THEN present + 1 ELSE present
    BY DEF IInv, StatInv, Stat
  <2>2. present' < item'
    BY <2>1 DEF IInv, TypeOK
  <2>3. ~moved' => present' = Found(1)' + Found(2)' + Found(3)'
    <3>1. \A a \in Asset : Present(a)' = Present(a)
      BY <2>1 DEF Present
    <3>2. ~moved => present = Found(1) + Found(2) + Found(3)
      BY DEF IInv, StatInv, Stat
    <3> QED
      BY <2>1, <3>1, <3>2
  <2> QED
    BY <2>2, <2>3 DEF StatInv
<1>3. FillInv' /\ CopyInv' /\ LaunchInv'
  BY DEF FillInv, CopyInv, LaunchInv, Stat
<1>4. WholeInv'
  BY DEF IInv, WholeInv, Matching, Stat
<1> QED
  BY <1>1, <1>2, <1>3, <1>4 DEF IInv

(* Copying begins when all three were found.                               *)
LEMMA DecideIInv == IInv /\ Decide => IInv'
<1> SUFFICES ASSUME IInv, Decide PROVE IInv'
  OBVIOUS
<1>1. CASE present \notin {0, 3}
  BY <1>1, StopIInv DEF Decide
<1>2. CASE present \in {0, 3}
  <2>1. TypeOK'
    <3>1. whole' \in BOOLEAN
      BY <1>2 DEF Decide
    <3>2. /\ pc' \in PC /\ item' \in Item
          /\ UNCHANGED <<certs, files, present, contents, moved, rotations, faults>>
      BY <1>2 DEF Decide
    <3> QED
      BY <3>1, <3>2 DEF IInv, TypeOK
  <2>2. StatInv' /\ FillInv' /\ LaunchInv'
    BY <1>2 DEF StatInv, FillInv, LaunchInv, Decide
  <2>3. CopyInv'
    <3>1. CASE present = 0
      BY <1>2, <3>1 DEF CopyInv, Decide
    <3>2. CASE present = 3
      <4>1. ~moved => Complete
        BY <3>2 DEF IInv, StatInv, Decide, Complete
      <4>2. /\ pc' = "copy" /\ item' = 1 /\ present' = 3
            /\ certs' = certs /\ moved' = moved
        BY <3>2 DEF Decide
      <4>4. ~whole'
        <5>1. present # 0 /\ present \in {0, 3}
          BY <3>2
        <5>2. whole' = (whole /\ present = 0)
          BY <5>1 DEF Decide
        <5> QED
          BY <5>1, <5>2, Zenon
      <4>3. \A i \in Copied' : FALSE
        BY <4>2 DEF Copied
      <4> QED
        BY <4>1, <4>2, <4>3, <4>4 DEF CopyInv, Complete, Present
    <3> QED
      BY <1>2, <3>1, <3>2
  <2>4. WholeInv'
    BY <1>2 DEF IInv, WholeInv, Matching, Decide
  <2> QED
    BY <2>1, <2>2, <2>3, <2>4 DEF IInv
<1> QED
  BY <1>1, <1>2

(* What is read is what /certs holds; its copy does not count yet.         *)
LEMMA CopyIInv == IInv /\ Copy => IInv'
<1> SUFFICES ASSUME IInv, Copy PROVE IInv'
  OBVIOUS
<1>1. CASE Abort
  BY <1>1, StopIInv DEF Copy
<1>2. CASE ~Abort
  <2>1. TypeOK'
    BY <1>2 DEF IInv, TypeOK, Copy, Source
  <2>2. StatInv' /\ LaunchInv'
    BY <1>2 DEF StatInv, LaunchInv, Copy
  <2>3. CopyInv'
    BY <1>2 DEF IInv, TypeOK, CopyInv, Copy, Copied, Complete, Present
  <2>4. FillInv'
    BY <1>2 DEF FillInv, Copy
  <2>5. WholeInv'
    BY <1>2 DEF IInv, CopyInv, WholeInv, Copy
  <2> QED
    BY <2>1, <2>2, <2>3, <2>4, <2>5 DEF IInv
<1> QED
  BY <1>1, <1>2

(* A filled copy is what was read.                                         *)
LEMMA FillIInv == IInv /\ Fill => IInv'
<1> SUFFICES ASSUME IInv, Fill PROVE IInv'
  OBVIOUS
<1>1. TypeOK'
  BY DEF IInv, TypeOK, Fill
<1>2. StatInv' /\ FillInv' /\ LaunchInv'
  BY DEF StatInv, FillInv, LaunchInv, Fill
<1>3. CopyInv'
  BY DEF IInv, TypeOK, CopyInv, FillInv, Fill, Copied, Complete, Present, Source
<1>4. WholeInv'
  BY DEF IInv, CopyInv, WholeInv, Fill
<1> QED
  BY <1>1, <1>2, <1>3, <1>4 DEF IInv

(* With the trust store, everything is what /certs holds.                  *)
LEMMA UpdateIInv == IInv /\ UpdateCACertificates => IInv'
<1> SUFFICES ASSUME IInv, UpdateCACertificates PROVE IInv'
  OBVIOUS
<1>1. TypeOK'
  BY DEF IInv, TypeOK, UpdateCACertificates
<1>2. StatInv' /\ FillInv' /\ CopyInv'
  BY DEF StatInv, FillInv, CopyInv, UpdateCACertificates
<1>3. LaunchInv'
  BY DEF IInv, TypeOK, CopyInv, LaunchInv, UpdateCACertificates, Copied, Current, Source
<1>4. WholeInv'
  BY DEF IInv, TypeOK, CopyInv, WholeInv, UpdateCACertificates, Copied, Matching,
         OneGeneration, Complete, Present, Source
<1> QED
  BY <1>1, <1>2, <1>3, <1>4 DEF IInv

(* Samba's own certificate replaces no other.                              *)
LEMMA LaunchIInv == IInv /\ Launch => IInv'
<1> SUFFICES ASSUME IInv, Launch PROVE IInv'
  OBVIOUS
<1>1. TypeOK'
  BY DEF IInv, TypeOK, Launch
<1>2. StatInv' /\ FillInv' /\ CopyInv'
  BY DEF StatInv, FillInv, CopyInv, Launch
<1>3. LaunchInv'
  BY DEF IInv, TypeOK, LaunchInv, Launch, Current, Source
<1>4. WholeInv'
  BY DEF IInv, TypeOK, WholeInv, Launch, Matching
<1> QED
  BY <1>1, <1>2, <1>3, <1>4 DEF IInv

(* IInv holds in every reachable state: of TLSAssets.tla, what             *)
(* installTLSAssets has counted, copied and trusted at each point.         *)
THEOREM Invariance == Spec => []IInv
<1>1. ASSUME IInv, [Next]_vars PROVE IInv'
  <2>1. CASE UNCHANGED vars
    BY <1>1, <2>1 DEF vars, IInv, TypeOK, StatInv, CopyInv, FillInv, LaunchInv,
       WholeInv, Copied, Complete, Present, Current, Matching, Source
  <2> QED
    BY <1>1, <2>1, RotateIInv, BootIInv, StopIInv, StatIInv, DecideIInv, CopyIInv,
       FillIInv, UpdateIInv, LaunchIInv DEF Next, InstallTLSAssets
<1> QED
  BY InitIInv, <1>1, PTL DEF Spec

(* The state keeps its types; in particular no fifth file is copied.       *)
THEOREM TypeCorrect == Spec => []TypeOK
<1>1. IInv => TypeOK
  BY DEF IInv
<1> QED
  BY <1>1, Invariance, PTL

(* A start that found a complete set, with /certs left alone, launches     *)
(* Samba with it and trusts its CA.                                        *)
THEOREM ProvidedSetLaunched == Spec => []InstalledIsProvided
<1>1. IInv => InstalledIsProvided
  BY DEF IInv, LaunchInv, InstalledIsProvided
<1> QED
  BY <1>1, Invariance, PTL

(* All three files or none were there, or the start gives up.              *)
LEMMA CountedAll ==
  ASSUME IInv, Decide, ~moved
  PROVE  /\ present = 3 <=> Complete
         /\ present = 0 <=> \A a \in Asset : ~Present(a)
<1>1. /\ present = Found(1) + Found(2) + Found(3) /\ item = 4
  BY DEF IInv, StatInv, Decide
<1> QED
  BY <1>1 DEF Complete

(* With /certs left alone, the set is whole while it is copied.            *)
LEMMA CopiesAreThere ==
  ASSUME IInv, pc = "copy", ~moved
  PROVE  certs[Source(item)] # "absent"
<1>1. Complete /\ Source(item) \in Asset
  BY DEF IInv, TypeOK, CopyInv, Source
<1> QED
  BY <1>1 DEF Complete, Present

(* A start gives up by itself only on a part of a set.                     *)
THEOREM PartsRefused == Spec => OnlyPartsRefused
<1>1. ASSUME IInv, [Next]_vars, pc' = "down", pc \notin {"down", "launched"}
      PROVE  \/ faults' = faults + 1
             \/ moved
             \/ ~Complete /\ \E a \in Asset : Present(a)
  <2>1. CASE Interrupt
    BY <2>1 DEF Interrupt
  <2>2. CASE Decide
    <3>1. present \notin {0, 3}
      BY <1>1, <2>2 DEF Decide
    <3> QED
      BY <1>1, <2>2, <3>1, CountedAll
  <2>3. CASE Copy
    BY <1>1, <2>3, CopiesAreThere DEF Copy
  <2>4. ~(Rotate \/ Boot \/ Restart \/ Stat \/ Fill \/ UNCHANGED vars)
    BY <1>1 DEF Rotate, Boot, Restart, Stat, Fill, vars
  <2>5. ~(UpdateCACertificates \/ Launch)
    BY <1>1 DEF UpdateCACertificates, Launch
  <2> QED
    BY <1>1, <2>1, <2>2, <2>3, <2>4, <2>5 DEF Next, InstallTLSAssets
<1>2. IInv /\ [Next]_vars =>
        [pc' = "down" /\ pc \notin {"down", "launched"} =>
           \/ faults' = faults + 1
           \/ moved
           \/ ~Complete /\ \E a \in Asset : Present(a)]_vars
  BY <1>1
<1> QED
  BY <1>2, Invariance, PTL DEF Spec, OnlyPartsRefused

(* Certificate and key belong together, but for an installation cut short, *)
(* raced, or made in the middle of a renewal.                              *)
THEOREM PairMatches == Spec => []LaunchedTogether
<1>1. IInv => LaunchedTogether
  BY DEF IInv, WholeInv, LaunchedTogether
<1> QED
  BY <1>1, Invariance, PTL

=============================================================================
