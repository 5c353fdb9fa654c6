-------------------------- MODULE ReconcileProofs --------------------------
(***************************************************************************)
(* Theorems about Reconcile.tla, for any values of the settings, texts of  *)
(* any length and any number of edits and faults.                          *)
(***************************************************************************)
EXTENDS Reconcile, TLAPS

USE TextAssumption, ReconcileAssumption
USE DEF File, Smb, Options, Dhcp4, Crontab, End, Kind, Access, PC, Config,
    files, work, operator

-----------------------------------------------------------------------------
(* The texts.                                                              *)

(* Replacing the value of an item leaves its place and its kind.           *)
LEMMA ItemExcept ==
  ASSUME NEW i \in Item, NEW v
  PROVE  /\ [i EXCEPT !.value = v].at = i.at
         /\ [i EXCEPT !.value = v].kind = i.kind
         /\ [i EXCEPT !.value = v].value = v
         /\ v \in Value => [i EXCEPT !.value = v] \in Item
  BY DEF Item

(* A rewritten text is a text.                                             *)
LEMMA RewrittenType ==
  ASSUME NEW f \in File, NEW t \in SUBSET Item, NEW v \in Value
  PROVE  Rewritten(f, t, v) \subseteq Item
<1>1. CASE f = Crontab
  <2>1. [at |-> End, kind |-> "directive", value |-> v] \in Item
    BY DEF Item
  <2> QED
    BY <1>1, <2>1 DEF Rewritten
<1>2. CASE f # Crontab
  <2>1. \A i \in t : [i EXCEPT !.value = v] \in Item
    BY ItemExcept
  <2> QED
    BY <1>2, <2>1 DEF Rewritten
<1> QED
  BY <1>1, <1>2

(* Rewriting does not touch what is the operator's.                        *)
LEMMA RestRewritten ==
  ASSUME NEW f \in File, NEW t \in SUBSET Item, NEW v \in Value, ~Refused(f, t)
  PROVE  Rest(f, Rewritten(f, t, v)) = Rest(f, t)
<1>1. CASE f = Crontab
  BY <1>1 DEF Rest, Rewritten, Found, At
<1>2. CASE f # Crontab
  <2> DEFINE New(i) == IF i \in Found(f, t) THEN [i EXCEPT !.value = v] ELSE i
  <2>1. Rewritten(f, t, v) = {New(i) : i \in t}
    BY <1>2 DEF Rewritten
  <2>2. ASSUME NEW i \in t PROVE New(i).kind = i.kind
    BY ItemExcept
  <2>3. ASSUME NEW i \in Found(f, t) PROVE i.kind \in {"directive"} \/ (f = Options /\ i.kind = "odd")
    BY <1>2 DEF Refused, Found, At
  <2> QED
    BY <2>1, <2>2, <2>3 DEF Rest, At
<1> QED
  BY <1>1, <1>2

(* What the search finds in a rewritten text has the value.                *)
LEMMA FoundRewritten ==
  ASSUME NEW f \in Config, NEW t \in SUBSET Item, NEW v \in Value,
         NEW i \in Found(f, Rewritten(f, t, v))
  PROVE  i.value = v
<1> DEFINE New(j) == IF j \in Found(f, t) THEN [j EXCEPT !.value = v] ELSE j
<1>1. Rewritten(f, t, v) = {New(j) : j \in t}
  BY DEF Rewritten
<1>2. ASSUME NEW j \in t PROVE New(j).kind = j.kind /\ New(j).at = j.at
  BY ItemExcept
<1>3. PICK j \in t : i = New(j)
  BY <1>1 DEF Found, At
<1>4. CASE j \in Found(f, t)
  BY <1>3, <1>4, ItemExcept
<1>5. CASE j \notin Found(f, t)
  <2>1. i = j
    BY <1>3, <1>5
  <2>2. f = Dhcp4
    BY <2>1, <1>5 DEF Found, At
  <2>3. PICK k \in t : k.kind \in {"directive", "bare"} /\ ~(j.at <= k.at)
    BY <2>1, <2>2, <1>5 DEF Found, At
  <2>4. New(k) \in Rewritten(f, t, v) /\ New(k).kind = k.kind /\ New(k).at = k.at
    BY <1>1, <1>2
  <2>5. i.at <= New(k).at
    BY <2>2, <2>3, <2>4 DEF Found, At
  <2> QED
    BY <2>1, <2>3, <2>4, <2>5
<1> QED
  BY <1>4, <1>5

(* An installed crontab has the renewal line and no other like it.         *)
LEMMA CrontabRewritten ==
  ASSUME NEW t \in SUBSET Item, NEW v \in Value
  PROVE  /\ Found(Crontab, Rewritten(Crontab, t, v)) =
              {[at |-> End, kind |-> "directive", value |-> v]}
         /\ At(Rewritten(Crontab, t, v), {"directive", "odd"}) =
              {[at |-> End, kind |-> "directive", value |-> v]}
  BY DEF Rewritten, Found, At

(* The search finds in a rewritten configuration file what it found in the *)
(* file, with the value.                                                   *)
LEMMA FoundAgain ==
  ASSUME NEW f \in Config, NEW t \in SUBSET Item, NEW v \in Value
  PROVE  Found(f, Rewritten(f, t, v)) =
           {[j EXCEPT !.value = v] : j \in Found(f, t)}
<1> DEFINE New(j) == IF j \in Found(f, t) THEN [j EXCEPT !.value = v] ELSE j
           R == Rewritten(f, t, v)
<1>1. R = {New(j) : j \in t}
  BY DEF Rewritten
<1>2. ASSUME NEW j \in t PROVE New(j).kind = j.kind /\ New(j).at = j.at
  BY ItemExcept
<1>3. Found(f, t) \subseteq t
  BY DEF Found, At
<1> HIDE DEF New, R
<1>4. ASSUME NEW j \in t PROVE j \in Found(f, t) <=> New(j) \in Found(f, R)
  <2>1. New(j) \in R
    BY <1>1
  <2>2. CASE f # Dhcp4
    BY <1>2, <2>1, <2>2 DEF Found, At
  <2>3. CASE f = Dhcp4
    <3> DEFINE Pools(u) == At(u, {"directive", "bare"})
    <3>1. \A u : Found(f, u) = {i \in Pools(u) : \A k \in Pools(u) : i.at <= k.at}
      BY <2>3 DEF Found
    <3>2. ASSUME NEW k \in t PROVE k \in Pools(t) <=> New(k) \in Pools(R)
      <4>1. New(k) \in R /\ New(k).kind = k.kind
        BY <1>1, <1>2
      <4> QED
        BY <4>1 DEF At
    <3>3. Pools(t) \subseteq t /\ \A i \in Pools(R) : \E k \in t : i = New(k)
      BY <1>1 DEF At
    <3> HIDE DEF Pools
    <3>4. (\A k \in Pools(t) : j.at <= k.at) <=> (\A i \in Pools(R) : New(j).at <= i.at)
      BY <1>2, <3>2, <3>3
    <3> QED
      BY <3>1, <3>2, <3>4
  <2> QED
    BY <2>2, <2>3
<1>5. \A i \in Found(f, R) : \E j \in t : i = New(j)
  BY <1>1 DEF Found, At
<1>6. \A j \in Found(f, t) : New(j) = [j EXCEPT !.value = v]
  BY DEF New
<1> QED
  BY <1>3, <1>4, <1>5, <1>6 DEF R

(* A file that is not refused is not refused once it is rewritten, and to  *)
(* rewrite it again with the same value changes nothing: a start with the  *)
(* settings of the last one leaves smb.conf, named.conf.options,           *)
(* kea-dhcp4.conf and the crontab as they are.                             *)
THEOREM RewritingSettles ==
  ASSUME NEW f \in File, NEW t \in SUBSET Item, NEW v \in Value, ~Refused(f, t)
  PROVE  /\ ~Refused(f, Rewritten(f, t, v))
         /\ Rewritten(f, Rewritten(f, t, v), v) = Rewritten(f, t, v)
<1> DEFINE R == Rewritten(f, t, v)
<1>1. R \in SUBSET Item
  BY RewrittenType
<1>2. CASE f = Crontab
  <2>1. Found(f, R) = {[at |-> End, kind |-> "directive", value |-> v]}
    BY <1>2, CrontabRewritten
  <2>2. [at |-> End, kind |-> "directive", value |-> v] \in R
    BY <1>2 DEF Rewritten
  <2>3. Rewritten(f, R, v) = R
    BY <1>2, <2>1, <2>2 DEF Rewritten
  <2> QED
    BY <1>2, <2>3 DEF Refused
<1>3. CASE f \in Config
  <2>1. Found(f, R) = {[j EXCEPT !.value = v] : j \in Found(f, t)}
    BY <1>3, FoundAgain
  <2>2. ASSUME NEW i \in Item, i.value = v PROVE [i EXCEPT !.value = v] = i
    BY <2>2 DEF Item
  <2>3. Rewritten(f, R, v) = R
    <3>1. \A i \in R : i \in Found(f, R) => [i EXCEPT !.value = v] = i
      BY <1>1, <1>3, <2>2, FoundRewritten
    <3>2. Rewritten(f, R, v) =
            {IF i \in Found(f, R) THEN [i EXCEPT !.value = v] ELSE i : i \in R}
      BY <1>3 DEF Rewritten
    <3> HIDE DEF R
    <3> QED
      BY <3>1, <3>2
  <2>4. \A j \in Found(f, t) : [j EXCEPT !.value = v].kind = j.kind
    BY ItemExcept DEF Found, At
  <2>5. CASE f = Dhcp4
    <3>1. At(t, {"odd"}) = {} /\ Found(f, t) # {} /\ At(Found(f, t), {"bare"}) = {}
      BY <2>5 DEF Refused
    <3>2. Found(f, R) # {} /\ At(Found(f, R), {"bare"}) = {}
      <4> DEFINE New(j) == [j EXCEPT !.value = v]
      <4>1. Found(f, R) = {New(j) : j \in Found(f, t)}
        BY <2>1
      <4>2. \A j \in Found(f, t) : New(j).kind = j.kind
        BY <2>4
      <4> HIDE DEF New, R
      <4> QED
        BY <3>1, <4>1, <4>2 DEF At
    <3>3. At(R, {"odd"}) = {}
      <4>1. \A i \in t : i.kind # "odd"
        BY <3>1 DEF At
      <4> DEFINE New(j) == IF j \in Found(f, t) THEN [j EXCEPT !.value = v] ELSE j
      <4>2. \A i \in R : \E j \in t : i.kind = j.kind
        <5>1. R = {New(j) : j \in t}
          BY <2>5 DEF Rewritten
        <5>2. \A j \in t : New(j).kind = j.kind
          BY ItemExcept
        <5> HIDE DEF New, R
        <5> QED
          BY <5>1, <5>2
      <4> QED
        BY <4>1, <4>2 DEF At
    <3>4. ~Refused(f, R)
      BY <2>5, <3>2, <3>3 DEF Refused
    <3> QED
      BY <2>3, <3>4
  <2>6. CASE f # Dhcp4
    <3>1. PICK j \in Found(f, t) : Found(f, t) = {j}
      BY <1>3, <2>6 DEF Refused
    <3>2. Found(f, R) = {[j EXCEPT !.value = v]}
      BY <2>1, <3>1
    <3>3. ~Refused(f, R)
      BY <1>3, <2>6, <3>2 DEF Refused
    <3> QED
      BY <2>3, <3>3
  <2> QED
    BY <2>5, <2>6
<1> QED
  BY <1>2, <1>3
-----------------------------------------------------------------------------
(* The invariant.                                                          *)

(* An edit puts the file beyond what is known of it, and is remembered.    *)
LEMMA EditTextIInv == ASSUME IInv, NEW f \in File, EditText(f) PROVE IInv'
<1>1. TypeOK'
  <2>1. PICK t \in Written[f] : text' = [text EXCEPT ![f] = t] /\ intended' = [intended EXCEPT ![f] = t]
    BY DEF EditText
  <2>2. t \in SUBSET Item
    BY <2>1 DEF Written
  <2>3. text' \in [File -> SUBSET Item] /\ intended' \in [File -> SUBSET Item]
    BY <2>1, <2>2 DEF IInv, TypeOK
  <2>4. /\ overtaken' \subseteq {"text", "access"}
        /\ lost' \subseteq File \X {"text", "access"} /\ touched' \subseteq File
        /\ edits' \in 0 .. MaxEdits
    BY DEF IInv, TypeOK, EditText
  <2> QED
    BY <2>3, <2>4 DEF IInv, TypeOK, EditText
<1>2. StepInv'
  BY DEF IInv, TypeOK, StepInv, EditText
<1>3. ReadInv'
  BY DEF IInv, TypeOK, ReadInv, EditText
<1>4. ModeInv'
  BY DEF IInv, TypeOK, ModeInv, EditText
<1>5. TempInv'
  BY DEF IInv, TypeOK, TempInv, EditText
<1>6. FoundInv'
  BY DEF IInv, TypeOK, FoundInv, Replaced, EditText
<1>7. PoolInv'
  BY DEF IInv, TypeOK, PoolInv, Launched, EditText
<1>8. OperatorsTextKept'
  BY DEF IInv, TypeOK, OperatorsTextKept, EditText
<1>9. RestrictionKept'
  BY DEF IInv, TypeOK, RestrictionKept, EditText
<1>10. RenewalScheduled'
  BY DEF IInv, TypeOK, RenewalScheduled, EditText
<1> QED
  BY <1>1, <1>2, <1>3, <1>4, <1>5, <1>6, <1>7, <1>8, <1>9, <1>10 DEF IInv

(* A change of access leaves the texts alone.                              *)
LEMMA ChangeAccessIInv == ASSUME IInv, NEW f \in File, ChangeAccess(f) PROVE IInv'
<1>1. TypeOK'
  BY DEF IInv, TypeOK, ChangeAccess
<1>2. StepInv'
  BY DEF IInv, TypeOK, StepInv, ChangeAccess
<1>3. ReadInv'
  BY DEF IInv, TypeOK, ReadInv, ChangeAccess
<1>4. ModeInv'
  BY DEF IInv, TypeOK, ModeInv, ChangeAccess
<1>5. TempInv'
  BY DEF IInv, TypeOK, TempInv, ChangeAccess
<1>6. FoundInv'
  BY DEF IInv, TypeOK, FoundInv, Replaced, ChangeAccess
<1>7. PoolInv'
  BY DEF IInv, TypeOK, PoolInv, Launched, ChangeAccess
<1>8. OperatorsTextKept'
  BY DEF IInv, TypeOK, OperatorsTextKept, ChangeAccess
<1>9. RestrictionKept'
  BY DEF IInv, TypeOK, RestrictionKept, ChangeAccess
<1>10. RenewalScheduled'
  BY DEF IInv, TypeOK, RenewalScheduled, ChangeAccess
<1> QED
  BY <1>1, <1>2, <1>3, <1>4, <1>5, <1>6, <1>7, <1>8, <1>9, <1>10 DEF IInv

(* A start has replaced nothing yet; a new container has no crontab.       *)
LEMMA BootIInv == IInv /\ Boot => IInv'
<1> SUFFICES ASSUME IInv, Boot PROVE IInv'
  OBVIOUS
<1>1. TypeOK'
  BY DEF IInv, TypeOK, Boot
<1>2. StepInv'
  BY DEF IInv, TypeOK, StepInv, Boot
<1>3. ReadInv'
  BY DEF IInv, TypeOK, ReadInv, Boot
<1>4. ModeInv'
  BY DEF IInv, TypeOK, ModeInv, Boot
<1>5. TempInv'
  BY DEF IInv, TypeOK, TempInv, Boot
<1>6. FoundInv'
  BY DEF IInv, TypeOK, FoundInv, Replaced, Boot
<1>7. PoolInv'
  BY DEF IInv, TypeOK, PoolInv, Launched, Boot
<1>8. OperatorsTextKept'
  BY DEF IInv, TypeOK, OperatorsTextKept, Boot
<1>9. RestrictionKept'
  BY DEF IInv, TypeOK, RestrictionKept, Boot
<1>10. RenewalScheduled'
  BY DEF IInv, TypeOK, RenewalScheduled, Boot
<1> QED
  BY <1>1, <1>2, <1>3, <1>4, <1>5, <1>6, <1>7, <1>8, <1>9, <1>10 DEF IInv

(* A failure drops the temporary file.                                     *)
LEMMA FailIInv == IInv /\ Fail => IInv'
<1> SUFFICES ASSUME IInv, Fail PROVE IInv'
  OBVIOUS
<1>1. TypeOK'
  <2>1. contents' \subseteq Item /\ mode' \in BOOLEAN /\ temporary' \in SUBSET SUBSET Item
        /\ pc' \in PC /\ overtaken' \subseteq {"text", "access"}
    BY DEF Fail, GiveUp, Finish
  <2>2. faults' \in 0 .. MaxFaults
    BY DEF IInv, TypeOK, Fail
  <2> QED
    BY <2>1, <2>2 DEF IInv, TypeOK, Fail, GiveUp
<1>2. StepInv'
  BY DEF IInv, TypeOK, StepInv, Fail, GiveUp, Finish, Working
<1>3. ReadInv'
  BY DEF IInv, TypeOK, ReadInv, Fail, GiveUp, Finish, Working
<1>4. ModeInv'
  BY DEF IInv, TypeOK, ModeInv, Fail, GiveUp, Finish, Working
<1>5. TempInv'
  BY DEF IInv, TypeOK, TempInv, Fail, GiveUp, Finish, Working
<1>6. FoundInv'
  BY DEF IInv, TypeOK, FoundInv, Replaced, Fail, GiveUp, Finish, Working
<1>7. PoolInv'
  BY DEF IInv, TypeOK, PoolInv, Launched, Fail, GiveUp, Finish, Working
<1>8. OperatorsTextKept'
  BY DEF IInv, TypeOK, OperatorsTextKept, Fail, GiveUp, Finish, Working
<1>9. RestrictionKept'
  BY DEF IInv, TypeOK, RestrictionKept, Fail, GiveUp, Finish, Working
<1>10. RenewalScheduled'
  BY DEF IInv, TypeOK, RenewalScheduled, Fail, GiveUp, Finish, Working
<1> QED
  BY <1>1, <1>2, <1>3, <1>4, <1>5, <1>6, <1>7, <1>8, <1>9, <1>10 DEF IInv

(* A crash leaves the files as they are.                                   *)
LEMMA CrashIInv == IInv /\ Crash => IInv'
<1> SUFFICES ASSUME IInv, Crash PROVE IInv'
  OBVIOUS
<1>1. TypeOK'
  <2>1. contents' \subseteq Item /\ mode' \in BOOLEAN /\ temporary' \in SUBSET SUBSET Item
        /\ pc' \in PC /\ overtaken' \subseteq {"text", "access"}
    BY DEF Crash, Finish
  <2>2. faults' \in 0 .. MaxFaults
    BY DEF IInv, TypeOK, Crash
  <2> QED
    BY <2>1, <2>2 DEF IInv, TypeOK, Crash
<1>2. StepInv'
  BY DEF IInv, TypeOK, StepInv, Crash, Finish
<1>3. ReadInv'
  BY DEF IInv, TypeOK, ReadInv, Crash, Finish
<1>4. ModeInv'
  BY DEF IInv, TypeOK, ModeInv, Crash, Finish
<1>5. TempInv'
  BY DEF IInv, TypeOK, TempInv, Crash, Finish
<1>6. FoundInv'
  BY DEF IInv, TypeOK, FoundInv, Replaced, Crash, Finish
<1>7. PoolInv'
  BY DEF IInv, TypeOK, PoolInv, Launched, Crash, Finish
<1>8. OperatorsTextKept'
  BY DEF IInv, TypeOK, OperatorsTextKept, Crash, Finish
<1>9. RestrictionKept'
  BY DEF IInv, TypeOK, RestrictionKept, Crash, Finish
<1>10. RenewalScheduled'
  BY DEF IInv, TypeOK, RenewalScheduled, Crash, Finish
<1> QED
  BY <1>1, <1>2, <1>3, <1>4, <1>5, <1>6, <1>7, <1>8, <1>9, <1>10 DEF IInv

(* What is read is the file.                                               *)
LEMMA ReadFileIInv == IInv /\ ReadFile => IInv'
<1> SUFFICES ASSUME IInv, ReadFile PROVE IInv'
  OBVIOUS
<1>1. TypeOK'
  BY DEF IInv, TypeOK, ReadFile, GiveUp, Finish
<1>2. StepInv'
  BY DEF IInv, TypeOK, StepInv, ReadFile, GiveUp, Finish
<1>3. ReadInv'
  BY DEF IInv, TypeOK, ReadInv, ReadFile, GiveUp, Finish
<1>4. ModeInv'
  BY DEF IInv, TypeOK, ModeInv, ReadFile, GiveUp, Finish
<1>5. TempInv'
  BY DEF IInv, TypeOK, TempInv, ReadFile, GiveUp, Finish
<1>6. FoundInv'
  BY DEF IInv, TypeOK, FoundInv, Replaced, ReadFile, GiveUp, Finish
<1>7. PoolInv'
  BY DEF IInv, TypeOK, PoolInv, Launched, ReadFile, GiveUp, Finish
<1>8. OperatorsTextKept'
  BY DEF IInv, TypeOK, OperatorsTextKept, ReadFile, GiveUp, Finish
<1>9. RestrictionKept'
  BY DEF IInv, TypeOK, RestrictionKept, ReadFile, GiveUp, Finish
<1>10. RenewalScheduled'
  BY DEF IInv, TypeOK, RenewalScheduled, ReadFile, GiveUp, Finish
<1> QED
  BY <1>1, <1>2, <1>3, <1>4, <1>5, <1>6, <1>7, <1>8, <1>9, <1>10 DEF IInv

(* The mode that is taken over is the mode of the file.                    *)
LEMMA CreateTempIInv == IInv /\ CreateTemp => IInv'
<1> SUFFICES ASSUME IInv, CreateTemp PROVE IInv'
  OBVIOUS
<1>1. TypeOK'
  <2>1. mode' \in BOOLEAN /\ temporary' \in SUBSET SUBSET Item /\ pc' \in PC
    BY DEF CreateTemp, Restricted
  <2> QED
    BY <2>1 DEF IInv, TypeOK, CreateTemp
<1>2. StepInv'
  BY DEF IInv, TypeOK, StepInv, CreateTemp
<1>3. ReadInv'
  BY DEF IInv, TypeOK, ReadInv, CreateTemp
<1>4. ModeInv'
  BY DEF IInv, TypeOK, ModeInv, CreateTemp
<1>5. TempInv'
  BY DEF IInv, TypeOK, TempInv, CreateTemp
<1>6. FoundInv'
  BY DEF IInv, TypeOK, FoundInv, Replaced, CreateTemp
<1>7. PoolInv'
  BY DEF IInv, TypeOK, PoolInv, Launched, CreateTemp
<1>8. OperatorsTextKept'
  BY DEF IInv, TypeOK, OperatorsTextKept, CreateTemp
<1>9. RestrictionKept'
  BY DEF IInv, TypeOK, RestrictionKept, CreateTemp
<1>10. RenewalScheduled'
  BY DEF IInv, TypeOK, RenewalScheduled, CreateTemp
<1> QED
  BY <1>1, <1>2, <1>3, <1>4, <1>5, <1>6, <1>7, <1>8, <1>9, <1>10 DEF IInv

(* The temporary file is made from what was read.                          *)
LEMMA WriteIInv == IInv /\ Write => IInv'
<1> SUFFICES ASSUME IInv, Write PROVE IInv'
  OBVIOUS
<1>1. TypeOK'
  <2>1. Rewritten(current, contents, wanted) \subseteq Item
    BY RewrittenType DEF IInv, TypeOK
  <2>2. temporary' \in SUBSET SUBSET Item /\ pc' \in PC
    BY <2>1 DEF Write
  <2> QED
    BY <2>2 DEF IInv, TypeOK, Write
<1>2. StepInv'
  BY DEF IInv, TypeOK, StepInv, Write
<1>3. ReadInv'
  BY DEF IInv, TypeOK, ReadInv, Write
<1>4. ModeInv'
  BY DEF IInv, TypeOK, ModeInv, Write
<1>5. TempInv'
  BY DEF IInv, TypeOK, TempInv, Write
<1>6. FoundInv'
  BY DEF IInv, TypeOK, FoundInv, Replaced, Write
<1>7. PoolInv'
  BY DEF IInv, TypeOK, PoolInv, Launched, Write
<1>8. OperatorsTextKept'
  BY DEF IInv, TypeOK, OperatorsTextKept, Write
<1>9. RestrictionKept'
  BY DEF IInv, TypeOK, RestrictionKept, Write
<1>10. RenewalScheduled'
  BY DEF IInv, TypeOK, RenewalScheduled, Write
<1> QED
  BY <1>1, <1>2, <1>3, <1>4, <1>5, <1>6, <1>7, <1>8, <1>9, <1>10 DEF IInv

(* The replaced file has the value, and the rest of it is what it was.     *)
LEMMA RenameIInv == IInv /\ Rename => IInv'
<1> SUFFICES ASSUME IInv, Rename PROVE IInv'
  OBVIOUS
<1>0. text' = [text EXCEPT ![current] = Rewritten(current, contents, wanted)]
  BY DEF IInv, TempInv, Rename
<1>1. TypeOK'
  BY DEF IInv, TypeOK, Rename, Finish, Following
<1>2. StepInv'
  BY DEF IInv, TypeOK, StepInv, Rename, Finish, Following
<1>3. ReadInv'
  BY DEF IInv, TypeOK, ReadInv, Rename, Finish, Following
<1>4. ModeInv'
  BY DEF IInv, TypeOK, ModeInv, Rename, Finish, Following
<1>5. TempInv'
  BY DEF IInv, TypeOK, TempInv, Rename, Finish, Following
<1>6. FoundInv'
  <2> SUFFICES ASSUME NEW f \in Replaced', f \notin touched', NEW i \in Found(f, text'[f])
               PROVE  i.value = wanted'
    BY DEF FoundInv
  <2>1. /\ wanted' = wanted /\ touched' = touched \ {current}
        /\ pc = "rename" /\ contents \in SUBSET Item /\ wanted \in Value
    BY DEF IInv, TypeOK, Rename
  <2>2. f \in Config
    BY DEF Replaced
  <2>3. CASE f = current
    BY <1>0, <2>1, <2>2, <2>3, FoundRewritten DEF IInv, TypeOK
  <2>4. CASE f # current
    <3>1. f \in Replaced
      BY <2>1, <2>4 DEF IInv, TypeOK, Replaced, Rename, Following
    <3>2. text'[f] = text[f]
      BY <1>0, <2>2, <2>4 DEF IInv, TypeOK
    <3> QED
      BY <2>1, <2>4, <3>1, <3>2 DEF IInv, FoundInv
  <2> QED
    BY <2>3, <2>4
<1>7. PoolInv'
  BY DEF IInv, TypeOK, PoolInv, Launched, Rename, Finish, Following
<1>8. OperatorsTextKept'
  <2> SUFFICES ASSUME NEW f \in File, <<f, "text">> \notin lost'
               PROVE  Rest(f, text'[f]) = Rest(f, intended'[f])
    BY DEF OperatorsTextKept
  <2>1. /\ intended' = intended /\ lost' = lost \cup {current} \X overtaken
        /\ pc = "rename" /\ contents \in SUBSET Item /\ wanted \in Value
    BY DEF IInv, TypeOK, Rename
  <2>2. Rest(f, text[f]) = Rest(f, intended[f])
    BY <2>1 DEF IInv, OperatorsTextKept
  <2>3. CASE f = current
    <3>1. contents = text[f] /\ ~Refused(f, contents)
      BY <2>1, <2>3 DEF IInv, ReadInv
    <3>2. text'[f] = Rewritten(f, contents, wanted)
      BY <1>0, <2>3 DEF IInv, TypeOK
    <3> QED
      BY <2>1, <2>2, <3>1, <3>2, RestRewritten
  <2>4. CASE f # current
    BY <1>0, <2>1, <2>2, <2>4 DEF IInv, TypeOK
  <2> QED
    BY <2>3, <2>4
<1>9. RestrictionKept'
  <2> SUFFICES ASSUME NEW f \in File, <<f, "access">> \notin lost'
               PROVE  Restricted(access'[f]) = Restricted(given'[f])
    BY DEF RestrictionKept
  <2>1. given' = given /\ lost' = lost \cup {current} \X overtaken /\ pc = "rename"
    BY DEF Rename
  <2>2. Restricted(access[f]) = Restricted(given[f])
    BY <2>1 DEF IInv, RestrictionKept
  <2>3. CASE f = current /\ f # Crontab
    <3>1. mode = Restricted(access[f])
      BY <2>1, <2>3 DEF IInv, ModeInv
    <3>2. access'[f] = IF mode THEN "root" ELSE "everyone"
      BY <2>3 DEF IInv, TypeOK, Rename
    <3>3. mode \in BOOLEAN
      BY DEF IInv, TypeOK
    <3>4. Restricted(access'[f]) = mode
      BY <3>2, <3>3 DEF Restricted
    <3> QED
      BY <2>1, <2>2, <3>1, <3>4
  <2>4. CASE ~(f = current /\ f # Crontab)
    <3>1. access'[f] = access[f]
      BY <2>4 DEF IInv, TypeOK, Rename
    <3> QED
      BY <2>1, <2>2, <3>1
  <2> QED
    BY <2>3, <2>4
<1>10. RenewalScheduled'
  <2> SUFFICES ASSUME pc' = "up"
               PROVE  At(text'[Crontab], {"directive", "odd"}) =
                        {[at |-> End, kind |-> "directive", value |-> wanted']}
    BY DEF RenewalScheduled
  <2>1. current = Crontab /\ wanted' = wanted
    BY DEF Rename
  <2>2. text'[Crontab] = Rewritten(Crontab, contents, wanted)
    BY <1>0, <2>1 DEF IInv, TypeOK
  <2>3. contents \in SUBSET Item /\ wanted \in Value
    BY DEF IInv, TypeOK
  <2> QED
    BY <2>1, <2>2, <2>3, CrontabRewritten
<1> QED
  BY <1>1, <1>2, <1>3, <1>4, <1>5, <1>6, <1>7, <1>8, <1>9, <1>10 DEF IInv

(* What passes the checks has the setting once.                            *)
LEMMA ValidateIInv == IInv /\ Validate => IInv'
<1> SUFFICES ASSUME IInv, Validate PROVE IInv'
  OBVIOUS
<1>1. TypeOK'
  BY DEF IInv, TypeOK, Validate, GiveUp, Finish
<1>2. StepInv'
  BY DEF IInv, TypeOK, StepInv, Validate, GiveUp, Finish
<1>3. ReadInv'
  BY DEF IInv, TypeOK, ReadInv, Validate, GiveUp, Finish
<1>4. ModeInv'
  BY DEF IInv, TypeOK, ModeInv, Validate, GiveUp, Finish
<1>5. TempInv'
  BY DEF IInv, TypeOK, TempInv, Validate, GiveUp, Finish
<1>6. FoundInv'
  BY DEF IInv, TypeOK, FoundInv, Replaced, Validate, GiveUp, Finish
<1>7. PoolInv'
  <2> SUFFICES ASSUME Launched', Dhcp4 \notin touched', NEW i \in At(text'[Dhcp4], {"directive"})
               PROVE  i.value = wanted'
    BY DEF PoolInv
  <2>1. /\ pc = "validate" /\ current = Dhcp4 /\ current' = Crontab
        /\ \A f \in File : Valid(f, text[f])
        /\ UNCHANGED <<text, wanted, touched>>
    BY DEF IInv, StepInv, Launched, Validate, GiveUp
  <2>2. i \in Found(Dhcp4, text[Dhcp4])
    <3>1. \A j \in At(text[Dhcp4], {"directive", "bare"}) : j = i
      BY <2>1 DEF Valid, At
    <3>2. i.at <= i.at
      BY <2>1 DEF IInv, TypeOK, At, Item
    <3> QED
      BY <2>1, <3>1, <3>2 DEF Found, At
  <2> QED
    BY <2>1, <2>2 DEF IInv, FoundInv, Replaced
<1>8. OperatorsTextKept'
  BY DEF IInv, TypeOK, OperatorsTextKept, Validate, GiveUp, Finish
<1>9. RestrictionKept'
  BY DEF IInv, TypeOK, RestrictionKept, Validate, GiveUp, Finish
<1>10. RenewalScheduled'
  BY DEF IInv, TypeOK, RenewalScheduled, Validate, GiveUp, Finish
<1> QED
  BY <1>1, <1>2, <1>3, <1>4, <1>5, <1>6, <1>7, <1>8, <1>9, <1>10 DEF IInv

(* Every state satisfies the invariant.                                    *)
THEOREM Invariance == Spec => []IInv
<1>1. Init => IInv
  <2> SUFFICES ASSUME Init PROVE IInv
    OBVIOUS
  <2>1. \A f \in {Smb, Options, Dhcp4} :
          [at |-> 1, kind |-> "directive", value |-> wanted] \in Item
    BY DEF Init, Item
  <2>2. text \in [File -> SUBSET Item] /\ access \in [File -> Access]
    BY <2>1 DEF Init
  <2>3. TypeOK
    <3>1. contents \subseteq Item /\ mode \in BOOLEAN /\ temporary \in SUBSET SUBSET Item
      BY DEF Init
    <3>2. edits \in 0 .. MaxEdits /\ faults \in 0 .. MaxFaults
      BY DEF Init
    <3>3. /\ overtaken \subseteq {"text", "access"}
          /\ lost \subseteq File \X {"text", "access"} /\ touched \subseteq File
      BY DEF Init
    <3>4. wanted \in Value /\ current \in File /\ pc \in PC
      BY DEF Init
    <3>5. intended \in [File -> SUBSET Item] /\ given \in [File -> Access]
      BY <2>2 DEF Init
    <3> QED
      BY <2>2, <3>1, <3>2, <3>3, <3>4, <3>5 DEF TypeOK
  <2>4. StepInv /\ ReadInv /\ ModeInv /\ TempInv
    BY DEF Init, StepInv, ReadInv, ModeInv, TempInv
  <2>5. FoundInv /\ PoolInv
    BY DEF Init, FoundInv, Replaced, PoolInv, Launched
  <2>6. OperatorsTextKept /\ RestrictionKept /\ RenewalScheduled
    BY DEF Init, OperatorsTextKept, RestrictionKept, RenewalScheduled
  <2> QED
    BY <2>3, <2>4, <2>5, <2>6 DEF IInv
<1>2. IInv /\ [Next]_vars => IInv'
  <2> SUFFICES ASSUME IInv, [Next]_vars PROVE IInv'
    OBVIOUS
  <2>1. CASE UNCHANGED vars
    BY <2>1 DEF vars, IInv, TypeOK, StepInv, ReadInv, ModeInv, TempInv, FoundInv, Replaced,
       PoolInv, Launched, OperatorsTextKept, RestrictionKept, RenewalScheduled
  <2>2. CASE Next
    BY <2>2, EditTextIInv, ChangeAccessIInv, BootIInv, FailIInv, CrashIInv, ReadFileIInv,
       CreateTempIInv, WriteIInv, RenameIInv, ValidateIInv DEF Next, Run
  <2> QED
    BY <2>1, <2>2
<1> QED
  BY <1>1, <1>2, PTL DEF Spec

(* The variables keep their types.                                         *)
THEOREM TypeCorrect == Spec => []TypeOK
<1>1. IInv => TypeOK
  BY DEF IInv
<1> QED
  BY <1>1, Invariance, PTL

(* Reconciliation keeps what is the operator's, but for an edit it         *)
(* overtakes.                                                              *)
THEOREM TextKept == Spec => []OperatorsTextKept
<1>1. IInv => OperatorsTextKept
  BY DEF IInv
<1> QED
  BY <1>1, Invariance, PTL

(* A file closed to others stays closed.                                   *)
THEOREM StaysRestricted == Spec => []RestrictionKept
<1>1. IInv => RestrictionKept
  BY DEF IInv
<1> QED
  BY <1>1, Invariance, PTL

(* The servers are launched with the settings of their container.          *)
THEOREM AsWanted == Spec => []LaunchedAsWanted
<1>1. IInv => LaunchedAsWanted
  <2> SUFFICES ASSUME IInv, Launched, NEW f \in Config \ touched, NEW i \in Live(f, text[f])
               PROVE  i.value = wanted \/ i.kind = "odd"
    BY DEF LaunchedAsWanted
  <2>1. f \in Replaced
    BY DEF Launched, Replaced
  <2>2. CASE f = Dhcp4
    BY <2>2 DEF IInv, PoolInv, Live
  <2>3. CASE f # Dhcp4
    <3>1. i \in Found(f, text[f]) \/ i.kind = "odd"
      BY <2>3 DEF Live, Found, At
    <3> QED
      BY <2>1, <3>1 DEF IInv, FoundInv
  <2> QED
    BY <2>2, <2>3
<1> QED
  BY <1>1, Invariance, PTL

(* A bootstrap that is through has scheduled the renewal, once.            *)
THEOREM Scheduled == Spec => []RenewalScheduled
<1>1. IInv => RenewalScheduled
  BY DEF IInv
<1> QED
  BY <1>1, Invariance, PTL

(* A rewritten text sets no more than the text did.                        *)
LEMMA ValidRewritten ==
  ASSUME NEW f \in File, NEW t \in SUBSET Item, NEW v \in Value, Valid(f, t)
  PROVE  Valid(f, Rewritten(f, t, v))
<1> DEFINE New(j) == IF j \in Found(f, t) THEN [j EXCEPT !.value = v] ELSE j
           R == Rewritten(f, t, v)
<1>1. CASE f \notin {Options, Dhcp4}
  BY <1>1 DEF Valid
<1>2. CASE f \in {Options, Dhcp4}
  <2>1. R = {New(j) : j \in t}
    BY <1>2 DEF Rewritten
  <2>2. \A j \in t : New(j).kind = j.kind
    BY ItemExcept
  <2> HIDE DEF New, R
  <2>3. ASSUME NEW i \in At(R, {"directive", "bare"})
        PROVE  \E j \in At(t, {"directive", "bare"}) : i = New(j)
    BY <2>1, <2>2 DEF At
  <2>4. \A j, k \in At(t, {"directive", "bare"}) : j = k
    BY <1>2 DEF Valid
  <2>5. \A i, k \in At(R, {"directive", "bare"}) : i = k
    BY <2>3, <2>4
  <2>6. Valid(f, R)
    BY <2>5 DEF Valid
  <2> QED
    BY <2>6 DEF R
<1> QED
  BY <1>1, <1>2

(* A replacement is neither refused nor, if it was made from the file as   *)
(* it is, rejected where the file was not.                                 *)
LEMMA RenameBreaksNothing ==
  ASSUME IInv, Rename, NEW f \in File
  PROVE  /\ ~Refused(f, text[f]) => ~Refused(f, text'[f])
         /\ Valid(f, text[f]) /\ "text" \notin overtaken => Valid(f, text'[f])
<1>1. text' = [text EXCEPT ![current] = Rewritten(current, contents, wanted)]
  BY DEF IInv, TempInv, Rename
<1>2. /\ contents \in SUBSET Item /\ wanted \in Value /\ current \in File
      /\ text \in [File -> SUBSET Item]
  BY DEF IInv, TypeOK
<1>3. ~Refused(current, contents) /\ ("text" \notin overtaken => contents = text[current])
  BY DEF IInv, ReadInv, Rename
<1>4. CASE f # current
  BY <1>1, <1>2, <1>4
<1>5. CASE f = current
  <2>1. text'[f] = Rewritten(f, contents, wanted)
    BY <1>1, <1>2, <1>5
  <2>2. ~Refused(f, Rewritten(f, contents, wanted))
    BY <1>2, <1>3, <1>5, RewritingSettles
  <2>3. Valid(f, contents) => Valid(f, Rewritten(f, contents, wanted))
    BY <1>2, <1>5, ValidRewritten
  <2> QED
    BY <1>3, <1>5, <2>1, <2>2, <2>3
<1> QED
  BY <1>4, <1>5

(* A configuration that was once reconciled and accepted is so at every    *)
(* later start until it is edited: no replacement, crash, failure or new   *)
(* container makes it one that is refused or rejected.                     *)
THEOREM NothingBroken == Spec => OnlyEditsBreak
<1>1. ASSUME IInv, [Next]_vars, NEW f \in File
      PROVE  /\ ~Refused(f, text[f]) /\ Refused(f, text'[f]) => edits' = edits + 1
             /\ Valid(f, text[f]) /\ ~Valid(f, text'[f]) =>
                  edits' = edits + 1 \/ "text" \in overtaken
  <2>1. CASE \E g \in File : EditText(g)
    BY <2>1 DEF EditText
  <2>2. CASE Boot
    <3>1. text' = text \/ text' = [text EXCEPT ![Crontab] = {}]
      BY <2>2 DEF Boot
    <3>2. f # Crontab => text'[f] = text[f]
      BY <1>1, <3>1 DEF IInv, TypeOK
    <3>3. f = Crontab => ~Refused(f, text'[f]) /\ Valid(f, text'[f])
      BY DEF Refused, Valid
    <3> QED
      BY <3>2, <3>3
  <2>3. CASE Rename
    BY <1>1, <2>3, RenameBreaksNothing
  <2>4. CASE \/ \E g \in File : ChangeAccess(g)
             \/ Fail \/ Crash \/ ReadFile \/ CreateTemp \/ Write \/ Validate
             \/ UNCHANGED vars
    <3>1. text' = text
      BY <2>4 DEF ChangeAccess, Fail, Crash, GiveUp, ReadFile, CreateTemp, Write,
                  Validate, vars
    <3> QED
      BY <3>1
  <2> QED
    BY <1>1, <2>1, <2>2, <2>3, <2>4 DEF Next, Run
<1>2. IInv /\ [Next]_vars =>
        [\A f \in File :
           /\ ~Refused(f, text[f]) /\ Refused(f, text'[f]) => edits' = edits + 1
           /\ Valid(f, text[f]) /\ ~Valid(f, text'[f]) =>
                edits' = edits + 1 \/ "text" \in overtaken]_vars
  BY <1>1
<1> QED
  BY <1>2, Invariance, PTL DEF Spec, OnlyEditsBreak

-----------------------------------------------------------------------------
(* The refinement.                                                         *)
Seen == [f \in File |-> IF f = current /\ pc \in {"create", "write", "rename"}
                        THEN {contents} ELSE {}]

USE DEF Atomic!File, Atomic!Smb, Atomic!Options, Atomic!Dhcp4, Atomic!Crontab, Atomic!End,
    Atomic!Kind

(* The abstract specification's texts are these.                           *)
LEMMA SameTexts ==
  /\ Atomic!Item = Item
  /\ \A f \in File, t \in SUBSET Item : Atomic!Refused(f, t) <=> Refused(f, t)
  /\ \A f \in File, t \in SUBSET Item, v \in Value :
       Atomic!Rewritten(f, t, v) = Rewritten(f, t, v)
<1>1. Atomic!Item = Item
  BY DEF Atomic!Item, Item
<1>2. \A f \in File, t \in SUBSET Item : Atomic!Found(f, t) = Found(f, t)
  BY DEF Atomic!Found, Found, Atomic!At, At
<1>3. \A f \in File, t \in SUBSET Item : Atomic!Refused(f, t) <=> Refused(f, t)
  BY <1>2 DEF Atomic!Refused, Refused, Atomic!At, At
<1>4. \A f \in File, t \in SUBSET Item, v \in Value :
       Atomic!Rewritten(f, t, v) = Rewritten(f, t, v)
  <2> TAKE f \in File, t \in SUBSET Item, v \in Value
  <2>1. Atomic!Found(f, t) = Found(f, t)
    BY <1>2
  <2>2. CASE f = Crontab
    BY <2>1, <2>2 DEF Atomic!Rewritten, Rewritten
  <2>3. CASE f # Crontab
    BY <2>1, <2>3 DEF Atomic!Rewritten, Rewritten
  <2> QED
    BY <2>2, <2>3
<1> QED
  BY <1>1, <1>3, <1>4

(* An edit of the operator's is one.                                       *)
LEMMA EditSimulates ==
  ASSUME IInv, IInv', NEW f \in File, NEW t,
         text' = [text EXCEPT ![f] = t], intended' = [intended EXCEPT ![f] = t],
         Seen' = Seen
  PROVE  Atomic!AtomicNext
<1>1. text' \in [File -> SUBSET Item] /\ text'[f] = t
  BY DEF IInv, TypeOK
<1>2. Atomic!Edit(f)
  BY <1>1, SameTexts DEF Atomic!Edit, Seen
<1> QED
  BY <1>2 DEF Atomic!AtomicNext

(* A step that leaves the texts alone reads one, drops what was read, or   *)
(* does neither.                                                           *)
LEMMA ForgetSimulates ==
  ASSUME IInv, UNCHANGED <<text, intended, current>>,
         pc' \notin {"create", "write", "rename"}
  PROVE  Atomic!AtomicNext
<1>1. PICK f \in File : f = current
  BY DEF IInv, TypeOK
<1>2. Seen' = [Seen EXCEPT ![f] = {}]
  BY <1>1 DEF Seen
<1>3. Atomic!Forget(f)
  BY <1>2 DEF Atomic!Forget, Seen
<1> QED
  BY <1>3 DEF Atomic!AtomicNext

(* A replaced file has what was read, rewritten.                           *)
LEMMA RenameSimulates == IInv /\ Rename => Atomic!AtomicNext
<1> SUFFICES ASSUME IInv, Rename PROVE Atomic!AtomicNext
  OBVIOUS
<1>1. PICK f \in File : f = current
  BY DEF IInv, TypeOK
<1>2. /\ pc = "rename" /\ pc' \notin {"create", "write", "rename"}
      /\ contents \in SUBSET Item /\ wanted \in Value
      /\ UNCHANGED intended
  BY DEF IInv, TypeOK, Rename
<1>3. text' = [text EXCEPT ![f] = Rewritten(f, contents, wanted)]
  BY <1>1 DEF IInv, TempInv, Rename
<1>4. ~Refused(f, contents)
  BY <1>1, <1>2 DEF IInv, ReadInv
<1>5. Seen[f] = {contents} /\ Seen' = [Seen EXCEPT ![f] = {}]
  BY <1>1, <1>2 DEF Seen
<1>6. Atomic!Replace(f)
  <2>1. ~Atomic!Refused(f, contents)
    BY <1>2, <1>4, SameTexts
  <2>2. text' = [text EXCEPT ![f] = Atomic!Rewritten(f, contents, wanted)]
    BY <1>2, <1>3, SameTexts
  <2> QED
    BY <1>2, <1>5, <2>1, <2>2 DEF Atomic!Replace, Seen
<1> QED
  BY <1>6 DEF Atomic!AtomicNext

(* Each step is a step of the abstract specification, or none.             *)
LEMMA Simulates ==
  ASSUME IInv, IInv', [Next]_vars
  PROVE  [Atomic!AtomicNext]_Atomic!fileVars
<1> USE DEF Atomic!fileVars
<1>1. CASE \E f \in File : EditText(f)
  <2>1. PICK f \in File : EditText(f)
    BY <1>1
  <2>2. PICK t \in Written[f] : text' = [text EXCEPT ![f] = t] /\ intended' = [intended EXCEPT ![f] = t]
    BY <2>1 DEF EditText
  <2>3. Seen' = Seen
    BY <2>1 DEF EditText, Seen
  <2> QED
    BY <2>2, <2>3, EditSimulates
<1>2. CASE \E f \in File : ChangeAccess(f)
  BY <1>2 DEF ChangeAccess
<1>3. CASE Boot
  <2>1. Seen' = Seen
    BY <1>3 DEF Boot, Seen
  <2>2. CASE UNCHANGED <<text, intended>>
    BY <2>1, <2>2 DEF Seen
  <2>3. CASE ~UNCHANGED <<text, intended>>
    <3>1. text' = [text EXCEPT ![Crontab] = {}] /\ intended' = [intended EXCEPT ![Crontab] = {}]
      BY <1>3, <2>3 DEF Boot
    <3> QED
      BY <2>1, <3>1, EditSimulates
  <2> QED
    BY <2>2, <2>3
<1>4. CASE Fail \/ Crash
  <2>1. UNCHANGED <<text, intended, current>> /\ pc' \notin {"create", "write", "rename"}
    BY <1>4 DEF Fail, Crash, GiveUp, Finish
  <2> QED
    BY <2>1, ForgetSimulates
<1>5. CASE ReadFile
  <2>1. UNCHANGED <<text, intended, current>> /\ pc = "read" /\ current \in File
    BY <1>5 DEF ReadFile, GiveUp, Finish, IInv, TypeOK
  <2>2. CASE pc' \notin {"create", "write", "rename"}
    BY <2>1, <2>2, ForgetSimulates
  <2>3. CASE pc' \in {"create", "write", "rename"}
    <3>1. PICK f \in File : f = current
      BY <2>1
    <3>2. contents' = text[f]
      BY <1>5, <2>3, <3>1 DEF ReadFile, GiveUp
    <3>3. Seen' = [Seen EXCEPT ![f] = {text[f]}]
      BY <2>1, <2>3, <3>1, <3>2 DEF Seen
    <3>4. Atomic!Read(f)
      BY <2>1, <3>3 DEF Atomic!Read, Seen
    <3> QED
      BY <3>4 DEF Atomic!AtomicNext
  <2> QED
    BY <2>2, <2>3
<1>6. CASE CreateTemp \/ Write
  <2>1. Seen' = Seen /\ UNCHANGED <<text, intended>>
    BY <1>6 DEF CreateTemp, Write, Seen
  <2> QED
    BY <2>1 DEF Seen
<1>7. CASE Rename
  BY <1>7, RenameSimulates
<1>8. CASE Validate
  <2>1. Seen' = Seen /\ UNCHANGED <<text, intended>>
    BY <1>8 DEF Validate, GiveUp, Finish, Seen
  <2> QED
    BY <2>1 DEF Seen
<1>9. CASE UNCHANGED vars
  BY <1>9 DEF vars
<1> QED
  BY <1>1, <1>2, <1>3, <1>4, <1>5, <1>6, <1>7, <1>8, <1>9 DEF Next, Run

(* The reconciliation keeps the promises of AtomicFile.                    *)
THEOREM Implements == Spec => ImplementsAtomicFile
<1>1. IInv /\ Init => Atomic!AtomicInit
  <2> SUFFICES ASSUME IInv, Init PROVE Atomic!AtomicInit
    OBVIOUS
  <2>1. text \in [Atomic!File -> SUBSET Atomic!Item] /\ intended = text
    BY SameTexts DEF IInv, TypeOK, Init
  <2>2. Seen = [f \in Atomic!File |-> {}]
    BY DEF Init, Seen
  <2> QED
    BY <2>1, <2>2 DEF Atomic!AtomicInit, Seen
<1>2. IInv /\ IInv' /\ [Next]_vars => [Atomic!AtomicNext]_Atomic!fileVars
  BY Simulates
<1> QED
  BY <1>1, <1>2, Invariance, PTL DEF Spec, ImplementsAtomicFile, Atomic!AtomicSpec

=============================================================================
