-------------------------- MODULE EntrypointProofs --------------------------
(***************************************************************************)
(* Theorems about Entrypoint.tla: for any set of settings, any lengths of  *)
(* the domain's name and any number of interruptions, what is marked set   *)
(* up is set up, what is launched is complete but for known damage, and    *)
(* what the operator has is preserved. One lemma per action shows that it  *)
(* preserves the inductive invariant, conjunct by conjunct.                *)
(***************************************************************************)
EXTENDS Entrypoint, TLAPS

(* The files, the labels of the script and the groups of variables are     *)
(* always visible to the provers.                                          *)
USE EntrypointAssumption
    DEF BindFiles, OnceFiles, File, Managed, Checked, Exists, disk, env,
        ActivePC, LaunchedPC, AgentDone, DdnsDone, Dhcp4Done, KeyMade,
        ClusterDone, BindDone, ChronyDone, DomainDone

(* Fresh volumes are neither provisioned nor damaged.                      *)
LEMMA InitIInv == Init => IInv
<1> SUFFICES ASSUME Init PROVE IInv
  OBVIOUS
<1> USE DEF Init
<1>1. TypeOK
  <2>1. file \in [File -> Setting \cup {"absent", "torn"}]
    OBVIOUS
  <2>2. pc \in ActivePC \cup LaunchedPC \cup {"down"}
        /\ writing \in File \cup {"none"} /\ faults \in 0 .. MaxFaults
    OBVIOUS
  <2> QED
    BY <2>1, <2>2 DEF TypeOK
<1>2. ModeInv /\ WritingInv /\ ValidatedInv
  BY DEF ModeInv, WritingInv, ValidatedInv
<1>3. ProgressInv /\ ProvisionedSound
  BY DEF ProgressInv, ProvisionedSound
<1>4. WantedInv
  BY DEF WantedInv
<1> QED
  BY <1>1, <1>2, <1>3, <1>4 DEF IInv

(* A boot reads its environment and begins with no mode.                   *)
LEMMA BootIInv == IInv /\ Boot => IInv'
<1> SUFFICES ASSUME IInv, Boot PROVE IInv'
  OBVIOUS
<1> USE DEF Boot
<1>1. TypeOK'
  BY DEF IInv, TypeOK
<1>2. ModeInv'
  BY DEF IInv, TypeOK, ModeInv
<1>3. WritingInv'
  BY DEF IInv, TypeOK, WritingInv
<1>4. ProgressInv'
  BY DEF IInv, ModeInv, ProgressInv
<1>5. WantedInv'
  BY DEF IInv, ModeInv, WantedInv
<1>6. ValidatedInv'
  BY DEF IInv, ValidatedInv
<1>7. ProvisionedSound'
  BY DEF IInv, ProgressInv, WantedInv, ProvisionedSound
<1> QED
  BY <1>1, <1>2, <1>3, <1>4, <1>5, <1>6, <1>7 DEF IInv

(* An interruption leaves what is on the disk, and no file open.           *)
LEMMA InterruptIInv == IInv /\ Interrupt => IInv'
<1> SUFFICES ASSUME IInv, Interrupt PROVE IInv'
  OBVIOUS
<1> USE DEF Interrupt
<1>1. TypeOK'
  BY DEF IInv, TypeOK
<1>2. ModeInv'
  BY DEF IInv, TypeOK, ModeInv
<1>3. WritingInv'
  BY DEF IInv, TypeOK, WritingInv
<1>4. ProgressInv'
  BY DEF IInv, ModeInv, ProgressInv
<1>5. WantedInv'
  BY DEF IInv, ModeInv, WantedInv
<1>6. ValidatedInv'
  BY DEF IInv, ValidatedInv
<1>7. ProvisionedSound'
  BY DEF IInv, ProgressInv, WantedInv, ProvisionedSound
<1> QED
  BY <1>1, <1>2, <1>3, <1>4, <1>5, <1>6, <1>7 DEF IInv

(* A container that was launched is stopped with the script at its end.    *)
LEMMA RestartIInv == IInv /\ Restart => IInv'
<1> SUFFICES ASSUME IInv, Restart PROVE IInv'
  OBVIOUS
<1> USE DEF Restart
<1>1. TypeOK'
  BY DEF IInv, TypeOK
<1>2. ModeInv'
  BY DEF IInv, TypeOK, ModeInv
<1>3. WritingInv'
  BY DEF IInv, TypeOK, WritingInv
<1>4. ProgressInv'
  BY DEF IInv, ModeInv, ProgressInv
<1>5. WantedInv'
  BY DEF IInv, ModeInv, WantedInv
<1>6. ValidatedInv'
  BY DEF IInv, ValidatedInv
<1>7. ProvisionedSound'
  BY DEF IInv, ProgressInv, WantedInv, ProvisionedSound
<1> QED
  BY <1>1, <1>2, <1>3, <1>4, <1>5, <1>6, <1>7 DEF IInv

(* The mode of the boot follows from the sentinel.                         *)
LEMMA ChecksIInv == IInv /\ Checks => IInv'
<1> SUFFICES ASSUME IInv, Checks PROVE IInv'
  OBVIOUS
<1> USE DEF Checks
<1>1. TypeOK'
  BY DEF IInv, TypeOK
<1>2. ModeInv'
  BY DEF IInv, TypeOK, ModeInv
<1>3. WritingInv'
  BY DEF IInv, TypeOK, WritingInv
<1>4. ProgressInv'
  BY DEF IInv, ModeInv, ProgressInv
<1>5. WantedInv'
  BY DEF IInv, ModeInv, WantedInv
<1>6. ValidatedInv'
  BY DEF IInv, ValidatedInv
<1>7. ProvisionedSound'
  BY DEF IInv, ProgressInv, WantedInv, ProvisionedSound
<1> QED
  BY <1>1, <1>2, <1>3, <1>4, <1>5, <1>6, <1>7 DEF IInv

(* A refused name leaves everything as it was.                             *)
LEMMA RefuseNameIInv == IInv /\ RefuseName => IInv'
<1> SUFFICES ASSUME IInv, RefuseName PROVE IInv'
  OBVIOUS
<1> USE DEF RefuseName, Abort
<1>1. TypeOK'
  BY DEF IInv, TypeOK
<1>2. ModeInv'
  BY DEF IInv, TypeOK, ModeInv
<1>3. WritingInv'
  BY DEF IInv, TypeOK, WritingInv
<1>4. ProgressInv'
  BY DEF IInv, ModeInv, ProgressInv
<1>5. WantedInv'
  BY DEF IInv, ModeInv, WantedInv
<1>6. ValidatedInv'
  BY DEF IInv, ValidatedInv
<1>7. ProvisionedSound'
  BY DEF IInv, ProgressInv, WantedInv, ProvisionedSound
<1> QED
  BY <1>1, <1>2, <1>3, <1>4, <1>5, <1>6, <1>7 DEF IInv

(* Provisioning is begun when the domain is to be set up and has no file.  *)
LEMMA CheckSmbConfIInv == IInv /\ CheckSmbConf => IInv'
<1> SUFFICES ASSUME IInv, CheckSmbConf PROVE IInv'
  OBVIOUS
<1> USE DEF CheckSmbConf, GoTo
<1>1. TypeOK'
  BY DEF IInv, TypeOK
<1>2. ModeInv'
  BY DEF IInv, TypeOK, ModeInv
<1>3. WritingInv'
  BY DEF IInv, TypeOK, WritingInv
<1>4. ProgressInv'
  BY DEF IInv, TypeOK, ModeInv, ProvisionedSound, ProgressInv
<1>5. WantedInv'
  BY DEF IInv, ModeInv, WantedInv
<1>6. ValidatedInv'
  BY DEF IInv, ValidatedInv
<1>7. ProvisionedSound'
  BY DEF IInv, ProgressInv, WantedInv, ProvisionedSound
<1> QED
  BY <1>1, <1>2, <1>3, <1>4, <1>5, <1>6, <1>7 DEF IInv

(* Provisioning's first effect.                                            *)
LEMMA ProvisionConfIInv == IInv /\ ProvisionConf => IInv'
<1> SUFFICES ASSUME IInv, ProvisionConf PROVE IInv'
  OBVIOUS
<1> USE DEF ProvisionConf, GoTo
<1>1. TypeOK'
  BY DEF IInv, TypeOK
<1>2. ModeInv'
  BY DEF IInv, TypeOK, ModeInv
<1>3. WritingInv'
  BY DEF IInv, TypeOK, WritingInv
<1>4. ProgressInv'
  BY DEF IInv, TypeOK, ModeInv, ProgressInv
<1>5. WantedInv'
  BY DEF IInv, TypeOK, ModeInv, WantedInv
<1>6. ValidatedInv'
  BY DEF IInv, TypeOK, ValidatedInv
<1>7. ProvisionedSound'
  BY DEF IInv, ModeInv, ProgressInv, WantedInv, ProvisionedSound
<1> QED
  BY <1>1, <1>2, <1>3, <1>4, <1>5, <1>6, <1>7 DEF IInv

(* Provisioning's last effect.                                             *)
LEMMA ProvisionDomainIInv == IInv /\ ProvisionDomain => IInv'
<1> SUFFICES ASSUME IInv, ProvisionDomain PROVE IInv'
  OBVIOUS
<1> USE DEF ProvisionDomain, GoTo
<1>1. TypeOK'
  BY DEF IInv, TypeOK
<1>2. ModeInv'
  BY DEF IInv, TypeOK, ModeInv
<1>3. WritingInv'
  BY DEF IInv, TypeOK, WritingInv
<1>4. ProgressInv'
  BY DEF IInv, ModeInv, ProgressInv
<1>5. WantedInv'
  BY DEF IInv, ModeInv, WantedInv
<1>6. ValidatedInv'
  BY DEF IInv, ValidatedInv
<1>7. ProvisionedSound'
  BY DEF IInv, ProgressInv, WantedInv, ProvisionedSound
<1> QED
  BY <1>1, <1>2, <1>3, <1>4, <1>5, <1>6, <1>7 DEF IInv

(* The Kerberos file is there, or the script ends.                         *)
LEMMA ConfigureKerberosIInv == IInv /\ ConfigureKerberos => IInv'
<1> SUFFICES ASSUME IInv, ConfigureKerberos PROVE IInv'
  OBVIOUS
<1> USE DEF ConfigureKerberos, GoTo, Abort
<1>1. TypeOK'
  <2>1. file' \in [File -> Setting \cup {"absent", "torn"}]
    BY DEF IInv, TypeOK
  <2>2. provisioned' \in BOOLEAN /\ krb5' \in BOOLEAN /\ command' \in BOOLEAN
        /\ initDomain' \in BOOLEAN
    BY DEF IInv, TypeOK
  <2>3. rndc' \in {"absent", "root", "bind", "shared"} /\ wanted' \in Setting
        /\ domainLength' \in NameLength /\ faults' \in 0 .. MaxFaults
    BY DEF IInv, TypeOK
  <2>4. pc' \in ActivePC \cup LaunchedPC \cup {"down"}
    BY DEF IInv, TypeOK
  <2>5. todo' \subseteq BindFiles /\ writing' \in File \cup {"none"}
    BY DEF IInv, TypeOK
  <2> QED
    BY <2>1, <2>2, <2>3, <2>4, <2>5 DEF TypeOK
<1>2. ModeInv'
  BY DEF IInv, TypeOK, ModeInv
<1>3. WritingInv'
  BY DEF IInv, WritingInv
<1>4. ProgressInv'
  BY DEF IInv, ModeInv, ProgressInv
<1>5. WantedInv'
  BY DEF IInv, ModeInv, WantedInv
<1>6. ValidatedInv'
  BY DEF IInv, ValidatedInv
<1>7. ProvisionedSound'
  BY DEF IInv, ProgressInv, WantedInv, ProvisionedSound
<1> QED
  BY <1>1, <1>2, <1>3, <1>4, <1>5, <1>6, <1>7 DEF IInv

(* The metrics setting is this boot's, or the script ends.                 *)
LEMMA UpdateSambaMetricsIInv == IInv /\ UpdateSambaMetrics => IInv'
<1> SUFFICES ASSUME IInv, UpdateSambaMetrics PROVE IInv'
  OBVIOUS
<1> USE DEF UpdateSambaMetrics, GoTo, Abort, Reconcile
<1>1. TypeOK'
  <2>1. file' \in [File -> Setting \cup {"absent", "torn"}]
    BY DEF IInv, TypeOK
  <2>2. provisioned' \in BOOLEAN /\ krb5' \in BOOLEAN /\ command' \in BOOLEAN
        /\ initDomain' \in BOOLEAN
    BY DEF IInv, TypeOK
  <2>3. rndc' \in {"absent", "root", "bind", "shared"} /\ wanted' \in Setting
        /\ domainLength' \in NameLength /\ faults' \in 0 .. MaxFaults
    BY DEF IInv, TypeOK
  <2>4. pc' \in ActivePC \cup LaunchedPC \cup {"down"}
    BY DEF IInv, TypeOK
  <2>5. todo' \subseteq BindFiles /\ writing' \in File \cup {"none"}
    BY DEF IInv, TypeOK
  <2> QED
    BY <2>1, <2>2, <2>3, <2>4, <2>5 DEF TypeOK
<1>2. ModeInv'
  BY DEF IInv, TypeOK, ModeInv
<1>3. WritingInv'
  BY DEF IInv, TypeOK, WritingInv
<1>4. ProgressInv'
  <2>1. \A f \in File : Exists(f) => Exists(f)'
    BY DEF IInv, TypeOK
  <2>2. UNCHANGED <<krb5, rndc>> /\ pc' \in {"chrony", "down"}
    OBVIOUS
  <2> QED
    BY <2>1, <2>2 DEF IInv, ProgressInv
<1>5. WantedInv'
  BY DEF IInv, TypeOK, WantedInv
<1>6. ValidatedInv'
  BY DEF IInv, TypeOK, ValidatedInv
<1>7. ProvisionedSound'
  BY DEF IInv, TypeOK, ProgressInv, WantedInv, ProvisionedSound
<1> QED
  BY <1>1, <1>2, <1>3, <1>4, <1>5, <1>6, <1>7 DEF IInv

(* The time configuration is kept or written.                              *)
LEMMA ConfigureChronyIInv == IInv /\ ConfigureChrony => IInv'
<1> SUFFICES ASSUME IInv, ConfigureChrony PROVE IInv'
  OBVIOUS
<1> USE DEF ConfigureChrony, GoTo, Keep, Open, Fill
<1>1. TypeOK'
  <2>1. file' \in [File -> Setting \cup {"absent", "torn"}]
    BY DEF IInv, TypeOK
  <2>2. provisioned' \in BOOLEAN /\ krb5' \in BOOLEAN /\ command' \in BOOLEAN
        /\ initDomain' \in BOOLEAN
    BY DEF IInv, TypeOK
  <2>3. rndc' \in {"absent", "root", "bind", "shared"} /\ wanted' \in Setting
        /\ domainLength' \in NameLength /\ faults' \in 0 .. MaxFaults
    BY DEF IInv, TypeOK
  <2>4. pc' \in ActivePC \cup LaunchedPC \cup {"down"}
    BY DEF IInv, TypeOK
  <2>5. todo' \subseteq BindFiles /\ writing' \in File \cup {"none"}
    BY DEF IInv, TypeOK
  <2> QED
    BY <2>1, <2>2, <2>3, <2>4, <2>5 DEF TypeOK
<1>2. ModeInv'
  BY DEF IInv, TypeOK, ModeInv
<1>3. WritingInv'
  BY DEF IInv, TypeOK, WritingInv
<1>4. ProgressInv'
  <2>1. \A f \in File : Exists(f) => Exists(f)'
    BY DEF IInv, TypeOK
  <2>2. krb5' = krb5 /\ rndc' = rndc /\ pc' \in {"chrony", "bind"}
    OBVIOUS
  <2>3. krb5' /\ Exists("smb.conf")'
    BY <2>1, <2>2 DEF IInv, ProgressInv
  <2>4. pc' = "bind" => Exists("chrony.conf")' /\ todo' = BindFiles
    BY DEF IInv, TypeOK
  <2> QED
    BY <2>2, <2>3, <2>4 DEF ProgressInv
<1>5. WantedInv'
  BY DEF IInv, TypeOK, WantedInv
<1>6. ValidatedInv'
  BY DEF IInv, TypeOK, ValidatedInv
<1>7. ProvisionedSound'
  BY DEF IInv, TypeOK, ProgressInv, WantedInv, ProvisionedSound
<1> QED
  BY <1>1, <1>2, <1>3, <1>4, <1>5, <1>6, <1>7 DEF IInv

(* Each BIND file is kept or written, in whatever order.                   *)
LEMMA ConfigureBindIInv == IInv /\ ConfigureBind => IInv'
<1> SUFFICES ASSUME IInv, ConfigureBind PROVE IInv'
  OBVIOUS
<1> USE DEF ConfigureBind, GoTo, Keep, Open, Fill
<1>1. TypeOK'
  <2>1. file' \in [File -> Setting \cup {"absent", "torn"}]
    BY DEF IInv, TypeOK
  <2>2. provisioned' \in BOOLEAN /\ krb5' \in BOOLEAN /\ command' \in BOOLEAN
        /\ initDomain' \in BOOLEAN
    BY DEF IInv, TypeOK
  <2>3. rndc' \in {"absent", "root", "bind", "shared"} /\ wanted' \in Setting
        /\ domainLength' \in NameLength /\ faults' \in 0 .. MaxFaults
    BY DEF IInv, TypeOK
  <2>4. pc' \in ActivePC \cup LaunchedPC \cup {"down"}
    BY DEF IInv, TypeOK
  <2>5. todo' \subseteq BindFiles /\ writing' \in File \cup {"none"}
    BY DEF IInv, TypeOK
  <2> QED
    BY <2>1, <2>2, <2>3, <2>4, <2>5 DEF TypeOK
<1>2. ModeInv'
  BY DEF IInv, TypeOK, ModeInv
<1>3. WritingInv'
  BY DEF IInv, TypeOK, WritingInv
<1>4. ProgressInv'
  <2>1. \A f \in File : Exists(f) => Exists(f)'
    BY DEF IInv, TypeOK
  <2>2. krb5' = krb5 /\ rndc' = rndc /\ pc' \in {"bind", "cluster"}
    OBVIOUS
  <2>3. krb5' /\ Exists("smb.conf")' /\ Exists("chrony.conf")'
    BY <2>1, <2>2 DEF IInv, ProgressInv
  <2>4. pc' = "bind" => \A f \in BindFiles \ todo' : Exists(f)'
    <3> SUFFICES ASSUME pc' = "bind", NEW f \in BindFiles \ todo'
                 PROVE  Exists(f)'
      OBVIOUS
    <3>1. CASE f \notin todo
      BY <2>1, <3>1 DEF IInv, ProgressInv
    <3>2. CASE f \in todo
      <4>1. f \in File /\ (Keep(f) \/ Fill(f))
        BY <3>2
      <4> QED
        BY <4>1 DEF IInv, TypeOK
    <3> QED
      BY <3>1, <3>2
  <2>5. pc' = "cluster" => \A f \in BindFiles : Exists(f)'
    BY <2>1 DEF IInv, TypeOK, ProgressInv
  <2> QED
    BY <2>2, <2>3, <2>4, <2>5
    DEF ProgressInv
<1>5. WantedInv'
  BY DEF IInv, TypeOK, WantedInv
<1>6. ValidatedInv'
  BY DEF IInv, TypeOK, ValidatedInv
<1>7. ProvisionedSound'
  <2>1. \A f \in File : Exists(f) => Exists(f)'
    BY DEF IInv, TypeOK
  <2>2. UNCHANGED <<provisioned, krb5, rndc>>
    OBVIOUS
  <2> QED
    BY <2>1, <2>2 DEF IInv, ProvisionedSound
<1> QED
  BY <1>1, <1>2, <1>3, <1>4, <1>5, <1>6, <1>7 DEF IInv

(* The cluster forwarding is this boot's.                                  *)
LEMMA WriteClusterForwardingIInv == IInv /\ WriteClusterForwarding => IInv'
<1> SUFFICES ASSUME IInv, WriteClusterForwarding PROVE IInv'
  OBVIOUS
<1> USE DEF WriteClusterForwarding, GoTo, Open, Fill
<1>1. TypeOK'
  BY DEF IInv, TypeOK
<1>2. ModeInv'
  BY DEF IInv, TypeOK, ModeInv
<1>3. WritingInv'
  BY DEF IInv, TypeOK, WritingInv
<1>4. ProgressInv'
  BY DEF IInv, TypeOK, ModeInv, ProgressInv
<1>5. WantedInv'
  BY DEF IInv, TypeOK, ModeInv, WantedInv
<1>6. ValidatedInv'
  BY DEF IInv, TypeOK, ValidatedInv
<1>7. ProvisionedSound'
  BY DEF IInv, TypeOK, ProgressInv, WantedInv, ProvisionedSound
<1> QED
  BY <1>1, <1>2, <1>3, <1>4, <1>5, <1>6, <1>7 DEF IInv

(* The key is kept or generated.                                           *)
LEMMA CheckRndcKeyIInv == IInv /\ CheckRndcKey => IInv'
<1> SUFFICES ASSUME IInv, CheckRndcKey PROVE IInv'
  OBVIOUS
<1> USE DEF CheckRndcKey, GoTo
<1>1. TypeOK'
  BY DEF IInv, TypeOK
<1>2. ModeInv'
  BY DEF IInv, TypeOK, ModeInv
<1>3. WritingInv'
  BY DEF IInv, TypeOK, WritingInv
<1>4. ProgressInv'
  BY DEF IInv, ModeInv, ProgressInv
<1>5. WantedInv'
  BY DEF IInv, ModeInv, WantedInv
<1>6. ValidatedInv'
  BY DEF IInv, ValidatedInv
<1>7. ProvisionedSound'
  BY DEF IInv, ProgressInv, WantedInv, ProvisionedSound
<1> QED
  BY <1>1, <1>2, <1>3, <1>4, <1>5, <1>6, <1>7 DEF IInv

(* The key is given away.                                                  *)
LEMMA ChownRndcKeyIInv == IInv /\ ChownRndcKey => IInv'
<1> SUFFICES ASSUME IInv, ChownRndcKey PROVE IInv'
  OBVIOUS
<1> USE DEF ChownRndcKey, GoTo
<1>1. TypeOK'
  BY DEF IInv, TypeOK
<1>2. ModeInv'
  BY DEF IInv, TypeOK, ModeInv
<1>3. WritingInv'
  BY DEF IInv, TypeOK, WritingInv
<1>4. ProgressInv'
  BY DEF IInv, ModeInv, ProgressInv
<1>5. WantedInv'
  BY DEF IInv, ModeInv, WantedInv
<1>6. ValidatedInv'
  BY DEF IInv, ValidatedInv
<1>7. ProvisionedSound'
  BY DEF IInv, ProgressInv, WantedInv, ProvisionedSound
<1> QED
  BY <1>1, <1>2, <1>3, <1>4, <1>5, <1>6, <1>7 DEF IInv

(* The key is opened to its group.                                         *)
LEMMA ChmodRndcKeyIInv == IInv /\ ChmodRndcKey => IInv'
<1> SUFFICES ASSUME IInv, ChmodRndcKey PROVE IInv'
  OBVIOUS
<1> USE DEF ChmodRndcKey, GoTo
<1>1. TypeOK'
  BY DEF IInv, TypeOK
<1>2. ModeInv'
  BY DEF IInv, TypeOK, ModeInv
<1>3. WritingInv'
  BY DEF IInv, TypeOK, WritingInv
<1>4. ProgressInv'
  BY DEF IInv, ModeInv, ProgressInv
<1>5. WantedInv'
  BY DEF IInv, ModeInv, WantedInv
<1>6. ValidatedInv'
  BY DEF IInv, ValidatedInv
<1>7. ProvisionedSound'
  BY DEF IInv, ProgressInv, WantedInv, ProvisionedSound
<1> QED
  BY <1>1, <1>2, <1>3, <1>4, <1>5, <1>6, <1>7 DEF IInv

(* The Kea files are kept or written.                                      *)
LEMMA ConfigureKeaIInv == IInv /\ ConfigureKea => IInv'
<1> SUFFICES ASSUME IInv, ConfigureKea PROVE IInv'
  OBVIOUS
<1> USE DEF ConfigureKea, GoTo, Keep, Open, Fill, WriteIfMissing
<1>1. TypeOK'
  <2>1. file' \in [File -> Setting \cup {"absent", "torn"}]
    BY DEF IInv, TypeOK
  <2>2. provisioned' \in BOOLEAN /\ krb5' \in BOOLEAN /\ command' \in BOOLEAN
        /\ initDomain' \in BOOLEAN
    BY DEF IInv, TypeOK
  <2>3. rndc' \in {"absent", "root", "bind", "shared"} /\ wanted' \in Setting
        /\ domainLength' \in NameLength /\ faults' \in 0 .. MaxFaults
    BY DEF IInv, TypeOK
  <2>4. pc' \in ActivePC \cup LaunchedPC \cup {"down"}
    BY DEF IInv, TypeOK
  <2>5. todo' \subseteq BindFiles /\ writing' \in File \cup {"none"}
    BY DEF IInv, TypeOK
  <2> QED
    BY <2>1, <2>2, <2>3, <2>4, <2>5 DEF TypeOK
<1>2. ModeInv'
  BY DEF IInv, TypeOK, ModeInv
<1>3. WritingInv'
  BY DEF IInv, TypeOK, WritingInv
<1>4. ProgressInv'
  BY DEF IInv, TypeOK, ModeInv, ProgressInv
<1>5. WantedInv'
  BY DEF IInv, TypeOK, ModeInv, WantedInv
<1>6. ValidatedInv'
  BY DEF IInv, TypeOK, ValidatedInv
<1>7. ProvisionedSound'
  BY DEF IInv, TypeOK, ProgressInv, WantedInv, ProvisionedSound
<1> QED
  BY <1>1, <1>2, <1>3, <1>4, <1>5, <1>6, <1>7 DEF IInv

(* The forwarders are this boot's, or the script ends.                     *)
LEMMA UpdateBindForwardersIInv == IInv /\ UpdateBindForwarders => IInv'
<1> SUFFICES ASSUME IInv, UpdateBindForwarders PROVE IInv'
  OBVIOUS
<1> USE DEF UpdateBindForwarders, GoTo, Abort, Reconcile
<1>1. TypeOK'
  <2>1. file' \in [File -> Setting \cup {"absent", "torn"}]
    BY DEF IInv, TypeOK
  <2>2. provisioned' \in BOOLEAN /\ krb5' \in BOOLEAN /\ command' \in BOOLEAN
        /\ initDomain' \in BOOLEAN
    BY DEF IInv, TypeOK
  <2>3. rndc' \in {"absent", "root", "bind", "shared"} /\ wanted' \in Setting
        /\ domainLength' \in NameLength /\ faults' \in 0 .. MaxFaults
    BY DEF IInv, TypeOK
  <2>4. pc' \in ActivePC \cup LaunchedPC \cup {"down"}
    BY DEF IInv, TypeOK
  <2>5. todo' \subseteq BindFiles /\ writing' \in File \cup {"none"}
    BY DEF IInv, TypeOK
  <2> QED
    BY <2>1, <2>2, <2>3, <2>4, <2>5 DEF TypeOK
<1>2. ModeInv'
  BY DEF IInv, TypeOK, ModeInv
<1>3. WritingInv'
  BY DEF IInv, TypeOK, WritingInv
<1>4. ProgressInv'
  <2>1. \A f \in File : Exists(f) => Exists(f)'
    BY DEF IInv, TypeOK
  <2>2. UNCHANGED <<krb5, rndc>> /\ pc' \in {"pool", "down"}
    OBVIOUS
  <2> QED
    BY <2>1, <2>2 DEF IInv, ProgressInv
<1>5. WantedInv'
  BY DEF IInv, TypeOK, WantedInv
<1>6. ValidatedInv'
  BY DEF IInv, TypeOK, ValidatedInv
<1>7. ProvisionedSound'
  BY DEF IInv, TypeOK, ProgressInv, WantedInv, ProvisionedSound
<1> QED
  BY <1>1, <1>2, <1>3, <1>4, <1>5, <1>6, <1>7 DEF IInv

(* The pool is this boot's, or the script ends.                            *)
LEMMA UpdateKeaDHCPPoolIInv == IInv /\ UpdateKeaDHCPPool => IInv'
<1> SUFFICES ASSUME IInv, UpdateKeaDHCPPool PROVE IInv'
  OBVIOUS
<1> USE DEF UpdateKeaDHCPPool, GoTo, Abort, Reconcile
<1>1. TypeOK'
  <2>1. file' \in [File -> Setting \cup {"absent", "torn"}]
    BY DEF IInv, TypeOK
  <2>2. provisioned' \in BOOLEAN /\ krb5' \in BOOLEAN /\ command' \in BOOLEAN
        /\ initDomain' \in BOOLEAN
    BY DEF IInv, TypeOK
  <2>3. rndc' \in {"absent", "root", "bind", "shared"} /\ wanted' \in Setting
        /\ domainLength' \in NameLength /\ faults' \in 0 .. MaxFaults
    BY DEF IInv, TypeOK
  <2>4. pc' \in ActivePC \cup LaunchedPC \cup {"down"}
    BY DEF IInv, TypeOK
  <2>5. todo' \subseteq BindFiles /\ writing' \in File \cup {"none"}
    BY DEF IInv, TypeOK
  <2> QED
    BY <2>1, <2>2, <2>3, <2>4, <2>5 DEF TypeOK
<1>2. ModeInv'
  BY DEF IInv, TypeOK, ModeInv
<1>3. WritingInv'
  BY DEF IInv, TypeOK, WritingInv
<1>4. ProgressInv'
  <2>1. \A f \in File : Exists(f) => Exists(f)'
    BY DEF IInv, TypeOK
  <2>2. UNCHANGED <<krb5, rndc>> /\ pc' \in {"agentEnv", "down"}
    OBVIOUS
  <2> QED
    BY <2>1, <2>2 DEF IInv, ProgressInv
<1>5. WantedInv'
  BY DEF IInv, TypeOK, WantedInv
<1>6. ValidatedInv'
  BY DEF IInv, TypeOK, ValidatedInv
<1>7. ProvisionedSound'
  BY DEF IInv, TypeOK, ProgressInv, WantedInv, ProvisionedSound
<1> QED
  BY <1>1, <1>2, <1>3, <1>4, <1>5, <1>6, <1>7 DEF IInv

(* The agent's environment is kept or written.                             *)
LEMMA WriteStorkAgentEnvironmentIInv ==
  IInv /\ WriteStorkAgentEnvironment => IInv'
<1> SUFFICES ASSUME IInv, WriteStorkAgentEnvironment PROVE IInv'
  OBVIOUS
<1> USE DEF WriteStorkAgentEnvironment, GoTo, Keep, Open, Fill,
            WriteIfMissing
<1>1. TypeOK'
  <2>1. file' \in [File -> Setting \cup {"absent", "torn"}]
    BY DEF IInv, TypeOK
  <2>2. provisioned' \in BOOLEAN /\ krb5' \in BOOLEAN /\ command' \in BOOLEAN
        /\ initDomain' \in BOOLEAN
    BY DEF IInv, TypeOK
  <2>3. rndc' \in {"absent", "root", "bind", "shared"} /\ wanted' \in Setting
        /\ domainLength' \in NameLength /\ faults' \in 0 .. MaxFaults
    BY DEF IInv, TypeOK
  <2>4. pc' \in ActivePC \cup LaunchedPC \cup {"down"}
    BY DEF IInv, TypeOK
  <2>5. todo' \subseteq BindFiles /\ writing' \in File \cup {"none"}
    BY DEF IInv, TypeOK
  <2> QED
    BY <2>1, <2>2, <2>3, <2>4, <2>5 DEF TypeOK
<1>2. ModeInv'
  BY DEF IInv, TypeOK, ModeInv
<1>3. WritingInv'
  BY DEF IInv, TypeOK, WritingInv
<1>4. ProgressInv'
  <2>1. \A f \in File : Exists(f) => Exists(f)'
    BY DEF IInv, TypeOK
  <2>2. krb5' = krb5 /\ rndc' = rndc /\ pc' \in {"agentEnv", "sentinel"}
    OBVIOUS
  <2>3. krb5' /\ rndc' # "absent"
    BY <2>2 DEF IInv, ProgressInv
  <2>4. \A f \in File \ {"agent.env"} : f # "named.conf.cluster" => Exists(f)'
    BY <2>1 DEF IInv, ProgressInv
  <2>5. pc' = "sentinel" => Exists("agent.env")'
    BY DEF IInv, TypeOK
  <2> QED
    BY <2>2, <2>3, <2>4, <2>5
    DEF ProgressInv
<1>5. WantedInv'
  BY DEF IInv, TypeOK, WantedInv
<1>6. ValidatedInv'
  BY DEF IInv, TypeOK, ValidatedInv
<1>7. ProvisionedSound'
  BY DEF IInv, TypeOK, ProgressInv, WantedInv, ProvisionedSound
<1> QED
  BY <1>1, <1>2, <1>3, <1>4, <1>5, <1>6, <1>7 DEF IInv

(* The sentinel is set when everything before it was passed.               *)
LEMMA TouchSentinelIInv == IInv /\ TouchSentinel => IInv'
<1> SUFFICES ASSUME IInv, TouchSentinel PROVE IInv'
  OBVIOUS
<1> USE DEF TouchSentinel, GoTo
<1>1. TypeOK'
  BY DEF IInv, TypeOK
<1>2. ModeInv'
  BY DEF IInv, TypeOK, ModeInv
<1>3. WritingInv'
  BY DEF IInv, TypeOK, WritingInv
<1>4. ProgressInv'
  BY DEF IInv, ModeInv, ProgressInv
<1>5. WantedInv'
  BY DEF IInv, ModeInv, WantedInv
<1>6. ValidatedInv'
  BY DEF IInv, ValidatedInv
<1>7. ProvisionedSound'
  BY DEF IInv, TypeOK, ProgressInv, WantedInv, ProvisionedSound
<1> QED
  BY <1>1, <1>2, <1>3, <1>4, <1>5, <1>6, <1>7 DEF IInv

(* The launch follows a validation that found nothing torn.                *)
LEMMA ValidateIInv == IInv /\ Validate => IInv'
<1> SUFFICES ASSUME IInv, Validate PROVE IInv'
  OBVIOUS
<1> USE DEF Validate, GoTo, Abort
<1>1. TypeOK'
  <2>1. file' \in [File -> Setting \cup {"absent", "torn"}]
    BY DEF IInv, TypeOK
  <2>2. provisioned' \in BOOLEAN /\ krb5' \in BOOLEAN /\ command' \in BOOLEAN
        /\ initDomain' \in BOOLEAN
    BY DEF IInv, TypeOK
  <2>3. rndc' \in {"absent", "root", "bind", "shared"} /\ wanted' \in Setting
        /\ domainLength' \in NameLength /\ faults' \in 0 .. MaxFaults
    BY DEF IInv, TypeOK
  <2>4. pc' \in ActivePC \cup LaunchedPC \cup {"down"}
    BY DEF IInv, TypeOK
  <2>5. todo' \subseteq BindFiles /\ writing' \in File \cup {"none"}
    BY DEF IInv, TypeOK
  <2> QED
    BY <2>1, <2>2, <2>3, <2>4, <2>5 DEF TypeOK
<1>2. ModeInv'
  BY DEF IInv, TypeOK, ModeInv
<1>3. WritingInv'
  BY DEF IInv, WritingInv
<1>4. ProgressInv'
  BY DEF IInv, ModeInv, ProgressInv
<1>5. WantedInv'
  BY DEF IInv, ModeInv, WantedInv
<1>6. ValidatedInv'
  BY DEF IInv, ValidatedInv
<1>7. ProvisionedSound'
  BY DEF IInv, ProgressInv, WantedInv, ProvisionedSound
<1> QED
  BY <1>1, <1>2, <1>3, <1>4, <1>5, <1>6, <1>7 DEF IInv

(* Every step preserves the inductive invariant.                           *)
LEMMA NextIInv == IInv /\ [Next]_vars => IInv'
<1> SUFFICES ASSUME IInv, [Next]_vars PROVE IInv'
  OBVIOUS
<1>1. CASE UNCHANGED vars
  <2> USE <1>1 DEF vars
  <2>1. TypeOK' /\ ModeInv' /\ WritingInv' /\ ProgressInv'
    BY DEF IInv, TypeOK, ModeInv, WritingInv, ProgressInv
  <2>2. WantedInv' /\ ValidatedInv' /\ ProvisionedSound'
    BY DEF IInv, WantedInv, ValidatedInv, ProvisionedSound
  <2> QED
    BY <2>1, <2>2 DEF IInv
<1>2. CASE RunScript
  BY <1>2, ChecksIInv, RefuseNameIInv, CheckSmbConfIInv, ProvisionConfIInv,
     ProvisionDomainIInv, ConfigureKerberosIInv, UpdateSambaMetricsIInv,
     ConfigureChronyIInv, ConfigureBindIInv, WriteClusterForwardingIInv,
     CheckRndcKeyIInv, ChownRndcKeyIInv, ChmodRndcKeyIInv, ConfigureKeaIInv,
     UpdateBindForwardersIInv, UpdateKeaDHCPPoolIInv,
     WriteStorkAgentEnvironmentIInv, TouchSentinelIInv, ValidateIInv
  DEF RunScript
<1> QED
  BY <1>1, <1>2, BootIInv, InterruptIInv, RestartIInv DEF Next

(* Every reachable state satisfies the inductive invariant: whatever the   *)
(* interruptions of entrypoint.sh, a label can rely on what precedes it.   *)
THEOREM Invariance == Spec => []IInv
  BY InitIInv, NextIInv, PTL DEF Spec

(* The state keeps its types.                                              *)
THEOREM TypeCorrect == Spec => []TypeOK
<1>1. IInv => TypeOK
  BY DEF IInv
<1> QED
  BY <1>1, Invariance, PTL

(* .dib-provisioned means that everything the first setup writes exists.   *)
THEOREM SetUpSound == Spec => []ProvisionedSound
<1>1. IInv => ProvisionedSound
  BY DEF IInv
<1> QED
  BY <1>1, Invariance, PTL

(* supervisord is launched on a complete configuration, or one that an     *)
(* interruption damaged in one of the three windows.                       *)
THEOREM LaunchSound == Spec => []LaunchedComplete
<1>1. IInv => LaunchedComplete
  <2> SUFFICES ASSUME IInv, pc = "running"
               PROVE  /\ provisioned
                      /\ \A f \in Checked : file[f] \in Setting
                      /\ \/ Damaged
                         \/ /\ \A f \in File : file[f] \in Setting
                            /\ krb5
                            /\ rndc = "shared"
    BY DEF LaunchedComplete
    <2>1. provisioned /\ krb5 /\ rndc # "absent"
    BY DEF IInv, ModeInv, ProvisionedSound
  <2>2. \A f \in File : file[f] # "absent"
    BY <2>1 DEF IInv, ProvisionedSound
  <2>3. writing = "none"
    BY DEF IInv, WritingInv
  <2>4. file["smb.conf"] \in Setting /\ file["named.conf.cluster"] \in Setting
    BY <2>2 DEF IInv, TypeOK, WritingInv, WantedInv
  <2>5. \A f \in Checked : file[f] \in Setting
    BY <2>2 DEF IInv, TypeOK, ValidatedInv
  <2>6. ASSUME ~Damaged
        PROVE  (\A f \in File : file[f] \in Setting) /\ rndc = "shared"
    <3>1. \A f \in OnceFiles : file[f] # "torn"
      BY <2>3, <2>6 DEF Damaged, TornFile
    <3>2. rndc = "shared"
      BY <2>1, <2>6 DEF Damaged, KeyUnreadable, IInv, TypeOK
    <3>3. ASSUME NEW f \in OnceFiles PROVE file[f] \in Setting
      BY <2>2, <3>1 DEF IInv, TypeOK
    <3> QED
      BY <2>4, <3>2, <3>3
  <2> QED
    BY <2>1, <2>5, <2>6
<1> QED
  BY <1>1, Invariance, PTL

(* A launch that did not set the domain up has this boot's settings.       *)
THEOREM SettingsApplied == Spec => []SettingsReconciled
<1>1. IInv => SettingsReconciled
  BY DEF IInv, WantedInv, SettingsReconciled
<1> QED
  BY <1>1, Invariance, PTL

(* What an interruption damaged stays damaged: no action gives smb.conf    *)
(* another provisioning, a torn file its contents or the key its owner.    *)
LEMMA DamagedStep == IInv /\ [Next]_vars => (Damaged => Damaged')
<1> SUFFICES ASSUME IInv, [Next]_vars, Damaged PROVE Damaged'
  OBVIOUS
<1> USE DEF Next, RunScript, Boot, Interrupt, Restart, Abort, GoTo, Checks,
            RefuseName, CheckSmbConf, ProvisionConf, ProvisionDomain,
            ConfigureKerberos, Reconcile, UpdateSambaMetrics, Open, Fill,
            Keep, WriteIfMissing, ConfigureChrony, ConfigureBind,
            WriteClusterForwarding, CheckRndcKey, ChownRndcKey, ChmodRndcKey,
            ConfigureKea, UpdateBindForwarders, UpdateKeaDHCPPool,
            WriteStorkAgentEnvironment, TouchSentinel, Validate, vars
<1>1. ASSUME HalfProvisioned PROVE HalfProvisioned'
  BY <1>1 DEF HalfProvisioned, IInv, TypeOK, ModeInv
<1>2. ASSUME NEW f \in OnceFiles, file[f] = "torn", writing # f
      PROVE  file'[f] = "torn" /\ writing' # f
  BY <1>2 DEF IInv, TypeOK, WritingInv
<1>3. ASSUME KeyUnreadable PROVE KeyUnreadable'
  BY <1>3 DEF KeyUnreadable
<1>4. TornFile => TornFile'
  BY <1>2 DEF TornFile
<1> QED
  BY <1>1, <1>3, <1>4 DEF Damaged

(* Damage is permanent: what decides whether to write, provision or own is *)
(* that the file exists.                                                   *)
THEOREM DamagePermanent == Spec => DamageIsPermanent
  BY Invariance, DamagedStep, PTL DEF DamageIsPermanent, Spec

(* What the script does by itself, uninterrupted, does no damage: it gets  *)
(* to the end of the provisioning, of each file and of the key.            *)
LEMMA UndisturbedStep ==
  ASSUME IInv, [Next]_vars, ~Interrupt, Damaged'
  PROVE  Damaged
<1> USE DEF Next, RunScript, Boot, Restart, Abort, GoTo, Checks,
            RefuseName, CheckSmbConf, ProvisionConf, ProvisionDomain,
            ConfigureKerberos, Reconcile, UpdateSambaMetrics, Open, Fill,
            Keep, WriteIfMissing, ConfigureChrony, ConfigureBind,
            WriteClusterForwarding, CheckRndcKey, ChownRndcKey, ChmodRndcKey,
            ConfigureKea, UpdateBindForwarders, UpdateKeaDHCPPool,
            WriteStorkAgentEnvironment, TouchSentinel, Validate, vars
<1>1. ASSUME HalfProvisioned' PROVE HalfProvisioned
  BY <1>1 DEF HalfProvisioned, IInv, TypeOK, ModeInv
<1>2. ASSUME NEW f \in OnceFiles, file'[f] = "torn", writing' # f
      PROVE  file[f] = "torn" /\ writing # f
  BY <1>2 DEF IInv, TypeOK, WritingInv
<1>3. ASSUME KeyUnreadable' PROVE KeyUnreadable
  BY <1>3 DEF KeyUnreadable
<1>4. TornFile' => TornFile
  BY <1>2 DEF TornFile
<1> QED
  BY <1>1, <1>3, <1>4 DEF Damaged

(* An interruption does damage in one of three windows only.               *)
LEMMA DamagingInterrupt ==
  ASSUME Interrupt, Damaged', ~Damaged
  PROVE  pc \in {"fillDomain", "rndcChown", "rndcChmod"} \/ writing # "none"
<1>1. UNCHANGED disk /\ pc' = "down" /\ writing' = "none"
  BY DEF Interrupt
<1>2. ASSUME HalfProvisioned', pc # "fillDomain" PROVE HalfProvisioned
  BY <1>1, <1>2 DEF HalfProvisioned, disk, Exists
<1>3. ASSUME TornFile', writing = "none" PROVE TornFile
  BY <1>1, <1>3 DEF TornFile, disk
<1>4. ASSUME KeyUnreadable', pc \notin {"rndcChown", "rndcChmod"} PROVE KeyUnreadable
  BY <1>1, <1>4 DEF KeyUnreadable, disk
<1> QED
  BY <1>2, <1>3, <1>4 DEF Damaged

(* Damage is done by interruptions alone, and by those in three windows:   *)
(* all else, however often and in whatever environment the container is    *)
(* started, leaves what a later boot can build on.                         *)
THEOREM DamageNeedsInterruption == Spec => OnlyInterruptionsDamage
<1>1. IInv /\ [Next]_vars =>
        (~Damaged /\ Damaged' =>
           /\ faults' = faults + 1
           /\ \/ pc \in {"fillDomain", "rndcChown", "rndcChmod"}
              \/ writing # "none")
  <2> SUFFICES ASSUME IInv, [Next]_vars, ~Damaged, Damaged'
               PROVE  /\ faults' = faults + 1
                      /\ \/ pc \in {"fillDomain", "rndcChown", "rndcChmod"}
                         \/ writing # "none"
    OBVIOUS
  <2>1. Interrupt
    BY UndisturbedStep
  <2> QED
    BY <2>1, DamagingInterrupt DEF Interrupt
<1> QED
  BY <1>1, Invariance, PTL DEF OnlyInterruptionsDamage, Spec

(* A managed file without its value was torn by an interruption.           *)
LEMMA ReconciledOrTorn ==
  ASSUME IInv, NEW f \in Managed, file[f] \notin Setting, Exists(f), writing = "none"
  PROVE  Damaged
<1>1. file[f] = "torn"
  BY DEF IInv, TypeOK
<1>2. f \in OnceFiles
  BY <1>1 DEF IInv, WritingInv
<1> QED
  BY <1>1, <1>2 DEF Damaged, TornFile

(* The script ends early on damage and on a missing name, not otherwise.   *)
LEMMA AbortStep ==
  ASSUME IInv, RunScript, pc' = "down"
  PROVE  Damaged \/ domainLength = 0
<1> USE DEF GoTo
<1>1. CASE RefuseName
  BY <1>1 DEF RefuseName, Refused, ExpansionFails
<1>2. CASE ConfigureKerberos
  <2>1. pc = "kerberos" /\ ~krb5
    BY <1>2 DEF ConfigureKerberos
  <2> QED
    BY <2>1 DEF IInv, ProgressInv, Damaged, HalfProvisioned
<1>3. CASE UpdateSambaMetrics
  <2>1. pc = "metrics" /\ file["smb.conf"] \notin Setting
    BY <1>3 DEF UpdateSambaMetrics, Reconcile
  <2>2. Exists("smb.conf") /\ writing = "none"
    BY <2>1 DEF IInv, ProgressInv, WritingInv
  <2> QED
    BY <2>1, <2>2, ReconciledOrTorn
<1>4. CASE UpdateBindForwarders
  <2>1. pc = "forwarders" /\ file["named.conf.options"] \notin Setting
    BY <1>4 DEF UpdateBindForwarders, Reconcile
  <2>2. Exists("named.conf.options") /\ writing = "none"
    BY <2>1 DEF IInv, ProgressInv, WritingInv
  <2> QED
    BY <2>1, <2>2, ReconciledOrTorn
<1>5. CASE UpdateKeaDHCPPool
  <2>1. pc = "pool" /\ file["kea-dhcp4.conf"] \notin Setting
    BY <1>5 DEF UpdateKeaDHCPPool, Reconcile
  <2>2. Exists("kea-dhcp4.conf") /\ writing = "none"
    BY <2>1 DEF IInv, ProgressInv, WritingInv
  <2> QED
    BY <2>1, <2>2, ReconciledOrTorn
<1>6. CASE Validate
  <2>1. pc = "validate" /\ \E f \in Checked : file[f] = "torn"
    BY <1>6 DEF Validate
  <2>2. writing = "none"
    BY <2>1 DEF IInv, WritingInv
  <2> QED
    BY <2>1, <2>2 DEF Damaged, TornFile
<1>7. ~(Checks \/ CheckSmbConf \/ ProvisionConf \/ ProvisionDomain)
  BY DEF Checks, CheckSmbConf, ProvisionConf, ProvisionDomain
<1>8. ~(ConfigureChrony \/ ConfigureBind \/ WriteClusterForwarding)
  BY DEF ConfigureChrony, ConfigureBind, WriteClusterForwarding, Open
<1>9. ~(CheckRndcKey \/ ChownRndcKey \/ ChmodRndcKey)
  BY DEF CheckRndcKey, ChownRndcKey, ChmodRndcKey
<1>10. ~(ConfigureKea \/ WriteStorkAgentEnvironment \/ TouchSentinel)
  BY DEF ConfigureKea, WriteStorkAgentEnvironment, TouchSentinel, WriteIfMissing, Open
<1> QED
  BY <1>1, <1>2, <1>3, <1>4, <1>5, <1>6, <1>7, <1>8, <1>9, <1>10 DEF RunScript

(* The script never fails on what it set up itself: an end before the      *)
(* launch is an interruption, damage an earlier one did, or a missing name.*)
THEOREM AbortNeedsDamage == Spec => OnlyDamageAborts
<1>1. IInv /\ [Next]_vars =>
        (pc' = "down" /\ pc \in ActivePC =>
           faults' = faults + 1 \/ Damaged \/ domainLength = 0)
  BY AbortStep DEF Next, Boot, Interrupt, Restart, vars
<1> QED
  BY <1>1, Invariance, PTL DEF OnlyDamageAborts, Spec

(* Steps of the script that open or close no file.                          *)
LEMMA PlainStepNearer ==
  ASSUME IInv, pc \in ActivePC \ {"bind"}, pc' # "bind", writing = "none",
         writing' = "none", pc' \in ActivePC \cup LaunchedPC \cup {"down"},
         LeftAt[pc'] < LeftAt[pc]
  PROVE  Left \in 1 .. 32 /\ Left' \in 0 .. Left - 1
  BY DEF Left, LeftAt

(* A file outside the map of BIND files is opened, then filled, or kept.    *)
LEMMA WriteIfMissingNearer ==
  ASSUME IInv, NEW f \in {"kea-dhcp4.conf", "kea-dhcp-ddns.conf", "agent.env"},
         pc \in {"dhcp4", "ddns", "agentEnv"}, NEW next, WriteIfMissing(f, next),
         next \in {"ddns", "forwarders", "agentEnv", "sentinel"},
         LeftAt[next] + 2 <= LeftAt[pc]
  PROVE  Left \in 1 .. 32 /\ Left' \in 0 .. Left - 1
<1> USE DEF Left, LeftAt
<1>1. CASE Keep(f) /\ GoTo(next)
  BY <1>1 DEF Keep, GoTo
<1>2. CASE Open(f)
  BY <1>2 DEF Open
<1>3. CASE Fill(f) /\ GoTo(next)
  BY <1>3 DEF Fill, GoTo
<1> QED
  BY <1>1, <1>2, <1>3 DEF WriteIfMissing

(* chrony.conf is followed by the four BIND files.                         *)
LEMMA ChronyNearer ==
  ASSUME IInv, ConfigureChrony
  PROVE  Left \in 1 .. 32 /\ Left' \in 0 .. Left - 1
<1> USE DEF Left, LeftAt, ConfigureChrony, GoTo
<1>1. CASE Keep("chrony.conf")
  BY <1>1 DEF Keep
<1>2. CASE Open("chrony.conf")
  BY <1>2 DEF Open
<1>3. CASE Fill("chrony.conf")
  <2>1. /\ pc = "chrony" /\ writing = "chrony.conf"
        /\ pc' = "bind" /\ writing' = "none" /\ todo' = BindFiles
    BY <1>3 DEF Fill, Keep, Open
  <2>2. Left = 25
    BY <2>1
  <2>3. Left' = 24
    BY <2>1
  <2> QED
    BY <2>2, <2>3
<1> QED
  BY <1>1, <1>2, <1>3

(* Each BIND file is left behind, and then their handler's part is.        *)
LEMMA BindNearer ==
  ASSUME IInv, ConfigureBind
  PROVE  Left \in 1 .. 32 /\ Left' \in 0 .. Left - 1
<1> USE DEF Left, LeftAt, GoTo
<1>1. pc = "bind" /\ todo \subseteq BindFiles
  BY DEF ConfigureBind, IInv, TypeOK
<1>2. ASSUME NEW f \in todo, Keep(f) \/ Fill(f), GoTo("bind"), todo' = todo \ {f}
      PROVE  Left \in 1 .. 32 /\ Left' \in 0 .. Left - 1
  BY <1>1, <1>2 DEF Keep, Fill
<1>3. ASSUME NEW f \in todo, Open(f), UNCHANGED todo
      PROVE  Left \in 1 .. 32 /\ Left' \in 0 .. Left - 1
  BY <1>1, <1>3 DEF Open
<1>4. CASE todo = {} /\ GoTo("cluster") /\ UNCHANGED writing
  BY <1>1, <1>4 DEF IInv, WritingInv
<1> QED
  BY <1>2, <1>3, <1>4 DEF ConfigureBind

(* No script goes round in circles: whatever is missing or was left behind *)
(* by an earlier one, it is launched or has failed within 32 steps.        *)
THEOREM ScriptsEnd == Spec => ScriptEnds
<1>1. ASSUME IInv, [Next]_vars, pc \in ActivePC, ~UNCHANGED vars
      PROVE  Left \in 1 .. 32 /\ Left' \in 0 .. Left - 1
  <2> USE <1>1 DEF GoTo
  <2>1. CASE Interrupt \/ RefuseName
    BY <2>1 DEF Interrupt, RefuseName, Abort, Left, LeftAt, IInv, WritingInv
  <2>2. CASE Checks \/ CheckSmbConf \/ ProvisionConf \/ ProvisionDomain
    BY <2>2, PlainStepNearer
    DEF Checks, CheckSmbConf, ProvisionConf, ProvisionDomain, LeftAt, IInv, WritingInv
  <2>3. CASE ConfigureKerberos \/ UpdateSambaMetrics
    BY <2>3, PlainStepNearer
    DEF ConfigureKerberos, UpdateSambaMetrics, Reconcile, Abort, LeftAt, IInv, WritingInv
  <2>4. CASE UpdateBindForwarders \/ UpdateKeaDHCPPool
    BY <2>4, PlainStepNearer
    DEF UpdateBindForwarders, UpdateKeaDHCPPool, Reconcile, Abort, LeftAt, IInv, WritingInv
  <2>5. CASE ConfigureChrony \/ ConfigureBind
    BY <2>5, ChronyNearer, BindNearer
  <2>6. CASE WriteClusterForwarding
    BY <2>6 DEF WriteClusterForwarding, Open, Fill, Left, LeftAt
  <2>7. CASE CheckRndcKey \/ ChownRndcKey \/ ChmodRndcKey
    BY <2>7, PlainStepNearer
    DEF CheckRndcKey, ChownRndcKey, ChmodRndcKey, LeftAt, IInv, WritingInv
  <2>8. CASE ConfigureKea
    BY <2>8, WriteIfMissingNearer DEF ConfigureKea, LeftAt
  <2>9. CASE WriteStorkAgentEnvironment
    BY <2>9, WriteIfMissingNearer DEF WriteStorkAgentEnvironment, LeftAt
  <2>10. CASE TouchSentinel \/ Validate
    BY <2>10, PlainStepNearer
    DEF TouchSentinel, Validate, Abort, LeftAt, IInv, WritingInv
  <2> QED
    BY <2>1, <2>2, <2>3, <2>4, <2>5, <2>6, <2>7, <2>8, <2>9, <2>10
    DEF Next, RunScript, Boot, Restart
<1>2. IInv /\ [Next]_vars =>
        [(pc \in ActivePC) => Left \in 1 .. 32 /\ Left' \in 0 .. Left - 1]_vars
  BY <1>1
<1> QED
  BY <1>2, Invariance, PTL DEF ScriptEnds, Spec

(* A step changes a whole file only by reconciling a managed value.        *)
LEMMA PreservedStep ==
  IInv /\ [Next]_vars =>
    \A f \in OnceFiles : file[f] \in Setting =>
      \/ file'[f] = file[f]
      \/ f \in Managed /\ ~initDomain /\ file'[f] = wanted
<1> SUFFICES ASSUME IInv, [Next]_vars,
                    NEW f \in OnceFiles, file[f] \in Setting
             PROVE  \/ file'[f] = file[f]
                    \/ f \in Managed /\ ~initDomain /\ file'[f] = wanted
  OBVIOUS
<1> USE DEF Next, RunScript, Boot, Interrupt, Restart, Abort, GoTo, Checks,
            RefuseName, CheckSmbConf, ProvisionConf, ProvisionDomain,
            ConfigureKerberos, Reconcile, UpdateSambaMetrics, Open, Fill,
            Keep, WriteIfMissing, ConfigureChrony, ConfigureBind,
            WriteClusterForwarding, CheckRndcKey, ChownRndcKey, ChmodRndcKey,
            ConfigureKea, UpdateBindForwarders, UpdateKeaDHCPPool,
            WriteStorkAgentEnvironment, TouchSentinel, Validate, vars
<1>1. writing # f
  BY DEF IInv, WritingInv
<1>2. CASE UpdateSambaMetrics \/ UpdateBindForwarders \/ UpdateKeaDHCPPool
  BY <1>2 DEF IInv, TypeOK, ModeInv
<1>3. CASE ~(UpdateSambaMetrics \/ UpdateBindForwarders \/ UpdateKeaDHCPPool)
  BY <1>1, <1>3 DEF IInv, TypeOK
<1> QED
  BY <1>2, <1>3

(* Existing configuration files are preserved but for their managed value, *)
(* and the boots that write it are those that do not set the domain up.    *)
THEOREM ConfigurationKept == Spec => ConfigurationPreserved
  BY Invariance, PreservedStep, PTL DEF ConfigurationPreserved, Spec

=============================================================================
