---------------------------- MODULE ServerProofs ----------------------------
(***************************************************************************)
(* Theorems about the Stork server's container, StorkServer.tla, and about  *)
(* the database service, Database.tla: for any passwords, any names of      *)
(* versions, and any number of operations, changes and faults.             *)
(*                                                                         *)
(* The version is chosen in a pass over the names. What that computes is    *)
(* proved by induction on their number, and induction by way of a smallest  *)
(* counterexample: the set of those has a least element.                   *)
(***************************************************************************)
EXTENDS StorkServer, Database, WellFoundedInduction, TLAPS

USE StorkAssumption DEF environment, operator, tls, file, program, counts,
    Hosts, Ports, PC, Line, Host, Port, TLS, LDAPPassword,
    storkTLSSettings

(* The database a setting asks for is one of those there are.              *)
LEMMA EndpointType ==
  ASSUME NEW h \in Hosts \cup {"unset", "cut"}, NEW p \in Ports \cup {"unset", "cut"}
  PROVE  /\ Endpoint(h, p) \in (Hosts \cup {"cut"}) \X (Ports \cup {"cut"})
         /\ Endpoint(h, p)[Host] = Given(h, "local")
         /\ Endpoint(h, p)[Port] = Given(p, "5432")
  BY DEF Endpoint, Given

(* A program that is gone waits for nothing.                               *)
LEMMA UnsetType ==
  /\ Unset \in [1 .. 4 -> Line]
  /\ Endpoint("unset", "unset") \in (Hosts \cup {"cut"}) \X (Ports \cup {"cut"})
  BY EndpointType DEF Unset

(* What is to be written has no cut, and is what the container asks for.   *)
LEMMA ConfiguredRight ==
  ASSUME TypeOK
  PROVE  /\ Configured \in [1 .. 4 -> Line]
         /\ \A i \in 1 .. 4 : Configured[i] # "cut"
         /\ \A i \in {Host, Port} : Configured[i] = Endpoint(host, port)[i]
         /\ Configured[TLS] = storkTLSSettings
         /\ Configured[LDAPPassword] = Given(password, "random")
<1>1. /\ Endpoint(host, port)[Host] \in Hosts /\ Endpoint(host, port)[Port] \in Ports
      /\ Given(password, "random") \in Password \cup {"random"}
  BY EndpointType DEF TypeOK, Given
<1>2. storkTLSSettings \in {"tls", "plain"}
  OBVIOUS
<1> DEFINE h == Endpoint(host, port)[Host]
           p == Endpoint(host, port)[Port]
           t == storkTLSSettings
           w == Given(password, "random")
<1>3. Configured = <<h, p, t, w>>
  BY DEF Configured
<1>4. /\ h \in Line /\ p \in Line /\ t \in Line /\ w \in Line
      /\ h # "cut" /\ p # "cut" /\ t # "cut" /\ w # "cut"
  BY <1>1, <1>2
<1> HIDE DEF h, p, t, w
<1>5. /\ Configured \in [1 .. 4 -> Line]
      /\ \A i \in 1 .. 4 : Configured[i] # "cut"
      /\ Configured[1] = h /\ Configured[2] = p /\ Configured[3] = t /\ Configured[4] = w
  BY <1>3, <1>4
<1> QED
  BY <1>5 DEF h, p, t, w

(* The first start finds no file.                                          *)
LEMMA InitIInv == Init => IInv
<1> SUFFICES ASSUME Init PROVE IInv
  OBVIOUS
<1>1. lines \in [1 .. 0 -> Line] /\ pending \in [1 .. 4 -> Line]
  BY UnsetType DEF Init
<1>2. TypeOK
  <2>1. /\ certs \in {"none", "part", "all"}
        /\ {named, moved, exists, up} \subseteq BOOLEAN
        /\ endpoint \in (Hosts \cup {"cut"}) \X (Ports \cup {"cut"})
    BY UnsetType DEF Init
  <2>2. operations \in 0 .. MaxOperations /\ faults \in 0 .. MaxFaults
    BY DEF Init
  <2> QED
    BY <1>1, <2>1, <2>2 DEF Init, TypeOK
<1>3. BegunInv /\ LinesInv /\ FillInv /\ EndpointInv
  BY DEF Init, BegunInv, LinesInv, FillInv, EndpointInv
<1> QED
  BY <1>2, <1>3 DEF IInv

(* The operator's settings are not in the file.                            *)
LEMMA ChangeSecretIInv == IInv /\ ChangeSecret => IInv'
<1> SUFFICES ASSUME IInv, ChangeSecret PROVE IInv'
  OBVIOUS
<1>1. TypeOK'
  BY DEF IInv, TypeOK, ChangeSecret, Operation
<1>2. BegunInv'
  BY DEF IInv, BegunInv, ChangeSecret, Operation
<1>3. LinesInv'
  BY DEF IInv, TypeOK, LinesInv, FillInv, Has, Right, ChangeSecret, Operation
<1>4. FillInv'
  BY DEF IInv, TypeOK, FillInv, Right, ChangeSecret, Operation
<1>5. EndpointInv'
  BY DEF IInv, EndpointInv, SettingOf, ChangeSecret, Operation
<1> QED
  BY <1>1, <1>2, <1>3, <1>4, <1>5 DEF IInv

(* A change of the TLS files is remembered.                                *)
LEMMA ChangeCertsIInv == IInv /\ ChangeCerts => IInv'
<1> SUFFICES ASSUME IInv, ChangeCerts PROVE IInv'
  OBVIOUS
<1>1. TypeOK'
  BY DEF IInv, TypeOK, ChangeCerts, Operation
<1>2. BegunInv'
  BY DEF IInv, BegunInv, ChangeCerts, Operation
<1>3. LinesInv'
  BY DEF IInv, TypeOK, LinesInv, FillInv, Has, Right, ChangeCerts, Operation
<1>4. FillInv'
  BY DEF IInv, TypeOK, FillInv, Right, ChangeCerts, Operation
<1>5. EndpointInv'
  BY DEF IInv, EndpointInv, SettingOf, ChangeCerts, Operation
<1> QED
  BY <1>1, <1>2, <1>3, <1>4, <1>5 DEF IInv

(* The controller's container shares nothing with the file.                *)
LEMMA RecreateControllerIInv == IInv /\ RecreateController => IInv'
<1> SUFFICES ASSUME IInv, RecreateController PROVE IInv'
  OBVIOUS
<1>1. TypeOK'
  BY DEF IInv, TypeOK, RecreateController, Operation
<1>2. BegunInv'
  BY DEF IInv, BegunInv, RecreateController, Operation
<1>3. LinesInv'
  BY DEF IInv, TypeOK, LinesInv, FillInv, Has, Right, RecreateController, Operation
<1>4. FillInv'
  BY DEF IInv, TypeOK, FillInv, Right, RecreateController, Operation
<1>5. EndpointInv'
  BY DEF IInv, EndpointInv, SettingOf, RecreateController, Operation
<1> QED
  BY <1>1, <1>2, <1>3, <1>4, <1>5 DEF IInv

(* A new container has no file.                                            *)
LEMMA RecreateServerIInv == IInv /\ RecreateServer => IInv'
<1> SUFFICES ASSUME IInv, RecreateServer PROVE IInv'
  OBVIOUS
<1>1. TypeOK'
  <2>1. lines' \in [1 .. 0 -> Line]
    BY DEF RecreateServer
  <2>2. {named', moved', exists', up'} \subseteq BOOLEAN
    BY DEF IInv, TypeOK, RecreateServer
  <2>3. operations' \in 0 .. MaxOperations /\ faults' \in 0 .. MaxFaults
    BY DEF IInv, TypeOK, RecreateServer, Operation
  <2>4. /\ host' \in {"unset", "postgres"} /\ port' \in {"unset", "5433"}
        /\ password' \in Password \cup {"unset"} /\ pc' \in PC
    BY DEF IInv, TypeOK, RecreateServer
  <2>5. /\ pending' \in [1 .. 4 -> Line]
        /\ endpoint' \in (Hosts \cup {"cut"}) \X (Ports \cup {"cut"})
    BY UnsetType DEF RecreateServer, Reset
  <2> QED
    BY <2>1, <2>2, <2>3, <2>4, <2>5 DEF IInv, TypeOK, RecreateServer
<1>2. BegunInv'
  BY DEF IInv, BegunInv, RecreateServer, Operation
<1>3. LinesInv'
  BY DEF IInv, TypeOK, LinesInv, FillInv, Has, Right, RecreateServer, Operation
<1>4. FillInv'
  BY DEF IInv, TypeOK, FillInv, Right, RecreateServer, Operation
<1>5. EndpointInv'
  BY DEF IInv, EndpointInv, SettingOf, RecreateServer, Operation
<1> QED
  BY <1>1, <1>2, <1>3, <1>4, <1>5 DEF IInv

(* The account is not in the file.                                         *)
LEMMA CreateAccountIInv == IInv /\ CreateAccount => IInv'
<1> SUFFICES ASSUME IInv, CreateAccount PROVE IInv'
  OBVIOUS
<1>1. TypeOK'
  BY DEF IInv, TypeOK, CreateAccount
<1>2. BegunInv'
  BY DEF IInv, BegunInv, CreateAccount
<1>3. LinesInv'
  BY DEF IInv, TypeOK, LinesInv, FillInv, Has, Right, CreateAccount
<1>4. FillInv'
  BY DEF IInv, TypeOK, FillInv, Right, CreateAccount
<1>5. EndpointInv'
  BY DEF IInv, EndpointInv, SettingOf, CreateAccount
<1> QED
  BY <1>1, <1>2, <1>3, <1>4, <1>5 DEF IInv

(* A database that comes or goes changes no file.                          *)
LEMMA DatabaseChangesIInv == IInv /\ DatabaseChanges => IInv'
<1> SUFFICES ASSUME IInv, DatabaseChanges PROVE IInv'
  OBVIOUS
<1>1. TypeOK'
  BY DEF IInv, TypeOK, DatabaseChanges
<1>2. BegunInv'
  BY DEF IInv, BegunInv, DatabaseChanges
<1>3. LinesInv'
  BY DEF IInv, TypeOK, LinesInv, FillInv, Has, Right, DatabaseChanges
<1>4. FillInv'
  BY DEF IInv, TypeOK, FillInv, Right, DatabaseChanges
<1>5. EndpointInv'
  BY DEF IInv, EndpointInv, SettingOf, DatabaseChanges
<1> QED
  BY <1>1, <1>2, <1>3, <1>4, <1>5 DEF IInv

(* What a failed write leaves is a part of what was about to be written.   *)
LEMMA FaultIInv == IInv /\ Fault => IInv'
<1> SUFFICES ASSUME IInv, Fault PROVE IInv'
  OBVIOUS
<1>1. TypeOK'
  <2>1. \E n \in 0 .. 4 : lines' \in [1 .. n -> Line]
    <3>1. CASE lines' = lines
      BY <3>1 DEF IInv, TypeOK
    <3>2. CASE lines' # lines
      <4>1. PICK n \in 0 .. 4, cut \in BOOLEAN :
              lines' = [i \in 1 .. n |-> IF cut /\ i = n THEN "cut" ELSE pending[i]]
        BY <3>2 DEF Fault
      <4>2. \A i \in 1 .. n : pending[i] \in Line
        BY DEF IInv, TypeOK
      <4>3. lines' \in [1 .. n -> Line]
        BY <4>1, <4>2
      <4> QED
        BY <4>3
    <3> QED
      BY <3>1, <3>2
  <2>2. faults' \in 0 .. MaxFaults
    BY DEF IInv, TypeOK, Fault
  <2>3. /\ pending' \in [1 .. 4 -> Line]
        /\ endpoint' \in (Hosts \cup {"cut"}) \X (Ports \cup {"cut"})
    BY UnsetType DEF Fault, Exit, Reset
  <2> QED
    BY <2>1, <2>2, <2>3 DEF IInv, TypeOK, Fault, Exit
<1>2. BegunInv'
  BY DEF IInv, BegunInv, Fault, Exit, Reset
<1>3. LinesInv'
  BY DEF IInv, TypeOK, LinesInv, FillInv, Has, Right, Fault, Exit, Reset
<1>4. FillInv'
  BY DEF IInv, TypeOK, FillInv, Right, Fault, Exit, Reset
<1>5. EndpointInv'
  BY DEF IInv, EndpointInv, SettingOf, Fault, Exit, Reset
<1> QED
  BY <1>1, <1>2, <1>3, <1>4, <1>5 DEF IInv

(* A start changes no file.                                                *)
LEMMA StartIInv == IInv /\ Start => IInv'
<1> SUFFICES ASSUME IInv, Start PROVE IInv'
  OBVIOUS
<1>1. TypeOK'
  BY DEF IInv, TypeOK, Start
<1>2. BegunInv'
  BY DEF IInv, BegunInv, Start
<1>3. LinesInv'
  BY DEF IInv, TypeOK, LinesInv, FillInv, Has, Right, Start
<1>4. FillInv'
  BY DEF IInv, TypeOK, FillInv, Right, Start
<1>5. EndpointInv'
  BY DEF IInv, EndpointInv, SettingOf, Start
<1> QED
  BY <1>1, <1>2, <1>3, <1>4, <1>5 DEF IInv

(* A file that is begun is empty, and what is to be written is right now.  *)
LEMMA WriteStorkServerEnvironmentIInv == IInv /\ WriteStorkServerEnvironment => IInv'
<1> SUFFICES ASSUME IInv, WriteStorkServerEnvironment PROVE IInv'
  OBVIOUS
<1>1. TypeOK'
  <2>1. CASE exists
    BY <2>1 DEF IInv, TypeOK, WriteStorkServerEnvironment
  <2>2. CASE ~exists /\ (~named \/ certs = "part")
    BY <2>2, UnsetType DEF IInv, TypeOK, WriteStorkServerEnvironment, Exit, Reset
  <2>3. CASE ~exists /\ named /\ certs # "part"
    <3>0. exists' = TRUE /\ lines' = <<>> /\ moved' = FALSE /\ pc' = "fill"
          /\ UNCHANGED <<operator, certs, endpoint, up, counts>>
      BY <2>3 DEF WriteStorkServerEnvironment
    <3>1. lines' \in [1 .. 0 -> Line]
      BY <3>0
    <3>3. pending' \in [1 .. 4 -> Line]
      BY <2>3, ConfiguredRight DEF IInv, WriteStorkServerEnvironment
    <3>4. moved' \in BOOLEAN /\ exists' \in BOOLEAN
      BY <2>3 DEF WriteStorkServerEnvironment
    <3> QED
      BY <3>0, <3>1, <3>3, <3>4 DEF IInv, TypeOK
  <2> QED
    BY <2>1, <2>2, <2>3
<1>2. BegunInv'
  BY DEF IInv, BegunInv, WriteStorkServerEnvironment, Exit, Reset
<1>3. LinesInv'
  BY DEF IInv, TypeOK, LinesInv, FillInv, Has, Right, WriteStorkServerEnvironment, Exit, Reset
<1>4. FillInv'
  <2>1. CASE ~exists /\ named /\ certs # "part"
    <3>1. pending' = Configured /\ UNCHANGED <<environment, certs>>
      BY <2>1 DEF WriteStorkServerEnvironment
    <3>2. certs # "part"
      BY <2>1
    <3> QED
      BY <3>1, <3>2, ConfiguredRight DEF IInv, FillInv, Right
  <2>2. CASE ~(~exists /\ named /\ certs # "part")
    BY <2>2 DEF IInv, FillInv, WriteStorkServerEnvironment, Exit
  <2> QED
    BY <2>1, <2>2
<1>5. EndpointInv'
  BY DEF IInv, EndpointInv, SettingOf, WriteStorkServerEnvironment, Exit, Reset
<1> QED
  BY <1>1, <1>2, <1>3, <1>4, <1>5 DEF IInv

(* What is written was right when the file was begun, and the container    *)
(* is the same one.                                                        *)
LEMMA FillIInv == IInv /\ Fill => IInv'
<1> SUFFICES ASSUME IInv, Fill PROVE IInv'
  OBVIOUS
<1>1. TypeOK'
  BY DEF IInv, TypeOK, Fill
<1>2. BegunInv'
  BY DEF IInv, BegunInv, Fill
<1>3. LinesInv'
  BY DEF IInv, TypeOK, LinesInv, FillInv, Has, Right, Fill
<1>4. FillInv'
  BY DEF IInv, TypeOK, FillInv, Right, Fill
<1>5. EndpointInv'
  BY DEF IInv, EndpointInv, SettingOf, Fill
<1> QED
  BY <1>1, <1>2, <1>3, <1>4, <1>5 DEF IInv

(* The program waits for what it read.                                     *)
LEMMA ReadEndpointIInv == IInv /\ ReadEndpoint => IInv'
<1> SUFFICES ASSUME IInv, ReadEndpoint PROVE IInv'
  OBVIOUS
<1>1. TypeOK'
  <2>0. /\ SettingOf(Host) \in Hosts \cup {"unset", "cut"}
        /\ SettingOf(Port) \in Ports \cup {"unset", "cut"}
    BY DEF IInv, TypeOK, LinesInv, Has, Right, Endpoint, Given, SettingOf
  <2>1. endpoint' \in (Hosts \cup {"cut"}) \X (Ports \cup {"cut"})
    BY <2>0, EndpointType DEF ReadEndpoint
  <2> QED
    BY <2>1 DEF IInv, TypeOK, ReadEndpoint
<1>2. BegunInv'
  BY DEF IInv, BegunInv, ReadEndpoint
<1>3. LinesInv'
  BY DEF IInv, TypeOK, LinesInv, FillInv, Has, Right, ReadEndpoint
<1>4. FillInv'
  BY DEF IInv, TypeOK, FillInv, Right, ReadEndpoint
<1>5. EndpointInv'
  BY DEF IInv, EndpointInv, SettingOf, ReadEndpoint
<1> QED
  BY <1>1, <1>2, <1>3, <1>4, <1>5 DEF IInv

(* A database that answers changes no file.                                *)
LEMMA WaitForDatabaseIInv == IInv /\ WaitForDatabase => IInv'
<1> SUFFICES ASSUME IInv, WaitForDatabase PROVE IInv'
  OBVIOUS
<1>1. TypeOK'
  BY UnsetType DEF IInv, TypeOK, WaitForDatabase, Exit, Reset
<1>2. BegunInv'
  BY DEF IInv, BegunInv, WaitForDatabase, Exit, Reset
<1>3. LinesInv'
  BY DEF IInv, TypeOK, LinesInv, FillInv, Has, Right, WaitForDatabase, Exit, Reset
<1>4. FillInv'
  BY DEF IInv, TypeOK, FillInv, Right, WaitForDatabase, Exit, Reset
<1>5. EndpointInv'
  BY DEF IInv, EndpointInv, SettingOf, WaitForDatabase, Exit, Reset
<1> QED
  BY <1>1, <1>2, <1>3, <1>4, <1>5 DEF IInv

(* Every state the server's container can be in satisfies the invariant.   *)
THEOREM Invariance == Spec => []IInv
<1>1. IInv /\ [Next]_vars => IInv'
  <2> SUFFICES ASSUME IInv, [Next]_vars PROVE IInv'
    OBVIOUS
  <2>1. CASE UNCHANGED vars
    BY <2>1 DEF vars, IInv, TypeOK, BegunInv, LinesInv, FillInv, EndpointInv, Has, Right,
       SettingOf
  <2>2. CASE RunServer
    BY <2>2, StartIInv, WriteStorkServerEnvironmentIInv, FillIInv, ReadEndpointIInv,
       WaitForDatabaseIInv DEF RunServer
  <2> QED
    BY <2>1, <2>2, ChangeSecretIInv, ChangeCertsIInv, RecreateControllerIInv,
       RecreateServerIInv, CreateAccountIInv, DatabaseChangesIInv, FaultIInv DEF Next
<1> QED
  BY <1>1, InitIInv, PTL DEF Spec

(* The variables keep their types.                                         *)
THEOREM TypeCorrect == Spec => []TypeOK
<1>1. IInv => TypeOK
  BY DEF IInv
<1> QED
  BY <1>1, Invariance, PTL

(* What the server runs with, and what it waited for before, is what its   *)
(* container asks for.                                                     *)
THEOREM RightSettings == Spec => []ServesConfigured
<1>1. IInv => ServesConfigured
  <2> SUFFICES ASSUME IInv PROVE ServesConfigured
    OBVIOUS
  <2>1. ASSUME pc \in {"wait", "serving"}, NEW i \in {Host, Port}, Has(i)
        PROVE  endpoint[i] = Endpoint(host, port)[i]
    <3>1. endpoint = Endpoint(SettingOf(Host), SettingOf(Port))
      BY <2>1 DEF IInv, EndpointInv
    <3>2. SettingOf(i) = lines[i] /\ lines[i] = Endpoint(host, port)[i]
      BY <2>1 DEF IInv, LinesInv, Has, Right, SettingOf
    <3>3. endpoint[i] = Given(SettingOf(i), Endpoint("unset", "unset")[i])
      BY <2>1, <3>1 DEF Endpoint, Given
    <3>4. Endpoint(host, port)[i] # "unset"
      BY DEF IInv, TypeOK, Endpoint, Given
    <3> QED
      BY <3>2, <3>3, <3>4 DEF Given
  <2>2. \A i \in DOMAIN lines : Has(i) => Right(i, lines[i])
    BY DEF IInv, LinesInv
  <2> QED
    BY <2>1, <2>2 DEF ServesConfigured
<1> QED
  BY <1>1, Invariance, PTL

(* The password in a whole file is the account's when both were created    *)
(* with the password that is set now.                                      *)
THEOREM SamePassword == Spec => []PasswordsAgree
<1>1. IInv => PasswordsAgree
  BY DEF IInv, TypeOK, BegunInv, LinesInv, PasswordsAgree, Torn, Has, Right, Given
<1> QED
  BY <1>1, Invariance, PTL

(* A file that lacks the password or has another than the account, or says *)
(* of TLS what is not so, stays so in its container.                       *)
THEOREM AmissForGood == Spec => StaysAmiss
<1>1. IInv /\ [Next]_vars =>
        (exists /\ exists' /\ pc # "fill" =>
           /\ Amiss => Amiss'
           /\ Outdated /\ certs' = certs => Outdated')
  <2> SUFFICES ASSUME IInv, [Next]_vars, exists, exists', pc # "fill"
               PROVE  /\ Amiss => Amiss'
                      /\ Outdated /\ certs' = certs => Outdated'
    OBVIOUS
  <2>1. lines' = lines
    BY DEF Next, RunServer, vars, ChangeSecret, ChangeCerts, RecreateController,
       RecreateServer, CreateAccount, DatabaseChanges, Fault, Start, Exit,
       WriteStorkServerEnvironment, Fill, ReadEndpoint, WaitForDatabase
  <2>2. account # "none" => account' = account
    BY DEF Next, RunServer, vars, ChangeSecret, ChangeCerts, RecreateController,
       RecreateServer, CreateAccount, DatabaseChanges, Fault, Start, Exit,
       WriteStorkServerEnvironment, Fill, ReadEndpoint, WaitForDatabase
  <2> QED
    BY <2>1, <2>2 DEF Amiss, Outdated, Has
<1> QED
  BY <1>1, Invariance, PTL DEF Spec, StaysAmiss

(* What the program does by itself leaves no file without its last line:   *)
(* a file that is created is filled next, and with all of its lines.       *)
LEMMA UndisturbedServer ==
  ASSUME IInv, [Next]_vars, ~Fault, Torn'
  PROVE  Torn
<1> USE DEF Torn, Has
<1>1. CASE Fill
  <2>1. pending \in [1 .. 4 -> Line] /\ pending[LDAPPassword] # "cut"
    BY <1>1 DEF IInv, TypeOK, FillInv, Fill, LDAPPassword
  <2>2. lines' = pending
    BY <1>1 DEF Fill
  <2> QED
    BY <2>1, <2>2 DEF LDAPPassword
<1>2. CASE RecreateServer
  BY <1>2 DEF RecreateServer
<1>3. CASE Start \/ ReadEndpoint \/ WaitForDatabase
  BY <1>3 DEF Start, ReadEndpoint, WaitForDatabase, Exit, file
<1>4. CASE WriteStorkServerEnvironment
  BY <1>4 DEF WriteStorkServerEnvironment, Exit, file
<1>5. CASE ChangeSecret \/ ChangeCerts \/ RecreateController
  BY <1>5 DEF ChangeSecret, ChangeCerts, RecreateController, file, program
<1>6. CASE CreateAccount \/ DatabaseChanges \/ UNCHANGED vars
  BY <1>6 DEF CreateAccount, DatabaseChanges, vars, file, program
<1> QED
  BY <1>1, <1>2, <1>3, <1>4, <1>5, <1>6 DEF Next, RunServer

(* Only a fault while the file is filled cuts it short; a crash anywhere   *)
(* else leaves a file that serves the next start.                          *)
THEOREM TearNeedsFault == Spec => OnlyFaultsTear
<1>1. IInv /\ [Next]_vars =>
        (~Torn /\ Torn' => faults' = faults + 1 /\ pc = "fill")
  <2> SUFFICES ASSUME IInv, [Next]_vars, ~Torn, Torn'
               PROVE  faults' = faults + 1 /\ pc = "fill"
    OBVIOUS
  <2>1. Fault
    BY UndisturbedServer
  <2> QED
    BY <2>1 DEF Fault, Exit, Torn, Has
<1> QED
  BY <1>1, Invariance, PTL DEF Spec, OnlyFaultsTear

-----------------------------------------------------------------------------
(* Database. Its bounds.                                                   *)
LEMMA DatabaseBounds == MaxChanges \in Nat /\ MaxFailures \in Nat
  BY DatabaseAssumption

(* The names are a finite sequence, and none is empty.                      *)
LEMMA NameTypes ==
  /\ Len(Name) \in Nat /\ DOMAIN Name = 1 .. Len(Name)
  /\ Names = {Name[i] : i \in 1 .. Len(Name)}
  /\ None \notin Names
<1>1. Name \in Seq(STRING)
  BY DatabaseAssumption
<1>2. Len(Name) \in Nat /\ DOMAIN Name = 1 .. Len(Name)
  BY <1>1
<1>3. Names = {Name[i] : i \in 1 .. Len(Name)}
  BY <1>2 DEF Names, ToSet
<1>4. None \notin Names
  BY DatabaseAssumption DEF Names, None
<1> QED
  BY <1>2, <1>3, <1>4

(* A set of numbers has a least element.                         *)
LEMMA LeastElement ==
  ASSUME NEW S \in SUBSET Nat, S # {}
  PROVE  \E n \in S : \A m \in S : n <= m
<1> DEFINE R == {ss \in Nat \X Nat : ss[1] < ss[2]}
<1>1. IsWellFoundedOn(R, Nat)
  BY NatLessThanWellFounded, Zenon DEF OpToRel
<1> HIDE DEF R
<1>2. PICK n \in S : \A m \in S : ~(<<m, n>> \in R)
  BY <1>1, WFMin
<1>3. ASSUME NEW m \in S PROVE n <= m
  <2>1. m \in Nat /\ n \in Nat
    OBVIOUS
  <2>2. m < n => <<m, n>> \in R
    BY <2>1 DEF R
  <2> QED
    BY <1>2, <2>1, <2>2
<1> QED
  BY <1>3

(* A set that holds 0, and of every number the next, holds all.             *)
LEMMA Induction ==
  ASSUME NEW S, 0 \in S, \A n \in Nat : n \in S => n + 1 \in S
  PROVE  Nat \subseteq S
<1> SUFFICES ASSUME Nat \ S # {} PROVE FALSE
  OBVIOUS
<1>1. PICK n \in Nat \ S : \A m \in Nat \ S : n <= m
  BY LeastElement
<1>2. n # 0 /\ n - 1 \in Nat
  BY <1>1
<1>3. n - 1 \in S
  BY <1>1, <1>2
<1> QED
  BY <1>1, <1>2, <1>3

(* What the pass takes for the last of the names after one more.            *)
Later(names, name, last) ==
  IF name \notin names \/ (last # None /\ versionLess(name, last)) THEN last ELSE name

(* The pass is well defined, and postgresVersion is where it ends.          *)
LEMMA PostgresVersionDefined ==
  ASSUME NEW names
  PROVE  \E last : /\ last = [k \in 0 .. Len(Name) |->
                              IF k = 0 THEN None ELSE Later(names, Name[k], last[k - 1])]
                  /\ postgresVersion(names) = last[Len(Name)]
<1> DEFINE Pass(n, f) ==
             f = [k \in 0 .. n |-> IF k = 0 THEN None ELSE Later(names, Name[k], f[k - 1])]
           S == {n \in Nat : \E f : Pass(n, f)}
<1>1. 0 \in S
  <2>1. Pass(0, [k \in 0 .. 0 |-> None])
    OBVIOUS
  <2> QED
    BY <2>1
<1>2. ASSUME NEW n \in Nat, n \in S PROVE n + 1 \in S
  <2>1. PICK f : Pass(n, f)
    BY <1>2
  <2> DEFINE g == [k \in 0 .. n + 1 |->
                     IF k = n + 1 THEN Later(names, Name[n + 1], f[n]) ELSE f[k]]
  <2>2. ASSUME NEW k \in 0 .. n + 1
        PROVE  g[k] = IF k = 0 THEN None ELSE Later(names, Name[k], g[k - 1])
    <3>1. CASE k = 0
      BY <3>1, <2>1
    <3>2. CASE k \in 1 .. n
      <4>1. g[k] = f[k] /\ g[k - 1] = f[k - 1]
        BY <3>2
      <4>2. f[k] = Later(names, Name[k], f[k - 1])
        BY <3>2, <2>1
      <4> QED
        BY <4>1, <4>2, <3>2
    <3>3. CASE k = n + 1
      BY <3>3
    <3> QED
      BY <3>1, <3>2, <3>3
  <2>3. Pass(n + 1, g)
    BY <2>2
  <2>4. n + 1 \in Nat
    OBVIOUS
  <2> HIDE DEF g, Pass
  <2> QED
    BY <2>3, <2>4
<1>3. \E f : Pass(Len(Name), f)
  <2> HIDE DEF S
  <2>1. Nat \subseteq S
    BY <1>1, <1>2, Induction
  <2>2. Len(Name) \in S
    BY <2>1, NameTypes
  <2> QED
    BY <2>2 DEF S
<1>4. PICK last : last = (CHOOSE f : Pass(Len(Name), f))
  OBVIOUS
<1>5. Pass(Len(Name), last)
  BY <1>3, <1>4
<1>6. postgresVersion(names) = last[Len(Name)]
  BY <1>4 DEF postgresVersion, Later
<1> QED
  BY <1>5, <1>6

(* No name has two places, so none is before and after another.            *)
LEMMA OneWay == ASSUME NEW m, NEW n PROVE Before(m, n) => ~Before(n, m)
<1>1. \A i, j \in 1 .. Len(Name) : Name[i] = Name[j] => i = j
  BY NameTypes, DatabaseAssumption
<1> QED
  BY <1>1, NameTypes DEF Before

(* Nothing is chosen if there is nothing, or else one of the names there.   *)
(* Of those that come after it as text, it is less than none: they are     *)
(* smaller numbers. And if all are numbers, none is greater than it.        *)
THEOREM PostgresVersionGreatest ==
  ASSUME NEW names, names \subseteq Names
  PROVE  /\ postgresVersion(names) \in names \cup {None}
         /\ names # {} => postgresVersion(names) # None
         /\ \A m \in names :
              Before(postgresVersion(names), m) =>
                /\ Numeric({m, postgresVersion(names)})
                /\ Number[m] < Number[postgresVersion(names)]
         /\ Numeric(names) => \A m \in names : Number[m] <= Number[postgresVersion(names)]
<1>1. PICK last :
        /\ last = [k \in 0 .. Len(Name) |->
                     IF k = 0 THEN None ELSE Later(names, Name[k], last[k - 1])]
        /\ postgresVersion(names) = last[Len(Name)]
  BY PostgresVersionDefined
<1> DEFINE Seen(k) == {Name[i] : i \in 1 .. k} \cap names
           Kept(k) == \E i \in 1 .. k :
                        /\ Name[i] = last[k]
                        /\ \A j \in i + 1 .. k : Name[j] \in names => versionLess(Name[j], last[k])
           Chosen(k) ==
             /\ last[k] \in Seen(k) \cup {None}
             /\ Seen(k) # {} => last[k] # None
             /\ last[k] # None => Kept(k)
             /\ Numeric(names) => \A m \in Seen(k) : Number[m] <= Number[last[k]]
           S == {k \in Nat : k <= Len(Name) => Chosen(k)}
<1>2. None \notin names /\ Len(Name) \in Nat
  BY NameTypes
<1>3. \A m : Numeric({m}) => Number[m] \in Int
  BY DatabaseAssumption DEF Numeric
<1>4. 0 \in S
  <2>1. last[0] = None /\ Seen(0) = {}
    BY <1>1, <1>2
  <2> QED
    BY <2>1
<1>5. ASSUME NEW k \in Nat, k \in S PROVE k + 1 \in S
  <2> SUFFICES ASSUME k + 1 <= Len(Name) PROVE Chosen(k + 1)
    OBVIOUS
  <2>1. Chosen(k)
    BY <1>2, <1>5
  <2>2. last[k + 1] = Later(names, Name[k + 1], last[k])
    BY <1>1, <1>2
  <2>3. Seen(k + 1) = Seen(k) \cup ({Name[k + 1]} \cap names)
    <3>1. 1 .. k + 1 = (1 .. k) \cup {k + 1}
      OBVIOUS
    <3> QED
      BY <3>1
  <2>4. Seen(k) \subseteq names
    OBVIOUS
  <2>5. \A i \in 1 .. k : \A j \in i + 1 .. k + 1 : j \in i + 1 .. k \/ j = k + 1
    OBVIOUS
  <2> HIDE DEF Seen
  <2>6. CASE Name[k + 1] \notin names
    <3>1. last[k + 1] = last[k] /\ Seen(k + 1) = Seen(k)
      BY <2>2, <2>3, <2>6 DEF Later
    <3>2. last[k + 1] # None => Kept(k + 1)
      BY <2>1, <2>5, <2>6, <3>1
    <3> HIDE DEF Kept
    <3> QED
      BY <2>1, <3>1, <3>2
  <2>7. CASE Name[k + 1] \in names /\ (last[k] = None \/ ~versionLess(Name[k + 1], last[k]))
    <3>1. last[k + 1] = Name[k + 1] /\ Seen(k + 1) = Seen(k) \cup {Name[k + 1]}
      BY <2>2, <2>3, <2>7 DEF Later
    <3>2. Kept(k + 1)
      BY <3>1
    <3> HIDE DEF Kept
    <3>3. ASSUME Numeric(names), NEW m \in Seen(k + 1)
          PROVE  Number[m] <= Number[last[k + 1]]
      <4>1. /\ Number[m] \in Int /\ Number[last[k + 1]] \in Int
            /\ last[k] # None => last[k] \in names /\ Number[last[k]] \in Int
        BY <1>3, <2>1, <2>4, <2>7, <3>1, <3>3 DEF Numeric
      <4>2. CASE m = Name[k + 1]
        BY <3>1, <4>1, <4>2
      <4>3. CASE m \in Seen(k)
        <5>1. last[k] # None /\ Number[m] <= Number[last[k]]
          BY <2>1, <3>3, <4>3
        <5>2. ~(Number[Name[k + 1]] < Number[last[k]])
          BY <2>7, <3>3, <4>1, <5>1 DEF versionLess, Numeric
        <5> QED
          BY <3>1, <4>1, <5>1, <5>2
      <4> QED
        BY <3>1, <4>2, <4>3
    <3> QED
      BY <1>2, <2>7, <3>1, <3>2, <3>3
  <2>8. CASE Name[k + 1] \in names /\ last[k] # None /\ versionLess(Name[k + 1], last[k])
    <3>1. last[k + 1] = last[k] /\ Seen(k + 1) = Seen(k) \cup {Name[k + 1]}
      BY <2>2, <2>3, <2>8 DEF Later
    <3>2. Kept(k + 1)
      BY <2>1, <2>5, <2>8, <3>1
    <3> HIDE DEF Kept
    <3>3. ASSUME Numeric(names) PROVE Number[Name[k + 1]] <= Number[last[k]]
      <4>1. last[k] \in names
        BY <2>1, <2>4, <2>8
      <4>2. /\ Number[Name[k + 1]] \in Int /\ Number[last[k]] \in Int
            /\ Number[Name[k + 1]] < Number[last[k]]
        BY <1>3, <2>8, <3>3, <4>1 DEF versionLess, Numeric
      <4> QED
        BY <4>2
    <3> QED
      BY <2>1, <2>8, <3>1, <3>2, <3>3
  <2> QED
    BY <2>6, <2>7, <2>8
<1>6. Chosen(Len(Name))
  <2> HIDE DEF Chosen, S
  <2>1. Nat \subseteq S
    BY <1>4, <1>5, Induction
  <2> QED
    BY <1>2, <2>1 DEF S
<1>7. Seen(Len(Name)) = names
  BY NameTypes
<1> DEFINE v == postgresVersion(names)
<1>8. v = last[Len(Name)]
  BY <1>1
<1> HIDE DEF v
<1>9. ASSUME NEW m \in names, Before(v, m)
      PROVE  Numeric({m, v}) /\ Number[m] < Number[v]
  <2>1. PICK i, j \in 1 .. Len(Name) : i < j /\ Name[i] = v /\ Name[j] = m
    BY <1>9, NameTypes DEF Before
  <2>2. v # None
    BY <2>1, NameTypes
  <2>3. Kept(Len(Name))
    <3> HIDE DEF Kept
    <3> QED
      BY <1>6, <1>8, <2>2
  <2>4. PICK h \in 1 .. Len(Name) :
          /\ Name[h] = v
          /\ \A n \in h + 1 .. Len(Name) : Name[n] \in names => versionLess(Name[n], v)
    BY <1>8, <2>3
  <2>5. h = i
    BY <2>1, <2>4, NameTypes, DatabaseAssumption
  <2>6. versionLess(m, v)
    BY <1>2, <2>1, <2>4, <2>5
  <2>7. ~Before(m, v)
    BY <1>9, OneWay
  <2> QED
    BY <2>6, <2>7 DEF versionLess
<1>10. /\ v \in names \cup {None} /\ (names # {} => v # None)
       /\ Numeric(names) => \A m \in names : Number[m] <= Number[v]
  <2> HIDE DEF Kept, Seen
  <2> QED
    BY <1>6, <1>7, <1>8
<1> QED
  BY <1>9, <1>10 DEF v

(* Nothing has been validated yet.                                         *)
LEMMA DatabaseInitInv == DatabaseInit => DatabaseInv
<1> SUFFICES ASSUME DatabaseInit PROVE DatabaseInv
  OBVIOUS
<1>1. DatabaseTypeOK
  BY DatabaseBounds DEF DatabaseInit, DatabaseTypeOK, Working
<1>2. CheckedInv
  BY DEF DatabaseInit, CheckedInv
<1> QED
  BY <1>1, <1>2 DEF DatabaseInv

(* A change of what is installed makes validate's finding void.             *)
LEMMA ChangeInstalledInv == DatabaseInv /\ ChangeInstalled => DatabaseInv'
<1> SUFFICES ASSUME DatabaseInv, ChangeInstalled PROVE DatabaseInv'
  OBVIOUS
<1>1. DatabaseTypeOK'
  <2>1. installed' \subseteq Names
    BY DEF DatabaseInv, DatabaseTypeOK, ChangeInstalled
  <2>2. changes' \in 0 .. MaxChanges
    BY DatabaseBounds DEF DatabaseInv, DatabaseTypeOK, ChangeInstalled
  <2> QED
    BY <2>1, <2>2 DEF DatabaseInv, DatabaseTypeOK, ChangeInstalled
<1>2. CheckedInv'
  BY DEF CheckedInv, ChangeInstalled
<1> QED
  BY <1>1, <1>2 DEF DatabaseInv

(* A start begins without a finding; its end does not touch what there is.  *)
LEMMA DatabaseBootInv == DatabaseInv /\ (Boot \/ Restart) => DatabaseInv'
<1> SUFFICES ASSUME DatabaseInv, Boot \/ Restart PROVE DatabaseInv'
  OBVIOUS
<1>1. DatabaseTypeOK'
  BY DEF DatabaseInv, DatabaseTypeOK, Working, Boot, Restart
<1>2. CheckedInv'
  BY DEF CheckedInv, Boot, Restart
<1> QED
  BY <1>1, <1>2 DEF DatabaseInv

(* A command that ends before its time leaves a half-made cluster at most,  *)
(* and the container is down.                                              *)
LEMMA BreakOffInv == DatabaseInv /\ BreakOff => DatabaseInv'
<1> SUFFICES ASSUME DatabaseInv, BreakOff PROVE DatabaseInv'
  OBVIOUS
<1>1. DatabaseTypeOK'
  <2>1. cluster' \in [Names -> {"missing", "hidden", "listed", "whole"}]
    BY DEF DatabaseInv, DatabaseTypeOK, BreakOff
  <2>2. failures' \in 0 .. MaxFailures
    BY DatabaseBounds DEF DatabaseInv, DatabaseTypeOK, BreakOff
  <2> QED
    BY <2>1, <2>2 DEF DatabaseInv, DatabaseTypeOK, BreakOff, Stop
<1>2. CheckedInv'
  BY DEF CheckedInv, BreakOff, Stop
<1> QED
  BY <1>1, <1>2 DEF DatabaseInv

(* A command that gives up changes nothing but where the container is.      *)
LEMMA GivingUp ==
  ASSUME DatabaseInv, Stop, UNCHANGED <<cluster, failures>>
  PROVE  DatabaseInv'
<1>1. DatabaseTypeOK'
  BY DEF DatabaseInv, DatabaseTypeOK, Stop
<1>2. CheckedInv'
  BY DEF CheckedInv, Stop
<1> QED
  BY <1>1, <1>2 DEF DatabaseInv

(* configure and the creation, in a start that has validated nothing yet.   *)
LEMMA ConfigureInv == DatabaseInv /\ (Configure \/ Create \/ Skip) => DatabaseInv'
<1> SUFFICES ASSUME DatabaseInv, Configure \/ Create \/ Skip PROVE DatabaseInv'
  OBVIOUS
<1>1. checked = None
  BY DEF DatabaseInv, CheckedInv, Configure, Create, Skip
<1>2. CASE Stop /\ UNCHANGED <<cluster, failures>>
  BY <1>2, GivingUp
<1>3. CASE ~(Stop /\ UNCHANGED <<cluster, failures>>)
  <2>1. CheckedInv'
    BY <1>1, <1>3 DEF CheckedInv, Configure, Create, Skip
  <2>2. version' \in Names \cup {None}
    <3>1. CASE Configure
      BY <1>3, <3>1, PostgresVersionGreatest DEF Configure, DatabaseInv, DatabaseTypeOK
    <3>2. CASE Create \/ Skip
      BY <1>3, <3>2 DEF Create, Skip, DatabaseInv, DatabaseTypeOK
    <3> QED
      BY <3>1, <3>2
  <2>3. cluster' \in [Names -> {"missing", "hidden", "listed", "whole"}]
    BY <1>3 DEF DatabaseInv, DatabaseTypeOK, Configure, Create, Skip
  <2>4. failures' \in 0 .. MaxFailures
    BY <1>3, DatabaseBounds DEF DatabaseInv, DatabaseTypeOK, Configure, Create, Skip
  <2>5. command' \in Working \cup {"down", "elsewhere", "serving"}
    BY <1>3 DEF Working, Configure, Create, Skip
  <2>6. DatabaseTypeOK'
    BY <1>3, <2>2, <2>3, <2>4, <2>5
    DEF DatabaseInv, DatabaseTypeOK, Configure, Create, Skip
  <2> QED
    BY <2>1, <2>6 DEF DatabaseInv
<1> QED
  BY <1>2, <1>3

(* validate's finding is a version whose cluster is listed.                 *)
LEMMA ValidateInv == DatabaseInv /\ Validate => DatabaseInv'
<1> SUFFICES ASSUME DatabaseInv, Validate PROVE DatabaseInv'
  OBVIOUS
<1>1. CASE Stop /\ UNCHANGED <<cluster, failures>>
  BY <1>1, GivingUp
<1>2. CASE /\ clusterExists(postgresVersion(installed))
           /\ version' = postgresVersion(installed) /\ checked' = postgresVersion(installed)
           /\ command' = "run"
           /\ UNCHANGED <<installed, cluster, external, changes, failures>>
  <2>1. DatabaseTypeOK'
    BY <1>2 DEF DatabaseInv, DatabaseTypeOK, Working, clusterExists
  <2>2. CheckedInv'
    BY <1>2 DEF CheckedInv, clusterExists
  <2> QED
    BY <2>1, <2>2 DEF DatabaseInv
<1> QED
  BY <1>1, <1>2 DEF Validate

(* run finds what validate found, unless that is void.                      *)
LEMMA RunInv == DatabaseInv /\ Run => DatabaseInv'
<1> SUFFICES ASSUME DatabaseInv, Run PROVE DatabaseInv'
  OBVIOUS
<1>1. CASE Stop /\ UNCHANGED <<cluster, failures>>
  BY <1>1, GivingUp
<1>2. CASE /\ Complete(postgresVersion(installed))
           /\ version' = postgresVersion(installed)
           /\ command' = "serving"
           /\ UNCHANGED <<installed, cluster, external, checked, changes, failures>>
  <2>1. DatabaseTypeOK'
    BY <1>2 DEF DatabaseInv, DatabaseTypeOK, Complete
  <2>2. CheckedInv'
    BY <1>2 DEF DatabaseInv, CheckedInv, clusterExists, Run
  <2> QED
    BY <2>1, <2>2 DEF DatabaseInv
<1> QED
  BY <1>1, <1>2 DEF Run

LEMMA DatabaseNextInv == DatabaseInv /\ [DatabaseNext]_DatabaseVars => DatabaseInv'
<1> SUFFICES ASSUME DatabaseInv, [DatabaseNext]_DatabaseVars PROVE DatabaseInv'
  OBVIOUS
<1>1. CASE UNCHANGED DatabaseVars
  BY <1>1 DEF DatabaseVars, DatabaseInv, DatabaseTypeOK, CheckedInv, clusterExists
<1> QED
  BY <1>1, ChangeInstalledInv, DatabaseBootInv, BreakOffInv, ConfigureInv, ValidateInv, RunInv
  DEF DatabaseNext, Commands

(* validate's finding stays true for as long as it is remembered, whatever  *)
(* is installed, removed or cut off.                                       *)
THEOREM DatabaseInvariance == DatabaseSpec => []DatabaseInv
  BY DatabaseInitInv, DatabaseNextInv, PTL DEF DatabaseSpec

(* The state keeps its types: what is chosen is one of the names.           *)
THEOREM DatabaseTypeCorrect == DatabaseSpec => []DatabaseTypeOK
<1>1. DatabaseInv => DatabaseTypeOK
  BY DEF DatabaseInv
<1> QED
  BY <1>1, DatabaseInvariance, PTL

(* What runs is what was validated, and has a cluster, although each        *)
(* command looks for the version by itself.                                *)
THEOREM ValidatedRuns == DatabaseSpec => []RunsWhatWasValidated
<1>1. DatabaseInv => RunsWhatWasValidated
  BY DEF DatabaseInv, CheckedInv, RunsWhatWasValidated
<1> QED
  BY <1>1, DatabaseInvariance, PTL

(* However many versions are installed and removed, what serves is less    *)
(* than no version whose name comes after its own, and the greatest if all  *)
(* are numbers.                                                            *)
THEOREM GreatestVersionServes == DatabaseSpec => []GreatestServes
<1>1. DatabaseInv => GreatestServes
  <2> SUFFICES ASSUME DatabaseInv, command = "serving", checked # None
               PROVE  /\ \A n \in installed :
                           Before(version, n) =>
                             Numeric({n, version}) /\ Number[n] < Number[version]
                      /\ Numeric(installed) => \A n \in installed : Number[n] <= Number[version]
    BY DEF GreatestServes
  <2>1. version = postgresVersion(installed) /\ installed \subseteq Names
    BY DEF DatabaseInv, DatabaseTypeOK, CheckedInv
  <2> QED
    BY <2>1, PostgresVersionGreatest
<1> QED
  BY <1>1, DatabaseInvariance, PTL

=============================================================================
