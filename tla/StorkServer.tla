---------------------------- MODULE StorkServer ----------------------------
(***************************************************************************)
(* The Stork server's container beside the domain controller. Its program  *)
(* (`dib-observability-ctl run' in the server role) writes server.env once *)
(* from its environment, reads back the database's endpoint from it, waits *)
(* for the database and becomes the server, which logs people in with the  *)
(* directory account the controller's Stork bootstrap created.             *)
(*                                                                         *)
(* server.env is in the container's layer: a container started again finds *)
(* it as it was left, also when it was cut short, a new container does     *)
(* not. A container's environment is fixed when it is created, from the    *)
(* operator's settings. The account keeps the password it was created      *)
(* with.                                                                   *)
(*                                                                         *)
(* Abstracted: the file's lines are the settings that differ from one      *)
(* container to the next (the database's host and port, TLS or not, the    *)
(* password), in the order they are written in; a write that fails leaves  *)
(* some of the first of them, the last perhaps cut short in its value.     *)
(* Setting the mode of a file that is kept fails as a Fault.               *)
(*                                                                         *)
(* Operators whose name ends in _Variant are wrong on purpose: each is a   *)
(* plausible slip in the definition after it.                              *)
(***************************************************************************)
EXTENDS Integers, Sequences

CONSTANTS
  Password,       \* DIB_LDAP_PASSWORD, as the operator may choose it
  MaxOperations,  \* bound on the operator's changes and re-creations
  MaxFaults       \* bound on crashes and failed writes

ASSUME StorkAssumption ==
  /\ Password \cap {"unset", "random", "none", "cut"} = {}
  /\ MaxOperations \in Nat
  /\ MaxFaults \in Nat

VARIABLES
  secret,    \* DIB_LDAP_PASSWORD in the operator's settings
  dcSecret,  \* ... and in the controller's environment
  account,   \* the password of ldap-search-user, once created
  host, port,  \* STORK_DATABASE_HOST, STORK_DATABASE_PORT in the server's environment
  password,  \* STORK_LDAP_PASSWORD in it
  named,     \* it has the domain, the address and the host's name
  certs,     \* how much of the TLS set is in the server's /certs
  moved,     \* history: certs changed since server.env was begun
  exists,    \* server.env exists
  lines,     \* the settings in it
  pending,   \* the settings about to be written
  endpoint,  \* the database the program waits for
  up,        \* the database that is configured accepts connections
  pc,
  operations, faults

environment == <<host, port, password, named>>
operator == <<secret, dcSecret, account, environment>>
tls == <<certs, moved>>
file == <<exists, lines, pending>>
program == <<endpoint, up, pc>>
counts == <<operations, faults>>
vars == <<operator, tls, file, program, counts>>

Hosts == {"local", "postgres"}
Ports == {"5432", "5433"}
PC == {"down", "configure", "fill", "read", "wait", "serving"}

(* The lines of server.env.                                                *)
Host == 1
Port == 2
TLS == 3
LDAPPassword == 4
Line == Hosts \cup Ports \cup {"tls", "plain", "random", "cut"} \cup Password

TypeOK ==
  /\ secret \in Password /\ dcSecret \in Password
  /\ account \in Password \cup {"none"}
  /\ host \in {"unset", "postgres"} /\ port \in {"unset", "5433"}
  /\ password \in Password \cup {"unset"}
  /\ certs \in {"none", "part", "all"}
  /\ {named, moved, exists, up} \subseteq BOOLEAN
  /\ pending \in [1 .. 4 -> Line]
  /\ \E n \in 0 .. 4 : lines \in [1 .. n -> Line]
  /\ endpoint \in (Hosts \cup {"cut"}) \X (Ports \cup {"cut"})
  /\ pc \in PC
  /\ operations \in 0 .. MaxOperations
  /\ faults \in 0 .. MaxFaults

(* A setting that is missing has a default: a database in the container,   *)
(* and a password that is made up.                                         *)
Given(value, default) == IF value = "unset" THEN default ELSE value

Endpoint(h, p) == <<Given(h, "local"), Given(p, "5432")>>

Unset == <<"local", "5432", "plain", "random">>

(* TLS is on when all of its files are there; a part is an error.          *)
storkTLSSettings == IF certs = "all" THEN "tls" ELSE "plain"

(* The password is not looked at.                                          *)
Configured_Variant ==
  <<Endpoint(host, port)[Host], Endpoint(host, port)[Port], storkTLSSettings, "random">>

(* What the environment and the files ask for.                             *)
Configured ==
  <<Endpoint(host, port)[Host], Endpoint(host, port)[Port], storkTLSSettings,
    Given(password, "random")>>

Init ==
  /\ secret \in Password /\ dcSecret = secret
  /\ account = "none"
  /\ host \in {"unset", "postgres"} /\ port \in {"unset", "5433"}
  /\ password \in {secret, "unset"} /\ named \in BOOLEAN
  /\ certs \in {"none", "part", "all"}
  /\ moved = FALSE
  /\ exists = FALSE /\ lines = <<>>
  /\ pending = Unset
  /\ endpoint = Endpoint("unset", "unset")
  /\ up = FALSE
  /\ pc = "configure"
  /\ operations = 0 /\ faults = 0

-----------------------------------------------------------------------------
(* The operator and the controller.                                        *)
Operation ==
  /\ operations < MaxOperations
  /\ operations' = operations + 1
  /\ UNCHANGED faults

(* What a program knows is gone with it.                                   *)
Reset == pending' = Unset /\ endpoint' = Endpoint("unset", "unset")

ChangeSecret ==
  /\ Operation
  /\ secret' \in Password \ {secret}
  /\ UNCHANGED <<dcSecret, account, environment, tls, file, program>>

ChangeCerts ==
  /\ Operation
  /\ certs' \in {"none", "part", "all"} \ {certs}
  /\ moved' = TRUE
  /\ UNCHANGED <<operator, file, program>>

(* The controller's container is created anew, with the present settings.  *)
RecreateController ==
  /\ Operation
  /\ dcSecret' = secret
  /\ UNCHANGED <<secret, account, environment, tls, file, program>>

(* The server's container is created anew, perhaps for another database.   *)
RecreateServer ==
  /\ Operation
  /\ host' \in {"unset", "postgres"} /\ port' \in {"unset", "5433"}
  /\ up' \in IF UNCHANGED <<host, port>> THEN {up} ELSE BOOLEAN
  /\ password' \in {secret, "unset"} /\ named' \in BOOLEAN
  /\ exists' = FALSE /\ lines' = <<>>
  /\ moved' = FALSE
  /\ Reset /\ pc' = "configure"
  /\ UNCHANGED <<secret, dcSecret, account, certs>>

(* Every Stork bootstrap sets the account's password.                      *)
CreateAccount_Variant ==
  /\ account # dcSecret
  /\ account' = dcSecret
  /\ UNCHANGED <<secret, dcSecret, environment, tls, file, program, counts>>

(* The first Stork bootstrap creates the account; RunOnce sees to it that  *)
(* no later one does.                                                      *)
CreateAccount ==
  /\ account = "none"
  /\ account' = dcSecret
  /\ UNCHANGED <<secret, dcSecret, environment, tls, file, program, counts>>

(* The database comes up or goes down.                                     *)
DatabaseChanges ==
  /\ up' = ~up
  /\ UNCHANGED <<operator, tls, file, endpoint, pc, counts>>

-----------------------------------------------------------------------------
(* The server's container.                                                 *)

(* The program ends, or is killed; the restart policy starts it again.     *)
Exit ==
  /\ Reset /\ pc' = "down"
  /\ UNCHANGED <<operator, tls, exists, up, operations>>

Start ==
  /\ pc = "down"
  /\ pc' = "configure"
  /\ UNCHANGED <<operator, tls, file, endpoint, up, counts>>

(* A crash leaves the file as it is, a failed write some of its lines.     *)
Fault ==
  /\ pc # "down"
  /\ faults < MaxFaults
  /\ faults' = faults + 1
  /\ \/ lines' = lines
     \/ /\ pc = "fill"
        /\ \E n \in 0 .. 4, cut \in BOOLEAN :
             lines' = [i \in 1 .. n |-> IF cut /\ i = n THEN "cut" ELSE pending[i]]
  /\ Exit

(* The file is kept if it exists. Otherwise the settings that have no      *)
(* default must be there; TLS is on if all of its files are there, off if  *)
(* none is; and the file is created, still empty.                          *)
WriteStorkServerEnvironment ==
  /\ pc = "configure"
  /\ \/ /\ exists
        /\ pc' = "read"
        /\ UNCHANGED <<operator, tls, file, endpoint, up, counts>>
     \/ /\ ~exists /\ (~named \/ certs = "part")
        /\ Exit /\ UNCHANGED <<lines, faults>>
     \/ /\ ~exists /\ named /\ certs # "part"
        /\ exists' = TRUE /\ lines' = <<>>
        /\ pending' = Configured
        /\ moved' = FALSE
        /\ pc' = "fill"
        /\ UNCHANGED <<operator, certs, endpoint, up, counts>>

(* An interrupted write is completed with what this start would write.     *)
Fill_Variant ==
  /\ pc \in {"fill", "read"}
  /\ lines' = [pending EXCEPT ![LDAPPassword] = secret]
  /\ pending' = lines'
  /\ pc' = "read"
  /\ UNCHANGED <<operator, tls, exists, endpoint, up, counts>>

Fill ==
  /\ pc = "fill"
  /\ lines' = pending
  /\ pc' = "read"
  /\ UNCHANGED <<operator, tls, exists, pending, endpoint, up, counts>>

(* The endpoint is looked up before the file has it.                       *)
ReadEndpoint_Variant ==
  /\ pc = "read"
  /\ endpoint' = Endpoint("unset", "unset")
  /\ pc' = "wait"
  /\ UNCHANGED <<operator, tls, file, up, counts>>

SettingOf(i) == IF i \in DOMAIN lines THEN lines[i] ELSE "unset"

(* The endpoint is read back from the file; what is not in it has its      *)
(* default, as a missing setting does.                                     *)
ReadEndpoint ==
  /\ pc = "read"
  /\ endpoint' = Endpoint(SettingOf(Host), SettingOf(Port))
  /\ pc' = "wait"
  /\ UNCHANGED <<operator, tls, file, up, counts>>

(* What the program waits for answers within its attempts, or it gives up. *)
(* Where the database is not, something may answer or nothing.             *)
WaitForDatabase ==
  /\ pc = "wait"
  /\ \/ /\ endpoint = Endpoint(host, port) => up
        /\ pc' = "serving"
        /\ UNCHANGED <<operator, tls, file, endpoint, up, counts>>
     \/ /\ endpoint = Endpoint(host, port) => ~up
        /\ Exit /\ UNCHANGED <<lines, faults>>

RunServer ==
  Start \/ WriteStorkServerEnvironment \/ Fill \/ ReadEndpoint \/ WaitForDatabase

Next ==
  \/ ChangeSecret \/ ChangeCerts \/ RecreateController \/ RecreateServer
  \/ CreateAccount \/ DatabaseChanges
  \/ Fault \/ RunServer

Spec == Init /\ [][Next]_vars

FairSpec == Spec /\ WF_vars(RunServer)

-----------------------------------------------------------------------------
Has(i) == i \in DOMAIN lines /\ lines[i] # "cut"
Torn == exists /\ pc # "fill" /\ ~Has(LDAPPassword)

(* What a line says is what the container's environment and files say,     *)
(* unless those files changed.                                             *)
Right(i, value) ==
  /\ i \in {Host, Port} => value = Endpoint(host, port)[i]
  /\ i = TLS => moved \/ (value = "tls" <=> certs = "all")
  /\ i = LDAPPassword => value = Given(password, "random")

(* The program waits for the database its environment names and for no     *)
(* other, and the server runs with the settings of its container, with TLS *)
(* if and only if the files for it are there, unless they changed; a file  *)
(* that was cut short lacks settings but has no wrong ones before the cut. *)
ServesConfigured ==
  /\ pc \in {"wait", "serving"} =>
       \A i \in {Host, Port} : Has(i) => endpoint[i] = Endpoint(host, port)[i]
  /\ pc = "serving" => \A i \in DOMAIN lines : Has(i) => Right(i, lines[i])

(* A server created from the settings the account was created from can log *)
(* people in, whatever was changed and changed back in between.            *)
PasswordsAgree ==
  pc = "serving" /\ ~Torn /\ account = secret /\ password = secret =>
    lines[LDAPPassword] = account

(* The file lacks the password or has another than the account; it says    *)
(* of TLS what the files for it do not.                                    *)
Amiss == ~Has(LDAPPassword) \/ (account # "none" /\ lines[LDAPPassword] # account)
Outdated == Has(TLS) /\ (lines[TLS] = "tls") # (certs = "all")

(* What is amiss stays amiss as long as the container lasts: no restart of *)
(* either program, no new container of the controller and no change of     *)
(* settings completes a file that was cut short or brings the two          *)
(* passwords together, and no restart notices other TLS files.             *)
StaysAmiss ==
  [][exists /\ exists' /\ pc # "fill" =>
       /\ Amiss => Amiss'
       /\ Outdated /\ certs' = certs => Outdated']_vars

(* It takes a fault while the file is filled to cut it short.              *)
OnlyFaultsTear ==
  [][~Torn /\ Torn' => faults' = faults + 1 /\ pc = "fill"]_vars

(* Once the database is up and stays so, and the operator and the faults   *)
(* come to rest, the server serves, unless its file was cut short, its TLS *)
(* files are incomplete, or its environment is.                            *)
ServerComesUp ==
  <>[]up => <>[](pc = "serving" \/ Torn \/ certs = "part" \/ ~named)

(* Inductive: the program is past the file only with a file; what a file   *)
(* has is right whenever it was written; so is what is about to be written *)
(* to it; the program waits for what the file said.                        *)
BegunInv == pc \in {"fill", "read", "wait", "serving"} => exists
LinesInv == \A i \in DOMAIN lines : Has(i) => Right(i, lines[i])
FillInv == pc = "fill" => \A i \in 1 .. 4 : pending[i] # "cut" /\ Right(i, pending[i])
EndpointInv ==
  pc \in {"wait", "serving"} => endpoint = Endpoint(SettingOf(Host), SettingOf(Port))

IInv == TypeOK /\ BegunInv /\ LinesInv /\ FillInv /\ EndpointInv

(* docker-compose.yml calls DIB_LDAP_PASSWORD "Shared with Stork Server    *)
(* for LDAP authentication": with both containers created from the present *)
(* settings, the server's password would be the account's. This does not   *)
(* hold: the account keeps the one it was created with.                    *)
LDAPPasswordShared ==
  pc = "serving" /\ ~Torn /\ account # "none" /\ dcSecret = secret /\ password = secret =>
    lines[LDAPPassword] = account

=============================================================================
