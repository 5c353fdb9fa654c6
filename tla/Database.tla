------------------------------ MODULE Database ------------------------------
(***************************************************************************)
(* The database service (dib-db-ctl), which runs a PostgreSQL of the       *)
(* container's own unless one elsewhere is configured. Each of its         *)
(* commands (configure, validate, run) finds out by itself which version   *)
(* that is: the last of the directories under /usr/lib/postgresql, sorted  *)
(* by a comparison that takes two names for numbers if both are and for    *)
(* text otherwise.                                                         *)
(*                                                                         *)
(* No image has the command at present: that the three are run one after   *)
(* the other, as the entry point does for the other services, is assumed.  *)
(* pg_lsclusters, pg_createcluster and postgres are modelled as the code   *)
(* uses them: a creation that is cut off leaves a half-made cluster, which *)
(* is listed or not; over one that is not listed a creation goes through   *)
(* or fails; postgres does not run on either.                              *)
(*                                                                         *)
(* Operators whose name ends in _Variant are wrong on purpose: each is a   *)
(* plausible slip in the definition after it.                              *)
(***************************************************************************)
EXTENDS Integers, Sequences, SequencesExt

CONSTANTS
  Name,        \* names of directories, in the order of their text
  Number,      \* of the names that Atoi takes for numbers, which ones
  MaxChanges,  \* bound on installations and removals
  MaxFailures  \* bound on crashes and failures

ASSUME DatabaseAssumption ==
  /\ Name \in Seq(STRING) /\ Len(Name) <= 12
  /\ \A i, j \in DOMAIN Name : Name[i] = Name[j] => i = j
  /\ "" \notin ToSet(Name)
  /\ DOMAIN Number \subseteq ToSet(Name) /\ Number \in [DOMAIN Number -> Int]
  /\ MaxChanges \in Nat /\ MaxFailures \in Nat

VARIABLES
  installed,  \* the directories under /usr/lib/postgresql
  cluster,    \* the state of each version's cluster "main"
  external,   \* the environment names a database elsewhere
  version,    \* the version the present command found
  command,    \* the command that runs, and how far it is
  checked,    \* history: the version that validate found, while nothing changed
  changes, failures

DatabaseVars == <<installed, cluster, external, version, command, checked, changes, failures>>

Names == ToSet(Name)
None == ""

(* pg_lsclusters names a cluster "main" of the version.                    *)
clusterExists(v) == v \in Names /\ cluster[v] \in {"listed", "whole"}

Working == {"configure", "create", "validate", "run"}

DatabaseTypeOK ==
  /\ installed \subseteq Names
  /\ cluster \in [Names -> {"missing", "hidden", "listed", "whole"}]
  /\ external \in BOOLEAN
  /\ version \in Names \cup {None}
  /\ command \in Working \cup {"down", "elsewhere", "serving"}
  /\ checked \in Names \cup {None}
  /\ changes \in 0 .. MaxChanges /\ failures \in 0 .. MaxFailures

Numeric(names) == names \subseteq DOMAIN Number

Before(left, right) == \E i, j \in DOMAIN Name : i < j /\ Name[i] = left /\ Name[j] = right

(* Names are compared as text.                                             *)
versionLess_Variant(left, right) == Before(left, right)

versionLess(left, right) ==
  IF Numeric({left, right}) THEN Number[left] < Number[right] ELSE Before(left, right)

(* The last name once they are sorted. Up to twelve names are sorted by    *)
(* insertion, in the order they are read in: a name becomes the last       *)
(* unless it is less than the one that was.                                *)
postgresVersion(names) ==
  LET last[k \in 0 .. Len(Name)] ==
        IF k = 0 THEN None
        ELSE IF \/ Name[k] \notin names
                \/ last[k - 1] # None /\ versionLess(Name[k], last[k - 1])
             THEN last[k - 1] ELSE Name[k]
  IN  last[Len(Name)]

DatabaseInit ==
  /\ installed \in SUBSET Names
  /\ cluster = [n \in Names |-> "missing"]
  /\ external \in BOOLEAN
  /\ version = None /\ checked = None
  /\ command = "down"
  /\ changes = 0 /\ failures = 0

-----------------------------------------------------------------------------
(* A version is installed or removed; the clusters stay.                   *)
ChangeInstalled ==
  /\ changes < MaxChanges
  /\ \E n \in Names :
       installed' = IF n \in installed THEN installed \ {n} ELSE installed \cup {n}
  /\ checked' = None
  /\ changes' = changes + 1
  /\ UNCHANGED <<cluster, external, version, command, failures>>

(* The container starts, again or with another environment.                *)
Boot ==
  /\ command = "down"
  /\ external' \in BOOLEAN
  /\ command' = "configure"
  /\ version' = None /\ checked' = None
  /\ UNCHANGED <<installed, cluster, changes, failures>>

(* The container is stopped while its server, or nothing, runs.             *)
Restart ==
  /\ command \in {"serving", "elsewhere"}
  /\ command' = "down"
  /\ UNCHANGED <<installed, cluster, external, version, checked, changes, failures>>

Stop ==
  /\ command' = "down"
  /\ UNCHANGED <<installed, external, version, checked, changes>>

(* A crash or a failing command; in the middle of a creation it leaves     *)
(* something behind.                                                       *)
BreakOff ==
  /\ command # "down"
  /\ failures < MaxFailures
  /\ failures' = failures + 1
  /\ IF command = "create" /\ ~clusterExists(version)
     THEN \E c \in {"missing", "hidden", "listed"} : cluster' = [cluster EXCEPT ![version] = c]
     ELSE UNCHANGED cluster
  /\ Stop

(* A cluster is created at every start.                                    *)
Configure_Variant ==
  /\ command = "configure"
  /\ ~external
  /\ version' = postgresVersion(installed)
  /\ command' = IF version' = None THEN "down" ELSE "create"
  /\ UNCHANGED <<installed, cluster, external, checked, changes, failures>>

(* The cluster of the version is kept if it is listed; a listing that      *)
(* fails here counts as none.                                              *)
Configure ==
  /\ command = "configure"
  /\ ~external
  /\ LET v == postgresVersion(installed)
     IN  \/ /\ v = None
            /\ Stop /\ UNCHANGED <<cluster, failures>>
         \/ /\ v # None
            /\ version' = v
            /\ \/ clusterExists(v) /\ command' = "validate" /\ UNCHANGED failures
               \/ ~clusterExists(v) /\ command' = "create" /\ UNCHANGED failures
               \/ /\ clusterExists(v) /\ command' = "create"
                  /\ failures < MaxFailures /\ failures' = failures + 1
            /\ UNCHANGED <<installed, cluster, external, checked, changes>>

(* pg_createcluster refuses to touch a cluster that is listed, and goes    *)
(* through or not over one that is half made.                              *)
Create ==
  /\ command = "create"
  /\ \/ /\ ~clusterExists(version) /\ version \in installed
        /\ cluster' = [cluster EXCEPT ![version] = "whole"]
        /\ command' = "validate"
        /\ UNCHANGED <<installed, external, version, checked, changes, failures>>
     \/ /\ cluster[version] # "missing" \/ version \notin installed
        /\ Stop /\ UNCHANGED <<cluster, failures>>

Skip ==
  /\ command = "configure"
  /\ external
  /\ command' = "elsewhere"
  /\ UNCHANGED <<installed, cluster, external, version, checked, changes, failures>>

(* The version is not found out again.                                     *)
Validate_Variant ==
  /\ command = "validate"
  /\ checked' = postgresVersion(installed)
  /\ command' = "run"
  /\ UNCHANGED <<installed, cluster, external, version, changes, failures>>

Validate ==
  /\ command = "validate"
  /\ LET v == postgresVersion(installed)
     IN  \/ /\ clusterExists(v)
            /\ version' = v /\ checked' = v
            /\ command' = "run"
            /\ UNCHANGED <<installed, cluster, external, changes, failures>>
         \/ /\ ~clusterExists(v)
            /\ Stop /\ UNCHANGED <<cluster, failures>>

Complete(v) == v \in Names /\ cluster[v] = "whole"

(* postgres replaces the command; it does not run on half a cluster.       *)
Run ==
  /\ command = "run"
  /\ LET v == postgresVersion(installed)
     IN  \/ /\ Complete(v)
            /\ version' = v
            /\ command' = "serving"
            /\ UNCHANGED <<installed, cluster, external, checked, changes, failures>>
         \/ /\ ~Complete(v)
            /\ Stop /\ UNCHANGED <<cluster, failures>>

Commands == Configure \/ Create \/ Skip \/ Validate \/ Run

DatabaseNext == ChangeInstalled \/ Boot \/ Restart \/ BreakOff \/ Commands

DatabaseSpec == DatabaseInit /\ [][DatabaseNext]_DatabaseVars

(* The commands go on, and the container is started whenever it is down.   *)
DatabaseFairSpec == DatabaseSpec /\ WF_DatabaseVars(Commands) /\ WF_DatabaseVars(Boot)

-----------------------------------------------------------------------------
(* If nothing was installed or removed since it was validated: no version  *)
(* is there that comes after the one that serves as text, unless both are  *)
(* numbers and it is the smaller; and if all that are there are numbers,   *)
(* the greatest serves. Of names that are not, more does not hold: with a  *)
(* copy "10-old" beside them, 9 serves rather than 10.                     *)
GreatestServes ==
  command = "serving" /\ checked # None =>
    /\ \A n \in installed :
         Before(version, n) => Numeric({n, version}) /\ Number[n] < Number[version]
    /\ Numeric(installed) => \A n \in installed : Number[n] <= Number[version]

(* What validate found is what runs, and validate passes no version        *)
(* without a cluster, unless something was installed or removed.           *)
RunsWhatWasValidated ==
  command \in {"run", "serving"} /\ checked # None =>
    version = checked /\ clusterExists(version)

(* Why these hold: validate's finding is forgotten when anything is         *)
(* installed or removed and when a container starts, and no cluster is     *)
(* touched after it; until then every command finds the same.              *)
CheckedInv ==
  checked # None =>
    /\ command \in {"run", "serving", "down"}
    /\ command # "down" =>
          /\ checked = postgresVersion(installed)
          /\ version = checked
          /\ clusterExists(checked)

DatabaseInv == DatabaseTypeOK /\ CheckedInv

Broken(v) == v \in Names /\ cluster[v] \in {"hidden", "listed"}

(* When changes and failures come to rest, every start ends with a server, *)
(* here or elsewhere, unless no version is installed or the cluster of the *)
(* one chosen is half made.                                                *)
Serves ==
  []<>(\/ command \in {"serving", "elsewhere"}
       \/ postgresVersion(installed) = None
       \/ Broken(postgresVersion(installed)))

=============================================================================
