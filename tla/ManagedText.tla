---------------------------- MODULE ManagedText ----------------------------
(***************************************************************************)
(* What Domain-In-A-Box takes for its own in a file the operator also      *)
(* edits, and what it makes of it. On restart it replaces the metrics      *)
(* setting in smb.conf, the forwarders in named.conf.options and the pool  *)
(* of subnet 1 in kea-dhcp4.conf, and it renews its line in the crontab of *)
(* _kea, each found by a search of the text.                               *)
(*                                                                         *)
(* Abstracted: a text is a set of items, each at its place, of which only  *)
(* the kind matters to the search:                                         *)
(*   directive  the managed setting as Domain-In-A-Box writes it           *)
(*   odd        smb.conf: the same parameter, spelled as the search does   *)
(*              not expect it; named.conf.options: the directive, in a     *)
(*              comment; kea-dhcp4.conf: a comment; the crontab: another   *)
(*              job that names Kea's keytab                                *)
(*   bare       kea-dhcp4.conf: a subnet 1 without a pool                  *)
(*   blank      the crontab: an empty line                                 *)
(*   other      anything else                                              *)
(*                                                                         *)
(* Operators whose name ends in _Variant are wrong on purpose: each is a   *)
(* plausible slip in the definition after it.                              *)
(***************************************************************************)
EXTENDS Integers, FiniteSets

CONSTANTS
  Value,   \* the values of the managed settings
  Places   \* how many items the operator's texts have

ASSUME TextAssumption == Places \in Nat

Smb == "smb.conf"
Options == "named.conf.options"
Dhcp4 == "kea-dhcp4.conf"
Crontab == "crontab"
File == {Smb, Options, Dhcp4, Crontab}

(* Installed files end with the renewal line.                              *)
End == Places + 1
Kind == {"directive", "odd", "bare", "blank", "other"}
Item == [at : 1 .. End, kind : Kind, value : Value]

At(text, kinds) == {i \in text : i.kind \in kinds}

(* All pools of subnet 1 are rewritten, not those of its first entry.      *)
Found_Variant(f, text) ==
  IF f = Smb THEN At(text, {"directive"})
  ELSE IF f = Dhcp4 THEN At(text, {"directive", "bare", "other"})
  ELSE At(text, {"directive", "odd"})

(* What the search finds: the lines or blocks that look like the           *)
(* directive, commented out or not; of the subnets the first with ID 1; in *)
(* the crontab also the empty lines, which do not count as anyone's.       *)
Found(f, text) ==
  CASE f = Smb -> At(text, {"directive"})
    [] f = Dhcp4 -> LET one == At(text, {"directive", "bare"})
                    IN  {i \in one : \A j \in one : i.at <= j.at}
    [] f = Crontab -> At(text, {"directive", "odd", "blank"})
    [] OTHER -> At(text, {"directive", "odd"})

(* A file is refused unless the setting is in it exactly once. Kea's is    *)
(* JSON to the reconciliation, which has no comments. A crontab is never   *)
(* refused.                                                                *)
Refused(f, text) ==
  CASE f = Dhcp4 -> \/ At(text, {"odd"}) # {} \/ Found(f, text) = {}
                    \/ At(Found(f, text), {"bare"}) # {}
    [] f = Crontab -> FALSE
    [] OTHER -> \A i \in Found(f, text) : Found(f, text) # {i}

(* The renewal line is appended, and the old one stays.                    *)
Rewritten_Variant(f, text, value) ==
  IF f = Crontab
  THEN text \cup {[at |-> End + Cardinality(At(text, {"directive"})),
                   kind |-> "directive", value |-> value]}
  ELSE {IF i \in Found(f, text) THEN [i EXCEPT !.value = value] ELSE i : i \in text}

(* What is found has its value replaced. In the crontab it is left out and *)
(* the renewal line comes last.                                            *)
Rewritten(f, text, value) ==
  IF f = Crontab
  THEN (text \ Found(f, text)) \cup {[at |-> End, kind |-> "directive", value |-> value]}
  ELSE {IF i \in Found(f, text) THEN [i EXCEPT !.value = value] ELSE i : i \in text}

(* The value of the setting as the server reads the file: Samba takes the  *)
(* last, however it is spelled.                                            *)
Live(f, text) ==
  IF f = Smb
  THEN LET all == At(text, {"directive", "odd"})
       IN  {i \in all : \A j \in all : j.at <= i.at}
  ELSE At(text, {"directive"})

(* What the servers' own checks accept: BIND and Kea want no setting twice.*)
Valid(f, text) ==
  f \in {Options, Dhcp4} => \A i, j \in At(text, {"directive", "bare"}) : i = j

(* What of a text is plainly the operator's: it does not look like the     *)
(* setting to the search.                                                  *)
Rest(f, text) ==
  At(text, {"other", "bare"} \cup (IF f \in {Smb, Dhcp4} THEN {"odd"} ELSE {}))

=============================================================================
