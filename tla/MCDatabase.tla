----------------------------- MODULE MCDatabase -----------------------------
(***************************************************************************)
(* Database.tla for TLC: two versions as they are named today, one as they *)
(* were before, a copy that someone kept, and a name with a sign.          *)
(***************************************************************************)
EXTENDS Database, TLC

MCName == <<"-2", "10", "10-old", "9", "9.6">>
MCNumber == "-2" :> -2 @@ "10" :> 10 @@ "9" :> 9

=============================================================================
