----------------------------- MODULE MCTaskDriver -----------------------------
(* Instances of TaskDriver for TLC. *)
EXTENDS TaskDriver

k1 == [region |-> "r", path |-> <<"a">>, key |-> "1"]

NoKeys == {{}}
OneKey == {{}, {k1}}

=============================================================================
