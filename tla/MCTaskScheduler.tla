--------------------------- MODULE MCTaskScheduler ---------------------------
(* Instances of TaskScheduler for TLC. *)
EXTENDS TaskScheduler

k1 == [region |-> "r", path |-> <<"a">>, key |-> "1"]
k2 == [region |-> "r", path |-> <<"a">>, key |-> "2"]
kAll == [region |-> "r", path |-> <<>>, key |-> AnyEntry]

NoKeys == {{}}
MixedKeys == {{k1}, {k2}, {kAll}}

=============================================================================
