---------------------------- MODULE MCTaskRestore ----------------------------
(* Instances of TaskRestore for TLC. *)
EXTENDS TaskRestore

NoKeys == {{}}

=============================================================================
