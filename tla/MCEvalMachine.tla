---------------------------- MODULE MCEvalMachine ----------------------------
(* Instances of EvalMachine for TLC. *)
EXTENDS EvalMachine

AllForms == {"block", "handle", "perform", "try", "call", "return", "resume", "finish", "loop",
             "retry", "host", "checkpoint", "requeue", "park"}

=============================================================================
