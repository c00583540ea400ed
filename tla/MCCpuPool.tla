------------------------------ MODULE MCCpuPool ------------------------------
(* Instances of CpuPool for TLC; the configurations name the workers. *)
EXTENDS CpuPool

=============================================================================
