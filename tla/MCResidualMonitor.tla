-------------------------- MODULE MCResidualMonitor --------------------------
(* Instances of ResidualMonitor for TLC. *)
EXTENDS ResidualMonitor

=============================================================================
