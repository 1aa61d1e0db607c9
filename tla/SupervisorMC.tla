---------------------------- MODULE SupervisorMC ----------------------------
(* Small instances of Supervisor for TLC. *)
EXTENDS Supervisor

=============================================================================
