---------------------------- MODULE LifecycleMC ----------------------------
(* Small instances of Lifecycle for TLC. *)
EXTENDS Lifecycle

=============================================================================
