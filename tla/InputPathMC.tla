---------------------------- MODULE InputPathMC ----------------------------
(* A small instance of InputPath for TLC. *)
EXTENDS InputPath

MCContext == <<1>>
MCInput == <<2>>
MCOutput == <<2, 2>>
MCSession == <<3>>

=============================================================================
