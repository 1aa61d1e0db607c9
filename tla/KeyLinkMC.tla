---------------------------- MODULE KeyLinkMC ----------------------------
(* A small instance of KeyLink for TLC. *)
EXTENDS KeyLink

MCContext == <<1>>
MCInput == <<2>>
MCOutput == <<2, 2>>
MCIds == {5, 6}
MCMaster == [i \in MCIds |-> i + 10]

=============================================================================
