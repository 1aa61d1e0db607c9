--------------------------- MODULE LocalTerminalMC ---------------------------
(* Small instances of LocalTerminal for TLC. *)
EXTENDS LocalTerminal

=============================================================================
