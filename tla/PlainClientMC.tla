---------------------------- MODULE PlainClientMC ----------------------------
(* Small instances of PlainClient for TLC. *)
EXTENDS PlainClient

=============================================================================
