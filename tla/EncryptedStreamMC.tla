------------------------- MODULE EncryptedStreamMC -------------------------
(* Small instances of EncryptedStream for TLC. *)
EXTENDS EncryptedStream

=============================================================================
