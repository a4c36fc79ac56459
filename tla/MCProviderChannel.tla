-------------------------- MODULE MCProviderChannel --------------------------
(* Small instances of ProviderChannel for TLC. *)
EXTENDS ProviderChannel

CONSTANTS c1, c2
=============================================================================
