--------------------------- MODULE MCRegistration ---------------------------
(* Small instances of Registration for TLC. *)
EXTENDS Registration

CONSTANTS h1, u1, u2
=============================================================================
