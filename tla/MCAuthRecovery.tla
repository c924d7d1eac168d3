--------------------------- MODULE MCAuthRecovery ---------------------------
(* Small instances of AuthRecovery for TLC. *)
EXTENDS AuthRecovery

CONSTANTS p1, p2

=============================================================================
