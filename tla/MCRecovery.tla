---------------------------- MODULE MCRecovery ----------------------------
(* Two series and up to two crashes for Recovery. *)
EXTENDS Recovery

CONSTANTS x, y

=============================================================================
