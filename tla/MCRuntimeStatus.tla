-------------------------- MODULE MCRuntimeStatus ---------------------------
(* An instance of RuntimeStatus for TLC. *)
EXTENDS RuntimeStatus

=============================================================================
