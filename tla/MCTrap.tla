------------------------------- MODULE MCTrap -------------------------------
(* Small instances of Trap for TLC. *)
EXTENDS Trap
=============================================================================
