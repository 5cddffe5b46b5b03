------------------------------- MODULE MCTask -------------------------------
(* Small instances of Task for TLC. *)
EXTENDS Task
=============================================================================
