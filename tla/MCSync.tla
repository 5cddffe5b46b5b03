------------------------------- MODULE MCSync -------------------------------
EXTENDS Sync
(* Thread 1 is started by the boot thread and starts the others. *)
MCParentOf == [t \in Threads |-> IF t = 1 THEN Idle ELSE 1]
=============================================================================
