-------------------------------- MODULE MCVm --------------------------------
(* The shell and a child.  The programs: a page of code; two segments that  *)
(* share a page, at the address of TEST_FINISH; a page that is not         *)
(* executable at the entry; one page more than a space may have.           *)
EXTENDS Vm

Map(v, f) == [vpn |-> v, flags |-> f]

MCPrograms ==
  {[entry |-> 16, maps |-> <<Map(16, {"R", "X"})>>],
   [entry |-> 256, maps |-> <<Map(256, {"R"}), Map(256, {"X"})>>],
   [entry |-> 16, maps |-> <<Map(16, {"R", "W"})>>],
   [entry |-> 16, maps |-> <<Map(16, {"R", "X"}), Map(256, {"R", "W"})>>]}
=============================================================================
