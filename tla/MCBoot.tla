------------------------------- MODULE MCBoot -------------------------------
(* Kernels of one byte, of a sector and a half, of the whole slot, one     *)
(* that ends in zeros, one that is too large and an empty one.             *)
EXTENDS Boot

MCKernels == {<<1>>, <<2, 1, 2>>, <<1, 2, 2, 1>>, <<2, 0, 0>>, <<1, 1, 1, 1, 1>>, <<>>}
=============================================================================
