------------------------------ MODULE MCMiniFS ------------------------------
(* MiniFS for TLC: names, flags open is called with, symmetry of names *)
EXTENDS MiniFS, TLC

TruncFlags == {{"read", "write", "create", "trunc"}}
AppendFlags == {{"read", "write", "create", "append"}}
MCSymmetry == Permutations(Names)
=============================================================================
