------------------------------- MODULE MCUart -------------------------------
(* Uart for TLC: three bytes, so that one can be in the register and one   *)
(* with the listener while one is still in stdin; two of them are equal.   *)
EXTENDS Uart

Typed == <<"a", "b", "a">>
=============================================================================
