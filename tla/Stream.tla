------------------------------ MODULE Stream ------------------------------
(***************************************************************************)
(* What a program may rely on when it reads the console: the bytes typed   *)
(* arrive once each and in order, until the machine is switched off.       *)
(***************************************************************************)
EXTENDS Sequences

CONSTANT Input      \* the bytes typed

VARIABLES left,     \* bytes still to arrive
          got,      \* bytes the program has read
          open      \* the machine is running

Init == left = Input /\ got = <<>> /\ open = TRUE

Deliver ==
  /\ open /\ left # <<>>
  /\ got' = Append(got, Head(left))
  /\ left' = Tail(left)
  /\ UNCHANGED open

SwitchOff ==
  /\ open
  /\ open' = FALSE /\ left' = <<>>
  /\ UNCHANGED got

Next == Deliver \/ SwitchOff

Spec == Init /\ [][Next]_<<left, got, open>>
=============================================================================
