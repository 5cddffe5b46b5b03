------------------------------- MODULE Words -------------------------------
(* Machine words of 64 bits.  A word is the set of the positions of its    *)
(* one bits, so no width is scaled down: and, or and shift are operations  *)
(* on sets.                                                                *)
EXTENDS Integers, FiniteSetsExt

Bits == 0 .. 63
Zero == {}

Xor(x, y) == (x \ y) \cup (y \ x)
Not(x) == Bits \ x
Shl(x, n) == {i + n : i \in {j \in x : j + n <= 63}}
Shr(x, n) == {i - n : i \in {j \in x : j >= n}}
SignExtend(x, n) ==
  (x \cap (0 .. n - 1)) \cup (IF n - 1 \in x THEN n .. 63 ELSE {})
Sar(x, n) == Shr(x, n) \cup (IF 63 \in x THEN 64 - n .. 63 ELSE {})

(* A carry arrives at bit i from the last bit below it where the operands  *)
(* agree, when they are both one there.                                    *)
Carries(x, y, ones) ==
  {i \in 1 .. 63 : \E j \in ones : j < i /\ \A k \in j + 1 .. i - 1 : k \in x \/ k \in y}
Plus(x, y) == Xor(Xor(x, y), Carries(x, y, x \cap y))
Negative(x) ==
  IF x = {} THEN {} ELSE LET low == Min(x) IN {low} \cup ((low + 1 .. 63) \ x)
Minus(x, y) == Plus(x, Negative(y))

Below(x, y) == LET d == Xor(x, y) IN d # {} /\ Max(d) \in y
SignedBelow(x, y) == Below(Xor(x, {63}), Xor(y, {63}))

(* Small numbers: Number(x) of a word, Word(n) of an integer.              *)
Number(x) == SumSet({2 ^ i : i \in x})
BitsOf(n) == {i \in 0 .. 29 : (n \div 2 ^ i) % 2 = 1}
Word(n) == IF n >= 0 THEN BitsOf(n) ELSE Not(BitsOf(-n - 1))
=============================================================================
