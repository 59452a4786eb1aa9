-------------------------------- MODULE Bits --------------------------------
(***************************************************************************)
(* The operators &, | and ^ of C on unsigned numbers of Width bits.  (The  *)
(* community module Bitwise has them too, but by recursive operators,      *)
(* about which nothing can be proved here.)                                *)
(***************************************************************************)
EXTENDS Integers, Sums

CONSTANT Width   \* bits of a register: 32 in the code, less for model checking

ASSUME WidthAssumption == Width \in {8, 16, 32}

\* The positions of the ones of a, and the number that has them there.
Ones(a)      == {k \in 0..(Width - 1) : (a \div 2^k) % 2 = 1}
WithOnes(ks) == SumOver(ks, [k \in ks |-> 2^k])

BitAnd(a, b) == WithOnes(Ones(a) \cap Ones(b))
BitOr(a, b)  == WithOnes(Ones(a) \cup Ones(b))
BitXor(a, b) == WithOnes((Ones(a) \ Ones(b)) \cup (Ones(b) \ Ones(a)))
=============================================================================
