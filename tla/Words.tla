-------------------------------- MODULE Words --------------------------------
(***************************************************************************)
(* Integers of a fixed width as LLVM's APInt has them: the numbers below   *)
(* m, which is 2 to the width, with a signed reading of the same bits.     *)
(***************************************************************************)
EXTENDS Integers

Word(m) == 0 .. m - 1

Half(m) == m \div 2

Wrap(m, i) == i % m

(* The signed reading of a word, and the limits of both readings.          *)
Signed(m, x) == IF x < Half(m) THEN x ELSE x - m

SMin(m) == Half(m)
SMax(m) == Half(m) - 1
UMax(m) == m - 1

IsNegative(m, x) == x >= Half(m)

(* Division of integers, truncated towards zero, and of signed words.      *)
Quotient(a, b) ==
  IF a >= 0 THEN (IF b > 0 THEN a \div b ELSE -(a \div (-b)))
  ELSE (IF b > 0 THEN -((-a) \div b) ELSE (-a) \div (-b))

SDiv(m, x, y) == Wrap(m, Quotient(Signed(m, x), Signed(m, y)))

(* Comparison of signed words.                                             *)
SLT(m, x, y) == Signed(m, x) < Signed(m, y)
SGT(m, x, y) == Signed(m, x) > Signed(m, y)

=============================================================================
