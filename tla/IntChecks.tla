------------------------------ MODULE IntChecks ------------------------------
(***************************************************************************)
(* The values that passes of intck add to a function: the conditions       *)
(* int-rewrite and int-libcalls give to int.sat (src/IntRewrite.cc,        *)
(* src/IntLibcalls.cc), and the result ideal-shift gives a shift           *)
(* (src/IdealShift.cc).  Values are listed so that operands come first; an *)
(* operand is the place of a value.                                        *)
(***************************************************************************)
EXTENDS Terms

Fresh(w)           == [kind |-> "fresh", w |-> w]
Const(w, n)        == [kind |-> "const", w |-> w, num |-> n]
Binary(o, w, x, y) == [kind |-> "binary", op |-> o, w |-> w, a |-> x, b |-> y]
ICmp(p, x, y)      == [kind |-> "icmp", pred |-> p, w |-> 1, a |-> x, b |-> y]
Select(w, z, x, y) == [kind |-> "select", w |-> w, c |-> z, a |-> x, b |-> y]

(* The checks have their operands at places 1 and 2 of vals, and are added *)
(* at its end.                                                             *)
Then(vals, I) == Append(vals, I)

insertDivCheckZero(vals, signed, w) ==   \* faulty: not the quotient that overflows
  Then(Then(vals, Const(w, 0)), ICmp("eq", 2, Len(vals) + 1))

insertDivCheck(vals, signed, w) ==
  LET n    == Len(vals)
      zero == Then(Then(vals, Const(w, 0)), ICmp("eq", 2, n + 1))
  IN  IF ~signed THEN zero
      ELSE zero \o << Const(w, SMin(Mod(w))), Const(w, UMax(Mod(w))),
                      ICmp("eq", 1, n + 3), ICmp("eq", 2, n + 4),
                      Binary("and", 1, n + 5, n + 6), Binary("or", 1, n + 2, n + 7) >>

insertShiftCheck(vals, w) ==
  Then(Then(vals, Const(w, w)), ICmp("uge", 2, Len(vals) + 1))

(* idx > n, unsigned, for each array a GEP indexes; arrays of no or one    *)
(* element stand for arrays of unknown size.                               *)
Elements(n, intmax) == IF n <= 1 THEN intmax ELSE n

insertArrayCheck(vals, w, sizes, intmax) ==
  LET n == Len(vals)
      one(i) == << Const(w, Elements(sizes[i], intmax)), ICmp("ugt", i, n + 2 * i - 1) >>
  IN  IF Len(sizes) = 1 THEN vals \o one(1)
      ELSE vals \o one(1) \o one(2) \o << Binary("or", 1, n + 2, n + 4) >>

rewriteSizeAt(vals, w) ==
  Then(Then(vals, Const(w, 0)), ICmp("slt", 1, Len(vals) + 1))

(* A shift, and what its users now use: the ideal value if the amount is   *)
(* the width or more.                                                      *)
IdealShift(vals, o, w) ==
  LET n == Len(vals)
  IN  vals \o << Binary(o, w, 1, 2), Const(w, w), ICmp("uge", 2, n + 2) >>
           \o (IF o = "ashr" THEN << Const(w, w - 1), Binary("ashr", w, 1, n + 4) >>
               ELSE << Const(w, 0), Const(w, 0) >>)
           \o << Select(w, n + 3, n + 5, n + 1) >>

(* What is asked, of operands that stand for any value of a width: whether *)
(* an instruction has no result, whether an index is out of the bounds of  *)
(* an array, whether a size is negative, the ideal result of a shift.      *)
Fresh2(w) == <<Fresh(w), Fresh(w)>>

CheckOf(q) ==
  CASE q.kind = "undefined" /\ q.op \notin Shifts -> insertDivCheck(Fresh2(q.w), q.op = "sdiv", q.w)
    [] q.kind = "undefined" /\ q.op \in Shifts -> insertShiftCheck(Fresh2(q.w), q.w)
    [] q.kind = "bounds" ->
         insertArrayCheck([i \in DOMAIN q.sizes |-> Fresh(q.w)], q.w, q.sizes, q.intmax)
    [] q.kind = "negative" -> rewriteSizeAt(<<Fresh(q.w)>>, q.w)
    [] q.kind = "ideal" -> IdealShift(Fresh2(q.w), q.op, q.w)

(* The elements of an array are fewer than half the words of its index.    *)
IsQuestion(q) ==
  /\ q.kind \in {"undefined", "bounds", "negative", "ideal"}
  /\ q.w \in Nat \ {0}
  /\ q.kind = "undefined" => q.op \in {"udiv", "sdiv"} \cup Shifts
  /\ q.kind = "ideal" => q.op \in Shifts
  /\ q.kind = "bounds" =>
       /\ Len(q.sizes) \in {1, 2} /\ DOMAIN q.sizes = 1 .. Len(q.sizes)
       /\ \A i \in DOMAIN q.sizes : Elements(q.sizes[i], q.intmax) \in 0 .. SMax(Mod(q.w))

=============================================================================
