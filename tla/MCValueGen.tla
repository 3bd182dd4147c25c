----------------------------- MODULE MCValueGen -----------------------------
(***************************************************************************)
(* ValueGen on programs of a few values, under every assignment: each      *)
(* operation on words of 2 to 4 bits, each range, and addresses with       *)
(* indices narrower than, as wide as and wider than a pointer.             *)
(***************************************************************************)
EXTENDS ValueGen, TLC

Ranged(w, lo, hi) == [kind |-> "fresh", w |-> w, range |-> <<lo, hi>>]
Cast(k, w, x)    == [kind |-> k, w |-> w, a |-> x]
ResultOf(o, w, x, y) == [kind |-> "result", op |-> o, w |-> w, a |-> x, b |-> y]
OverflowOf(o, x, y) == [kind |-> "overflow", op |-> o, w |-> 1, a |-> x, b |-> y]
GEP(x, i)        == [kind |-> "gep", w |-> PtrSize, a |-> x, index |-> i]

ByValue(v, n)    == [by |-> "value", val |-> v, size |-> n]
ByConst(w, c, n) == [by |-> "const", w |-> w, num |-> c, size |-> n]
ByField(n)       == [by |-> "field", offset |-> n]

Predicates == {"eq", "ne", "slt", "sle", "sgt", "sge", "ult", "ule", "ugt", "uge"}

Program(vals, fresh, query, guard, phis) ==
  [vals |-> vals, fresh |-> fresh, query |-> query, guard |-> guard, phis |-> phis, asks |-> << >>]

Words2(w) == Word(Mod(w)) \X Word(Mod(w))

(* An operation, and a comparison of its result with an operand.           *)
Arithmetic ==
  { Program(<<Fresh(w), Fresh(w), Binary(o, w, 1, 2), ICmp("ult", 3, 2)>>, f, 4, << >>, << >>) :
      o \in BinaryOps, w \in {3}, f \in Words2(3) } \cup
  { Program(<<Fresh(4), Fresh(4), Binary(o, 4, 1, 2), ICmp("eq", 3, 1)>>, f, 4, << >>, << >>) :
      o \in {"sdiv", "mul"} \cup Shifts, f \in Words2(4) }

(* An operation with its overflow bit, in a block behind a branch.         *)
Intrinsics ==
  { Program(<<Fresh(3), Fresh(3), ResultOf(o, 3, 1, 2), OverflowOf(o, 1, 2), ICmp(p, 3, 2)>>, f, 4,
            [cond |-> 5, way |-> FALSE], << >>) :
      o \in OverflowOps, p \in {"sgt"}, f \in Words2(3) }

(* Comparisons of an operand with itself cast, selected by another, in a   *)
(* block with a phi.                                                       *)
Comparisons ==
  { Program(<<Fresh(2), Cast(k, 4, 1), Fresh(4), ICmp(p, 2, 3), Select(4, 4, 2, 3),
              Cast("trunc", 1, 5), Fresh(4)>>, [i \in {1, 3, 7} |-> f[i]], 6,
            [cond |-> 4, way |-> TRUE], <<[val |-> 7, from |-> 5]>>) :
      k \in {"zext", "sext"}, p \in Predicates,
      f \in { [i \in {1, 3, 7} |-> IF i = 1 THEN x ELSE IF i = 3 THEN y ELSE 9] :
                x \in Word(4), y \in Word(16) } }

(* A value with a range, used twice.                                       *)
Ranges ==
  { Program(<<Ranged(3, lo, hi), ICmp("sle", 1, 1)>>, <<x>>, 2, << >>, << >>) :
      lo \in Word(8), hi \in Word(8), x \in Word(8) }

(* Addresses, seen as integers of three widths and through another type.   *)
Addresses ==
  { Program(<<Fresh(PtrSize), Fresh(w), GEP(1, i), Cast("bitcast", PtrSize, 3),
              Cast("ptrtoint", n, 4), Cast("ptrtoint", n, 1), ICmp("uge", 5, 6)>>, <<b, x>>, 7,
            [cond |-> 7, way |-> TRUE], << >>) :
      w \in {2, 3, 4}, n \in {2, 3, 4}, b \in {0, 5}, x \in Word(4),
      i \in { <<ByValue(2, 3)>>, <<ByConst(2, 3, 3), ByField(2), ByValue(2, 1)>>,
              <<ByValue(2, 2), ByConst(4, 9, 1), ByValue(2, 3)>> } }

(* Checks, in the entry block, and the results of ideal shifts.            *)
Asking(q, more, fresh) ==
  LET vals == CheckOf(q) \o more
  IN  [vals |-> vals, fresh |-> fresh, query |-> Len(vals), guard |-> << >>, phis |-> << >>,
       asks |-> q @@ [at |-> Len(CheckOf(q))]]

Undefined(o) == [kind |-> "undefined", op |-> o, w |-> 3]
Bounds(z)    == [kind |-> "bounds", w |-> 3, sizes |-> z, intmax |-> 3]
Negative     == [kind |-> "negative", w |-> 3]
Ideal(o, w)  == [kind |-> "ideal", op |-> o, w |-> w]

Checks ==
  { Asking(Undefined(o), << >>, f) : o \in {"udiv", "sdiv", "shl"}, f \in Words2(3) } \cup
  { Asking(Bounds(z), << >>, f) : z \in {<<0, 2>>, <<3, 1>>, <<2, 3>>}, f \in Words2(3) } \cup
  { Asking(Bounds(<<2>>), << >>, <<x>>) : x \in Word(8) } \cup
  { Asking(Negative, << >>, <<x>>) : x \in Word(8) } \cup
  { Asking(Ideal(o, 3), <<ICmp("eq", 8, 1)>>, f) : o \in Shifts, f \in Words2(3) } \cup
  { Asking(Ideal("ashr", 4), <<ICmp("eq", 8, 1)>>, f) : f \in Words2(4) }

MCPrograms ==
  Checks \cup Arithmetic \cup Intrinsics \cup Comparisons \cup Ranges \cup Addresses

=============================================================================
