-------------------------------- MODULE CRange --------------------------------
(***************************************************************************)
(* Ranges of values of one integer width, as llvm::ConstantRange and       *)
(* CRange (src/CRange.h) provide them to the range pass: a range is the    *)
(* set of its members, which follow one another when words are laid out in *)
(* a circle.                                                               *)
(***************************************************************************)
EXTENDS Integers, FiniteSets

CONSTANT Modulus   \* 2 to the width of the integers

ASSUME ModulusAssumption == Modulus \in Nat /\ Modulus >= 2

Word == 0 .. Modulus - 1

FullSet  == Word
EmptySet == {}

Arc(lo, size) == { x \in Word : (IF x >= lo THEN x - lo ELSE x + Modulus - lo) < size }

Ranges == {EmptySet} \cup { Arc(lo, size) : lo \in Word, size \in 1 .. Modulus }

(* The smallest range that holds a set.                                    *)
Holders(S) == { R \in Ranges : S \subseteq R }

HullTable ==
  [S \in SUBSET Word |->
     CHOOSE R \in Holders(S) : \A Q \in Holders(S) : Cardinality(R) <= Cardinality(Q)]

Hull(S) == HullTable[S]

safeUnion(R, Q) == IF R = FullSet \/ Q = EmptySet THEN R ELSE Hull(R \cup Q)

(* The ranges of a family joined to one, one after the other.              *)
UnionOver(first, family) ==
  LET upTo[S \in SUBSET DOMAIN family] ==
        IF S = {} THEN first
        ELSE LET x == CHOOSE x \in S : TRUE IN safeUnion(upTo[S \ {x}], family[x])
  IN  upTo[DOMAIN family]

(* What R and Q share, or the smaller of the two if that is no range.      *)
intersectWith(R, Q) ==
  CASE R \cap Q \in Ranges -> R \cap Q
    [] R \cap Q \notin Ranges /\ Cardinality(R) < Cardinality(Q) -> R
    [] OTHER -> Q

inverse(R) == Word \ R

-----------------------------------------------------------------------------
Predicates == {"ult", "ule", "ugt", "uge", "eq", "ne"}

(* Comparisons, and the range of what can be in a relation with a member   *)
(* of R.                                                                   *)
Compare(pred, x, y) ==
  CASE pred = "ult" -> x < y
    [] pred = "ule" -> x <= y
    [] pred = "ugt" -> x > y
    [] pred = "uge" -> x >= y
    [] pred = "eq"  -> x = y
    [] pred = "ne"  -> x # y

InversePredicate(pred) ==
  CASE pred = "ult" -> "uge" [] pred = "ule" -> "ugt" [] pred = "ugt" -> "ule"
    [] pred = "uge" -> "ult" [] pred = "eq" -> "ne" [] pred = "ne" -> "eq"

SwappedPredicate(pred) ==
  CASE pred = "ult" -> "ugt" [] pred = "ule" -> "uge" [] pred = "ugt" -> "ult"
    [] pred = "uge" -> "ule" [] OTHER -> pred

makeICmpRegion(pred, R) == Hull({ x \in Word : \E y \in R : Compare(pred, x, y) })

Operations == {"add", "sub", "mul", "udiv", "urem"}

(* The results of an operation; a division by zero has none.               *)
Results(fn, x, y) ==
  CASE fn = "add"  -> {(x + y) % Modulus}
    [] fn = "sub"  -> {(x - y) % Modulus}
    [] fn = "mul"  -> {(x * y) % Modulus}
    [] fn = "udiv" -> IF y = 0 THEN {} ELSE {x \div y}
    [] fn = "urem" -> IF y = 0 THEN {} ELSE {x % y}

Image(fn, R, Q) == UNION { Results(fn, x, y) : x \in R, y \in Q }

=============================================================================
