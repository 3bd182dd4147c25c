---------------------------- MODULE OverflowIdiom ----------------------------
(***************************************************************************)
(* Two passes of intck one after the other on one instruction: overflow-   *)
(* idiom turns a comparison that tests a product by a division into an     *)
(* overflow intrinsic (src/OverflowIdiom.cc), overflow-simplify turns an   *)
(* intrinsic with a constant operand into comparisons (OverflowSimplify).  *)
(* A program that has the intrinsic itself is the second pass alone.       *)
(***************************************************************************)
EXTENDS OverflowSimplify

CONSTANT IdiomModuli   \* the moduli of the widths of the comparisons considered

ASSUME IdiomModuliAssumption == IdiomModuli \subseteq Moduli

VARIABLES
  src,     \* the comparison in the source, [form |-> "none"] if there is none
  pass,    \* the pass that comes next
  rest,    \* what the comparison is now, besides the intrinsic's overflow bit
  inv      \* the comparison is now the negation of that

idiomVars == <<src, pass, rest, inv>>

(* x compared with (x * y) / y, or with c / y; the quotient may be either  *)
(* operand.  A 0 / y has been folded before, and a division by zero has no *)
(* result the rewriting must keep.  No signed comparison is matched: one   *)
(* stands for all.                                                         *)
Predicates == {"eq", "ne", "ugt", "uge", "ult", "ule", "sgt"}

InversePredicate(p) ==
  CASE p = "eq"  -> "ne"  [] p = "ne"  -> "eq"
    [] p = "ugt" -> "ule" [] p = "ule" -> "ugt"
    [] p = "ult" -> "uge" [] p = "uge" -> "ult"
    [] p = "sgt" -> "sle" [] p = "slt" -> "sge"

SwappedPredicate(p) ==
  CASE p = "ugt" -> "ult" [] p = "ult" -> "ugt"
    [] p = "uge" -> "ule" [] p = "ule" -> "uge"
    [] p = "sgt" -> "slt" [] OTHER -> p

Compare(p, x, y) ==
  CASE p = "eq"  -> x = y [] p = "ne"  -> x # y
    [] p = "ugt" -> x > y [] p = "uge" -> x >= y
    [] p = "ult" -> x < y [] p = "ule" -> x <= y
    [] p = "sgt" -> SGT(src.m, x, y)

Other(side) == IF side = "right" THEN "left" ELSE "right"

Source ==
  LET quotient == (IF src.form = "ne" THEN Wrap(src.m, src.x * src.y) ELSE src.c) \div src.y
  IN  IF src.side = "right" THEN Compare(src.pred, src.x, quotient)
      ELSE Compare(src.pred, quotient, src.x)

(* matchCmp knows one predicate of each form, with the quotient on the     *)
(* right; the other ways to write the comparison are tried in turn: as it  *)
(* is, inverted, swapped, swapped and inverted.                            *)
MatchCmp(p, side) ==
  side = "right" /\ p = (IF src.form = "ne" THEN "ne" ELSE "ugt")

Attempt(p, side, i) == [pred |-> p, side |-> side, inv |-> i]

AttemptsSamePredicate(p, side) ==   \* faulty: operands swapped under the same predicate
  << Attempt(p, side, FALSE), Attempt(InversePredicate(p), side, TRUE),
     Attempt(p, Other(side), FALSE), Attempt(InversePredicate(p), Other(side), TRUE) >>

Attempts(p, side) ==
  LET q == SwappedPredicate(p)
  IN  << Attempt(p, side, FALSE), Attempt(InversePredicate(p), side, TRUE),
         Attempt(q, Other(side), FALSE), Attempt(InversePredicate(q), Other(side), TRUE) >>

Matching(tries) == { i \in DOMAIN tries : MatchCmp(tries[i].pred, tries[i].side) }

IsUMax == src.c = UMax(src.m)

(* c is the largest number of a smaller width: c + 1 is a power of two.    *)
IsPowerOf2(n) == \E i \in 0 .. n : n = 2 ^ i

IsNarrow == ~IsUMax /\ IsPowerOf2(src.c + 1)

-----------------------------------------------------------------------------
Comparisons(k) ==
  [form : {"ne"}, m : {k}, pred : Predicates, side : {"left", "right"},
   x : Word(k), y : Word(k) \ {0}] \cup
  [form : {"gt"}, m : {k}, pred : Predicates, side : {"left", "right"},
   x : Word(k), y : Word(k) \ {0}, c : Word(k) \ {0}]

IdiomInit ==
  /\ pass = "idiom" /\ rest = FALSE /\ inv = FALSE
  /\ \/ /\ src = [form |-> "none"]
        /\ Init
     \/ /\ \E k \in IdiomModuli : src \in Comparisons(k)
        /\ m = src.m /\ op = "umul" /\ l = 0 /\ r = 0
        /\ lc \in BOOLEAN /\ rc \in BOOLEAN
        /\ done = FALSE /\ cmp = FALSE

(* createOverflowBit for x * y at modulus k, the operands cut to it.       *)
CreateOverflowBit(k) ==
  /\ m' = k /\ op' = "umul"
  /\ l' = src.x % k /\ r' = src.y % k
  /\ cmp' = ((src.x % k) * (src.y % k) > UMax(k))
  /\ UNCHANGED <<lc, rc, done>>

Match ==
  /\ pass = "idiom" /\ src.form # "none"
  /\ LET tries == Attempts(src.pred, src.side)
         hit   == CHOOSE i \in Matching(tries) : \A j \in Matching(tries) : i <= j
     IN  /\ Matching(tries) # {}
         /\ inv' = tries[hit].inv
  /\ \/ /\ src.form = "gt" => IsUMax
        /\ CreateOverflowBit(src.m)
        /\ rest' = FALSE /\ pass' = "simplify"
     \/ /\ src.form = "gt" /\ IsNarrow
        /\ CreateOverflowBit(src.c + 1)
        /\ rest' = (src.x > src.c \/ src.y > src.c) /\ pass' = "simplify"
     \/ /\ src.form = "gt" /\ ~IsUMax /\ ~IsNarrow
        /\ rest' = (src.x * src.y > src.c) /\ pass' = "done"
        /\ UNCHANGED vars
  /\ UNCHANGED src

NoMatch ==
  /\ pass = "idiom" /\ src.form # "none"
  /\ Matching(Attempts(src.pred, src.side)) = {}
  /\ rest' = Source /\ pass' = "done"
  /\ UNCHANGED <<vars, src, inv>>

Simplify ==
  /\ pass = "simplify" \/ (pass = "idiom" /\ src.form = "none")
  /\ Next
  /\ pass' = "done"
  /\ UNCHANGED <<src, rest, inv>>

IdiomEnded == pass = "done" /\ UNCHANGED <<vars, idiomVars>>

IdiomNext == Match \/ NoMatch \/ Simplify \/ IdiomEnded

IdiomSpec == IdiomInit /\ [][IdiomNext]_<<vars, idiomVars>>

-----------------------------------------------------------------------------
(* The comparison as the program now computes it.                          *)
Rewritten == (rest \/ cmp) # inv

Narrowed == src.form = "gt" /\ IsNarrow

Zero == src.x = 0 /\ src.y > src.c

(* A comparison has the same result before and after the passes, whichever *)
(* way it is written and whichever of its operands is a constant, but for  *)
(* x = 0 where the test is narrowed.                                       *)
IdiomKept ==
  pass # "idiom" /\ src.form # "none" /\ ~(Narrowed /\ Zero) => (Rewritten <=> Source)

=============================================================================
