-------------------------- MODULE OverflowSimplify --------------------------
(***************************************************************************)
(* The pass that replaces an overflow intrinsic with a constant operand by *)
(* an operation and a comparison (src/OverflowSimplify.cc), so that the    *)
(* solver gets simpler queries.  A behaviour is the rewriting of one       *)
(* intrinsic; its operands have the values they have in one execution of   *)
(* the rewritten program.                                                  *)
(***************************************************************************)
EXTENDS Words

CONSTANT Moduli   \* the moduli of the widths considered

ASSUME ModuliAssumption == \A m \in Moduli : m \in Nat /\ m >= 2 /\ m % 2 = 0

Ops == {"sadd", "uadd", "ssub", "usub", "smul", "umul"}

VARIABLES
  m,       \* 2 to the width of the operands
  op,      \* the operation whose overflow the intrinsic computes
  l, r,    \* the values of its operands
  lc, rc,  \* whether an operand is a constant
  done,    \* runOnFunction has passed the intrinsic
  cmp      \* the value of its overflow bit, computed as the program now does

vars == <<m, op, l, r, lc, rc, done, cmp>>

(* The operation on integers, and whether its result fits the width.       *)
Signs(o) == o \in {"sadd", "ssub", "smul"}

Exact ==
  LET a == IF Signs(op) THEN Signed(m, l) ELSE l
      b == IF Signs(op) THEN Signed(m, r) ELSE r
  IN  CASE op \in {"sadd", "uadd"} -> a + b
        [] op \in {"ssub", "usub"} -> a - b
        [] op \in {"smul", "umul"} -> a * b

Overflows ==
  IF Signs(op) THEN Exact < -Half(m) \/ Exact > Half(m) - 1
  ELSE Exact < 0 \/ Exact > m - 1

TypeOK ==
  /\ m \in Moduli
  /\ op \in Ops
  /\ l \in Word(m) /\ r \in Word(m)
  /\ lc \in BOOLEAN /\ rc \in BOOLEAN
  /\ done \in BOOLEAN
  /\ cmp \in BOOLEAN

Init ==
  /\ m \in Moduli
  /\ op \in Ops
  /\ l \in Word(m) /\ r \in Word(m)
  /\ lc \in BOOLEAN /\ rc \in BOOLEAN
  /\ done = FALSE
  /\ cmp = Overflows

(* canonicalize: the constant operand, the right one if both are, and the  *)
(* other.                                                                  *)
HasConstant == lc \/ rc
X == IF rc THEN l ELSE r
C == IF rc THEN r ELSE l

(* The comparisons that replace the overflow bit.                          *)
SAddCmp ==
  IF IsNegative(m, C) THEN SLT(m, X, Wrap(m, SMin(m) - C))
                      ELSE SGT(m, X, Wrap(m, SMax(m) - C))

UAddCmpFrom == X >= UMax(m) - C   \* faulty: off by one

UAddCmp == X > UMax(m) - C

(* With a constant on the left these test L, the constant itself.          *)
SSubCmp ==
  IF rc
  THEN IF IsNegative(m, r) THEN SGT(m, l, Wrap(m, SMax(m) + r))
                           ELSE SLT(m, l, Wrap(m, SMin(m) + r))
  ELSE IF IsNegative(m, l) THEN SGT(m, l, Wrap(m, l - SMin(m)))
                           ELSE SLT(m, l, Wrap(m, l - SMax(m)))

USubCmp == IF lc THEN r > l ELSE l < r

SMulCmp ==
  LET max == SDiv(m, SMax(m), C)
      min == SDiv(m, SMin(m), C)
  IN  /\ C # 0
      /\ IF IsNegative(m, C) THEN SLT(m, X, max) \/ SGT(m, X, min)
                             ELSE SGT(m, X, max) \/ SLT(m, X, min)

UMulCmpWrapped == C # 0 /\ Wrap(m, X * C) < X   \* faulty: the naive test

UMulCmp == C # 0 /\ X > UMax(m) \div C

Replace(o, value) ==
  /\ ~done /\ op = o
  /\ done' = TRUE
  /\ cmp' = value
  /\ UNCHANGED <<m, op, l, r, lc, rc>>

simplifySAdd == HasConstant /\ Replace("sadd", SAddCmp)
simplifyUAdd == HasConstant /\ Replace("uadd", UAddCmp)
simplifySSub == HasConstant /\ Replace("ssub", SSubCmp)
simplifyUSub == Replace("usub", USubCmp)
simplifySMul == HasConstant /\ Replace("smul", SMulCmp)
simplifyUMul == HasConstant /\ Replace("umul", UMulCmp)

(* An intrinsic without a constant operand is left as it is.               *)
Keep ==
  /\ op # "usub" /\ ~HasConstant
  /\ ~done
  /\ done' = TRUE
  /\ UNCHANGED <<m, op, l, r, lc, rc, cmp>>

Ended == done /\ UNCHANGED vars

Next ==
  \/ simplifySAdd \/ simplifyUAdd \/ simplifySSub \/ simplifyUSub
  \/ simplifySMul \/ simplifyUMul \/ Keep \/ Ended

Spec == Init /\ [][Next]_vars

-----------------------------------------------------------------------------
ConstantMinus == op = "ssub" /\ lc /\ ~rc
TimesMinusOne == op = "smul" /\ HasConstant /\ C = m - 1

(* The rewritten program reports an overflow exactly where the operation   *)
(* overflows, at every width and at the limits of both readings, but for a *)
(* signed C - x and for a signed x * -1.                                   *)
OverflowKept == ~ConstantMinus /\ ~TimesMinusOne => (cmp <=> Overflows)

(* The quotient SMIN / -1 wraps to SMIN, so that x * -1 is reported for    *)
(* every x (src/OverflowSimplify.cc:232): too often, but no overflow of it *)
(* is missed, nor of any other operation.                                  *)
NoneMissed == ~ConstantMinus => (Overflows => cmp)

(* "ssub.overflow(C, R) => R > C - SMIN, if C < 0, R < C - SMAX,           *)
(* otherwise" (src/OverflowSimplify.cc:185-187).                           *)
ConstantMinusKept == ConstantMinus => (cmp <=> Overflows)

=============================================================================
