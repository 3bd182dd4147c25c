---------------------------- MODULE RewritesProof ----------------------------
(***************************************************************************)
(* Theorems about the passes that rewrite a function before it is checked: *)
(* the comparisons overflow-simplify puts in place of overflow intrinsics  *)
(* are exact at every width, so are the intrinsics overflow-idiom puts in  *)
(* place of tests by division, and load-rewrite gives the uses of a load   *)
(* the value it had in every control flow graph.                           *)
(***************************************************************************)
EXTENDS OverflowIdiom, LoadRewrite, TLAPS

(* First what the proofs about word arithmetic rest on: division,          *)
(* wrapping, and comparison with a quotient.                               *)

(* A word stays as it is.                                                  *)
LEMMA WrapInside ==
  ASSUME NEW M \in Nat, M > 0, NEW i \in Word(M)
  PROVE  Wrap(M, i) = i
BY DEF Word, Wrap

(* Floor division and its remainder.                                       *)
LEMMA Division ==
  ASSUME NEW M \in Nat, M > 0, NEW i \in Int
  PROVE  /\ i \div M \in Int
         /\ i % M \in Word(M)
         /\ i = M * (i \div M) + (i % M)
BY DEF Word

(* Multiplication by a natural number is monotone.                         *)
LEMMA MulMono ==
  ASSUME NEW M \in Nat, NEW a \in Int, NEW b \in Int, a <= b
  PROVE  M * a <= M * b
OBVIOUS

(* Quotient and remainder are determined by the remainder's range.         *)
LEMMA UniqueDivision ==
  ASSUME NEW M \in Nat, M > 0, NEW i \in Int, NEW q \in Int, NEW x \in Word(M), i = M * q + x
  PROVE  i % M = x /\ i \div M = q
<1> DEFINE d == i \div M
<1>1. i % M \in 0 .. M-1 /\ i = M * d + (i % M) /\ d \in Int
  BY Division DEF Word
<1>0. x \in 0 .. M - 1
  BY DEF Word
<1> HIDE DEF d
<1>2. CASE d <= q - 1
  <2>1. M * d <= M * (q - 1)
    BY <1>1, <1>2, MulMono
  <2>2. M * (q - 1) = M * q - M
    OBVIOUS
  <2> QED BY <1>0, <1>1, <2>1, <2>2
<1>3. CASE d >= q + 1
  <2>1. M * d >= M * (q + 1)
    BY <1>1, <1>3, MulMono
  <2>2. M * (q + 1) = M * q + M
    OBVIOUS
  <2> QED BY <1>0, <1>1, <2>1, <2>2
<1>4. CASE d = q
  <2>1. M * d = M * q /\ M * d \in Int /\ i % M \in Int
    BY <1>1, <1>4
  <2>2. i % M = x
    BY <1>0, <1>1, <2>1
  <2> QED BY <1>4, <2>2 DEF d
<1> QED BY <1>1, <1>2, <1>3, <1>4

(* A number less than a modulus below the words wraps once.                *)
LEMMA WrapBelow ==
  ASSUME NEW M \in Nat, M > 0, NEW i \in Int, i + M \in Word(M)
  PROVE  Wrap(M, i) = i + M
<1> DEFINE x == i + M
           q == -1
<1>1. i = M * q + x /\ q \in Int
  OBVIOUS
<1>2. x \in Word(M)
  OBVIOUS
<1> HIDE DEF x, q
<1>3. Wrap(M, i) = x
  BY <1>1, <1>2, UniqueDivision DEF Wrap
<1> QED
  BY <1>3 DEF x

(* And so does one less than a modulus above them.                         *)
LEMMA WrapAbove ==
  ASSUME NEW M \in Nat, M > 0, NEW i \in Int, i - M \in Word(M)
  PROVE  Wrap(M, i) = i - M
<1> DEFINE x == i - M
           q == 1
<1>1. i = M * q + x /\ q \in Int
  OBVIOUS
<1>2. x \in Word(M)
  OBVIOUS
<1> HIDE DEF x, q
<1>3. Wrap(M, i) = x
  BY <1>1, <1>2, UniqueDivision DEF Wrap
<1> QED
  BY <1>3 DEF x

(* The sign bit splits the words of an even modulus in half.               *)
LEMMA Halves ==
  ASSUME NEW M \in Nat, M % 2 = 0
  PROVE  Half(M) \in Nat /\ M = Half(M) + Half(M)
BY DEF Half

(* A number of the signed range survives wrapping when read as signed.     *)
LEMMA SignedWrap ==
  ASSUME NEW M \in Nat, M >= 2, M % 2 = 0, NEW i \in -Half(M) .. Half(M) - 1
  PROVE  Signed(M, Wrap(M, i)) = i
<1>1. Half(M) \in Nat /\ M = Half(M) + Half(M)
  BY Halves
<1>2. CASE i >= 0
  <2>1. i \in Word(M)
    BY <1>1, <1>2 DEF Word
  <2> QED
    BY <1>1, <1>2, <2>1, WrapInside DEF Signed
<1>3. CASE i < 0
  <2>1. i \in Int /\ i + M \in Word(M)
    BY <1>1, <1>3 DEF Word
  <2>2. Wrap(M, i) = i + M
    BY M > 0, <2>1, WrapBelow
  <2> QED
    BY <1>1, <1>3, <2>2 DEF Signed
<1> QED
  BY <1>1, <1>2, <1>3

(* x exceeds a quotient iff its product exceeds the dividend: the way      *)
(* overflow of a product is tested without computing it.                   *)
LEMMA QuotientBelow ==
  ASSUME NEW a \in Nat, NEW k \in Nat, k > 0, NEW x \in Int
  PROVE  x > a \div k <=> k * x > a
<1> DEFINE d == a \div k
<1>1. d \in Int /\ a = k * d + (a % k) /\ a % k \in 0 .. k - 1
  BY Division DEF Word
<1> HIDE DEF d
<1>2. CASE x >= d + 1
  <2>1. k * x >= k * (d + 1)
    BY <1>1, <1>2, MulMono
  <2>2. k * (d + 1) = k * d + k
    BY <1>1
  <2> QED
    BY <1>1, <1>2, <2>1, <2>2 DEF d
<1>3. CASE x <= d
  <2>1. k * x <= k * d
    BY <1>1, <1>3, MulMono
  <2> QED
    BY <1>1, <1>3, <2>1 DEF d
<1> QED
  BY <1>1, <1>2, <1>3

(* A quotient of natural numbers is a natural number no larger.            *)
LEMMA QuotientBound ==
  ASSUME NEW a \in Nat, NEW k \in Nat, k > 0
  PROVE  /\ a \div k \in 0 .. a
         /\ k >= 2 /\ a > 0 => a \div k < a
<1>1. a \div k \in Int
  BY Division
<1>2. ~ (a < a \div k)
  <2>1. a > a \div k <=> k * a > a
    BY QuotientBelow
  <2>2. k * a >= a
    BY MulMono, 1 * a = a, a * k = k * a, a * 1 <= a * k
  <2>3. CASE k * a = a
    <3>1. a + 1 > a \div k <=> k * (a + 1) > a
      BY QuotientBelow
    <3>2. k * (a + 1) = k * a + k
      OBVIOUS
    <3> QED
      BY <1>1, <2>3, <3>1, <3>2
  <2> QED
    BY <1>1, <2>1, <2>2, <2>3
<1>3. a \div k >= 0
  <2>1. -1 > a \div k <=> k * (-1) > a
    BY QuotientBelow
  <2>2. 0 > a \div k <=> k * 0 > a
    BY QuotientBelow
  <2> QED
    BY <1>1, <2>2
<1>4. ASSUME k >= 2, a > 0 PROVE a \div k < a
  <2>1. a > a \div k <=> k * a > a
    BY QuotientBelow
  <2>2. k * a >= 2 * a
    BY <1>4, MulMono, a * 2 <= a * k
  <2> QED
    BY <1>1, <1>4, <2>1, <2>2
<1> QED
  BY <1>1, <1>2, <1>3, <1>4

-----------------------------------------------------------------------------
(* The facts about the width and the operands the lemmas start from.       *)
LEMMA Operands ==
  ASSUME TypeOK
  PROVE  /\ m \in Nat /\ m >= 2 /\ Half(m) \in Nat /\ Half(m) >= 1
         /\ m = Half(m) + Half(m)
         /\ l \in 0 .. m - 1 /\ r \in 0 .. m - 1
         /\ X \in 0 .. m - 1 /\ C \in 0 .. m - 1
<1>1. m \in Nat /\ m >= 2 /\ m % 2 = 0
  BY ModuliAssumption DEF TypeOK
<1>2. Half(m) \in Nat /\ m = Half(m) + Half(m)
  BY <1>1, Halves
<1>3. l \in 0 .. m - 1 /\ r \in 0 .. m - 1
  BY DEF TypeOK, Word
<1> QED
  BY <1>1, <1>2, <1>3 DEF X, C

(* sadd.overflow(X, C).                                                    *)
LEMMA SAddExact ==
  ASSUME TypeOK, op = "sadd", HasConstant
  PROVE  SAddCmp <=> Overflows
<1> DEFINE h == Half(m)
<1>1. /\ m \in Nat /\ m >= 2 /\ h \in Nat /\ h >= 1 /\ m = h + h
      /\ X \in 0 .. m - 1 /\ C \in 0 .. m - 1
  BY Operands
<1>2. Exact = Signed(m, X) + Signed(m, C)
  <2>1. l \in 0 .. m - 1 /\ r \in 0 .. m - 1
    BY Operands
  <2>2. Exact = Signed(m, l) + Signed(m, r)
    BY DEF Exact, Signs
  <2>3. Signed(m, l) \in Int /\ Signed(m, r) \in Int
    BY <1>1, <2>1 DEF Signed
  <2> QED
    BY <2>2, <2>3 DEF X, C
<1>3. Overflows <=> Signed(m, X) + Signed(m, C) < -h \/ Signed(m, X) + Signed(m, C) > h - 1
  BY <1>2 DEF Overflows, Signs
<1>4. CASE IsNegative(m, C)
  <2>1. C >= h
    BY <1>4 DEF IsNegative
  <2>2. Signed(m, Wrap(m, SMin(m) - C)) = h - C
    <3>1. CASE C = h
      <4>1. SMin(m) - C = 0 /\ 0 \in Word(m)
        BY <1>1, <3>1 DEF SMin, Word
      <4> QED
        BY <1>1, <3>1, <4>1, WrapInside DEF Signed
    <3>2. CASE C > h
      <4>1. SMin(m) - C = h - C /\ h - C \in Int /\ (h - C) + m \in Word(m)
        BY <1>1, <3>2 DEF SMin, Word
      <4>2. Wrap(m, SMin(m) - C) = (h - C) + m
        BY <1>1, <4>1, WrapBelow
      <4> QED
        BY <1>1, <3>2, <4>2 DEF Signed
    <3> QED
      BY <1>1, <2>1, <3>1, <3>2
  <2>3. SAddCmp <=> Signed(m, X) < h - C
    BY <1>4, <2>2 DEF SAddCmp, SLT
  <2> HIDE DEF h
  <2> QED
    BY <1>1, <1>3, <2>1, <2>3 DEF Signed, h
<1>5. CASE ~IsNegative(m, C)
  <2>1. C < h
    BY <1>1, <1>5 DEF IsNegative
  <2>2. Signed(m, Wrap(m, SMax(m) - C)) = h - 1 - C
    <3>1. SMax(m) - C = h - 1 - C /\ h - 1 - C \in Word(m)
      BY <1>1, <2>1 DEF SMax, Word
    <3> QED
      BY <1>1, <2>1, <3>1, WrapInside DEF Signed
  <2>3. SAddCmp <=> Signed(m, X) > h - 1 - C
    BY <1>5, <2>2 DEF SAddCmp, SGT
  <2> QED
    BY <1>1, <1>3, <2>1, <2>3 DEF Signed
<1> QED
  BY <1>4, <1>5

(* uadd.overflow(X, C) and usub.overflow(L, R).                            *)
LEMMA UAddExact ==
  ASSUME TypeOK, op = "uadd", HasConstant
  PROVE  UAddCmp <=> Overflows
<1>1. l \in 0 .. m - 1 /\ r \in 0 .. m - 1 /\ m \in Nat
  BY Operands
<1>2. Exact = l + r
  BY DEF Exact, Signs
<1>3. Overflows <=> l + r < 0 \/ l + r > m - 1
  BY <1>2 DEF Overflows, Signs
<1> QED
  BY <1>1, <1>3 DEF UAddCmp, UMax, X, C

LEMMA USubExact ==
  ASSUME TypeOK, op = "usub"
  PROVE  USubCmp <=> Overflows
<1>1. l \in 0 .. m - 1 /\ r \in 0 .. m - 1 /\ m \in Nat
  BY Operands
<1>2. Exact = l - r
  BY DEF Exact, Signs
<1>3. Overflows <=> l - r < 0 \/ l - r > m - 1
  BY <1>2 DEF Overflows, Signs
<1> QED
  BY <1>1, <1>3 DEF USubCmp

(* ssub.overflow(L, C).                                                    *)
LEMMA SSubExact ==
  ASSUME TypeOK, op = "ssub", rc
  PROVE  SSubCmp <=> Overflows
<1> DEFINE h == Half(m)
<1>1. /\ m \in Nat /\ m >= 2 /\ h \in Nat /\ h >= 1 /\ m = h + h
      /\ l \in 0 .. m - 1 /\ r \in 0 .. m - 1
  BY Operands
<1>2. Exact = Signed(m, l) - Signed(m, r)
  BY DEF Exact, Signs
<1>3. Overflows <=> Signed(m, l) - Signed(m, r) < -h \/ Signed(m, l) - Signed(m, r) > h - 1
  BY <1>2 DEF Overflows, Signs
<1>4. CASE IsNegative(m, r)
  <2>1. r >= h
    BY <1>4 DEF IsNegative
  <2>2. Signed(m, Wrap(m, SMax(m) + r)) = h - 1 + r - m
    <3>1. SMax(m) + r = h - 1 + r
      BY DEF SMax
    <3>2. CASE r = h
      <4>1. h - 1 + r \in Word(m)
        BY <1>1, <3>2 DEF Word
      <4> QED
        BY <1>1, <3>1, <3>2, <4>1, WrapInside DEF Signed
    <3>3. CASE r > h
      <4>1. h - 1 + r \in Int /\ (h - 1 + r) - m \in Word(m)
        BY <1>1, <3>3 DEF Word
      <4>2. Wrap(m, h - 1 + r) = (h - 1 + r) - m
        BY <1>1, <4>1, WrapAbove
      <4> QED
        BY <1>1, <3>1, <3>3, <4>2 DEF Signed
    <3> QED
      BY <1>1, <2>1, <3>2, <3>3
  <2>3. SSubCmp <=> Signed(m, l) > h - 1 + r - m
    BY <1>4, <2>2 DEF SSubCmp, SGT
  <2> QED
    BY <1>1, <1>3, <2>1, <2>3 DEF Signed
<1>5. CASE ~IsNegative(m, r)
  <2>1. r < h
    BY <1>1, <1>5 DEF IsNegative
  <2>2. Signed(m, Wrap(m, SMin(m) + r)) = r - h
    <3>1. SMin(m) + r = h + r /\ h + r \in Word(m)
      BY <1>1, <2>1 DEF SMin, Word
    <3> QED
      BY <1>1, <2>1, <3>1, WrapInside DEF Signed
  <2>3. SSubCmp <=> Signed(m, l) < r - h
    BY <1>5, <2>2 DEF SSubCmp, SLT
  <2> QED
    BY <1>1, <1>3, <2>1, <2>3 DEF Signed
<1> QED
  BY <1>4, <1>5

(* umul.overflow(X, C).                                                    *)
LEMMA UMulExact ==
  ASSUME m \in Nat, m >= 2, l \in 0 .. m - 1, r \in 0 .. m - 1, op = "umul", HasConstant
  PROVE  UMulCmp <=> Overflows
<1>1. m \in Nat /\ m >= 2 /\ X \in 0 .. m - 1 /\ C \in 0 .. m - 1
  BY DEF X, C
<1>2. Exact = C * X
  <2>1. l \in 0 .. m - 1 /\ r \in 0 .. m - 1
    OBVIOUS
  <2>2. Exact = l * r
    BY DEF Exact, Signs
  <2>3. l * r = r * l
    BY <2>1
  <2> QED
    BY <2>2, <2>3 DEF X, C
<1>3. Overflows <=> C * X < 0 \/ C * X > m - 1
  BY <1>2 DEF Overflows, Signs
<1>4. C * X >= 0
  <2>1. C * 0 <= C * X
    BY <1>1, MulMono
  <2> QED
    BY <1>1, <2>1
<1>5. CASE C = 0
  BY <1>1, <1>3, <1>5 DEF UMulCmp
<1>6. CASE C # 0
  <2>1. X > UMax(m) \div C <=> C * X > UMax(m)
    <3>1. UMax(m) \in Nat
      BY <1>1 DEF UMax
    <3>2. C \in Nat /\ C > 0 /\ X \in Int
      BY <1>1, <1>6
    <3> QED
      BY <3>1, <3>2, QuotientBelow
  <2> QED
    BY <1>1, <1>3, <1>4, <1>6, <2>1 DEF UMulCmp, UMax
<1> QED
  BY <1>5, <1>6

-----------------------------------------------------------------------------
(* smul.overflow(X, C): what both signs of C start from.                   *)
LEMMA SMulOperands ==
  ASSUME TypeOK, op = "smul", HasConstant
  PROVE  /\ Signed(m, X) \in -Half(m) .. Half(m) - 1
         /\ Signed(m, C) \in -Half(m) .. Half(m) - 1
         /\ Overflows <=> \/ Signed(m, C) * Signed(m, X) < -Half(m)
                          \/ Signed(m, C) * Signed(m, X) > Half(m) - 1
         /\ Signed(m, SMax(m)) = Half(m) - 1
         /\ Signed(m, SMin(m)) = -Half(m)
<1> DEFINE h == Half(m)
<1>1. /\ m \in Nat /\ m >= 2 /\ h \in Nat /\ h >= 1 /\ m = h + h
      /\ X \in 0 .. m - 1 /\ C \in 0 .. m - 1
      /\ l \in 0 .. m - 1 /\ r \in 0 .. m - 1
  BY Operands
<1>2. \A x \in 0 .. m - 1 : Signed(m, x) \in -h .. h - 1
  BY <1>1 DEF Signed
<1>3. Exact = Signed(m, C) * Signed(m, X)
  <2>1. Exact = Signed(m, l) * Signed(m, r)
    BY DEF Exact, Signs
  <2>2. Signed(m, l) \in Int /\ Signed(m, r) \in Int
    BY <1>1, <1>2
  <2>3. Signed(m, l) * Signed(m, r) = Signed(m, r) * Signed(m, l)
    BY <2>2
  <2> QED
    BY <2>1, <2>3 DEF X, C
<1>4. Overflows <=> \/ Signed(m, C) * Signed(m, X) < -h
                    \/ Signed(m, C) * Signed(m, X) > h - 1
  BY <1>3 DEF Overflows, Signs
<1>5. Signed(m, SMax(m)) = h - 1 /\ Signed(m, SMin(m)) = -h
  BY <1>1 DEF Signed, SMax, SMin
<1> QED
  BY <1>1, <1>2, <1>4, <1>5

LEMMA SMulPositive ==
  ASSUME TypeOK, op = "smul", HasConstant, C # 0, ~IsNegative(m, C)
  PROVE  SMulCmp <=> Overflows
<1> DEFINE h == Half(m)
           s == Signed(m, X)
<1>1. /\ m \in Nat /\ m >= 2 /\ m % 2 = 0 /\ h \in Nat /\ h >= 1 /\ m = h + h
      /\ C \in 1 .. h - 1
  <2>1. m % 2 = 0
    BY ModuliAssumption DEF TypeOK
  <2> QED
    BY <2>1, Operands DEF IsNegative
<1>2. s \in -h .. h - 1
  BY SMulOperands
<1>3. Signed(m, C) = C
  BY <1>1 DEF Signed
<1>4. (h - 1) \div C \in 0 .. h - 1 /\ h \div C \in 0 .. h
  BY <1>1, QuotientBound
<1>5. Signed(m, SDiv(m, SMax(m), C)) = (h - 1) \div C
  <2>1. SDiv(m, SMax(m), C) = Wrap(m, Quotient(h - 1, C))
    BY <1>3, SMulOperands DEF SDiv
  <2>2. Quotient(h - 1, C) = (h - 1) \div C
    BY <1>1 DEF Quotient
  <2>3. (h - 1) \div C \in -h .. h - 1
    BY <1>1, <1>4
  <2> QED
    BY <1>1, <2>1, <2>2, <2>3, SignedWrap
<1>6. Signed(m, SDiv(m, SMin(m), C)) = -(h \div C)
  <2>1. SDiv(m, SMin(m), C) = Wrap(m, Quotient(-h, C))
    BY <1>3, SMulOperands DEF SDiv
  <2>2. Quotient(-h, C) = -(h \div C)
    BY <1>1 DEF Quotient
  <2>3. -(h \div C) \in -h .. h - 1
    BY <1>1, <1>4
  <2> QED
    BY <1>1, <2>1, <2>2, <2>3, SignedWrap
<1>7. SMulCmp <=> s > (h - 1) \div C \/ s < -(h \div C)
  BY <1>5, <1>6 DEF SMulCmp, SLT, SGT
<1>8. s > (h - 1) \div C <=> C * s > h - 1
  BY <1>1, <1>2, QuotientBelow
<1>9. s < -(h \div C) <=> C * s < -h
  <2>1. -s > h \div C <=> C * (-s) > h
    BY <1>1, <1>2, QuotientBelow
  <2>2. C * (-s) = -(C * s)
    BY <1>1, <1>2
  <2> QED
    BY <1>1, <1>2, <1>4, <2>1, <2>2
<1>10. Overflows <=> C * s < -h \/ C * s > h - 1
  BY <1>3, SMulOperands
<1> QED
  BY <1>7, <1>8, <1>9, <1>10

(* For C < 0 the comparisons are exact, except that SMIN / -1 wraps to     *)
(* SMIN; then the comparison still holds wherever the product overflows.   *)
LEMMA SMulNegative ==
  ASSUME TypeOK, op = "smul", HasConstant, IsNegative(m, C)
  PROVE  /\ C # m - 1 => (SMulCmp <=> Overflows)
         /\ Overflows => SMulCmp
<1> DEFINE h == Half(m)
           s == Signed(m, X)
           k == m - C
<1>1. /\ m \in Nat /\ m >= 2 /\ m % 2 = 0 /\ h \in Nat /\ h >= 1 /\ m = h + h
      /\ C \in h .. m - 1 /\ k \in 1 .. h /\ C # 0
  <2>1. m % 2 = 0
    BY ModuliAssumption DEF TypeOK
  <2> QED
    BY <2>1, Operands DEF IsNegative
<1>2. s \in -h .. h - 1
  BY SMulOperands
<1>3. Signed(m, C) = -k
  BY <1>1 DEF Signed
<1>4. /\ (h - 1) \div k \in 0 .. h - 1 /\ h \div k \in 0 .. h
      /\ k >= 2 => h \div k < h
  BY <1>1, QuotientBound
<1>5. Signed(m, SDiv(m, SMax(m), C)) = -((h - 1) \div k)
  <2>1. SDiv(m, SMax(m), C) = Wrap(m, Quotient(h - 1, -k))
    BY <1>3, SMulOperands DEF SDiv
  <2>2. -(-k) = k /\ -k < 0
    BY <1>1
  <2>3. Quotient(h - 1, -k) = -((h - 1) \div k)
    BY <1>1, <2>2 DEF Quotient
  <2>4. -((h - 1) \div k) \in -h .. h - 1
    BY <1>1, <1>4
  <2> QED
    BY <1>1, <2>1, <2>3, <2>4, SignedWrap
<1>6. SDiv(m, SMin(m), C) = Wrap(m, h \div k)
  <2>1. SDiv(m, SMin(m), C) = Wrap(m, Quotient(-h, -k))
    BY <1>3, SMulOperands DEF SDiv
  <2>2. -(-k) = k /\ -k < 0 /\ -(-h) = h /\ ~(-h >= 0)
    BY <1>1
  <2>3. Quotient(-h, -k) = h \div k
    BY <1>1, <2>2 DEF Quotient
  <2> QED
    BY <2>1, <2>3
<1>7. Overflows <=> k * s > h \/ k * s < -(h - 1)
  <2>1. (-k) * s = -(k * s)
    BY <1>1, <1>2
  <2>2. Overflows <=> (-k) * s < -h \/ (-k) * s > h - 1
    BY <1>3, SMulOperands
  <2>3. k * s \in Int
    BY <1>1, <1>2
  <2> QED
    BY <1>1, <2>1, <2>2, <2>3
<1>8. s < -((h - 1) \div k) <=> k * s < -(h - 1)
  <2>1. -s > (h - 1) \div k <=> k * (-s) > h - 1
    BY <1>1, <1>2, QuotientBelow
  <2>2. k * (-s) = -(k * s)
    BY <1>1, <1>2
  <2> QED
    BY <1>1, <1>2, <1>4, <2>1, <2>2
<1>9. s > h \div k <=> k * s > h
  BY <1>1, <1>2, QuotientBelow
<1>10. C # m - 1 => (SMulCmp <=> Overflows)
  <2> SUFFICES ASSUME C # m - 1
               PROVE  SMulCmp <=> Overflows
    OBVIOUS
  <2>1. h \div k \in -h .. h - 1
    BY <1>1, <1>4
  <2>2. Signed(m, SDiv(m, SMin(m), C)) = h \div k
    BY <1>1, <1>6, <2>1, SignedWrap
  <2>3. SMulCmp <=> s < -((h - 1) \div k) \/ s > h \div k
    BY <1>1, <1>5, <2>2 DEF SMulCmp, SLT, SGT
  <2> QED
    BY <1>7, <1>8, <1>9, <2>3
<1>11. CASE C = m - 1
  <2>1. k = 1
    BY <1>1, <1>11
  <2>2. k * s = s
    BY <1>2, <2>1
  <2>3. Overflows => k * s < -(h - 1)
    BY <1>1, <1>2, <1>7, <2>2
  <2>4. s < -((h - 1) \div k) => SMulCmp
    BY <1>1, <1>5 DEF SMulCmp, SLT
  <2> QED
    BY <1>8, <1>11, <2>3, <2>4
<1> QED
  BY <1>10, <1>11

-----------------------------------------------------------------------------
(* Before the intrinsic is rewritten its overflow bit is computed by the   *)
(* processor; afterwards the bit is right but for the two known cases.     *)
Exactly ==
  /\ TypeOK
  /\ ~done => (cmp <=> Overflows)
  /\ OverflowKept
  /\ NoneMissed

LEMMA ReplaceExactly ==
  ASSUME Exactly, NEW o, NEW value \in BOOLEAN, Replace(o, value),
         ~ConstantMinus /\ ~TimesMinusOne => (value <=> Overflows),
         ~ConstantMinus /\ Overflows => value
  PROVE  Exactly'
<1>1. /\ m' = m /\ op' = op /\ l' = l /\ r' = r /\ lc' = lc /\ rc' = rc
      /\ done' = TRUE /\ cmp' = value
  BY DEF Replace
<1>2. (Overflows' <=> Overflows) /\ C' = C /\ (HasConstant' <=> HasConstant)
  BY <1>1, Zenon DEF Overflows, Exact, Signs, C, HasConstant
<1>3. (ConstantMinus' <=> ConstantMinus) /\ (TimesMinusOne' <=> TimesMinusOne)
  BY <1>1, <1>2, Zenon DEF ConstantMinus, TimesMinusOne
<1>4. TypeOK'
  BY <1>1, Zenon DEF Exactly, TypeOK
<1>5. OverflowKept' /\ NoneMissed'
  BY <1>1, <1>2, <1>3, Zenon DEF OverflowKept, NoneMissed
<1> QED
  BY <1>1, <1>4, <1>5, Zenon DEF Exactly

LEMMA NextExactly ==
  ASSUME Exactly, [Next]_vars
  PROVE  Exactly'
<1>1. TypeOK
  BY DEF Exactly
<1>2. CASE simplifySAdd
  <2>1. HasConstant /\ Replace("sadd", SAddCmp) /\ op = "sadd"
    BY <1>2 DEF simplifySAdd, Replace
  <2>2. SAddCmp <=> Overflows
    BY <1>1, <2>1, SAddExact
  <2>3. SAddCmp \in BOOLEAN
    <3>1. CASE IsNegative(m, C)
      BY <3>1 DEF SAddCmp, SLT
    <3>2. CASE ~IsNegative(m, C)
      BY <3>2 DEF SAddCmp, SGT
    <3> QED
      BY <3>1, <3>2
  <2> QED
    BY <2>1, <2>2, <2>3, ReplaceExactly, Zenon
<1>3. CASE simplifyUAdd
  <2>1. HasConstant /\ Replace("uadd", UAddCmp) /\ op = "uadd"
    BY <1>3 DEF simplifyUAdd, Replace
  <2>2. UAddCmp <=> Overflows
    BY <1>1, <2>1, UAddExact
  <2>3. UAddCmp \in BOOLEAN
    BY DEF UAddCmp
  <2> QED
    BY <2>1, <2>2, <2>3, ReplaceExactly, Zenon
<1>4. CASE simplifySSub
  <2>1. HasConstant /\ Replace("ssub", SSubCmp) /\ op = "ssub"
    BY <1>4 DEF simplifySSub, Replace
  <2>2. ~ConstantMinus => (SSubCmp <=> Overflows)
    BY <1>1, <2>1, SSubExact DEF ConstantMinus, HasConstant
  <2>3. SSubCmp \in BOOLEAN
    <3>1. CASE rc /\ IsNegative(m, r)
      BY <3>1 DEF SSubCmp, SGT
    <3>2. CASE rc /\ ~IsNegative(m, r)
      BY <3>2 DEF SSubCmp, SLT
    <3>3. CASE ~rc /\ IsNegative(m, l)
      BY <3>3 DEF SSubCmp, SGT
    <3>4. CASE ~rc /\ ~IsNegative(m, l)
      BY <3>4 DEF SSubCmp, SLT
    <3> QED
      BY <3>1, <3>2, <3>3, <3>4
  <2> QED
    BY <2>1, <2>2, <2>3, ReplaceExactly, Zenon
<1>5. CASE simplifyUSub
  <2>1. Replace("usub", USubCmp) /\ op = "usub"
    BY <1>5 DEF simplifyUSub, Replace
  <2>2. USubCmp <=> Overflows
    BY <1>1, <2>1, USubExact
  <2>3. USubCmp \in BOOLEAN
    BY DEF USubCmp
  <2> QED
    BY <2>1, <2>2, <2>3, ReplaceExactly, Zenon
<1>6. CASE simplifySMul
  <2>1. HasConstant /\ Replace("smul", SMulCmp) /\ op = "smul"
    BY <1>6 DEF simplifySMul, Replace
  <2>2. /\ ~TimesMinusOne => (SMulCmp <=> Overflows)
        /\ Overflows => SMulCmp
    <3>1. CASE C = 0
      <4>1. Signed(m, C) * Signed(m, X) = 0 /\ Half(m) \in Nat /\ Half(m) >= 1
        BY <1>1, <2>1, <3>1, Operands, SMulOperands DEF Signed
      <4>2. ~Overflows
        BY <1>1, <2>1, <4>1, SMulOperands
      <4> QED
        BY <3>1, <4>2 DEF SMulCmp
    <3>2. CASE C # 0 /\ ~IsNegative(m, C)
      BY <1>1, <2>1, <3>2, SMulPositive
    <3>3. CASE IsNegative(m, C)
      BY <1>1, <2>1, <3>3, SMulNegative DEF TimesMinusOne
    <3> QED
      BY <3>1, <3>2, <3>3
  <2>3. SMulCmp \in BOOLEAN
    BY DEF SMulCmp
  <2> QED
    BY <2>1, <2>2, <2>3, ReplaceExactly, Zenon
<1>7. CASE simplifyUMul
  <2>1. HasConstant /\ Replace("umul", UMulCmp) /\ op = "umul"
    BY <1>7 DEF simplifyUMul, Replace
  <2>2. UMulCmp <=> Overflows
    BY <1>1, <2>1, UMulExact, Operands
  <2>3. UMulCmp \in BOOLEAN
    BY DEF UMulCmp
  <2> QED
    BY <2>1, <2>2, <2>3, ReplaceExactly, Zenon
<1>8. CASE Keep
  <2>1. Replace(op, cmp) /\ cmp \in BOOLEAN /\ (cmp <=> Overflows)
    BY <1>8 DEF Keep, Replace, Exactly, TypeOK
  <2> QED
    BY <2>1, ReplaceExactly, Zenon
<1>9. CASE Ended \/ UNCHANGED vars
  <2>1. UNCHANGED vars
    BY <1>9 DEF Ended
  <2>2. /\ m' = m /\ op' = op /\ l' = l /\ r' = r /\ lc' = lc /\ rc' = rc
        /\ done' = done /\ cmp' = cmp
    BY <2>1 DEF vars
  <2> QED
    BY <2>2, Zenon DEF Exactly, TypeOK, OverflowKept, NoneMissed, Overflows, Exact, Signs,
                       ConstantMinus, TimesMinusOne, HasConstant, C
<1> QED
  BY <1>2, <1>3, <1>4, <1>5, <1>6, <1>7, <1>8, <1>9 DEF Next

LEMMA InitExactly == Init => Exactly
<1> SUFFICES ASSUME Init
             PROVE  Exactly
  OBVIOUS
<1>1. Overflows \in BOOLEAN
  BY DEF Overflows
<1>2. cmp = Overflows
  BY DEF Init
<1>3. TypeOK
  BY <1>1, <1>2, Zenon DEF Init, TypeOK
<1>4. cmp <=> Overflows
  BY <1>2
<1> QED
  BY <1>3, <1>4, Zenon DEF Exactly, OverflowKept, NoneMissed

(* At every width the program OverflowSimplify leaves computes the         *)
(* overflow of every operation exactly, but for a signed C - x and x * -1. *)
THEOREM OverflowAlwaysKept == Spec => []OverflowKept
<1>1. Exactly /\ [Next]_vars => Exactly'
  BY NextExactly
<1>2. Exactly => OverflowKept
  BY DEF Exactly
<1> QED
  BY InitExactly, <1>1, <1>2, PTL DEF Spec

(* And no overflow is missed, at any width, but for a signed C - x.        *)
THEOREM OverflowNeverMissed == Spec => []NoneMissed
<1>1. Exactly /\ [Next]_vars => Exactly'
  BY NextExactly
<1>2. Exactly => NoneMissed
  BY DEF Exactly
<1> QED
  BY InitExactly, <1>1, <1>2, PTL DEF Spec

-----------------------------------------------------------------------------
(* overflow-idiom.  What the comparison tests by a division: in the form   *)
(* "ne" whether the product overflows the width, in the form "gt" whether  *)
(* it exceeds the constant.                                                *)
Quot == (IF src.form = "ne" THEN Wrap(src.m, src.x * src.y) ELSE src.c) \div src.y

Tests ==
  \/ src.form = "ne" /\ src.x # Quot
  \/ src.form # "ne" /\ src.x > Quot

LEMMA Compared ==
  ASSUME NEW k \in IdiomModuli, src \in Comparisons(k)
  PROVE  /\ src.m = k /\ k \in Nat /\ k >= 2
         /\ src.form \in {"ne", "gt"} /\ src.pred \in Predicates /\ src.side \in {"left", "right"}
         /\ src.x \in 0 .. k - 1 /\ src.y \in 1 .. k - 1
         /\ src.form = "gt" => src.c \in 1 .. k - 1
         /\ Quot \in Int
<1>1. k \in Nat /\ k >= 2
  BY ModuliAssumption, IdiomModuliAssumption
<1>2. /\ src.m = k
      /\ src.form \in {"ne", "gt"} /\ src.pred \in Predicates /\ src.side \in {"left", "right"}
      /\ src.x \in Word(k) /\ src.y \in Word(k) \ {0}
      /\ src.form = "gt" => src.c \in Word(k) \ {0}
  BY DEF Comparisons
<1>3. /\ src.x \in 0 .. k - 1 /\ src.y \in 1 .. k - 1
      /\ src.form = "gt" => src.c \in 1 .. k - 1
  BY <1>1, <1>2 DEF Word
<1>4. src.x * src.y \in Int
  BY <1>1, <1>3
<1>5. Wrap(k, src.x * src.y) \in Int
  BY <1>1, <1>4, Division DEF Wrap, Word
<1>6. src.form = "gt" => src.c \in Int
  BY <1>1, <1>3
<1>7. Quot \in Int
  BY <1>1, <1>2, <1>3, <1>5, <1>6, Division DEF Quot
<1> QED
  BY <1>1, <1>2, <1>3, <1>7

(* Whichever attempt matches, the test it stands for has the result the    *)
(* comparison has, or the opposite where the attempt inverts it.           *)
LEMMA MatchedTest ==
  ASSUME NEW k \in IdiomModuli, src \in Comparisons(k),
         NEW i \in Matching(Attempts(src.pred, src.side))
  PROVE  /\ Attempts(src.pred, src.side)[i].inv \in BOOLEAN
         /\ Source <=> (Tests # Attempts(src.pred, src.side)[i].inv)
<1>1. /\ src.m = k /\ src.form \in {"ne", "gt"} /\ src.pred \in Predicates
      /\ src.side \in {"left", "right"} /\ src.x \in Int /\ Quot \in Int
  BY Compared
<1>2. Source <=> IF src.side = "right" THEN Compare(src.pred, src.x, Quot)
                 ELSE Compare(src.pred, Quot, src.x)
  BY DEF Source, Quot
<1>3. i \in 1 .. 4
  BY DEF Matching, Attempts
<1>4. MatchCmp(Attempts(src.pred, src.side)[i].pred, Attempts(src.pred, src.side)[i].side)
  BY DEF Matching
<1> DEFINE p == src.pred
           a == Attempts(p, src.side)[i]
<1>5. /\ i = 1 => a.pred = p /\ a.side = src.side /\ a.inv = FALSE
      /\ i = 2 => a.pred = InversePredicate(p) /\ a.side = src.side /\ a.inv = TRUE
      /\ i = 3 => a.pred = SwappedPredicate(p) /\ a.side = Other(src.side) /\ a.inv = FALSE
      /\ i = 4 => /\ a.pred = InversePredicate(SwappedPredicate(p))
                  /\ a.side = Other(src.side) /\ a.inv = TRUE
  BY DEF Attempts, Attempt
<1>6. a.side = "right" /\ a.pred = (IF src.form = "ne" THEN "ne" ELSE "ugt")
  BY <1>4 DEF MatchCmp
<1>7. i = 1 \/ i = 2 \/ i = 3 \/ i = 4
  BY <1>3
<1>8. Tests \in BOOLEAN
  BY Zenon DEF Tests
<1> HIDE DEF a
<1>9. CASE i = 1
  <2>1. src.side = "right" /\ p = (IF src.form = "ne" THEN "ne" ELSE "ugt")
    BY <1>5, <1>6, <1>9
  <2>2. Source <=> Tests
    BY <1>1, <1>2, <2>1 DEF Compare, Tests
  <2>3. a.inv = FALSE
    BY <1>5, <1>9
  <2> QED
    BY <1>8, <2>2, <2>3, Zenon DEF a
<1>10. CASE i = 2
  <2>1. src.side = "right" /\ p = (IF src.form = "ne" THEN "eq" ELSE "ule")
    BY <1>1, <1>5, <1>6, <1>10 DEF InversePredicate, Predicates
  <2>2. Source <=> ~Tests
    <3>1. CASE src.form = "ne"
      BY <1>2, <2>1, <3>1 DEF Compare, Tests
    <3>2. CASE src.form = "gt"
      BY <1>1, <1>2, <2>1, <3>2 DEF Compare, Tests
    <3> QED
      BY <1>1, <3>1, <3>2
  <2>3. a.inv = TRUE
    BY <1>5, <1>10
  <2> QED
    BY <1>8, <2>2, <2>3, Zenon DEF a
<1>11. CASE i = 3
  <2>1. src.side = "left" /\ p = (IF src.form = "ne" THEN "ne" ELSE "ult")
    BY <1>1, <1>5, <1>6, <1>11 DEF SwappedPredicate, Other, Predicates
  <2>2. Source <=> Tests
    BY <1>1, <1>2, <2>1 DEF Compare, Tests
  <2>3. a.inv = FALSE
    BY <1>5, <1>11
  <2> QED
    BY <1>8, <2>2, <2>3, Zenon DEF a
<1>12. CASE i = 4
  <2>1. src.side = "left" /\ p = (IF src.form = "ne" THEN "eq" ELSE "uge")
    BY <1>1, <1>5, <1>6, <1>12 DEF SwappedPredicate, InversePredicate, Other, Predicates
  <2>2. Source <=> ~Tests
    <3>1. CASE src.form = "ne"
      BY <1>2, <2>1, <3>1 DEF Compare, Tests
    <3>2. CASE src.form = "gt"
      BY <1>1, <1>2, <2>1, <3>2 DEF Compare, Tests
    <3> QED
      BY <1>1, <3>1, <3>2
  <2>3. a.inv = TRUE
    BY <1>5, <1>12
  <2> QED
    BY <1>8, <2>2, <2>3, Zenon DEF a
<1> QED
  BY <1>7, <1>9, <1>10, <1>11, <1>12, Zenon

(* The division tests the product.                                         *)
LEMMA TestsProduct ==
  ASSUME NEW k \in IdiomModuli, src \in Comparisons(k)
  PROVE  /\ src.y * src.x \in Nat
         /\ src.form = "ne" => (Tests <=> src.y * src.x > k - 1)
         /\ src.form = "gt" => (Tests <=> src.y * src.x > src.c)
<1> DEFINE x == src.x
           y == src.y
           P == y * x
<1>1. /\ src.m = k /\ k \in Nat /\ k >= 2 /\ x \in 0 .. k - 1 /\ y \in 1 .. k - 1
      /\ src.form = "gt" => src.c \in 1 .. k - 1
  BY Compared
<1>2. x \in Nat /\ y \in Nat /\ y > 0 /\ x * y = P
  BY <1>1
<1>3. P \in Nat
  <2>1. y * 0 <= y * x
    BY <1>2, MulMono
  <2> QED
    BY <1>2, <2>1
<1>4. ASSUME src.form = "gt" PROVE Tests <=> P > src.c
  <2>1. src.c \in Nat
    BY <1>1, <1>4
  <2>2. x > src.c \div y <=> P > src.c
    BY <1>2, <2>1, QuotientBelow
  <2> QED
    BY <1>4, <2>2 DEF Tests, Quot
<1>5. ASSUME src.form = "ne" PROVE Tests <=> P > k - 1
  <2>1. Tests <=> x # (P % k) \div y
    BY <1>1, <1>2, <1>5 DEF Tests, Quot, Wrap
  <2> HIDE DEF P
  <2>2. CASE P <= k - 1
    <3>1. P % k = P
      BY <1>1, <1>3, <2>2, WrapInside DEF Wrap, Word
    <3>2. 0 \in Word(y) /\ P = y * x + 0
      BY <1>2 DEF Word, P
    <3>3. P \div y = x
      BY <1>2, <1>3, <3>2, UniqueDivision
    <3> QED
      BY <1>1, <1>3, <2>1, <2>2, <3>1, <3>3
  <2>3. CASE P > k - 1
    <3>1. P % k \in 0 .. k - 1
      BY <1>1, <1>3, Division DEF Word
    <3>2. P % k \in Nat /\ y * x > P % k
      BY <1>1, <1>3, <2>3, <3>1 DEF P
    <3>3. x > (P % k) \div y
      BY <1>2, <3>2, QuotientBelow
    <3>4. (P % k) \div y \in Int
      BY <1>2, <3>2, Division
    <3> QED
      BY <1>2, <2>1, <2>3, <3>3, <3>4
  <2> QED
    BY <1>1, <1>3, <2>2, <2>3
<1> QED
  BY <1>3, <1>4, <1>5

(* What overflow-idiom leaves for overflow-simplify is the overflow of a   *)
(* product, still computed by the processor, with the test of the source   *)
(* kept by it and by the rest of the comparison.                           *)
IdiomInv ==
  /\ src.form # "none" => \E k \in IdiomModuli : src \in Comparisons(k)
  /\ pass \in {"idiom", "simplify", "done"}
  /\ pass = "idiom" /\ src.form # "none" => cmp = FALSE /\ done = FALSE /\ inv = FALSE
  /\ pass = "simplify" =>
       /\ src.form # "none" /\ op = "umul" /\ done = FALSE
       /\ m \in Nat /\ m >= 2 /\ l \in 0 .. m - 1 /\ r \in 0 .. m - 1
       /\ cmp <=> Overflows
  /\ IdiomKept

LEMMA FormOfComparison ==
  ASSUME NEW k \in IdiomModuli, src \in Comparisons(k)
  PROVE  src.form # "none"
BY Compared

LEMMA SourceSame ==
  ASSUME src' = src
  PROVE  Source' = Source /\ Narrowed' = Narrowed /\ Zero' = Zero
<1>1. \A p, x, y : Compare(p, x, y)' = Compare(p, x, y)
  BY Zenon DEF Compare
<1>2. Source' = Source
  BY <1>1, Zenon DEF Source
<1>3. Narrowed' = Narrowed
  BY Zenon DEF Narrowed, IsNarrow, IsUMax
<1>4. Zero' = Zero
  BY Zenon DEF Zero
<1> QED
  BY <1>2, <1>3, <1>4

(* The overflow of a product of words.                                     *)
LEMMA ProductOverflows ==
  ASSUME NEW K \in Nat, K >= 2, NEW x \in 0 .. K - 1, NEW y \in 0 .. K - 1,
         op' = "umul", m' = K, l' = x, r' = y
  PROVE  Overflows' <=> x * y > UMax(K)
<1>1. Exact' = x * y
  BY DEF Exact, Signs
<1>2. x * y \in Int /\ x * y >= 0
  <2>1. x * 0 <= x * y
    BY MulMono
  <2> QED
    BY <2>1
<1>3. Overflows' <=> x * y < 0 \/ x * y > K - 1
  BY <1>1 DEF Overflows, Signs
<1> QED
  BY <1>2, <1>3 DEF UMax

(* One of the forms the pass creates: the bit for the operands cut to the  *)
(* modulus k.                                                              *)
LEMMA CreatedBit ==
  ASSUME NEW K \in Nat, K >= 2, src.x \in Nat, src.y \in Nat, CreateOverflowBit(K)
  PROVE  /\ op' = "umul" /\ done' = done /\ m' = K
         /\ l' \in 0 .. K - 1 /\ r' \in 0 .. K - 1
         /\ cmp' <=> Overflows'
         /\ src.x <= UMax(K) /\ src.y <= UMax(K) => (cmp' <=> src.y * src.x > UMax(K))
<1> DEFINE x == src.x % K
           y == src.y % K
<1>1. /\ m' = K /\ op' = "umul" /\ l' = x /\ r' = y /\ done' = done
      /\ cmp' = (x * y > UMax(K))
  BY DEF CreateOverflowBit
<1>2. x \in 0 .. K - 1 /\ y \in 0 .. K - 1
  BY Division DEF Word
<1>3. ASSUME src.x <= UMax(K), src.y <= UMax(K) PROVE cmp' <=> src.y * src.x > UMax(K)
  <2>1. x = src.x /\ y = src.y
    BY <1>3, WrapInside DEF Wrap, Word, UMax
  <2>2. src.x * src.y = src.y * src.x
    OBVIOUS
  <2> QED
    BY <1>1, <2>1, <2>2
<1> HIDE DEF x, y
<1>4. Overflows' <=> x * y > UMax(K)
  BY <1>1, <1>2, ProductOverflows
<1>5. cmp' <=> Overflows'
  BY <1>1, <1>4
<1> QED
  BY <1>1, <1>2, <1>3, <1>5

(* The comparison is decided by the rest of it and the bit.                *)
LEMMA MatchKeeps ==
  ASSUME IdiomInv, Match
  PROVE  IdiomInv'
<1>1. src' = src /\ src.form # "none" /\ pass = "idiom"
  BY DEF Match
<1>2. PICK k \in IdiomModuli : src \in Comparisons(k)
  BY <1>1 DEF IdiomInv
<1>3. /\ src.m = k /\ k \in Nat /\ k >= 2
      /\ src.form \in {"ne", "gt"}
      /\ src.x \in 0 .. k - 1 /\ src.y \in 1 .. k - 1
      /\ src.form = "gt" => src.c \in 1 .. k - 1
  BY <1>2, Compared
<1> DEFINE tries == Attempts(src.pred, src.side)
           hit   == CHOOSE i \in Matching(tries) : \A j \in Matching(tries) : i <= j
<1>4. hit \in Matching(tries)
  <2>1. Matching(tries) # {}
    BY DEF Match
  <2>2. Matching(tries) \subseteq 1 .. 4
    BY DEF Matching, Attempts
  <2> DEFINE S == Matching(tries)
  <2> HIDE DEF S, tries
  <2>3. \E i \in S : \A j \in S : i <= j
    BY <2>1, <2>2 DEF S
  <2> QED
    BY <2>3 DEF S
<1>5. inv' = tries[hit].inv
  BY DEF Match
<1> HIDE DEF hit
<1>6. inv' \in BOOLEAN /\ (Source <=> (Tests # inv'))
  BY <1>2, <1>4, <1>5, MatchedTest
<1> DEFINE P == src.y * src.x
<1>7. /\ P \in Nat
      /\ src.form = "ne" => (Tests <=> P > k - 1)
      /\ src.form = "gt" => (Tests <=> P > src.c)
  BY <1>2, TestsProduct
<1>8. P >= src.x /\ (src.x # 0 => P >= src.y)
  <2>1. src.x * 1 <= src.x * src.y /\ (src.x # 0 => src.y * 1 <= src.y * src.x)
    BY <1>3, MulMono
  <2>2. src.x * src.y = P
    BY <1>3
  <2> QED
    BY <1>3, <2>1, <2>2
<1>9. (Source' <=> Source) /\ (Narrowed' <=> Narrowed) /\ (Zero' <=> Zero)
  BY <1>1, SourceSame
<1>10. Tests \in BOOLEAN
  BY Zenon DEF Tests
<1>11. ASSUME ~(Narrowed /\ Zero) => (rest' \/ cmp' <=> Tests) PROVE IdiomKept'
  BY <1>6, <1>9, <1>10, <1>11, Zenon DEF IdiomKept, Rewritten
<1>12. cmp = FALSE /\ done = FALSE
  BY <1>1 DEF IdiomInv
<1>13. CASE /\ src.form = "gt" => IsUMax
            /\ CreateOverflowBit(src.m)
            /\ rest' = FALSE /\ pass' = "simplify"
  <2>1. /\ op' = "umul" /\ done' = done /\ m' = k /\ l' \in 0 .. k - 1 /\ r' \in 0 .. k - 1
        /\ cmp' <=> Overflows'
        /\ cmp' <=> P > UMax(k)
    BY <1>3, <1>13, CreatedBit DEF UMax
  <2>2. Tests <=> P > UMax(k)
    BY <1>3, <1>7, <1>13 DEF IsUMax, UMax
  <2>3. rest' \/ cmp' <=> Tests
    BY <1>13, <2>1, <2>2
  <2>4. IdiomKept'
    BY <1>11, <2>3
  <2> QED
    BY <1>1, <1>2, <1>3, <1>12, <1>13, <2>1, <2>4 DEF IdiomInv, Comparisons
<1>14. CASE /\ src.form = "gt" /\ IsNarrow
            /\ CreateOverflowBit(src.c + 1)
            /\ rest' = (src.x > src.c \/ src.y > src.c) /\ pass' = "simplify"
  <2> DEFINE K == src.c + 1
  <2>1. K \in Nat /\ K >= 2 /\ UMax(K) = src.c
    BY <1>3, <1>14 DEF UMax
  <2>2. src.x \in Nat /\ src.y \in Nat
    BY <1>3
  <2> HIDE DEF K
  <2>3. /\ op' = "umul" /\ done' = done /\ m' = K /\ l' \in 0 .. K - 1 /\ r' \in 0 .. K - 1
        /\ cmp' <=> Overflows'
        /\ src.x <= UMax(K) /\ src.y <= UMax(K) => (cmp' <=> P > UMax(K))
    BY <1>14, <2>1, <2>2, CreatedBit DEF K
  <2>4. Tests <=> P > src.c
    BY <1>7, <1>14
  <2>5. src.c \in Nat
    BY <1>3, <1>14
  <2>6. ASSUME src.x <= src.c, src.y <= src.c PROVE IdiomKept'
    <3>1. ~rest'
      <4>1. ~(src.x > src.c) /\ ~(src.y > src.c)
        BY <2>2, <2>5, <2>6
      <4> QED
        BY <1>14, <4>1, Zenon
    <3>2. cmp' <=> P > src.c
      BY <2>1, <2>3, <2>6
    <3> QED
      BY <1>11, <2>4, <3>1, <3>2
  <2>7. ASSUME src.x > src.c \/ src.y > src.c PROVE IdiomKept'
    <3>1. rest'
      BY <1>14, <2>7
    <3>2. ~Zero => P > src.c
      BY <1>3, <1>7, <1>8, <2>2, <2>5, <2>7 DEF Zero
    <3>3. Narrowed
      BY <1>14 DEF Narrowed
    <3> QED
      BY <1>11, <2>4, <3>1, <3>2, <3>3
  <2>8. IdiomKept'
    BY <2>2, <2>5, <2>6, <2>7
  <2> QED
    BY <1>1, <1>2, <1>12, <1>14, <2>1, <2>3, <2>8 DEF IdiomInv, Comparisons
<1>15. CASE /\ src.form = "gt" /\ ~IsUMax /\ ~IsNarrow
            /\ rest' = (src.x * src.y > src.c) /\ pass' = "done"
            /\ UNCHANGED vars
  <2>1. cmp' = FALSE
    BY <1>12, <1>15 DEF vars
  <2>2. rest' <=> P > src.c
    <3>1. src.x * src.y = P
      BY <1>3
    <3> QED
      BY <1>15, <3>1
  <2>3. rest' \/ cmp' <=> Tests
    BY <1>7, <1>15, <2>1, <2>2
  <2>4. IdiomKept'
    BY <1>11, <2>3
  <2> QED
    BY <1>1, <1>2, <1>15, <2>4 DEF IdiomInv, Comparisons
<1> QED
  BY <1>13, <1>14, <1>15 DEF Match

LEMMA SimplifyKeeps ==
  ASSUME IdiomInv, Simplify
  PROVE  IdiomInv'
<1>1. src' = src /\ rest' = rest /\ inv' = inv /\ pass' = "done"
  BY DEF Simplify
<1>2. CASE src.form = "none"
  BY <1>1, <1>2 DEF IdiomInv, IdiomKept
<1>3. CASE src.form # "none"
  <2>1. /\ pass = "simplify" /\ op = "umul" /\ done = FALSE
        /\ m \in Nat /\ m >= 2 /\ l \in 0 .. m - 1 /\ r \in 0 .. m - 1
        /\ cmp <=> Overflows
    BY <1>3 DEF Simplify, IdiomInv
  <2>2. simplifyUMul \/ Keep
    BY <2>1 DEF Simplify, Next, simplifySAdd, simplifyUAdd, simplifySSub, simplifyUSub,
                simplifySMul, Replace, Ended
  <2>3. cmp' <=> cmp
    <3>1. CASE simplifyUMul
      <4>1. HasConstant /\ cmp' = UMulCmp
        BY <3>1 DEF simplifyUMul, Replace
      <4>2. UMulCmp <=> Overflows
        BY <2>1, <4>1, UMulExact
      <4> QED
        BY <2>1, <4>1, <4>2
    <3>2. CASE Keep
      BY <3>2 DEF Keep
    <3> QED
      BY <2>2, <3>1, <3>2
  <2>4. (Source' <=> Source) /\ (Narrowed' <=> Narrowed) /\ (Zero' <=> Zero)
    BY <1>1, SourceSame
  <2>5. (rest' \/ cmp') <=> (rest \/ cmp)
    BY <1>1, <2>3
  <2>6. Rewritten' <=> Rewritten
    BY <1>1, <2>5, Zenon DEF Rewritten
  <2>7. IdiomKept'
    BY <1>1, <2>1, <2>4, <2>6, Zenon DEF IdiomKept, IdiomInv
  <2> QED
    BY <1>1, <1>3, <2>7 DEF IdiomInv, Comparisons
<1> QED
  BY <1>2, <1>3

LEMMA NextIdiomInv == IdiomInv /\ [IdiomNext]_<<vars, idiomVars>> => IdiomInv'
<1> SUFFICES ASSUME IdiomInv, [IdiomNext]_<<vars, idiomVars>> PROVE IdiomInv'
  OBVIOUS
<1>1. CASE NoMatch
  <2>1. /\ pass = "idiom" /\ src.form # "none" /\ src' = src /\ inv' = inv
        /\ rest' = Source /\ pass' = "done" /\ cmp' = cmp
    BY <1>1 DEF NoMatch, vars
  <2>2. cmp = FALSE /\ inv = FALSE
    BY <2>1 DEF IdiomInv
  <2>3. Source' = Source
    BY <2>1, SourceSame
  <2>4. Rewritten' <=> Source'
    BY <2>1, <2>2, <2>3, Zenon DEF Rewritten
  <2> QED
    BY <2>1, <2>4 DEF IdiomInv, IdiomKept, Comparisons
<1>2. CASE UNCHANGED <<vars, idiomVars>>
  <2>1. UNCHANGED <<m, op, l, r, done, cmp, src, pass, rest, inv>>
    BY <1>2, Zenon DEF vars, idiomVars
  <2>2. Source' = Source /\ Narrowed' = Narrowed /\ Zero' = Zero
    BY <2>1, SourceSame
  <2>3. IdiomKept'
    BY <2>1, <2>2, Zenon DEF IdiomInv, IdiomKept, Rewritten
  <2>4. Overflows' = Overflows
    BY <2>1, Zenon DEF Overflows, Exact, Signs
  <2> QED
    BY <2>1, <2>3, <2>4, Zenon DEF IdiomInv, Comparisons
<1> QED
  BY <1>1, <1>2, MatchKeeps, SimplifyKeeps DEF IdiomNext, IdiomEnded

LEMMA InitIdiomInv == IdiomInit => IdiomInv
<1> SUFFICES ASSUME IdiomInit PROVE IdiomInv
  OBVIOUS
<1>1. pass = "idiom" /\ inv = FALSE
  BY DEF IdiomInit
<1>2. CASE src = [form |-> "none"]
  BY <1>1, <1>2 DEF IdiomInv, IdiomKept
<1>3. CASE /\ \E k \in IdiomModuli : src \in Comparisons(k)
           /\ done = FALSE /\ cmp = FALSE
  BY <1>1, <1>3 DEF IdiomInv, IdiomKept
<1> QED
  BY <1>2, <1>3 DEF IdiomInit

(* A comparison that tests a product by a division has the same result     *)
(* after overflow-idiom and overflow-simplify, at every width, with every  *)
(* constant and however it is written, but for x = 0 in a narrowed test.   *)
THEOREM IdiomAlwaysKept == IdiomSpec => []IdiomKept
<1>1. IdiomInv => IdiomKept
  BY DEF IdiomInv
<1> QED
  BY InitIdiomInv, NextIdiomInv, <1>1, PTL DEF IdiomSpec

(* The intrinsic itself through both passes: it is the program's own, or   *)
(* the product overflow-idiom has made of a comparison.                    *)
BitInv ==
  /\ IdiomInv
  /\ src.form = "none" => Exactly
  /\ src.form # "none" => op = "umul" /\ (cmp <=> Overflows)

LEMMA OverflowsSame ==
  ASSUME UNCHANGED <<m, op, l, r>>
  PROVE  Overflows' <=> Overflows
BY Zenon DEF Overflows, Exact, Signs

LEMMA InitBitInv == IdiomInit => BitInv
<1> SUFFICES ASSUME IdiomInit PROVE BitInv
  OBVIOUS
<1>1. CASE src = [form |-> "none"] /\ Init
  BY <1>1, InitIdiomInv, InitExactly DEF BitInv
<1>2. CASE /\ \E k \in IdiomModuli : src \in Comparisons(k)
           /\ m = src.m /\ op = "umul" /\ l = 0 /\ r = 0 /\ cmp = FALSE
  <2>1. src.form # "none" /\ m \in Nat /\ m >= 2
    BY <1>2, Compared
  <2>2. Exact = 0
    BY <1>2 DEF Exact, Signs
  <2>3. ~Overflows
    BY <1>2, <2>1, <2>2 DEF Overflows, Signs
  <2> QED
    BY <1>2, <2>1, <2>3, InitIdiomInv DEF BitInv
<1> QED
  BY <1>1, <1>2 DEF IdiomInit

LEMMA NextBitInv == BitInv /\ [IdiomNext]_<<vars, idiomVars>> => BitInv'
<1> SUFFICES ASSUME BitInv, [IdiomNext]_<<vars, idiomVars>> PROVE BitInv'
  OBVIOUS
<1>1. IdiomInv /\ IdiomInv'
  BY NextIdiomInv DEF BitInv
<1>2. CASE Match
  <2>1. src' = src /\ src.form # "none" /\ pass = "idiom"
    BY <1>2 DEF Match
  <2>2. PICK k \in IdiomModuli : src \in Comparisons(k)
    BY <1>1, <2>1 DEF IdiomInv
  <2>3. /\ src.m = k /\ k \in Nat /\ k >= 2 /\ src.x \in Nat /\ src.y \in Nat
        /\ src.form = "gt" => src.c \in Nat /\ src.c >= 1
    BY <2>2, Compared
  <2>4. CASE CreateOverflowBit(src.m)
    BY <1>1, <2>1, <2>3, <2>4, CreatedBit DEF BitInv
  <2>5. CASE src.form = "gt" /\ CreateOverflowBit(src.c + 1)
    BY <1>1, <2>1, <2>3, <2>5, CreatedBit DEF BitInv
  <2>6. CASE UNCHANGED vars
    <3>1. UNCHANGED <<m, op, l, r, cmp>>
      BY <2>6 DEF vars
    <3> QED
      BY <1>1, <2>1, <3>1, OverflowsSame, Zenon DEF BitInv
  <2> QED
    BY <1>2, <2>4, <2>5, <2>6 DEF Match
<1>3. CASE Simplify
  <2>1. src' = src /\ Next
    BY <1>3 DEF Simplify
  <2>2. CASE src.form = "none"
    BY <1>1, <2>1, <2>2, NextExactly DEF BitInv
  <2>3. CASE src.form # "none"
    <3>1. op = "umul" /\ (cmp <=> Overflows) /\ m \in Nat /\ m >= 2
          /\ l \in 0 .. m - 1 /\ r \in 0 .. m - 1
      BY <1>1, <1>3, <2>3 DEF BitInv, IdiomInv, Simplify
    <3>2. CASE simplifyUMul
      <4>1. HasConstant /\ cmp' = UMulCmp /\ UNCHANGED <<m, op, l, r>>
        BY <3>2 DEF simplifyUMul, Replace
      <4>2. UMulCmp <=> Overflows
        BY <3>1, <4>1, UMulExact
      <4> QED
        BY <1>1, <2>1, <2>3, <3>1, <4>1, <4>2, OverflowsSame DEF BitInv
    <3>3. CASE UNCHANGED <<m, op, l, r, cmp>>
      BY <1>1, <2>1, <2>3, <3>1, <3>3, OverflowsSame, Zenon DEF BitInv
    <3> QED
      BY <2>1, <3>1, <3>2, <3>3 DEF Next, simplifySAdd, simplifyUAdd, simplifySSub, simplifyUSub,
         simplifySMul, Replace, Keep, Ended, vars
  <2> QED
    BY <2>2, <2>3
<1>4. CASE NoMatch \/ IdiomEnded \/ UNCHANGED <<vars, idiomVars>>
  <2>1. UNCHANGED vars /\ src' = src
    BY <1>4 DEF NoMatch, IdiomEnded, idiomVars
  <2>2. UNCHANGED <<m, op, l, r, cmp>>
    BY <2>1 DEF vars
  <2>3. Exactly => Exactly'
    BY <2>1, NextExactly
  <2> QED
    BY <1>1, <2>1, <2>2, <2>3, OverflowsSame, Zenon DEF BitInv
<1> QED
  BY <1>2, <1>3, <1>4 DEF IdiomNext

(* Both properties hold of the two passes one after the other: also of the *)
(* intrinsics that overflow-idiom creates, of widths no operand has        *)
(* (src/OverflowIdiom.cc:112, src/OverflowSimplify.cc).                    *)
THEOREM BothPassesKeep == IdiomSpec => [](OverflowKept /\ NoneMissed)
<1>1. BitInv => OverflowKept /\ NoneMissed
  <2> SUFFICES ASSUME BitInv PROVE OverflowKept /\ NoneMissed
    OBVIOUS
  <2>1. CASE src.form = "none"
    BY <2>1 DEF BitInv, Exactly
  <2>2. CASE src.form # "none"
    BY <2>2 DEF BitInv, OverflowKept, NoneMissed
  <2> QED
    BY <2>1, <2>2
<1> QED
  BY InitBitInv, NextBitInv, <1>1, PTL DEF IdiomSpec

-----------------------------------------------------------------------------
(* load-rewrite.  What the address holds is the value available, in this   *)
(* block or at its beginning; a load whose uses are rewritten returned the *)
(* value that is live until the address is stored to before a block.       *)
HoistInv ==
  /\ time \in Nat \ {0}
  /\ memory = IF here # None THEN here ELSE live
  /\ direct # None => direct = loaded
  /\ direct = None /\ ~stored => loaded = live
  /\ UsesKept

LEMMA NextHoistInv == HoistInv /\ [HoistNext]_hoistVars => HoistInv'
<1> SUFFICES ASSUME HoistInv, [HoistNext]_hoistVars PROVE HoistInv'
  OBVIOUS
<1> USE DEF HoistInv, None
<1>1. CASE Base \/ Store
  <2>1. /\ time' = time + 1 /\ memory' = time /\ here' = time /\ bad' = FALSE
        /\ live' = live /\ loaded' = loaded /\ stored' = stored /\ direct' = direct
    BY <1>1 DEF Base, Store, Step, Tick, Available
  <2>2. UsesKept'
    BY <2>1, Zenon DEF UsesKept
  <2> QED
    BY <2>1, <2>2
<1>2. CASE Load
  <2>1. /\ loaded' = memory /\ stored' = FALSE /\ direct' = here /\ bad' = FALSE
        /\ time' = time /\ memory' = memory /\ here' = here /\ live' = live
    BY <1>2 DEF Load, Step
  <2>2. UsesKept'
    BY <2>1, Zenon DEF UsesKept
  <2> QED
    BY <2>1, <2>2
<1>3. CASE Use \/ Phi
  <2>1. /\ time' = time /\ memory' = memory /\ loaded' = loaded /\ stored' = stored
        /\ here' = here /\ live' = live /\ direct' = direct
    BY <1>3 DEF Use, Phi, Step
  <2>2. bad' => Replaced # loaded
    BY <1>3 DEF Use, Phi
  <2>3. Replaced # loaded => stored /\ direct = None
    BY Zenon DEF Replaced
  <2>4. UsesKept'
    BY <2>1, <2>2, <2>3, Zenon DEF UsesKept
  <2> QED
    BY <2>1, <2>4
<1>4. CASE Leave
  <2>1. /\ time' = time + 1 /\ live' = IF here # None THEN here ELSE live
        /\ stored' = (stored \/ here # None) /\ here' = None /\ bad' = FALSE
        /\ memory' = memory /\ loaded' = loaded /\ direct' = direct
    BY <1>4 DEF Leave, Tick
  <2>2. UsesKept'
    BY <2>1, Zenon DEF UsesKept
  <2>3. ~stored' => ~stored /\ here = None
    BY <2>1, Zenon
  <2>4. direct' = None /\ ~stored' => loaded' = live'
    BY <2>1, <2>3
  <2>5. time' \in Nat \ {0} /\ memory' = live' /\ (direct' # None => direct' = loaded')
    BY <2>1
  <2> QED
    BY <2>1, <2>2, <2>4, <2>5, Zenon
<1>5. CASE UNCHANGED hoistVars
  BY <1>5, Zenon DEF hoistVars, UsesKept
<1> QED
  BY <1>1, <1>2, <1>3, <1>4, <1>5 DEF HoistNext, HoistEnded

LEMMA InitHoistInv == HoistInit => HoistInv
  BY DEF HoistInit, HoistInv, UsesKept, None

(* In every control flow graph, on every path and in every turn of a loop, *)
(* a use has the value the load returned, unless the load was not replaced *)
(* at once and the address was stored to before the block of the use.      *)
THEOREM UsesAlwaysKept == HoistSpec => []UsesKept
<1>1. HoistInv => UsesKept
  BY DEF HoistInv
<1> QED
  BY InitHoistInv, NextHoistInv, <1>1, PTL DEF HoistSpec

=============================================================================
