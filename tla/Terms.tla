-------------------------------- MODULE Terms --------------------------------
(***************************************************************************)
(* The terms of the three solvers kint can be built with (src/SMTZ3.cc,    *)
(* src/SMTBoolector.cc, src/SMTSonolar.cc).  A store is the sequence of    *)
(* the terms made so far; a term is its place there.  It has a width, the  *)
(* value it denotes under one assignment of the solver's variables, the    *)
(* references held to it, and whether the call that made it was legal: its *)
(* arguments still held, and of the widths the library demands.            *)
(***************************************************************************)
EXTENDS Words, Sequences, FiniteSets

VARIABLE backend   \* the solver the program is linked with

Backends == {"z3", "boolector", "sonolar"}

Pow2[n \in Nat] == IF n = 0 THEN 1 ELSE 2 * Pow2[n - 1]

Mod(w) == Pow2[w]

Bit(b) == IF b THEN 1 ELSE 0

(* The theory of bit vectors, which the libraries implement.               *)
Holds(p, w, x, y) ==
  LET a == Signed(Mod(w), x)
      b == Signed(Mod(w), y)
  IN  CASE p = "eq"  -> x = y    [] p = "ne"  -> x # y
        [] p = "slt" -> a < b    [] p = "sle" -> a <= b
        [] p = "sgt" -> a > b    [] p = "sge" -> a >= b
        [] p = "ult" -> x < y    [] p = "ule" -> x <= y
        [] p = "ugt" -> x > y    [] p = "uge" -> x >= y

BitsOf(w, x) == { i \in 0 .. w - 1 : (x \div Pow2[i]) % 2 = 1 }

WithBits(w, bits) ==
  LET Sum[i \in 0 .. w] ==
        IF i = 0 THEN 0 ELSE Sum[i - 1] + (IF i - 1 \in bits THEN Pow2[i - 1] ELSE 0)
  IN  Sum[w]

Shift(o, w, x, y) ==
  CASE o = "shl"  -> Wrap(Mod(w), x * Pow2[y])
    [] o = "lshr" -> x \div Pow2[y]
    [] o = "ashr" -> Wrap(Mod(w), Signed(Mod(w), x) \div Pow2[y])

Shifts == {"shl", "lshr", "ashr"}

Compute(o, w, x, y) ==
  LET m == Mod(w)
      a == Signed(m, x)
      b == Signed(m, y)
  IN  CASE o = "add"  -> Wrap(m, x + y)
        [] o = "sub"  -> Wrap(m, x - y)
        [] o = "mul"  -> Wrap(m, x * y)
        [] o = "udiv" -> IF y = 0 THEN UMax(m) ELSE x \div y
        [] o = "urem" -> IF y = 0 THEN x ELSE x % y
        [] o = "sdiv" -> IF y = 0 THEN Wrap(m, IF a < 0 THEN 1 ELSE -1) ELSE SDiv(m, x, y)
        [] o = "srem" -> IF y = 0 THEN x ELSE Wrap(m, a - b * Quotient(a, b))
        [] o = "and"  -> WithBits(w, BitsOf(w, x) \cap BitsOf(w, y))
        [] o = "or"   -> WithBits(w, BitsOf(w, x) \cup BitsOf(w, y))
        [] o = "xor"  -> WithBits(w, (BitsOf(w, x) \cup BitsOf(w, y)) \ (BitsOf(w, x) \cap BitsOf(w, y)))
        [] o \in Shifts -> Shift(o, w, x, y)

BinaryOps == {"add", "sub", "mul", "udiv", "sdiv", "urem", "srem", "and", "or", "xor"} \cup Shifts

SignedOps == {"sadd", "ssub", "smul"}

OverflowOps == SignedOps \cup {"uadd", "usub", "umul"}

(* The result of an operation whose overflow is asked for, on integers.    *)
Exact(o, w, x, y) ==
  LET a == IF o \in SignedOps THEN Signed(Mod(w), x) ELSE x
      b == IF o \in SignedOps THEN Signed(Mod(w), y) ELSE y
  IN  CASE o \in {"sadd", "uadd"} -> a + b
        [] o \in {"ssub", "usub"} -> a - b
        [] o \in {"smul", "umul"} -> a * b

NoOverflow(o, w, x, y) ==
  Exact(o, w, x, y) <= (IF o \in SignedOps THEN SMax(Mod(w)) ELSE UMax(Mod(w)))

NoUnderflow(o, w, x, y) ==
  Exact(o, w, x, y) >= (IF o \in SignedOps THEN -SMin(Mod(w)) ELSE 0)

-----------------------------------------------------------------------------
(* Making, holding and releasing terms.  Z3 manages its terms itself.      *)
New(s, w, x, legal) == Append(s, [w |-> w, x |-> x, refs |-> 1, legal |-> legal])

IsHeld(s, t) == s[t].refs > 0

Make(s, w, x, args) == New(s, w, x, \A t \in args : IsHeld(s, t))

incref(s, t) == IF backend = "z3" THEN s ELSE [s EXCEPT ![t].refs = @ + 1]

decref(s, t) == IF backend = "z3" THEN s ELSE [s EXCEPT ![t].refs = @ - 1]

bvconst(s, w, x) == Make(s, w, x, {})

Pair(s, t, u) == IsHeld(s, t) /\ IsHeld(s, u) /\ s[t].w = s[u].w

(* A store with a term, the one made last.                                 *)
Result(s) == [store |-> s, term |-> Len(s)]

(* A relation of two words: Z3 has Booleans besides bit vectors.           *)
Z3Relation(p, w, x, y) == IF p = "ne" THEN 1 - Bit(x = y) ELSE Bit(Holds(p, w, x, y))

BoolectorRelation(p, w, x, y) == Bit(Holds(p, w, x, y))

SonolarRelation(p, w, x, y) == Bit(Holds(p, w, x, y))

Relation(p, w, x, y) ==
  CASE backend = "z3"        -> Z3Relation(p, w, x, y)
    [] backend = "boolector" -> BoolectorRelation(p, w, x, y)
    [] backend = "sonolar"   -> SonolarRelation(p, w, x, y)

compare(s, p, t, u) == New(s, 1, Relation(p, s[t].w, s[t].x, s[u].x), Pair(s, t, u))

(* Whether an operation overflows.                                         *)
Z3OverflowOneWay(o, w, x, y) == Bit(~NoOverflow(o, w, x, y))   \* faulty: one direction

Z3Overflow(o, w, x, y) ==
  CASE o \in SignedOps        -> Bit(~NoOverflow(o, w, x, y) \/ ~NoUnderflow(o, w, x, y))
    [] o \in {"uadd", "umul"} -> Bit(~NoOverflow(o, w, x, y))
    [] o = "usub"             -> Bit(~NoUnderflow(o, w, x, y))

BoolectorOverflow(o, w, x, y) == Bit(~(NoOverflow(o, w, x, y) /\ NoUnderflow(o, w, x, y)))

SonolarOverflow(o, w, x, y) == Bit(~(NoOverflow(o, w, x, y) /\ NoUnderflow(o, w, x, y)))

Overflow(o, w, x, y) ==
  CASE backend = "z3"        -> Z3Overflow(o, w, x, y)
    [] backend = "boolector" -> BoolectorOverflow(o, w, x, y)
    [] backend = "sonolar"   -> SonolarOverflow(o, w, x, y)

overflow(s, o, t, u) == New(s, 1, Overflow(o, s[t].w, s[t].x, s[u].x), Pair(s, t, u))

(* Casts: the low bits of a term, and a term with bits before it.          *)
extract(s, n, t) ==
  New(s, n, s[t].x % Mod(n), IsHeld(s, t) /\ n >= 1 /\ n <= s[t].w)

zero_extend(s, i, t) == Make(s, s[t].w + i, s[t].x, {t})

sign_extend(s, i, t) ==
  Make(s, s[t].w + i, Wrap(Mod(s[t].w + i), Signed(Mod(s[t].w), s[t].x)), {t})

bvnot(s, t) == Make(s, s[t].w, UMax(Mod(s[t].w)) - s[t].x, {t})

ite(s, c, t, u) ==
  New(s, s[t].w, IF s[c].x = 1 THEN s[t].x ELSE s[u].x,
      \A r \in {c, t, u} : IsHeld(s, r) /\ s[c].w = 1 /\ s[t].w = s[u].w)

(* Boolector shifts words of 2^k bits by amounts of k bits: shift widens   *)
(* the word, takes the low bits of the amount and cuts the result.         *)
Log2Up(n) == CHOOSE k \in 0 .. n : Pow2[k] >= n /\ \A j \in 0 .. n : Pow2[j] >= n => k <= j

ShiftByLast(s, o, e0) ==
  LET log2w == Len(s)
  IN  decref(Make(s, s[e0].w, Shift(o, s[e0].w, s[e0].x, s[log2w].x), {e0, log2w}), log2w)

Cut(s, n, e0) == Result(decref(extract(decref(s, e0), n, Len(s)), Len(s)))

ShiftLast(s, o, n, u) == Cut(ShiftByLast(extract(s, Log2Up(n), u), o, Len(s)), n, Len(s))

BoolectorShift(s, o, t, u) ==
  LET n      == s[u].w
      power2 == Pow2[Log2Up(n)]
  IN  IF power2 = n THEN Result(ShiftByLast(extract(s, Log2Up(n), u), o, t))
      ELSE ShiftLast(zero_extend(s, power2 - n, t), o, n, u)

(* An operation on two words: the store with the term, and the term.       *)
Z3Operation(o, w, x, y) == Compute(o, w, x, y)

BoolectorOperation(o, w, x, y) == Compute(o, w, x, y)

SonolarOperation(o, w, x, y) == Compute(o, w, x, y)

Operation(o, w, x, y) ==
  CASE backend = "z3"        -> Z3Operation(o, w, x, y)
    [] backend = "boolector" -> BoolectorOperation(o, w, x, y)
    [] backend = "sonolar"   -> SonolarOperation(o, w, x, y)

operation(s, o, t, u) ==
  IF backend = "boolector" /\ o \in Shifts THEN BoolectorShift(s, o, t, u)
  ELSE Result(New(s, s[t].w, Operation(o, s[t].w, s[t].x, s[u].x), Pair(s, t, u)))

=============================================================================
