------------------------------ MODULE ValueGen ------------------------------
(***************************************************************************)
(* The query of a checker (src/IntSat.cc, src/CmpSat.cc) for one value of  *)
(* a function: the terms of the values it depends on (src/ValueGen.cc) and *)
(* of the condition of its block (src/PathGen.cc), and the release of all  *)
(* of them.  Terms denote values under one assignment of the symbols that  *)
(* stand for what the function does not compute.                           *)
(***************************************************************************)
EXTENDS IntChecks

CONSTANTS
  Programs,   \* the functions considered, with an assignment
  PtrSize     \* the width of a pointer

(* A program has                                                           *)
(*   vals    the values in an order in which operands come first,          *)
(*   fresh   the assignment, by the place of a value,                      *)
(*   query   the place of the value asked about,                           *)
(*   guard   the condition of the branch to its block and the way taken,   *)
(*           or << >> if it is in the entry block,                         *)
(*   phis    the phis of its block, with their operands,                   *)
(*   asks    the question the first values put, and the place of the       *)
(*           answer, or << >>.                                             *)
(* What is demanded of them is what LLVM's verifier demands, and that what *)
(* is shifted has at least two bits: of one, Boolector's shift would take  *)
(* none.                                                                   *)
Constrained(I) == "range" \in DOMAIN I /\ I.range[1] # I.range[2]

(* The operands a visitor asks for.  A constant index has no term.         *)
OperandsOf(I) ==
  CASE I.kind \in {"fresh", "const"} -> {}
    [] I.kind = "select" -> {I.c, I.a, I.b}
    [] I.kind = "gep" -> {I.a} \cup { I.index[i].val : i \in { j \in DOMAIN I.index : I.index[j].by = "value" } }
    [] I.kind \in {"trunc", "zext", "sext", "bitcast", "ptrtoint"} -> {I.a}
    [] OTHER -> {I.a, I.b}

IsIndex(i) ==
  /\ i.by \in {"field", "const", "value"}
  /\ i.by = "field" => i.offset \in Int
  /\ i.by # "field" => i.size \in Int
  /\ i.by = "const" => i.w \in Nat \ {0} /\ i.num \in Word(Mod(i.w))

Widths(p, v) ==
  LET I == p.vals[v]
      W(u) == p.vals[u].w
      Binaries == {"binary", "result"}
      Relations == {"icmp", "overflow"}
  IN  /\ I.w \in Nat \ {0}
      /\ I.kind \in Binaries \cup Relations \cup
           {"fresh", "const", "select", "gep", "trunc", "zext", "sext", "bitcast", "ptrtoint"}
      /\ OperandsOf(I) \subseteq 1 .. v - 1
      /\ I.kind = "fresh" =>
           /\ p.fresh[v] \in Word(Mod(I.w))
           /\ Constrained(I) => {I.range[1], I.range[2]} \subseteq Word(Mod(I.w))
      /\ I.kind = "const" => I.num \in Word(Mod(I.w))
      /\ I.kind \in Binaries => W(I.a) = I.w /\ W(I.b) = I.w
      /\ I.kind = "binary" => I.op \in BinaryOps /\ (I.op \in Shifts => I.w > 1)
      /\ I.kind = "result" => I.op \in OverflowOps
      /\ I.kind \in Relations => W(I.a) = W(I.b) /\ I.w = 1
      /\ I.kind = "overflow" => I.op \in OverflowOps
      /\ I.kind = "select" => W(I.c) = 1 /\ W(I.a) = I.w /\ W(I.b) = I.w
      /\ I.kind = "gep" =>
           /\ W(I.a) = PtrSize /\ I.w = PtrSize
           /\ Len(I.index) \in Nat /\ DOMAIN I.index = 1 .. Len(I.index)
           /\ \A i \in DOMAIN I.index : IsIndex(I.index[i])
      /\ I.kind = "trunc" => I.w <= W(I.a)
      /\ I.kind \in {"zext", "sext"} => I.w >= W(I.a)
      /\ I.kind = "bitcast" => W(I.a) = I.w

Puts(p, q) ==
  /\ IsQuestion(q)
  /\ q.at = Len(CheckOf(q))
  /\ \A v \in 1 .. q.at : v \in DOMAIN p.vals /\ p.vals[v] = CheckOf(q)[v]

IsProgram(p) ==
  LET places == DOMAIN p.vals
  IN  /\ p.asks # << >> => Puts(p, p.asks)
      /\ places = 1 .. Len(p.vals) /\ Len(p.vals) \in Nat
      /\ \A v \in places : Widths(p, v)
      /\ p.query \in places /\ p.vals[p.query].w = 1
      /\ p.guard # << >> => p.guard.cond \in places /\ p.vals[p.guard.cond].w = 1
      /\ DOMAIN p.phis = 1 .. Len(p.phis) /\ Len(p.phis) \in Nat
      /\ \A i \in DOMAIN p.phis :
           LET I == p.phis[i]
           IN  {I.val, I.from} \subseteq places /\ p.vals[I.val].w = p.vals[I.from].w

ASSUME GenAssumption ==
  /\ PtrSize \in Nat \ {0}
  /\ \A p \in Programs : IsProgram(p)

VARIABLES
  prog,      \* the program
  order,     \* whether the first or the last argument of a call is visited first
  terms,     \* the store
  cache,     \* the terms of values
  assumed,   \* the terms assumed, by the value whose range they say
  path,      \* the terms of blocks: the entry, and the block of the query
  phase      \* what the checker does

genVars == <<backend, prog, order, terms, cache, assumed, path, phase>>

Phases == {"build", "ask", "again", "freePaths", "freeValues", "end"}

Places == DOMAIN prog.vals
Val(v) == prog.vals[v]

Operands(v) == OperandsOf(Val(v))

-----------------------------------------------------------------------------
(* addRangeConstraints: the bounds of a range, [lo, hi) or what is not in  *)
(* [hi, lo), and the bounds that say nothing.                              *)
CompareLast(s, p, t) == decref(compare(s, p, t, Len(s)), Len(s))

LowerBound(s, t, lo) == CompareLast(bvconst(s, s[t].w, lo), "uge", t)

UpperBoundAlways(s, t, hi) == CompareLast(bvconst(s, s[t].w, hi), "ule", t)
   \* faulty: the bound is taken to be in the range

UpperBound(s, t, hi) == CompareLast(bvconst(s, s[t].w, hi), "ult", t)

RangeConstraint(s, t, lo, hi) ==
  LET Cmp0 == Len(s) + 2
      Cmp1 == Len(s) + 4
  IN  CASE lo = 0 -> UpperBound(s, t, hi)
        [] hi = 0 -> LowerBound(s, t, lo)
        [] OTHER  -> decref(decref(operation(UpperBound(LowerBound(s, t, lo), t, hi),
                                             IF lo <= hi THEN "and" ELSE "or", Cmp0, Cmp1).store,
                                   Cmp0), Cmp1)

(* visitInstruction: a symbol, and if the range pass knows one its range.  *)
visitFresh(s, v) ==
  LET I  == Val(v)
      s1 == Make(s, I.w, prog.fresh[v], {})
  IN  IF Constrained(I) THEN RangeConstraint(s1, Len(s) + 1, I.range[1], I.range[2]) ELSE s1

(* visitGEPOperator: the constant part of the offset, and the variable     *)
(* indices one after the other.                                            *)
Total(p) ==
  LET Sum[i \in 0 .. Len(p)] == IF i = 0 THEN 0 ELSE Sum[i - 1] + p[i] IN Sum[Len(p)]

ConstPart(i) ==
  CASE i.by = "field" -> i.offset
    [] i.by = "const" -> i.size * Wrap(Mod(PtrSize), Signed(Mod(i.w), i.num))
    [] OTHER -> 0

ConstOffset(I) ==
  Wrap(Mod(PtrSize), Total([i \in 1 .. Len(I.index) |-> ConstPart(I.index[i])]))

(* The store and the term of the index in the width of a pointer.          *)
PtrIndexUncounted(s, t) ==   \* faulty: an index as wide as a pointer is not held
  CASE s[t].w < PtrSize -> Result(sign_extend(s, PtrSize - s[t].w, t))
    [] s[t].w > PtrSize -> Result(extract(s, PtrSize, t))
    [] OTHER -> [store |-> s, term |-> t]

PtrIndex(s, t) ==
  CASE s[t].w < PtrSize -> Result(sign_extend(s, PtrSize - s[t].w, t))
    [] s[t].w > PtrSize -> Result(extract(s, PtrSize, t))
    [] OTHER -> [store |-> incref(s, t), term |-> t]

AddProduct(idx, size, offset) ==
  LET n == Len(idx.store)
      LocalOffset == operation(bvconst(idx.store, PtrSize, size), "mul", idx.term, n + 1).store
      Tmp == operation(LocalOffset, "add", offset, n + 2).store
  IN  [store |-> decref(decref(decref(decref(Tmp, idx.term), n + 1), offset), n + 2),
       term  |-> n + 3]

AddIndex(offset, i) ==
  IF i.by = "value"
  THEN AddProduct(PtrIndex(offset.store, cache[i.val]), i.size, offset.term) ELSE offset

AddConst(offset, c) ==
  LET n == Len(offset.store)
      Tmp == operation(bvconst(offset.store, PtrSize, c), "add", offset.term, n + 1).store
  IN  IF c = 0 THEN offset
      ELSE [store |-> decref(decref(Tmp, offset.term), n + 1), term |-> n + 2]

(* A pointer seen as an integer or as another pointer is the same term.    *)
Same(s, t) == [store |-> incref(s, t), term |-> t]

visitGEP(s, I) ==
  LET Offset[i \in 0 .. Len(I.index)] ==
        IF i = 0 THEN Same(s, cache[I.a]) ELSE AddIndex(Offset[i - 1], I.index[i])
  IN  AddConst(Offset[Len(I.index)], ConstOffset(I))

visitPtrToInt(s, I) ==
  LET t == cache[I.a]
  IN  CASE I.w > s[t].w -> Result(zero_extend(s, I.w - s[t].w, t))
        [] I.w < s[t].w -> Result(extract(s, I.w, t))
        [] OTHER -> Same(s, t)

visitCast(s, I) ==
  LET t == cache[I.a]
  IN  CASE I.kind = "trunc" -> extract(s, I.w, t)
        [] I.kind = "zext"  -> zero_extend(s, I.w - s[t].w, t)
        [] I.kind = "sext"  -> sign_extend(s, I.w - s[t].w, t)

(* visitExtractValueInst: the result of an intrinsic or its overflow bit.  *)
Plain(o) == CASE o \in {"sadd", "uadd"} -> "add"
              [] o \in {"ssub", "usub"} -> "sub"
              [] o \in {"smul", "umul"} -> "mul"

(* ValueVisitor::analyze, the operands already in the cache.               *)
analyze(s, v) ==
  LET I == Val(v)
  IN  CASE I.kind = "fresh"    -> [store |-> visitFresh(s, v), term |-> Len(s) + 1]
        [] I.kind = "const"    -> Result(bvconst(s, I.w, I.num))
        [] I.kind = "binary"   -> operation(s, I.op, cache[I.a], cache[I.b])
        [] I.kind = "icmp"     -> Result(compare(s, I.pred, cache[I.a], cache[I.b]))
        [] I.kind = "select"   -> Result(ite(s, cache[I.c], cache[I.a], cache[I.b]))
        [] I.kind = "result"   -> operation(s, Plain(I.op), cache[I.a], cache[I.b])
        [] I.kind = "overflow" -> Result(overflow(s, I.op, cache[I.a], cache[I.b]))
        [] I.kind = "gep"      -> visitGEP(s, I)
        [] I.kind = "ptrtoint" -> visitPtrToInt(s, I)
        [] I.kind = "bitcast"  -> Same(s, cache[I.a])
        [] OTHER               -> Result(visitCast(s, I))

GenInit ==
  /\ backend \in Backends
  /\ prog \in Programs
  /\ order \in {"first", "last"}
  /\ terms = << >>
  /\ cache = << >>
  /\ assumed = << >>
  /\ path = << >>
  /\ phase = "build"

(* ValueGen::get, once per value, operands first.  C++ leaves open in      *)
(* which order the arguments of a call are visited.  SMT.assume keeps the  *)
(* term of a range, so that its reference is given up at once.             *)
Ready == { v \in Places \ DOMAIN cache : Operands(v) \subseteq DOMAIN cache }

Visit(v) ==
  /\ phase = "build"
  /\ v \in Ready
  /\ \A u \in Ready : IF order = "first" THEN v <= u ELSE v >= u
  /\ \E r \in {analyze(terms, v)} :
       LET c == Val(v).kind = "fresh" /\ Constrained(Val(v))
       IN  /\ terms' = IF c THEN decref(r.store, Len(r.store)) ELSE r.store
           /\ cache' = [u \in DOMAIN cache \cup {v} |-> IF u = v THEN r.term ELSE cache[u]]
           /\ assumed' = IF c THEN [u \in DOMAIN assumed \cup {v} |->
                                      IF u = v THEN Len(r.store) ELSE assumed[u]]
                         ELSE assumed
  /\ UNCHANGED <<backend, prog, order, path, phase>>

-----------------------------------------------------------------------------
(* PathGen::get for the block of the query: the guard of the branch, the   *)
(* phis, the condition of the block before, and false for no other way.    *)
TermGuard(s) ==
  LET E == cache[prog.guard.cond]
  IN  IF prog.guard.way THEN Same(s, E)
      ELSE [store |-> decref(bvnot(incref(s, E), E), E), term |-> Len(s) + 1]

AddPHI(E, phi) ==
  LET PN  == Len(E.store) + 1
      eq  == compare(E.store, "eq", cache[phi.val], cache[phi.from])
      Tmp == operation(eq, "and", E.term, PN).store
  IN  [store |-> decref(decref(Tmp, E.term), PN), term |-> PN + 1]

PHIGuard(s) ==
  LET E[i \in 0 .. Len(prog.phis)] ==
        IF i = 0 THEN Result(bvconst(s, 1, 1)) ELSE AddPHI(E[i - 1], prog.phis[i])
  IN  E[Len(prog.phis)]

(* G || (Term && PN && the guard of the block before).                     *)
OrEdgeHeld(G, Term, PN, entry) ==   \* faulty: the guard of the edge is not given up
  LET n == Len(PN.store)
      TermWithPN == decref(operation(PN.store, "and", Term, PN.term).store, PN.term)
      Br == decref(operation(TermWithPN, "and", n + 1, entry).store, n + 1)
  IN  decref(decref(operation(Br, "or", G, n + 2).store, G), n + 2)

OrEdge(G, Term, PN, entry) ==
  LET n == Len(PN.store)
      TermWithPN == decref(decref(operation(PN.store, "and", Term, PN.term).store, Term), PN.term)
      Br == decref(operation(TermWithPN, "and", n + 1, entry).store, n + 1)
  IN  decref(decref(operation(Br, "or", G, n + 2).store, G), n + 2)

AlongEdge(G, Term, entry) == OrEdge(G, Term.term, PHIGuard(Term.store), entry)

BlockGuard(s, entry) == AlongEdge(Len(s) + 1, TermGuard(bvconst(s, 1, 0)), entry)

InEntry == prog.guard = << >>

Guard ==
  /\ phase = "build" /\ path = << >>
  /\ DOMAIN cache = Places
  /\ LET s1 == bvconst(terms, 1, 1)
         s2 == BlockGuard(s1, Len(s1))
     IN  /\ terms' = IF InEntry THEN s1 ELSE s2
         /\ path' = IF InEntry THEN <<Len(terms) + 1>> ELSE <<Len(terms) + 1, Len(terms')>>
  /\ phase' = "ask"
  /\ UNCHANGED <<backend, prog, order, cache, assumed>>

(* The query, and the second one for the negation of a condition if the    *)
(* first can be satisfied.  IntSat asks once, CmpSat may ask twice.        *)
PathPred == path[Len(path)]

Ask(s, t) == decref(operation(s, "and", t, PathPred).store, Len(s) + 1)

Query ==
  /\ phase = "ask"
  /\ terms' = Ask(terms, cache[prog.query])
  /\ phase' \in {"again", "freePaths"}
  /\ UNCHANGED <<backend, prog, order, cache, assumed, path>>

QueryNegation ==
  /\ phase = "again"
  /\ LET NotValuePred == Len(terms) + 1
     IN  terms' = decref(Ask(bvnot(terms, cache[prog.query]), NotValuePred), NotValuePred)
  /\ phase' = "freePaths"
  /\ UNCHANGED <<backend, prog, order, cache, assumed, path>>

(* The destructors, in the order the objects were declared, reversed.      *)
Holders(held, t) == { h \in DOMAIN held : held[h] = t }

Released(s, held) ==
  IF backend = "z3" THEN s
  ELSE [t \in DOMAIN s |-> [s[t] EXCEPT !.refs = @ - Cardinality(Holders(held, t))]]

FreePaths ==
  /\ phase = "freePaths"
  /\ terms' = Released(terms, path)
  /\ path' = << >>
  /\ phase' = "freeValues"
  /\ UNCHANGED <<backend, prog, order, cache, assumed>>

FreeValues ==
  /\ phase = "freeValues"
  /\ terms' = Released(terms, cache)
  /\ cache' = << >>
  /\ phase' = "end"
  /\ UNCHANGED <<backend, prog, order, assumed, path>>

GenEnded == phase = "end" /\ UNCHANGED genVars

GenNext ==
  \/ \E v \in Places : Visit(v)
  \/ Guard \/ Query \/ QueryNegation \/ FreePaths \/ FreeValues \/ GenEnded

GenSpec == GenInit /\ [][GenNext]_genVars

-----------------------------------------------------------------------------
(* What LLVM says the values are under the assignment, where it says it:   *)
(* a division by zero, a quotient that overflows, a shift by the width and *)
(* what is computed from them have no value, but for a select's other arm. *)
Poison == -1

HasResult(o, w, x, y) ==
  CASE o \in {"udiv", "urem"} -> y # 0
    [] o \in {"sdiv", "srem"} -> y # 0 /\ ~(x = SMin(Mod(w)) /\ y = UMax(Mod(w)))
    [] o \in Shifts -> y < w
    [] OTHER -> TRUE

Part(i, val) ==
  CASE i.by = "field" -> i.offset
    [] i.by = "const" -> i.size * Signed(Mod(i.w), i.num)
    [] i.by = "value" -> i.size * Signed(Mod(Val(i.val).w), val[i.val])

Address(I, val) ==
  Wrap(Mod(PtrSize), val[I.a] + Total([i \in 1 .. Len(I.index) |-> Part(I.index[i], val)]))

(* The meaning of a value, if val is that of the values before.            *)
MeaningOf(v, val) ==
  LET I == Val(v)
      w == Val(I.a).w
  IN  CASE I.kind = "fresh" -> prog.fresh[v]
        [] I.kind = "const" -> I.num
        [] I.kind = "select" ->
             IF val[I.c] = 1 THEN val[I.a] ELSE IF val[I.c] = 0 THEN val[I.b] ELSE Poison
        [] I.kind # "select" /\ \E u \in Operands(v) : val[u] = Poison -> Poison
        [] OTHER ->
             CASE I.kind = "binary" ->
                    IF HasResult(I.op, I.w, val[I.a], val[I.b])
                    THEN Compute(I.op, I.w, val[I.a], val[I.b]) ELSE Poison
               [] I.kind = "icmp" -> Bit(Holds(I.pred, w, val[I.a], val[I.b]))
               [] I.kind = "result" -> Wrap(Mod(I.w), Exact(I.op, I.w, val[I.a], val[I.b]))
               [] I.kind = "overflow" ->
                    Bit(~(NoOverflow(I.op, w, val[I.a], val[I.b]) /\ NoUnderflow(I.op, w, val[I.a], val[I.b])))
               [] I.kind = "gep"  -> Address(I, val)
               [] I.kind = "sext" -> Wrap(Mod(I.w), Signed(Mod(w), val[I.a]))
               [] OTHER -> Wrap(Mod(I.w), val[I.a])

Meaning == LET val[v \in Places] == MeaningOf(v, val) IN val

(* Boolector's words of 2^k bits are wider than a word of another width,   *)
(* and a sign lost in widening is not shifted in (src/SMTBoolector.cc:237).*)
LosesSign(v) ==
  LET I == Val(v)
  IN  /\ backend = "boolector" /\ I.kind = "binary" /\ I.op = "ashr"
      /\ Pow2[Log2Up(I.w)] # I.w
      /\ IsNegative(Mod(I.w), Meaning[I.a])

(* Whatever solver it is built with, kint asks about the values the        *)
(* program has: terms have the width and the value of what they stand for, *)
(* addresses with indices of any width and sign included, but for the      *)
(* arithmetic shift named above.                                           *)
TermsExact ==
  phase = "ask" /\ ~(\E v \in Places : LosesSign(v)) =>
    LET val == Meaning
    IN  \A v \in Places :
          /\ terms[cache[v]].w = Val(v).w
          /\ val[v] # Poison => terms[cache[v]].x = val[v]

(* What is asked is what the passes mean to ask: a check is true exactly   *)
(* where its instruction has no result, or its index is out of bounds, one *)
(* past the end apart; an ideal shift has the result of an integer's.      *)
OutOfBounds(w, x, n, intmax) ==
  LET i == Signed(Mod(w), x) IN i < 0 \/ i > (IF n <= 1 THEN intmax ELSE n)

Asked ==
  LET q == prog.asks
      x == prog.fresh[1]
      y == prog.fresh[2]
  IN  CASE q.kind = "undefined" -> Bit(~HasResult(q.op, q.w, x, y))
        [] q.kind = "bounds" ->
             Bit(\E i \in DOMAIN q.sizes : OutOfBounds(q.w, prog.fresh[i], q.sizes[i], q.intmax))
        [] q.kind = "negative" -> Bit(Signed(Mod(q.w), x) < 0)
        [] q.kind = "ideal" -> Shift(q.op, q.w, x, y)

AsksExactly ==
  phase = "ask" /\ prog.asks # << >> /\ ~(\E v \in Places : LosesSign(v)) =>
    terms[cache[prog.asks.at]].x = Asked

(* The range of a value is assumed exactly: a range may wrap, begin at 0   *)
(* or end at 0 (src/ValueGen.cc:319-358); a full one is not assumed.       *)
RangesExact ==
  \A v \in DOMAIN assumed :
    LET I == Val(v)
        m == Mod(I.w)
    IN  terms[assumed[v]].x = 1 <=>
          Wrap(m, prog.fresh[v] - I.range[1]) < Wrap(m, I.range[2] - I.range[1])

(* No call of the solver has a term that was released before or words of   *)
(* two widths, in any order of visits.                                     *)
CallsLegal == \A t \in DOMAIN terms : terms[t].legal

(* At the end the solver's assertion holds that every term was released    *)
(* (src/SMTBoolector.cc:41), and none is released more often than held.    *)
Balanced ==
  backend # "z3" =>
    \A t \in DOMAIN terms : terms[t].refs >= 0 /\ (phase = "end" => terms[t].refs = 0)

=============================================================================
