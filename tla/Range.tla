-------------------------------- MODULE Range --------------------------------
(***************************************************************************)
(* The range pass of intglobal (RangePass, src/Range.cc): it computes the  *)
(* values names can have, over all modules, and writes them into metadata  *)
(* that the checkers give the solver as assumptions.                       *)
(*                                                                         *)
(* A step handles one function: its blocks in layout order, with the       *)
(* ranges of its values per block, which are forgotten afterwards.         *)
(***************************************************************************)
EXTENDS IterativePass, CRange, SequencesExt

CONSTANTS
  MaxIterations,  \* the sweeps over a module before ranges that still grow are widened
  Ids,            \* names of arguments, results, variables and fields
  NoId,           \* the empty name
  Values,         \* results of instructions
  NoRange,        \* a block without an entry for a value
  NameOf,         \* getValueId: the name of a load
  Returns,        \* the names of the results of the callees of a call
  Sources,        \* the names that are taint sources
  Programs        \* the programs considered

(* A program has, per module, initial values (inits: pairs of a name and a *)
(* number) and functions.  A function has blocks in layout order and       *)
(* back edges; a block has instructions and a terminator.                  *)
(*   store, ret:  id, v               record v under a name                *)
(*   call:        val, args, passes, ret  the names of the arguments of    *)
(*                each callee, the name of the result                      *)
(*   bin:         val, fn, l, r                                            *)
(*   phi:         val, from           operands by predecessor              *)
(*   select:      val, l, r                                                *)
(*   load:        val                                                      *)
(*   mark:        val, id             the call that stands for an argument  *)
(*   other:       val                 any other integer                    *)
(* Operands are values or numbers.  A conditional branch has the block at, *)
(* predicate and operands of its comparison; a switch a value and cases.   *)
Operands == Values \cup Word

IsList(s) == Len(s) \in Nat /\ DOMAIN s = 1 .. Len(s)

IsInstr(ins) ==
  /\ ins.op \in {"store", "ret", "call", "bin", "phi", "select", "load", "mark", "other"}
  /\ IF ins.op \in {"store", "ret"} THEN ins.id \in Ids /\ ins.v \in Operands
                                   ELSE ins.val \in Values
  /\ ins.op = "call" =>
       /\ ins.args \in Seq(Operands)
       /\ ins.passes \subseteq Seq(Ids)
       /\ \A names \in ins.passes : Len(names) = Len(ins.args)
       /\ ins.ret \in Ids \cup {NoId}
  /\ ins.op \in {"bin", "select"} => ins.l \in Operands /\ ins.r \in Operands
  /\ ins.op = "bin" => ins.fn \in Operations
  /\ ins.op = "mark" => ins.id \in Ids

IsTerm(g, t) ==
  /\ t.kind = "cond" =>
       /\ t.at \in DOMAIN g.blocks /\ t.pred \in Predicates
       /\ t.l \in Operands /\ t.r \in Operands
  /\ t.kind = "switch" => t.v \in Operands /\ DOMAIN t.cases \subseteq Word

Forward(g, b) == { p \in DOMAIN g.blocks : b \in g.blocks[p].succs /\ <<p, b>> \notin g.back }

IsBlock(g, b) ==
  LET code == g.blocks[b].code
  IN  /\ IsList(code)
      /\ \A p \in 1 .. Len(code) :
           /\ IsInstr(code[p])
           /\ code[p].op = "phi" => \A q \in Forward(g, b) : code[p].from[q] \in Operands
      /\ IsTerm(g, g.blocks[b].term)

IsFunction(g) ==
  /\ IsList(g.blocks) /\ Len(g.blocks) > 0
  /\ \A b \in 1 .. Len(g.blocks) : IsBlock(g, b)

ASSUME ProgramAssumption ==
  \A pr \in Programs, m \in Modules :
    /\ IsList(pr.code[m])
    /\ \A g \in 1 .. Len(pr.code[m]) : IsFunction(pr.code[m][g])
    /\ IsFiniteSet(pr.inits[m]) /\ pr.inits[m] \subseteq Ids \X Word

ASSUME RangeAssumption ==
  /\ MaxIterations \in Nat \ {0}
  /\ IsFiniteSet(Ids)
  /\ NameOf \in [Values -> Ids \cup {NoId}]
  /\ Returns \in [Values -> SUBSET Ids]
  /\ Sources \subseteq Ids

VARIABLES
  prog,     \* the program analysed
  ranges,   \* Ctx->IntRanges; a name without entry maps to the empty set
  changes,  \* Changes: the names whose range grew in this sweep
  itr,      \* doModulePass's itr: the number of this sweep over the module
  fn,       \* the current function of the module
  vrms,     \* FuncVRMs: the ranges of its values per block
  blk,      \* its current block
  left,     \* the predecessors still to be merged into the block
  pos,      \* the next instruction of the block
  handled,  \* the callees of the current call handled so far
  callee,   \* the callee being handled: the names of its arguments
  arg,      \* 0, or the next argument of that callee
  meta      \* metadata "intrange" per value; NoRange if there is none

callVars == <<handled, callee, arg>>
placeVars == <<fn, blk, left, pos, callVars>>
vars == <<driverVars, prog, ranges, changes, itr, vrms, placeVars, meta>>

Functions == prog.code[mod]
F         == Functions[fn]
Code      == F.blocks[blk].code
Instr     == Code[pos]

NumBlocks(m, g) == IF g <= Len(prog.code[m]) THEN Len(prog.code[m][g].blocks) ELSE 0

Forgotten(m, g) == [b \in 1 .. NumBlocks(m, g) |-> [v \in Values |-> NoRange]]

AtSweepEnd == phase = "sweep" /\ fn > Len(Functions)
InBlock    == phase = "sweep" /\ fn <= Len(Functions)
At(ops)    == InBlock /\ left = {} /\ pos <= Len(Code) /\ Instr.op \in ops

TypeOK ==
  /\ DriverTypeOK
  /\ prog \in Programs
  /\ ranges \in [Ids -> Ranges]
  /\ changes \subseteq { id \in Ids : ranges[id] # EmptySet }
  /\ changed <=> changes # {}
  /\ itr \in Nat \ {0}
  /\ fn \in 1 .. Len(Functions) + 1
  /\ InBlock =>
       /\ blk \in DOMAIN F.blocks
       /\ left \subseteq DOMAIN F.blocks
       /\ pos \in 1 .. Len(Code) + 1
       /\ vrms \in [DOMAIN F.blocks -> [Values -> Ranges \cup {NoRange}]]
  /\ handled # {} => At({"call"}) /\ handled \subseteq Instr.passes
  /\ IF arg = 0 THEN callee = << >>
                ELSE callee \in handled /\ arg \in 1 .. Len(callee)
  /\ meta \in [Values -> {NoRange} \cup (Ranges \ {EmptySet, FullSet})]

Init ==
  /\ DriverInit
  /\ prog \in Programs
  /\ ranges = [id \in Ids |-> EmptySet]
  /\ changes = {}
  /\ itr = 1
  /\ fn = 1
  /\ vrms = Forgotten(1, 1)
  /\ blk = 1 /\ left = {} /\ pos = 1
  /\ handled = {} /\ callee = << >> /\ arg = 0
  /\ meta = [v \in Values |-> NoRange]

-----------------------------------------------------------------------------
(* unionRange for a name: it grows, and a sweep in which it does is        *)
(* followed by another.                                                    *)
UnionNameUnlisted(id, R) ==   \* faulty: the change set misses what grows
  /\ ranges' = [ranges EXCEPT ![id] = safeUnion(@, R)]
  /\ changed' = (changed \/ ranges' # ranges)
  /\ UNCHANGED <<changes, phase, mod, updated, ret>>

UnionName(id, R) ==
  LET grown == safeUnion(ranges[id], R)
      grows == grown # ranges[id]
  IN  /\ ranges' = [ranges EXCEPT ![id] = grown]
      /\ changes' = IF grows THEN changes \cup {id} ELSE changes
      /\ changed' = (changed \/ grows)
      /\ UNCHANGED <<phase, mod, updated, ret>>

NoUnion == UNCHANGED <<driverVars, ranges, changes>>

(* unionRange for a value in a block, where an empty range leaves no entry.*)
Joined(R, Q) == IF R = NoRange THEN Q ELSE safeUnion(R, Q)

Entered(vs, b, v, R) ==
  IF R = EmptySet THEN vs ELSE [vs EXCEPT ![b][v] = Joined(@, R)]

(* getRange: a number, the block's entry, or what the names of a value     *)
(* say.  The names of a call are those of its callees' results, so the     *)
(* call that stands for an argument has none.                              *)
Lookup(v) ==
  LET ids == Returns[v] \cup ({NameOf[v]} \ {NoId})
  IN  IF ids \cap Sources # {} THEN FullSet
      ELSE UnionOver(EmptySet, [id \in ids |-> ranges[id]])

GetRange(b, v) ==
  CASE v \in Word -> {v}
    [] v \notin Word /\ vrms[b][v] # NoRange -> vrms[b][v]
    [] OTHER -> Lookup(v)

(* What getRange looks up it enters.  Uses is a set of pairs of a block    *)
(* and a value or number.                                                  *)
Noted(vs, uses) ==
  [b \in DOMAIN vs |-> [v \in Values |->
     IF <<b, v>> \in uses /\ vs[b][v] = NoRange /\ Lookup(v) # EmptySet THEN Lookup(v) ELSE vs[b][v]]]

-----------------------------------------------------------------------------
(* What a terminator says of the values on the way to block b: pairs of a  *)
(* value and its range.  The right operand gets a part of the range of the *)
(* left one, as in the code.                                               *)
OnTrue(t, L, R) ==
  << <<t.l, intersectWith(L, makeICmpRegion(t.pred, R))>>,
     <<t.r, intersectWith(L, makeICmpRegion(SwappedPredicate(t.pred), L))>> >>

OnFalseAsTrue(t, L, R) ==   \* faulty: the predicate is not inverted
  << <<t.l, intersectWith(L, makeICmpRegion(t.pred, R))>>,
     <<t.r, intersectWith(L, makeICmpRegion(SwappedPredicate(t.pred), R))>> >>

OnFalse(t, L, R) ==
  << <<t.l, intersectWith(L, makeICmpRegion(InversePredicate(t.pred), R))>>,
     <<t.r, intersectWith(L, makeICmpRegion(InversePredicate(SwappedPredicate(t.pred)), R))>> >>

BranchFacts(t, b) ==
  LET L == GetRange(t.at, t.l)
      R == GetRange(t.at, t.r)
  IN  IF t.yes = b THEN OnTrue(t, L, R) ELSE OnFalse(t, L, R)

CasesTo(t, b) ==
  IF t.default # b
  THEN Hull({ k \in DOMAIN t.cases : t.cases[k] = b })
  ELSE inverse(Hull(DOMAIN t.cases))

Facts(p, t, b) ==
  CASE t.kind = "cond"   -> BranchFacts(t, b)
    [] t.kind = "switch" -> << <<t.v, intersectWith(GetRange(p, t.v), CasesTo(t, b))>> >>
    [] OTHER             -> << >>

TermUses(p, t) ==
  CASE t.kind = "cond"   -> {<<t.at, t.l>>, <<t.at, t.r>>}
    [] t.kind = "switch" -> {<<p, t.v>>}
    [] OTHER             -> {}

(* The facts enter a copy of the predecessor's entries; they replace none  *)
(* and the first of two stays (std::map::insert).                          *)
Insert(row, facts, v) ==
  LET said == { n \in DOMAIN facts : facts[n][1] = v }
  IN  IF row[v] = NoRange /\ said # {} THEN facts[Min(said)][2] ELSE row[v]

FromPred(p, facts) == [v \in Values |-> Insert(vrms[p], facts, v)]

(* updateRangeFor(BasicBlock): predecessors are merged but for those of    *)
(* back edges; a value only some of them have an entry for keeps theirs.   *)
Merged(row, there) ==
  [v \in Values |-> IF there[v] = NoRange THEN row[v] ELSE Joined(row[v], there[v])]

MergePred ==
  /\ InBlock /\ left # {}
  /\ \E p \in left :
       LET term == F.blocks[p].term
       IN  /\ left' = left \ {p}
           /\ \E facts \in {Facts(p, term, blk)} : \E there \in {FromPred(p, facts)} :
                vrms' = [Noted(vrms, TermUses(p, term)) EXCEPT ![blk] = Merged(@, there)]
  /\ NoUnion
  /\ UNCHANGED <<prog, itr, fn, blk, pos, callVars, meta>>

NextBlock ==
  /\ InBlock /\ left = {} /\ pos > Len(Code)
  /\ pos' = 1
  /\ IF blk < Len(F.blocks)
     THEN blk' = blk + 1 /\ left' = Forward(F, blk + 1) /\ UNCHANGED <<fn, vrms>>
     ELSE blk' = 1 /\ left' = {} /\ fn' = fn + 1 /\ vrms' = Forgotten(mod, fn + 1)
  /\ NoUnion
  /\ UNCHANGED <<prog, itr, callVars, meta>>

-----------------------------------------------------------------------------
(* updateRangeFor(Instruction).                                            *)
NextInstr ==
  /\ pos' = pos + 1
  /\ UNCHANGED <<fn, blk, left, prog, itr, meta>>

(* visitStoreInst, visitReturnInst.  The entry a store makes for its       *)
(* pointer is never read: ranges are asked of integers.                    *)
Record ==
  /\ At({"store", "ret"})
  /\ UnionName(Instr.id, GetRange(blk, Instr.v))
  /\ vrms' = Noted(vrms, {<<blk, Instr.v>>})
  /\ NextInstr
  /\ UNCHANGED callVars

(* visitBinaryOp; remainders, a FIXME of the code, have the range of the   *)
(* divisor.                                                                *)
BinaryOp(op, R, Q) == IF op = "urem" THEN Q ELSE Hull(Image(op, R, Q))

(* visitPHINode: the operands at the ends of their predecessors, but for   *)
(* those of back edges.                                                    *)
PhiRange ==
  UnionOver(EmptySet, [p \in Forward(F, blk) |-> GetRange(p, Instr.from[p])])

Computed ==
  CASE Instr.op = "bin"    -> BinaryOp(Instr.fn, GetRange(blk, Instr.l), GetRange(blk, Instr.r))
    [] Instr.op = "select" -> safeUnion(GetRange(blk, Instr.l), GetRange(blk, Instr.r))
    [] Instr.op = "phi"    -> PhiRange
    [] Instr.op \in {"load", "mark"} -> GetRange(blk, Instr.val)
    [] Instr.op = "other"  -> FullSet

Uses ==
  CASE Instr.op \in {"bin", "select"} -> {<<blk, Instr.l>>, <<blk, Instr.r>>}
    [] Instr.op = "phi"               -> { <<p, Instr.from[p]>> : p \in Forward(F, blk) }
    [] OTHER                          -> {}

Compute ==
  /\ At({"bin", "select", "phi", "load", "mark", "other"})
  /\ vrms' = Entered(Noted(vrms, Uses), blk, Instr.val, Computed)
  /\ NoUnion
  /\ NextInstr
  /\ UNCHANGED callVars

(* visitCallInst: the arguments of every callee, then the result.          *)
TakeCallee ==
  /\ At({"call"}) /\ arg = 0
  /\ Len(Instr.args) > 0
  /\ \E names \in Instr.passes \ handled : callee' = names /\ handled' = handled \cup {names}
  /\ arg' = 1
  /\ NoUnion
  /\ UNCHANGED <<prog, itr, vrms, fn, blk, left, pos, meta>>

PassArg ==
  /\ At({"call"}) /\ arg # 0
  /\ UnionName(callee[arg], GetRange(blk, Instr.args[arg]))
  /\ vrms' = Noted(vrms, {<<blk, Instr.args[arg]>>})
  /\ IF arg < Len(callee) THEN arg' = arg + 1 /\ UNCHANGED callee
                          ELSE arg' = 0 /\ callee' = << >>
  /\ UNCHANGED <<prog, itr, fn, blk, left, pos, handled, meta>>

TakeResult ==
  /\ At({"call"}) /\ arg = 0
  /\ handled = Instr.passes \/ Len(Instr.args) = 0
  /\ LET R == GetRange(blk, Instr.val)
     IN  /\ vrms' = Entered(vrms, blk, Instr.val, R)
         /\ IF Instr.passes = {} \/ Instr.ret = NoId THEN NoUnion ELSE UnionName(Instr.ret, R)
  /\ handled' = {}
  /\ NextInstr
  /\ UNCHANGED <<callee, arg>>

-----------------------------------------------------------------------------
(* collectInitializers: a range with the initial values of a name.         *)
WithInitial(id) ==
  LET values == { e \in prog.inits[mod] : e[1] = id }
  IN  UnionOver(ranges[id], [e \in values |-> {e[2]}])

Initialize ==
  /\ phase = "init"
  /\ InitializedModule
  /\ ranges' = [id \in Ids |-> WithInitial(id)]
  /\ vrms' = Forgotten(mod', 1)
  /\ UNCHANGED <<prog, changes, itr, placeVars, meta>>

(* A new sweep; after MaxIterations of them what grew in the last one may  *)
(* have any value.                                                         *)
WidenNever == ranges   \* faulty: ranges grow by themselves only

Widen ==
  [id \in Ids |-> IF itr + 1 > MaxIterations /\ id \in changes THEN FullSet ELSE ranges[id]]

EndSweep ==
  /\ AtSweepEnd
  /\ SweepAgain
  /\ itr' = itr + 1
  /\ ranges' = Widen
  /\ changes' = {}
  /\ fn' = 1 /\ vrms' = Forgotten(mod, 1)
  /\ UNCHANGED <<prog, blk, left, pos, callVars, meta>>

EndModule ==
  /\ AtSweepEnd
  /\ ReturnFromModule
  /\ itr' = 1
  /\ fn' = 1 /\ vrms' = Forgotten(mod', 1)
  /\ UNCHANGED <<prog, ranges, changes, blk, left, pos, callVars, meta>>

(* doFinalization: loads, markers and calls get the range of their name,   *)
(* if it says anything.                                                    *)
Marked(m) ==
  LET blocks == UNION { Range(g.blocks) : g \in Range(prog.code[m]) }
  IN  { ins \in UNION { Range(b.code) : b \in blocks } : ins.op \in {"load", "mark", "call"} }

MarkName(ins) ==
  CASE ins.op = "call" -> ins.ret
    [] ins.op = "mark" -> ins.id
    [] ins.op = "load" -> NameOf[ins.val]

MetaOf(ins) ==
  IF MarkName(ins) = NoId \/ ranges[MarkName(ins)] \in {EmptySet, FullSet}
  THEN NoRange ELSE ranges[MarkName(ins)]

Finalize ==
  /\ phase = "final"
  /\ meta' = [v \in Values |->
                IF \E ins \in Marked(mod) : ins.val = v
                THEN MetaOf(CHOOSE ins \in Marked(mod) : ins.val = v)
                ELSE meta[v]]
  /\ FinalizedModule
  /\ UNCHANGED <<prog, ranges, changes, itr, vrms, placeVars>>

Ended == phase = "done" /\ UNCHANGED vars

Next ==
  \/ Initialize \/ MergePred \/ NextBlock \/ Record \/ Compute
  \/ TakeCallee \/ PassArg \/ TakeResult \/ EndSweep \/ EndModule \/ Finalize \/ Ended

Spec == Init /\ [][Next]_vars

(* The pass is one thread that never waits.                                *)
FairSpec == Spec /\ WF_vars(Next)

-----------------------------------------------------------------------------
(* Widening bounds the sweeps over a module by the number of names,        *)
(* however wide the integers are (src/Range.cc:510-518).                   *)
SweepsBounded == itr <= MaxIterations + Cardinality(Ids)

(* The nested loops end.                                                   *)
Termination == <>(phase = "done")

=============================================================================
