------------------------------- MODULE PathGen -------------------------------
(***************************************************************************)
(* The condition under which control reaches a block of a function         *)
(* (src/PathGen.cc), as the checkers conjoin it to their queries.  An      *)
(* expression of the solver is represented by its value under an           *)
(* assignment e of the symbols that stand for the function's values.       *)
(***************************************************************************)
EXTENDS Naturals

CONSTANTS
  NumBlocks,   \* blocks are numbered in layout order, the entry is 1
  Values,      \* arguments, phis, and values the solver knows nothing about
  Word,        \* the numbers a value can have
  Undef,       \* the undefined operand of a phi
  Functions    \* the functions considered

(* A function has                                                          *)
(*   term   a terminator per block,                                        *)
(*   phis   per block, a map from its phis to their operands by            *)
(*          predecessor: a value, a number, or Undef,                      *)
(*   defs   per block, the other values it computes,                       *)
(*   back   the edges FindFunctionBackedges finds,                         *)
(*   dom    per block, the blocks that dominate it.                        *)
Blocks == 1 .. NumBlocks
Entry  == 1

(* Terminators: a conditional branch tests whether a value is a number,    *)
(* "any" is an indirect branch or an invoke.  Branches and switches have   *)
(* no two ways to one block but cases of a switch, as simplifycfg leaves   *)
(* them.                                                                   *)
Succs(t) ==
  CASE t.kind = "ret"    -> {}
    [] t.kind = "br"     -> {t.to}
    [] t.kind = "cond"   -> {t.yes, t.no}
    [] t.kind = "switch" -> {t.default} \cup { t.cases[k] : k \in DOMAIN t.cases }
    [] t.kind = "any"    -> t.to

Preds(f, b) == { p \in Blocks : b \in Succs(f.term[p]) }

(* What holds of every function LLVM verifies, and of the analyses of it.  *)
(* A value is computed in one block, and that dominates its uses.          *)
Computed(f, b) == DOMAIN f.phis[b] \cup f.defs[b]

Terminator(t) ==
  /\ t.kind \in {"ret", "br", "cond", "switch", "any"}
  /\ Succs(t) \subseteq Blocks \ {Entry}
  /\ t.kind \in {"cond", "switch"} => t.val \in Values
  /\ t.kind = "cond" => t.yes # t.no
  /\ t.kind = "switch" => \A k \in DOMAIN t.cases : t.cases[k] # t.default

UsesDominated(f) ==
  /\ \A b, c \in Blocks : b # c => Computed(f, b) \cap Computed(f, c) = {}
  /\ \A b, c \in Blocks :
       f.term[b].kind \in {"cond", "switch"} /\ f.term[b].val \in Computed(f, c) => c \in f.dom[b]
  /\ \A b, c \in Blocks : \A x \in DOMAIN f.phis[b] : \A p \in Preds(f, b) :
       f.phis[b][x][p] \in Computed(f, c) => c \in f.dom[p]

(* What dominates a block dominates its predecessors, and of the blocks    *)
(* that dominate all of these there is one that all others dominate.       *)
CommonDominators(f, b) == { d \in Blocks : \A p \in Preds(f, b) : d \in f.dom[p] }

Dominance(f) ==
  /\ f.dom[Entry] = {Entry}
  /\ \A b \in Blocks : /\ b \in f.dom[b] /\ f.dom[b] \subseteq Blocks
                       /\ f.dom[b] \ {b} \subseteq CommonDominators(f, b)
                       /\ b # Entry => \E d \in CommonDominators(f, b) :
                                         CommonDominators(f, b) \subseteq f.dom[d]

(* Control comes to every block, and without the back edges never again:   *)
(* the blocks can be numbered so that all other edges lead upwards.        *)
Forward(f, b) == Preds(f, b) \ { q \in Blocks : <<q, b>> \in f.back }

Numbers(f, order) ==
  \A b \in Blocks \ {Entry} :
    /\ Forward(f, b) # {}
    /\ \A p \in Forward(f, b) : order[p] < order[b]

WellFormed(f) ==
  /\ DOMAIN f.term = Blocks /\ DOMAIN f.phis = Blocks
  /\ DOMAIN f.defs = Blocks /\ DOMAIN f.dom = Blocks
  /\ f.back \subseteq Blocks \X Blocks
  /\ \A b \in Blocks : Terminator(f.term[b]) /\ Computed(f, b) \subseteq Values
  /\ UsesDominated(f)
  /\ Dominance(f)
  /\ \E order \in [Blocks -> Blocks] : Numbers(f, order)

ASSUME FunctionAssumption ==
  /\ NumBlocks \in Nat \ {0}
  /\ Undef \notin Values
  /\ \A f \in Functions : WellFormed(f)

(* The condition of a conditional branch, as an expression.                *)
Holds(t, e) == e[t.val] = t.num

-----------------------------------------------------------------------------
BranchGuard(t, b, e) == IF t.yes = b THEN Holds(t, e) ELSE ~Holds(t, e)

SwitchGuard(t, b, e) ==
  IF t.default # b
  THEN \E k \in DOMAIN t.cases : t.cases[k] = b /\ e[t.val] = k
  ELSE ~ \E k \in DOMAIN t.cases : e[t.val] = k

TermGuard(t, b, e) ==
  CASE t.kind = "cond"   -> BranchGuard(t, b, e)
    [] t.kind = "switch" -> SwitchGuard(t, b, e)
    [] OTHER             -> TRUE

Operand(x, e) == IF x \in Values THEN e[x] ELSE x

PHIGuardUndef(f, b, p, e) ==   \* faulty: an undefined operand is taken for zero
  \A x \in DOMAIN f.phis[b] :
    LET o == f.phis[b][x][p] IN e[x] = IF o = Undef THEN 0 ELSE Operand(o, e)

PHIGuardNone(f, b, p, e) == TRUE   \* faulty: phis are not tied to their operands

PHIGuard(f, b, p, e) ==
  \A x \in DOMAIN f.phis[b] :
    LET o == f.phis[b][x][p] IN o # Undef => e[x] = Operand(o, e)

HasBackedge(f, b) == \E p \in Preds(f, b) : <<p, b>> \in f.back

(* findCommonDominator: the nearest common dominator of the predecessors.  *)
CommonDominatorAny(f, b) ==   \* faulty: the dominator of one predecessor
  CHOOSE p \in Preds(f, b) : <<p, b>> \notin f.back

CommonDominator(f, b) ==
  CHOOSE d \in CommonDominators(f, b) : CommonDominators(f, b) \subseteq f.dom[d]

(* PathGen::get, given what it returns for the blocks it asks for.  With a *)
(* dominator tree a block with a back edge gets the guard of the common    *)
(* dominator; without one the back edge is skipped.                        *)
Get(f, dt, e, guard, b) ==
  CASE b = Entry -> TRUE
    [] b # Entry /\ dt /\ HasBackedge(f, b) -> guard[CommonDominator(f, b)]
    [] OTHER -> \E p \in Forward(f, b) :
                  TermGuard(f.term[p], b, e) /\ PHIGuard(f, b, p, e) /\ guard[p]

Guards(f, dt, e) ==
  LET guard[b \in Blocks] == Get(f, dt, e, guard, b) IN guard

=============================================================================
