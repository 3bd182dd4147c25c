----------------------------- MODULE IntRewrite -----------------------------
(***************************************************************************)
(* Where int-rewrite puts the check of an arithmetic instruction           *)
(* (src/IntRewrite.cc), and an execution of the rewritten function.  A     *)
(* check is deferred to the blocks in which the result is observed: an     *)
(* overflow that is observed must be reported all the same, and one that   *)
(* is not observed need not be.                                            *)
(***************************************************************************)
EXTENDS Naturals, FiniteSets

CONSTANTS
  NumBlocks,   \* blocks are numbered, the entry is 1
  MaxTurns,    \* how often the instruction is executed
  Functions    \* the functions considered, a set for each control flow graph

(* A function has                                                          *)
(*   succ     per block, the blocks control may go on to,                  *)
(*   dom      per block, the blocks that dominate it,                      *)
(*   exiting  the blocks that may leave their innermost loop,              *)
(*   def      the block of the instruction,                                *)
(*   der      the block of a value computed from it without an effect,     *)
(*   uses     the uses of the two that an effect, a phi (for what comes    *)
(*            from a predecessor) or a branch makes of them,               *)
(*   nsw      the instruction promises not to overflow,                    *)
(*   ptrs     its operands are pointers made integers,                     *)
(*   fwrapv   kint was told that signed integers wrap.                     *)
Blocks == 1 .. NumBlocks
Entry  == 1

Uses == [kind : {"effect", "branch", "phi"}, of : {"def", "der"},
         block : Blocks, pred : Blocks \cup {0}]

(* What dominates a block dominates every block before it, or is the block.*)
Dominance(f) ==
  /\ f.dom[Entry] \subseteq {Entry}
  /\ \A b \in Blocks : \A s \in f.succ[b] : f.dom[s] \subseteq f.dom[b] \cup {s}

(* A value is used only where its block dominates, by a phi in the block   *)
(* from which it comes.                                                    *)
Home(f, u) == IF u.of = "def" THEN f.def ELSE f.der

UsedAt(u) == IF u.kind = "phi" THEN u.pred ELSE u.block

WellFormed(f) ==
  /\ f.succ \in [Blocks -> SUBSET Blocks]
  /\ f.uses \subseteq Uses
  /\ Dominance(f)
  /\ f.def \in f.dom[f.der]
  /\ \A u \in f.uses : Home(f, u) \in f.dom[UsedAt(u)]

ASSUME FunctionAssumption ==
  /\ NumBlocks \in Nat \ {0}
  /\ MaxTurns \in Nat
  /\ \A F \in Functions : \A f \in F : WellFormed(f)

(* Executions of the instruction are numbered; what has its result, or one *)
(* computed from it, stands for an execution.                              *)
VARIABLES
  fun,         \* the function
  bb,          \* the block the program is in
  stage,       \* "body", "leave" or "returned"
  turns,       \* the executions of the instruction so far, the last one's number
  der,         \* the execution the derived value is from, 0 if none
  overflowed,  \* the executions that overflowed
  now,         \* the executions observed since the block was entered
  seen,        \* the executions observed before
  told         \* the executions whose overflow int.sat was called with

vars == <<fun, bb, stage, turns, der, overflowed, now, seen, told>>

-----------------------------------------------------------------------------
(* isObservable: a branch only where it may leave a loop; effects and phis *)
(* always, as they cannot be executed speculatively.                       *)
IsObservable(u) == u.kind = "branch" => u.block \in fun.exiting

(* The values the worklist comes to: a value nobody uses is passed over.   *)
VisitedDirect == {"def"}   \* faulty: uses of what is computed from it are not followed

Visited == {"def"} \cup { v \in {"der"} : \E u \in fun.uses : u.of = v }

Observers == { u \in fun.uses : IsObservable(u) }

ObPointsAll == { u.block : u \in { w \in fun.uses : w.of \in Visited } }   \* faulty: every use

ObPoints == { u.block : u \in { w \in Observers : w.of \in Visited } }

(* The check is not deferred if it would be made in the block itself or in *)
(* one the block does not dominate.                                        *)
FallBackOwn == fun.def \in ObPoints   \* faulty: dominance is not asked for

FallBack == \E b \in ObPoints : b = fun.def \/ fun.def \notin fun.dom[b]

Eager == ~fun.ptrs /\ ((fun.nsw /\ ~fun.fwrapv) \/ FallBack)

Deferred == IF fun.ptrs \/ Eager THEN {} ELSE ObPoints

-----------------------------------------------------------------------------
Init ==
  /\ \E F \in Functions : fun \in F
  /\ bb = Entry /\ stage = "body"
  /\ turns = 0 /\ der = 0
  /\ overflowed = {} /\ now = {} /\ seen = {} /\ told = {}

(* The executions whose results observers have before them.                *)
Observed(S, last, d) == { IF u.of = "def" THEN last ELSE d : u \in S }

At(kind, b) == { u \in Observers : u.kind = kind /\ u.block = b }

(* A block: the instruction, what is computed from it, and effects.        *)
Body ==
  /\ stage = "body"
  /\ bb = fun.def => turns < MaxTurns
  /\ turns' = IF bb = fun.def THEN turns + 1 ELSE turns
  /\ der' = IF bb = fun.der THEN turns' ELSE der
  /\ \E o \in IF bb = fun.def THEN SUBSET {turns'} ELSE {{}} :
       /\ overflowed' = overflowed \cup o
       /\ told' = IF Eager THEN told \cup o ELSE told
  /\ now' = now \cup Observed(At("effect", bb), turns', der')
  /\ stage' = "leave"
  /\ UNCHANGED <<fun, bb, seen>>

(* Its end: the checks before the terminator, the branch, and the phis of  *)
(* the block that comes next.                                              *)
Checked == IF bb \in Deferred THEN {turns} \cap overflowed ELSE {}

AtBranch == Observed(At("branch", bb), turns, der)

Leave ==
  /\ stage = "leave"
  /\ told' = told \cup Checked
  /\ seen' = seen \cup now \cup AtBranch
  /\ \/ \E b \in fun.succ[bb] :
          /\ bb' = b /\ stage' = "body"
          /\ now' = Observed({ u \in At("phi", b) : u.pred = bb }, turns, der)
     \/ /\ fun.succ[bb] = {}
        /\ stage' = "returned" /\ now' = {}
        /\ UNCHANGED bb
  /\ UNCHANGED <<fun, turns, der, overflowed>>

(* A program may stop, and is not followed beyond the bound.               *)
Ended ==
  /\ stage = "returned" \/ (stage = "body" /\ bb = fun.def /\ turns = MaxTurns)
  /\ UNCHANGED vars

Next == Body \/ Leave \/ Ended

Spec == Init /\ [][Next]_vars

-----------------------------------------------------------------------------
(* An overflow whose result was observed in a block has been reported by   *)
(* the end of that block, on every path, in every turn of a loop, and also *)
(* when it is observed through what was computed from it; differences of   *)
(* pointers are not checked.                                               *)
ObservedIsTold == ~fun.ptrs => seen \cap overflowed \subseteq told

(* A deferred check runs only after the instruction, of which it uses the  *)
(* overflow bit (src/IntRewrite.cc:237-238).                               *)
CheckHasValue == stage = "leave" /\ bb \in Deferred => turns > 0

(* A deferred check reports no overflow that nothing in its block observed *)
(* since, but for a phi that takes another operand: int-rewrite does not   *)
(* ask from where the value comes.                                         *)
NothingIdle ==
  stage = "leave" /\ At("phi", bb) = {} => Checked \subseteq told \cup now \cup AtBranch

=============================================================================
