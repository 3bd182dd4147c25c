# Kint in TLA+

Kint finds integer overflows in C code.  `kint-build` compiles a project to LLVM
IR (`.ll` files), `intglobal` runs a whole-program analysis that writes metadata
back into those files, and `pintck` / `pcmpck` run LLVM passes on each file that
turn possible overflows and bogus comparisons into queries for an SMT solver.
The paths below are relative to the repository; the implementation is `src/`.

## 1. Inventory

| Component | Source | State it keeps | Operations |
|---|---|---|---|
| Driver of the global analysis | `src/IntGlobal.cc`, `src/IntGlobal.h` | the module list; `GlobalContext` shared by the three passes; the `.ll` files on disk | load + annotate + write back each file; `IterativeModulePass::run`: initialise every module, repeat `doModulePass` over all modules until a whole round changes nothing, finalise, write back |
| Annotation | `src/Annotation.{cc,h}` | metadata `id`, `taint_src`, `sink` in the IR; the names (`arg.f.0`, `ret.f`, `var.x`, `struct.s.1`) under which all passes exchange facts | replace integer arguments by `kint_arg.iN` calls, name loads and stores, mark taint sources and allocation sinks, erase unused `__kint_taint` calls |
| Call graph | `src/CallGraph.cc` | `Funcs`, `FuncPtrs`, `Callees` | seed from global initialisers, propagate function pointers through stores, returns and call arguments, resolve every call |
| Taint | `src/Taint.cc`, `TaintMap` in `src/IntGlobal.h` | `GTS` (descriptions and source flag per name), `VTS` (descriptions per value) | mark sources, propagate through operands, stores, returns, call arguments; write `taint` metadata |
| Ranges | `src/Range.cc`, `src/CRange.h` | `IntRanges` per name, `FuncVRMs` per basic block, `Changes`, `BackEdges` | union over predecessors, refine at branches and switches, transfer functions, widen after `MaxIterations` sweeps, write `intrange` metadata |
| Overflow checks | `src/IntRewrite.cc`, `src/IntLibcalls.cc` | calls to `int.sat` inserted in the IR | a check per arithmetic instruction, shift, division, array index, library-call size; unsigned checks are deferred to the points where the value is observable |
| Idioms | `src/OverflowIdiom.cc` | IR | recognise `x != (x*y)/y`, `x > C/y` and replace them by overflow intrinsics |
| Simplification | `src/OverflowSimplify.cc` | IR | replace an overflow intrinsic with a constant operand by comparisons |
| Load rewriting, ideal shifts | `src/LoadRewrite.cc`, `src/IdealShift.cc` | IR | hoist and forward loads; select an ideal result for oversized shifts (not built: absent from `src/Makefile.am`) |
| Expressions and paths | `src/ValueGen.{cc,h}`, `src/PathGen.{cc,h}` | caches of SMT expressions per value and per block | translate values, range metadata and path conditions |
| Solver interface | `src/SMTSolver.{h,cc}`, `src/SMTBoolector.cc`, `src/SMTZ3.cc`, `src/SMTSonolar.cc` | solver context, reference counts, the forked query process and its timer | `SMTFork` / `SMTJoin`, bit-vector terms, `query` |
| Checkers | `src/IntSat.cc`, `src/CmpSat.cc`, `src/CmpOverflow.cc`, `src/CmpTautology.cc` | `ReportedBugs`, `BackEdges`, `AxBs` | query each `int.sat` call, each branch, each comparison; report |
| Diagnostics | `src/Diagnostic.{cc,h}` | the report stream | `bug`, `status`, `classify`, `backtrace` |
| Scripts | `src/intck`, `src/cmpck`, `src/pintck`, `src/pcmpck`, `src/ncpu`, `test/kint-*`, `test/diagdiff` | `*.ll.out`, `pintck.txt` | run the checkers on all files in parallel, concatenate reports |

How they interact: the three global passes share one `GlobalContext` and run one
after the other (call graph, taint, range); facts cross functions and modules only
through names.  The result crosses to the checkers only through metadata in the
`.ll` files: `intrange` becomes a solver assumption (`ValueGen`), `taint` and `sink`
are copied to reports.  Inside the checker, `IntRewrite` and `IntLibcalls` insert
`int.sat(v)`, `OverflowSimplify` rewrites how `v` is computed, `IntSat` asks the
solver whether `v` can be true on a path that reaches the call.

Hard behaviour: nested fixpoint loops whose change flags must be exact; caches that
are never refreshed; a query process killed by a timer at any instant of its work;
bit-vector rewrites at the limits of the width; files rewritten in place.

## 2. Modules

A module that ends in `Proof` holds theorems; one that starts with `MC` gives the
constants values for TLC and, where there is one, a reference to compare the result
with.  References are written from what the result means, not from the code: no
flags, no rounds, no caches, no order.

| Module | Models | Built from |
|---|---|---|
| `ModuleList` | the modules on the command line | |
| `IterativePass` | `IterativeModulePass::run` and the flags of `doModulePass` | `ModuleList` |
| `FuncPtrs` | functions, values, names and scopes; `findFunctions`, `mergeFuncSet`; what a solution is | `ModuleList` |
| `CallGraph` | `CallGraphPass` | `IterativePass`, `FuncPtrs`; `Saturation` as its abstract specification |
| `Saturation` | what the call graph pass promises | `FuncPtrs` |
| `Linking` | the call graph of the linked program: the reference for `CallGraph` | `CallGraph` |
| `TaintMap`, `Taint` | the tables of taint; `TaintPass` | `IterativePass` |
| `Derivation` | what derives from the sources of a program: the reference for `Taint` | `Taint` |
| `CRange`, `Range` | ranges; `RangePass` | `IterativePass` |
| `Collected` | the values that can reach each name, value and block of a program: the reference for `Range` | `Range` |
| `Words`, `OverflowSimplify` | arithmetic of a width; the rewriting of overflow intrinsics | |
| `OverflowIdiom` | tests of a product by a division, and both rewritings one after the other | `OverflowSimplify` |
| `IntChecks` | the conditions of the checks of `IntRewrite` and `IntLibcalls`; ideal shifts; what each of them is to tell | `Terms` |
| `IntRewrite` | where a check is put, and executions of the rewritten function | |
| `LoadRewrite` | loads hoisted and replaced, and executions before and after | |
| `Terms` | the term constructors and reference counts of the three solvers | `Words` |
| `ValueGen` | one query of a checker: terms of values, the guard of the block, release | `IntChecks` |
| `Annotation` | what `AnnotationPass` does to a function | |
| `Files` | the files of `intglobal`, rewritten in place, with crashes and further runs | `Annotation` |
| `FlowGraphs` | the control flow graphs of four blocks, dominators, loops | |
| `PathGen`, `CmpSat` | path conditions; the checker of branches, with executions of the function it checks | |
| `IntSat` | the overflow checker, its query process and the timer | |
| `CallGraphProof`, `TaintProof`, `RangeProof`, `IntSatProof`, `CmpSatProof`, `FilesProof` | theorems about the module of that name | that module |
| `ChecksProof` | theorems about the place of a check and the terms of its query: `IntRewrite`, `ValueGen` | those |
| `RewritesProof` | theorems about the rewritings: `OverflowSimplify`, `OverflowIdiom`, `LoadRewrite` | those |
| `MCCallGraph`, `MCTaint`, `MCRange`, `MCCmpSat`, `MCIntSat`, `MCIntRewrite`, `MCLoadRewrite`, `MCFiles` | programs, references | |
| `MCValueGen` | programs for queries, among them the conditions of `IntChecks` | `ValueGen` |

Some modules hold definitions commented `faulty`: a plausible mistake in the code
written as a definition next to the right one, to see that the properties notice it.

### 2.1 The global passes

All three passes have the state of `IterativePass`: `phase` (initialise, sweep,
finalise), `mod` (the module at hand), `updated` (`run`'s count of modules that
changed in this round), `changed` and `ret` (`doModulePass`'s flags).  A pass EXTENDS
it and conjoins its own effects to `InitializedModule`, `SweepAgain`,
`ReturnFromModule` and `FinalizedModule`.

*Call graph.*  State: `funcs` (`Ctx->Funcs`), `ptrs` (`Ctx->FuncPtrs`, an absent name
is the empty set), `callees` (`Ctx->Callees`) and the place in the loops of
`runOnFunction`: `pos` the instruction, `fs` the callees of the current call, `arg`
its next argument.  The functions of a module are one sequence of instructions, since
nothing depends on where one ends.  An action is an instruction, or one argument of a
call passed to all its callees (`PassArg`), because each uses what the one before
recorded.  Values are nodes: a function, a slot looked up by name, a join (phi,
select), or one that `findFunctions` gives up on with `report_fatal_error`.

*Taint.*  State: `gts` and `src` (`TaintMap::GTS`), `vts` (`VTS`), `meta`.  An action
is an instruction, or one argument of one callee of a call.  `getTaint` writes while it
reads: `Cached` is what a look-up leaves behind.

*Ranges.*  State: `ranges` (`IntRanges`), `changes` (`Changes`), `itr`, `vrms`
(`FuncVRMs`), `meta`, and the place: function, block, predecessors `left` to merge,
instruction, callee and argument.  A range is the set of its members, an arc of the
circle of words; where `llvm::ConstantRange` may return more than the smallest range
the model returns the smallest.  An integer argument is a call of its own
(`mark`), as `Annotation.cc:108` leaves it.  One width: casts and `match` are left
out, and initialisers are given as the pairs of name and number they contain.

*Files.*  State: `disk` (a text per file: code, and the metadata of the taint and the
range pass), `modules` (`Modules`), `step` and `at` (the place in `main` and `run`),
`pending` and `out` (`doWriteback`).  Reading and annotating a file, or finalising a
module, is one action; opening the output, which empties the file, and keeping it are
two more, so that a crash may come in between.  A pass's metadata is represented by the
code of all modules it was computed from; what the passes compute is the subject of
their own modules.  `Annotate` is the whole of `AnnotationPass::runOnFunction`.  A function's
code maps places to instructions: a call that stands for an argument gets a place before
all others, an erased call leaves a gap.  Instructions set metadata of other instructions
and read none, so of those that set the same one the last in the order of the code
decides.  `Compiled` is what is known of code no annotation has been run on.

### 2.2 The checkers

*`OverflowSimplify`.*  A behaviour is the rewriting of one intrinsic: operation,
operands (any value, which of them is constant) and width are chosen in `Init`; `cmp`
is the value its overflow bit has in the rewritten program.

*`OverflowIdiom`.*  `Init` chooses a comparison in any of the ways to write it, or none.
`Match` tries it as it is, inverted, swapped, and both, and produces an intrinsic or a
comparison in a wider type; `Simplify` is `OverflowSimplify`'s step on the intrinsic.

*`IntRewrite`.*  `Init` chooses a graph, the block of an instruction, the block of a
value computed from it, and their uses by effects, branches and phis.  `Eager` and
`Deferred` are where `insertOverflowCheck` puts the check.  An execution follows: each
time the instruction is executed is numbered and may overflow; `told` are the numbers
`int.sat` was called with, `seen` those whose result was observed.

*`LoadRewrite`.*  `HoistInit` chooses a graph and the accesses of one address in it.  The
execution carries the value of the load before (`loaded`) and what the rewritten use
gets (`direct`, or what is `live` into the block of the use).

*`Terms`, `ValueGen`.*  A store is the sequence of all terms made, each with width, value,
references and whether the call that made it was legal.  A behaviour builds the terms
of a query under one assignment of the symbols (`Visit`, `Guard`), asks (`Query`,
`QueryNegation`) and runs the destructors (`FreePaths`, `FreeValues`).  `backend` is the
solver; `order` is the order of evaluation of arguments, which C++ leaves open.  A program
is what LLVM's verifier accepts (`IsProgram`: widths of operands, indices of structures),
and what is shifted has at least two bits, for the number of bits `SMTBoolector.cc:232`
computes for a word of one is undefined (`__builtin_clz(0)`).

*`PathGen`, `CmpSat`.*  `Guards` is the table `BBGuards` as a recursive function over
blocks in topological order of the edges it follows, with or without a dominator tree:
`IntSat` passes none, `CmpSat` does.  An expression is represented by its value in an
environment.  `CmpSat` first checks the branches of a function (`Check`), then runs an
execution of it (`Start`, `Step`), so that its properties relate what was reported and
what a condition says to what executions do.

*`IntSat`.*  State: `parent` (the checker), `worker` (the query: the child process if
`timed`, else the checker itself), `res` (`SMTRes`), `out` (the lines of reports),
`reported` (`ReportedBugs`), `lost` (calls without an answer, for the properties
only).  A kill may come before, between or after the lines of a report.

## 3. Runs

| Run | Bounds | What it shows |
|---|---|---|
| `callgraph` | 2 modules, 6 functions, 2 memory names, 2 arguments, 17 values; 2600 programs: every two instructions of two pools of six, with and without an initialiser, and eight programs for the rare paths; `Depth` 8 in the reference, enough by `LinkingAssumption` | with the flags as they are the loops end (`Termination`), only at a solution (`Fixpoint`); a call's callees are those of the linked program (`LinkedCallees`); nothing is forgotten (`Monotone`); the pass implements `Saturation` (`Saturates`); `FixpointInv` is the inductive invariant of the proof |
| `taint` | 2 modules, 8 names, 19 values, 2 descriptions; 4000 programs: every three of the seven and eight instructions of two pools, and larger combinations, forwards and backwards; `Depth` 12 in the reference, enough by `DerivationAssumption` | marking is right (`OnlyDerived`) and, without loops, complete (`DerivedMarked`), monotone, and ends |
| `taint_loops` | one loop of three phis | `InputsMarked` fails, see 6 |
| `range` | 2 modules, 8 names, words of 3 bits, `MaxIterations` 2; 242 programs of three functions, the largest of five blocks in two layouts, half of them `Ordered`; `Depth` 64 in the reference, enough by `CollectedAssumption` | `MayAnalysis`: no range and no metadata excludes a value of the reference; `SweepsBounded`, `Termination` |
| `files` | 2 files, 102 pairs of functions of two or three instructions, 3 runs, 1 crash; a file may fail to open at any time and be compiled anew between runs | `Intact`: a file has its own code, as compiled or annotated once, and a crash costs one file; `Converged`: a run that reads and opens all files leaves annotated code and the results for all of them |
| `simplify` | widths up to 5 for intrinsics, 2 and 3 for comparisons with a quotient; all operands | `OverflowKept`, `NoneMissed`; `IdiomKept`: a test by division has the same result after both passes |
| `checks` | all graphs of four blocks with at most two successors; one or two uses; up to three executions of the instruction | `ObservedIsTold`: an observed overflow is reported by the end of the block that observes it; `CheckHasValue`: no deferred check runs before its instruction; `NothingIdle`: none reports what nothing observes |
| `loads` | the same graphs; one load, one use, up to two stores; executions of ten steps | `UsesKept`: a use has what the load returned |
| `terms` | words of 2 to 4 bits, pointers of 3; every operation with every operand, every range, indices of three widths; the conditions of all checks | `TermsExact`, `AsksExactly`, `RangesExact`, `CallsLegal`, `Balanced` |
| `simplify_ssub` | widths 2 and up | `ConstantMinusKept` fails, see 6 |
| `paths` | 278 graphs of five blocks, 43 of them without loops and 128 with a loop of two entries; three values per variable | `PathHolds`: the condition `IntSat` conjoins holds in executions that take no back edge; `PathHoldsInLoops`: the one `CmpSat` conjoins in all; `PathFeasible`: without loops they are exact; `ReportsHold`: no reported branch goes the other way |
| `intsat` | one function of up to three calls over two values, or two functions; every answer, every instant of a kill | `SavedWasReported`, `NothingMissed`, `OnceUnlessKilled`, `Orderly`, `Ends` |

Why the bounds are enough.  Two modules are what rounds need: facts travel both ways
between them, with and against the order of the command line.  Programs have names
that only one module stores to and only the other reads, calls through a pointer to
functions of both, and chains as long as the number of names.  Three bits hold all
relations of a range to the sign and to the wrap; `SweepsBounded` is proved for every
width.  Five blocks hold a branch, a join, a nested loop and a loop with two entries.
Three calls of two values hold a repetition with another value in between.
Four blocks hold a loop with its exit and a block before and after it, or a branch and a
join within; a third turn of a loop repeats what a second one does.  Three runs are a
first, one that is stopped, and one after it.  Words of 3 bits have a width that is no
power of two, words of 4 one that is.

What the runs leave out.  `terms`: a shift of a word of one bit, which asks
`__builtin_clz` for the zeros of 0 (`SMTBoolector.cc:233`); switches, whose guards
`PathGen` has; `bvredand`, `bvredor`, `bvneg` and the overflows of negation and of
division, which nothing calls.  `files`: a taint call whose argument is another one's
result (see 6).  `simplify`: `0 / y` and a division by zero.

The programs of `range` have no loop, no remainder and no test of two loads in a block
laid out before its operands, and use arguments only as metadata; what goes wrong
there is in 6.

Fairness.  The global passes are one thread that never waits: weak fairness of `Next`.
In `IntSat` the checker's own steps, the printing of the child and the timer are
weakly fair (the child's processor time runs as long as the child computes); the
solver's answer is not, so `Ends` says that without a timer only the solver can keep
the checker.  The other modules have no liveness property.

## 4. Proofs

Checked by TLAPS for every value of the constants.  The assumptions are the named
`ASSUME`s of the modules, which TLC evaluates in each run.  They say what the compiler
and LLVM guarantee of a program: types of instructions, ends of blocks, finiteness of
the names of ranges, an even modulus.  Some say more: `FunctionAssumption` of `PathGen` and
of `IntRewrite` is what LLVM's verifier, dominator tree and `FindFunctionBackedges` give
(the dominators of a block are its own and those of all its predecessors; a definition
dominates its uses; without back edges the blocks can be numbered upwards), and
`ProgramAssumption` of `Files` is `Compiled`, what code is like before annotation, and
`DerivationAssumption`, `LinkingAssumption` and `CollectedAssumption` are about the references, not the code:
the number of applications `Depth` is large enough for the programs.

Each safety theorem is proved from an invariant that is inductive, in the same module:
the property itself seldom is, for the reason given with it.

The global passes:

* `TypeCorrect` (`CallGraph`, `Taint`, `Range`): the types and the place in the loops.
  For ranges this is more than a typing: that union, intersection, complement, the
  transfer functions and the facts of a terminator make ranges again (`HullType`,
  `InverseType`, `ImageType`, `FactsType`), that what `getRange` folds over a finite set
  of names or predecessors exists and is one (`UnionOverType`), that `Changes` holds only
  names with a range and agrees with the flag, and that no call is left half handled
  when a block or a sweep ends.
* `FixpointReached`, `InvAlways`: when callees are computed every instruction of every module is
  satisfied.  The flags tell it: an instruction the sweep has passed is satisfied as
  long as `changed` is clear (`PassedInstrs`), and modules passed in this round are as
  long as nothing was counted (`PassedModules`).  While an instruction is being
  handled, one that was satisfied may cease to be only because a name grew, and then
  `changed` is set in the same step.  The arguments of a call need a part of their own
  (`PassedArgs`), for the set of callees is read once, before they are passed.
* `LeastSolution`: `ptrs` is below every solution.  It rests on `FindMonotone`: what
  `findFunctions` returns grows with the map.  With `FixpointReached` the result is the
  least solution, independent of the order of files and instructions.
* `CalleesLinked`: if programs link as the names suppose (`Linkable`: no weak or linkonce
  functions, internal functions are defined where they are, no two modules have one file
  name), the callees of every call are exactly those of the linked program
  (`LinkedCallees`).  `Linking` computes these on symbols, without scoped names, table of
  definitions, rounds or flags: all instructions at once, `Depth` times, which is enough by
  `LinkingAssumption`.  Names and places of the linked program correspond one to one
  (`PlaceUnique`), and replacing a declaration by the definition of the table never changes
  the symbol (`ResolveSymbol`).  What is linked is then within every solution
  (`ResultBelow`, by induction over the applications) and is one itself (`LinkedSolves`):
  `FixpointReached` and `LeastSolution` say the same of the pass, so both are equal, name by
  name.  `LinkInv` adds that finalization asks for the callees when nothing changes any more.
  Without `Linkable` it is false: see 6 for weak functions.
* `Saturating`: every step is a step of `Saturation` or a stutter, with the status
  mapped from `phase`.
* `OnlyJustified`, `OnlyDerivedMarked` (`Taint`): nothing is marked that does not derive
  from a source.  The tables and the metadata stay below every pair of tables closed under
  the instructions (`Justified`), which with the types is inductive: `getTaint` returns
  and keeps nothing that is not in the closed table (`GetTaintWithin`).  What derives is
  given by `Derivation`, with no order, flag or cache: all instructions are applied at once,
  `Depth` times, from empty tables (`Derived`).  That `Depth` is enough, that is, a further
  application adds nothing in any program, is the assumption `DerivationAssumption`, which
  TLC evaluates; every finite program has such a number.  Then `Derived` is closed
  (`DerivedClosed`) and below every closed pair (`DerivedWithin`, by induction over the
  applications), so it is one of the pairs `Justified` speaks of, and the sharpest: this is
  `OnlyDerived`.
* `NothingForgotten` (`CallGraph`): `Monotone`.  Only the set of functions handled for a
  call shrinks, and it is none of the results.
* `AllMarked`, `AllInputsMarked` (`Taint`): without loops the result is complete
  (`DerivedMarked`), in the words of `AllInputsMarked`: an instruction whose value derives
  from a source has metadata in the end.  With `OnlyDerivedMarked` this says what the pass
  computes; the run `taint_loops` shows that a loop breaks it.  `MarkInv` is the invariant of `FixpointReached` over
  what the flags do see: which names have descriptions.  A sweep that leaves the flag
  clear may still have tainted values, but only values no earlier instruction uses
  (`UsedEarlier`), or from names, for which `getTaint` would have found the same
  (`Quiet`, `QuietSat`).  A cast is found marked because the cast instruction came before
  (`UsedIsFound`): what `Ordered` demands of a program is what these two lemmas need, and
  two fifths of the run's programs, not those with loops, meet it.
* `NothingForgotten` (`Taint`): `Monotone`.  Metadata is written from a question asked
  again, so it needs `MetaInv`: what was written is still part of the answer, also when
  the pointer a value was cast from got an entry in between (`CachedGrows`).
* `FewSweeps` (`Range`): the sweeps of one call of `doModulePass` are at most
  `MaxIterations` plus the number of names.  `itr` is not bounded by any invariant of
  its own: the invariant counts full ranges whose names did not grow in this sweep.
  Each sweep after `MaxIterations` turns at least one name that grew into one of them,
  and a full range never grows.
* `ForwardMay` (`Range`): in the end no range and no metadata of an ordered program
  excludes a value that can reach its name or instruction (`MayAnalysis`), at every width,
  for any number of modules, functions and blocks, whatever is widened.  `Collected` gives
  these values as sets, by applying all instructions and branches `Depth` times to empty
  tables.  `OrderInv` speaks of every such table: if its values all come from instructions
  (`Supported`) and the ranges hold its names (`Within`), then in a sweep that has changed
  nothing yet the entries of `FuncVRMs` hold its values in what was handled, and the ranges
  what that records (`PlaceHeld`, `SweepRecorded`).  So a round without changes has met every
  instruction (`ModuleRecorded`), the ranges hold the names of the next table as well, and
  by induction over the tables (`TablesReached`) those of the last.  It needs besides that a
  value not yet made has no entry (`Unmade`), for a test inserts one only then, and that
  metadata is written from the range a load or call is looked up with (`MetaHolds`).
  `Ordered` names what the code needs for this, and section 6 what happens without most of
  it: no back edges, blocks after their predecessors and definitions before uses in the
  layout, a value made once, no remainders, and no use of arguments, loads without a name
  or results of calls without callees, for which the pass has no range; nor are names
  of taint sources written, whose metadata `doFinalization` takes from `IntRanges`
  (`Range.cc:541`), where `getRange` answers with all words.  Half of the programs of the run
  are ordered (`OrderedPrograms`); the others have a test laid out after a block it leads
  to, or store to the name of a source, and for them TLC checks the same property.

Files:

* `AnnotationSettles`: annotating a function a second time changes descriptions only, a
  third time nothing.  The argument follows what each mark is set by: after the first
  time no argument is left to replace and no call to erase, so that the calls that mark
  a value, and with them the last of them, stay the same from the second time on.
* `FilesStayIntact` (`Intact`), `RunsConverge` (`Converged`): by `FilesInv`.  A file has
  nothing, its own code, or that annotated once or twice (`FileCode`), which is closed
  under annotation by `AnnotationSettles`.  The files without code are counted as if the
  write in progress were complete (`Losses`), so that only a crash adds one.  While no
  file failed, the files equal the modules but for the one to be written (`Reflected`),
  and the modules finalised have the results for all (`Results`).

The checkers:

* `OverflowAlwaysKept`, `OverflowNeverMissed`: at every even modulus and for all
  operands the comparisons agree with the operation.  The lemmas on
  wrapping and on quotients are those the cases of products rest on; the invariant is that the
  overflow bit is right before and after the rewriting.
* `IdiomAlwaysKept` (`IdiomKept`): a test of a product by a division has the same result
  after both passes.  Between them `IdiomInv` says that the comparison equals the
  intrinsic's overflow bit, which is what `OverflowAlwaysKept` keeps.
* `BothPassesKeep` (`OverflowKept`, `NoneMissed`, of `IdiomSpec`): the intrinsics that
  overflow-idiom creates are among those overflow-simplify rewrites.  By `BitInv` an
  intrinsic is the program's own, and its bit exact as above, or the product made of a
  comparison, whose bit is the overflow of that product.
* `UsesAlwaysKept` (`UsesKept`): for every graph.  `HoistInv` relates the value of memory
  to what is available: the last access of the block, or what is live into it.
* `ObservedTold`, `ChecksHaveValues`, `NoIdleCheck` (`IntRewrite`): by `CheckInv`.  Blocks
  that dominate the current one have been executed, and what they computed is from the
  last execution (`Executed`, `UpToDate`); so only the last execution can be observed where
  a check was deferred (`ObservedLast`), and it is observed in a block with a check.
* `CallsAlwaysLegal` (`CallsLegal`), `TermsBalanced` (`Balanced`): for every program, with the
  terms of any number of values, indices and phis, and the three solvers.  By `GenInv` the
  references to a term are as many as the values and blocks that hold it (`Accounted`),
  so that what they hold is live, and after the destructors nothing is.  Each visitor
  has a lemma: it gains one reference, to the term it returns, of the width of its value,
  and none else (`Returns`), whatever it made and gave up in between: the shifts of
  Boolector, ranges, the products of an address, the condition of an edge.  A count of
  references is compared before and after, so that it does not matter in which order
  terms are given up, nor whether two of them are the same (`x + x`, an index used twice).
* `RangesAlwaysExact` (`RangesExact`), `TermsAlwaysExact` (`TermsExact`): for words and
  pointers of every width, programs of any number of values and addresses of any number
  of indices.  No step changes the width or value of a term made before (`TermsKept`, from
  `GenInv`); so it is enough that a visit makes the right term when those of its operands
  are right (`RangesInv`, `ValuesInv`, `AnalyzeExact`).  Each kind of value has a lemma.  An
  address is an induction over its indices: what was added so far is, with the constants
  still to come, the address so far but for a multiple of the modulus (`Towards`); an index
  wider than a pointer keeps that, as its modulus is a multiple (`Wider`, `CongDivides`).
  Boolector's shift computes in a word of 2^k bits and cuts it (`WideShift`): the one case
  it fails is the lost sign of section 6, which the property leaves out and which the
  lemma has as its hypothesis.  What a solver's own operation computes is `Compute` by
  definition; what kint builds out of several of them, and in which direction each asks
  for overflows (`OverflowIs`), is proved.
* `ChecksAskExactly` (`AsksExactly`): for words of every width, one or two arrays of any
  size below half the words of an index, and every solver.  A program that puts a
  question begins with the values the pass inserts (`Puts`, an assumption on programs);
  `DivEntries`, `ArrayEntries` and the like say what these are, `AllAnswered` what the
  last of them means, and `ValuesInv` that its term has that meaning.  An index above an
  array's last element, unsigned, is out of bounds because the array is that small
  (`BoundIs`); a shift by the width or more is one by all bits but the sign (`FarShift`).
* `FirstTurnsKept`, `EveryTurnKept` (`PathHolds`, `PathHoldsInLoops`): by `PathInv`.  For the
  condition with a dominator tree the invariant speaks of all blocks that dominate the
  current one, as the common dominator `get` falls back on is seldom a predecessor; a
  value such a condition reads is computed in a block that dominates it, and is not
  computed again without passing it.
* `PathsTaken` (`PathFeasible`): without loops a condition is exact.  `ExactInv` says that a
  block whose condition holds, and was not visited, lies ahead: the values no block
  computes again choose one path, and guards are true along it only.
* `ReportsRight` (`ReportsHold`): `ReportInv`, a reported branch has one side that no values
  satisfy together with the path, whatever the solver left open; and `EveryTurnKept`.
* `SavedReported`, `AllAccounted`, `ReportedOnce`, `ReportsOrderly`, `TypeCorrect` (`IntSat`):
  by `CheckerInv`.  It ties the state of the query to the lines of its call
  (`WrittenSoFar`, `QueryDone`), says which report may break off (`BrokenOff`), and that a
  call that began a report has its value saved or lost its query (`BegunWasSaved`): the
  status is read after the lines are out, so neither follows from the other.

The recursive functions of the models (`Guards`, `UnionOver`, `Pow2`, those over the
indices of an address, the bits of a word, the values of a program and the phis of a
block) exist and have the values
their equations say: proved by induction over the numbers of blocks, or the sizes of
sets, with sets of numbers and their least elements (`LeastNumber`, `Counting`), since
the library's induction theorems have an operator as parameter.

Only model-checked: the liveness properties (`Termination`, `Ends`), `MayAnalysis`
of programs that are not ordered (it fails for some, see 6), and that `Depth`
applications of the references are enough.

## 5. Not modelled

* `CmpOverflow`, `CmpTautology`: what they report is decided by LLVM's ScalarEvolution.
* `findSink` and the taint metadata `IntRewrite` copies to a check, which only reports
  show; the printing of terms and the reading of models in the backends; the layout of
  reports; the scripts; the headers for LLVM versions.
* Which addresses are equal (`LoadRewrite`) is given: stores of another type or through
  another expression, and calls, are taken not to change what is loaded, as in the code.
* In what is modelled: names are given, not composed of strings; types are left out
  where only integers matter; `OverflowSimplify`'s order of two variable operands.

## 6. Where the code and its words differ

Two have runs that exhibit them.

* `taint_loops`: `README:47` promises values derived from untrusted inputs.
  `TM.add(I, D)` (`Taint.cc:129`) sets no flag: a taint that moves from phi to phi over
  a back edge needs a sweep nobody asks for.
* `simplify_ssub`: `OverflowSimplify.cc:185-187` describes two comparisons of `R`; lines
  189 and 192 compare `L`, the constant.

TLC finds the following with other values of the constants of a run.

* `callgraph` with `WeakLinkage = "weak"` (and `Breadth = FALSE`): `LinkedCallees` is
  violated.  `IntGlobal.h:86` promises all potential callees, but only definitions with
  external linkage enter `Ctx->Funcs` (`CallGraph.cc:206`) and a weak function has a
  scope of its own module (`Annotation.h:37`), so other modules' facts miss it.
* `range` with `Family = "argument"`: `MayAnalysis` is violated.  `Range.cc:6` calls the
  analysis a may analysis.  Arguments are calls of `kint_arg.iN`, and `getRange` looks
  calls up by their callees only: an argument is the empty range, so results that
  depend on one lack its values.
* `range` with `Family = "compared"`, `"loop"`, `"remainder"`: likewise.  The right
  operand of a test is refined with the left one's range, and a test never refines a
  value that has an entry (`Range.cc:384`); phis skip back edges (`Range.cc:256`); a
  remainder has the range of the divisor (`Range.cc:212`).

The properties of the runs name an exception for each of these.

* `OverflowIdiom.cc:112`: the test of `x > C / y` in a narrower width is true for x = 0
  and y > C, where the source's is false (`IdiomKept`).
* `OverflowSimplify.cc:232`: `x * -1` is reported for every `x` (`OverflowKept`).
* `SMTBoolector.cc:237`: an arithmetic shift of a negative word whose width is no power
  of two shifts in zeros (`TermsExact`).
* `LoadRewrite.cc:153`: after `t = *p; *p = v;` a use of `t` in a later block gets `v`
  (`UsesKept`).
* `IntSat.cc:113` wants to suppress further warnings; the child prints before its exit
  status is known, so a kill in between lets the warning come twice (`OnceUnlessKilled`).
* `IntRewrite.cc:243`: the uses of a phi are followed whichever operand it takes, so a
  deferred check may report an overflow nothing there observes (`NothingIdle`).
* `Annotation.cc:137-150`: where two calls mark one value, which description stays
  depends on the calls a first run erased (`Intact`, `Converged` compare code up to
  descriptions).

Seen while modelling, outside what the runs ask:

* `Range.cc:511` widens values that converge too slowly, but counts the sweeps of one
  call; growth through another module is one value per round.
* Initialisers record the declaration where a definition is known (`CallGraph.cc:33`).
* A block that is the default and a case of one switch, or both successors of one
  branch, gets one of the conditions only (`PathGen.cc:136`, `:123`).
* `README:68-70` promises each pair of `Allocs`; the loop stops at the first pair whose
  operand is an instruction, so the second size of `kcalloc` is not marked
  (`Annotation.cc:187-190`).  `README:54-55` allows values of any integer or pointer type;
  only instructions are marked, not the addresses of globals or pointer arguments.
* A call `__kint_taint` whose result only feeds another one is erased by the second run.
* A file a crash left empty parses as an empty module and is analysed as one.  That an
  output file does not open is said with `-v` only (`IntGlobal.cc:53`).
* Names of static symbols have the stem of the file only (`Annotation.h:41-43`): those of
  two files of one name in different directories are the same.
* `IntRewrite.cc:149-151` says divisions by zero are checked before `-overflow-idiom`; in
  `intck` the check comes after that pass, which may have removed the division.
* `CmpOverflow.cc:152` returns no status, so that what `checkXY` finds is never reported.

## 7. Plan

Modelled first is what every report rests on: the fixpoint loops, then the data that
crosses from the global analysis to the checkers, then the queries.

1. Done: call graph, taint, overflow intrinsics, the query process, path conditions and
   branches, ranges; idioms, checks, terms and values, annotation and files, loads.
2. What is left to model is under 5.
