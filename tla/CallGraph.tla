------------------------------ MODULE CallGraph ------------------------------
(***************************************************************************)
(* The call graph pass of intglobal (CallGraphPass, src/CallGraph.cc): it  *)
(* collects, for each name, the functions a pointer recorded under that    *)
(* name may hold, and then the functions each call may reach.              *)
(*                                                                         *)
(* A step runs up to the next change of FuncPtrs or of a loop: one store   *)
(* or return, the resolution of a callee, one argument of a call, the end  *)
(* of a sweep.  The program is chosen initially and never changes.         *)
(***************************************************************************)
EXTENDS IterativePass, FuncPtrs

VARIABLES
  prog,      \* the program analysed
  funcs,     \* Ctx->Funcs
  ptrs,      \* Ctx->FuncPtrs; a name that has no entry yet maps to {}
  callees,   \* Ctx->Callees, from <<module, position>> of a call
  pos,       \* runOnFunction's place in the current module
  arg,       \* 0, or the argument whose assignments are looked for next
  fs         \* runOnFunction's FS: the callees of the current call

vars == <<driverVars, prog, funcs, ptrs, callees, pos, arg, fs>>

CallSites(m) == {m} \X { i \in 1 .. Len(prog.code[m]) : prog.code[m][i].op = "call" }

Callee(c) == prog.code[c[1]][c[2]].callee

Instr == prog.code[mod][pos]

AtInstr(ops) ==
  /\ phase = "sweep"
  /\ pos <= Len(prog.code[mod])
  /\ Instr.op \in ops

Found(v) == Find(funcs, ptrs, v)

DataTypeOK ==
  /\ prog \in Programs
  /\ funcs \in LinkTables
  /\ ptrs \in FuncPtrMaps
  /\ DOMAIN callees \subseteq UNION { CallSites(m) : m \in Modules }
  /\ \A c \in DOMAIN callees : callees[c] \subseteq Functions
  /\ fs \subseteq Functions

PlaceTypeOK ==
  /\ pos \in 1 .. Len(prog.code[mod]) + 1
  /\ phase \in {"init", "final", "done"} => pos = 1
  /\ arg \in 0 .. MaxArgs
  /\ arg # 0 /\ phase # "aborted" => AtInstr({"call"}) /\ arg <= Len(Instr.args)

(* Types, and what the place in the loops implies.                         *)
TypeOK == DriverTypeOK /\ DataTypeOK /\ PlaceTypeOK

Init ==
  /\ DriverInit
  /\ prog \in Programs
  /\ funcs = << >>
  /\ ptrs = [id \in Ids |-> {}]
  /\ callees = << >>
  /\ pos = 1
  /\ arg = 0
  /\ fs = {}

-----------------------------------------------------------------------------
(* The entries of new, and those of old for other keys.                    *)
Over(new, old) == [x \in DOMAIN new \cup DOMAIN old |-> IF x \in DOMAIN new THEN new[x] ELSE old[x]]

(* doInitialization of one module: record the functions in initialisers as *)
(* they are, and the definitions with external linkage by name.            *)
Defined(m) == { f \in Definitions(m) : f.mod = m }

Initialize ==
  /\ phase = "init"
  /\ ptrs' = [id \in Ids |-> ptrs[id] \cup Inits(prog, {mod})[id]]
  /\ funcs' = Over([n \in { f.name : f \in Defined(mod) } |->
                      CHOOSE f \in Defined(mod) : f.name = n], funcs)
  /\ InitializedModule
  /\ UNCHANGED <<prog, callees, pos, arg, fs>>

(* Faulty: Changed = instead of Changed |=.                                *)
MergeFuncSetLast(ids, S) ==
  /\ ptrs' = Merge(ptrs, ids, S)
  /\ changed' = (\E id \in ids : ~ S \subseteq ptrs[id])
  /\ UNCHANGED <<phase, mod, updated, ret>>

(* Faulty: Changed is set by what is found, not by what is new.            *)
MergeFuncSetAlways(ids, S) ==
  /\ ptrs' = Merge(ptrs, ids, S)
  /\ changed' = (changed \/ S # {})
  /\ UNCHANGED <<phase, mod, updated, ret>>

(* Record S under ids and set the flag if that added anything.             *)
MergeFuncSet(ids, S) ==
  /\ ptrs' = Merge(ptrs, ids, S)
  /\ changed' = (changed \/ \E id \in ids : ~ S \subseteq ptrs[id])
  /\ UNCHANGED <<phase, mod, updated, ret>>

NextInstr ==
  /\ pos' = pos + 1
  /\ arg' = 0
  /\ fs' = {}

(* A store or a return of a function pointer.                              *)
Assign ==
  /\ AtInstr({"store", "ret"})
  /\ Target(Instr) # NoId
  /\ ~IsBad(Instr.val)
  /\ MergeFuncSet({Target(Instr)}, Found(Instr.val))
  /\ NextInstr
  /\ UNCHANGED <<prog, funcs, callees>>

(* Instructions without effect: a store without a name, a call of inline   *)
(* asm or of an intrinsic, a call that nothing is known to be reached by,  *)
(* and a call without arguments.                                           *)
Skip ==
  /\ \/ AtInstr({"store"}) /\ Target(Instr) = NoId
     \/ AtInstr({"call"}) /\ Instr.ignored
     \/ /\ AtInstr({"call"}) /\ arg = 0 /\ ~IsBad(Instr.callee)
        /\ Found(Instr.callee) = {} \/ Instr.args = << >>
  /\ NextInstr
  /\ UNCHANGED <<driverVars, prog, funcs, ptrs, callees>>

(* A call: find all possible callees first.                                *)
ResolveCallee ==
  /\ AtInstr({"call"}) /\ arg = 0
  /\ ~Instr.ignored
  /\ ~IsBad(Instr.callee)
  /\ Found(Instr.callee) # {}
  /\ Instr.args # << >>
  /\ fs' = Found(Instr.callee)
  /\ arg' = 1
  /\ UNCHANGED <<driverVars, prog, funcs, ptrs, callees, pos>>

(* Faulty: one argument too many.                                          *)
NextArgBeyond ==
  IF arg <= Len(Instr.args)
  THEN arg' = arg + 1 /\ UNCHANGED <<pos, fs>>
  ELSE NextInstr

NextArg ==
  IF arg < Len(Instr.args)
  THEN arg' = arg + 1 /\ UNCHANGED <<pos, fs>>
  ELSE NextInstr

(* Then, argument by argument, record what it may hold for every callee.   *)
PassArg ==
  /\ AtInstr({"call"}) /\ arg # 0
  /\ LET v == Instr.args[arg]
     IN  IF v = NoValue
         THEN UNCHANGED <<driverVars, ptrs>>
         ELSE /\ ~IsBad(v)
              /\ MergeFuncSet({ ArgId(k, arg) : k \in fs }, Found(v))
  /\ NextArg
  /\ UNCHANGED <<prog, funcs, callees>>

(* findFunctions reached a value it cannot handle.                         *)
GiveUp ==
  /\ \/ AtInstr({"store", "ret"}) /\ Target(Instr) # NoId /\ IsBad(Instr.val)
     \/ AtInstr({"call"}) /\ arg = 0 /\ ~Instr.ignored /\ IsBad(Instr.callee)
     \/ /\ AtInstr({"call"}) /\ arg # 0
        /\ Instr.args[arg] # NoValue /\ IsBad(Instr.args[arg])
     \/ phase = "final" /\ \E c \in CallSites(mod) : IsBad(Callee(c))
  /\ Abort
  /\ UNCHANGED <<prog, funcs, ptrs, callees, pos, arg, fs>>

AtSweepEnd == phase = "sweep" /\ pos > Len(prog.code[mod])

EndSweep ==
  /\ AtSweepEnd
  /\ SweepAgain
  /\ pos' = 1
  /\ UNCHANGED <<prog, funcs, ptrs, callees, arg, fs>>

EndModule ==
  /\ AtSweepEnd
  /\ ReturnFromModule
  /\ pos' = 1
  /\ UNCHANGED <<prog, funcs, ptrs, callees, arg, fs>>

(* doFinalization of one module: the callees of each of its calls.         *)
Finalize ==
  /\ phase = "final"
  /\ \A c \in CallSites(mod) : ~IsBad(Callee(c))
  /\ callees' = Over([c \in CallSites(mod) |-> Found(Callee(c))], callees)
  /\ FinalizedModule
  /\ UNCHANGED <<prog, funcs, ptrs, pos, arg, fs>>

(* The pass has ended; the process goes on to the next pass or is gone.    *)
Ended ==
  /\ phase \in {"done", "aborted"}
  /\ UNCHANGED vars

Next ==
  \/ Initialize \/ Assign \/ Skip \/ ResolveCallee \/ PassArg \/ GiveUp
  \/ EndSweep \/ EndModule \/ Finalize \/ Ended

Spec == Init /\ [][Next]_vars

(* The pass is one thread that never waits.                                *)
FairSpec == Spec /\ WF_vars(Next)

-----------------------------------------------------------------------------
(* The loops stop only at a solution: when callees are computed, every     *)
(* instruction of every module is satisfied, although the last sweep of a  *)
(* module may be long past when another module's facts change.             *)
Fixpoint == phase \in {"final", "done"} => Solution(funcs, ptrs, prog)

(* Nothing is recorded that the program does not call for: FuncPtrs is     *)
(* below every solution, at every moment after the initialisation.         *)
Least ==
  phase \notin {"init", "aborted"} =>
    \A sol \in FuncPtrMaps : Solution(funcs, sol, prog) => Below(ptrs, sol)

(* No step forgets a function recorded under a name, a definition by name, *)
(* or the callees of a call.                                               *)
Monotone ==
  [][ /\ Below(ptrs, ptrs')
      /\ DOMAIN funcs \subseteq DOMAIN funcs'
      /\ \A c \in DOMAIN callees : c \in DOMAIN callees' /\ callees'[c] = callees[c] ]_vars

(* The nested loops end: each round that goes on has recorded something,   *)
(* and there are finitely many functions and names.                        *)
Termination == <>(phase \in {"done", "aborted"})

-----------------------------------------------------------------------------
(* Why the loops may stop when their flags are clear: an instruction the   *)
(* sweep has passed without a change is satisfied, and a module passed     *)
(* without a change in this round is satisfied.                            *)

PassedInstrs ==
  phase = "sweep" /\ ~changed =>
    \A i \in 1 .. pos - 1 : Satisfied(funcs, ptrs, prog.code[mod][i])

PassedArgs ==
  arg # 0 =>
    /\ fs \subseteq Found(Instr.callee)
    /\ ~Instr.ignored
    /\ ~changed => /\ fs = Found(Instr.callee)
                   /\ \A no \in 1 .. arg - 1 : ArgSatisfied(funcs, ptrs, fs, Instr, no)

PassedModules ==
  phase = "sweep" /\ updated = 0 /\ ~ret /\ ~changed =>
    \A m \in 1 .. mod - 1 : ModuleSatisfied(funcs, ptrs, prog, m)

InitsRecorded ==
  /\ phase = "init" => Below(Inits(prog, 1 .. mod - 1), ptrs)
                       /\ Below(ptrs, Inits(prog, 1 .. mod - 1))
  /\ phase \in {"sweep", "final", "done"} => Below(Inits(prog, Modules), ptrs)

FixpointInv ==
  /\ TypeOK
  /\ PassedInstrs
  /\ PassedArgs
  /\ PassedModules
  /\ InitsRecorded
  /\ phase \in {"final", "done"} => Closed(funcs, ptrs, prog)

-----------------------------------------------------------------------------
(* The pass implements Saturation: whatever the order of modules,          *)
(* instructions and sweeps, it adds only what is called for and ends only  *)
(* when nothing is missing.                                                *)
Status == CASE phase = "init" -> "seeding"
            [] phase = "sweep" -> "solving"
            [] phase \in {"final", "done"} -> "solved"
            [] phase = "aborted" -> "failed"

Abstract == INSTANCE Saturation WITH status <- Status

Saturates == Abstract!Spec

=============================================================================
