-------------------------------- MODULE Taint --------------------------------
(***************************************************************************)
(* The taint pass of intglobal (TaintPass, src/Taint.cc): it marks the     *)
(* values that derive from untrusted inputs, within a function through     *)
(* operands and across functions and modules through names, and writes the *)
(* descriptions of their sources into the metadata the checkers report.    *)
(*                                                                         *)
(* A step handles one instruction; a call takes a step for each argument   *)
(* of each callee, in the order of FuncSet, which is that of addresses.    *)
(***************************************************************************)
EXTENDS IterativePass, TaintMap

VARIABLES
  prog,   \* the program analysed
  gts,    \* TaintMap::GTS, the descriptions; a name without entry maps to {}
  src,    \* TaintMap::GTS, the names flagged as sources
  vts,    \* TaintMap::VTS; a value without entry maps to {}
  meta,   \* metadata "taint", of the modules finalized so far
  pos,    \* runOnFunction's place in the current module
  rest,   \* the callees of the current call still to be handled
  callee, \* the callee being handled: the names of its arguments
  arg     \* 0, or the next argument of that callee

vars == <<driverVars, prog, gts, src, vts, meta, pos, rest, callee, arg>>

Instr == prog[mod][pos]

At(op) ==
  /\ phase = "sweep"
  /\ pos <= Len(prog[mod])
  /\ Instr.op = op

Code(m) == { prog[m][i] : i \in 1 .. Len(prog[m]) }

(* Types, and what the place in the loops implies.                         *)
TypeOK ==
  /\ DriverTypeOK
  /\ prog \in Programs
  /\ gts \in GlobalTaints
  /\ src \subseteq { id \in Ids : gts[id] # {} }
  /\ vts \in ValueTaints
  /\ meta \in ValueTaints
  /\ phase \in {"init", "sweep"} => meta = [v \in Values |-> {}]
  /\ pos \in 1 .. Len(prog[mod]) + 1
  /\ phase # "sweep" => pos = 1
  /\ rest # {} => At("call") /\ rest \subseteq Instr.passes /\ Instr.args # << >>
  /\ IF arg = 0
     THEN callee = << >>
     ELSE At("call") /\ callee \in Instr.passes /\ arg \in 1 .. Len(callee)

Init ==
  /\ DriverInit
  /\ prog \in Programs
  /\ gts = [id \in Ids |-> {}]
  /\ src = {}
  /\ vts = [v \in Values |-> {}]
  /\ meta = [v \in Values |-> {}]
  /\ pos = 1
  /\ rest = {}
  /\ callee = << >>
  /\ arg = 0

Initialize ==
  /\ phase = "init"
  /\ InitializedModule
  /\ UNCHANGED <<prog, gts, src, vts, meta, pos, rest, callee, arg>>

-----------------------------------------------------------------------------
Flag(isNew) ==
  /\ changed' = (changed \/ isNew)
  /\ UNCHANGED <<phase, mod, updated, ret>>

(* checkTaintSource: the tables after it.                                  *)
IsSource == Instr.source # NoDesc

SourceVts ==
  IF IsSource THEN [vts EXCEPT ![Instr.val] = @ \cup {Instr.source}] ELSE vts

SourceGts ==
  IF IsSource THEN AddTo(gts, SourceNames(Instr), SourceVts[Instr.val]) ELSE gts

MarkSource == src' = IF IsSource THEN src \cup SourceNames(Instr) ELSE src

SourceIsNew == IsSource /\ IsNew(gts, SourceNames(Instr))

NextInstr ==
  /\ pos' = pos + 1
  /\ UNCHANGED <<rest, callee, arg>>

(* Any instruction but a call: its value is tainted if an operand is, and  *)
(* a store or a return records the taint under its name.                   *)
Propagate ==
  /\ At("other")
  /\ LET D == UNION { GetTaint(SourceGts, SourceVts, v) : v \in Instr.ops }
         seen == Cached(SourceGts, SourceVts, Instr.ops)
         to == IF D = {} THEN {} ELSE {Instr.to} \ {NoId}
     IN  /\ vts' = [seen EXCEPT ![Instr.val] = @ \cup D]
         /\ gts' = AddTo(SourceGts, to, D)
         /\ Flag(SourceIsNew \/ IsNew(SourceGts, to))
  /\ MarkSource
  /\ NextInstr
  /\ UNCHANGED <<prog, meta>>

(* A call: taint goes to the arguments of its callees, if there are any.   *)
EnterCall ==
  /\ At("call") /\ rest = {} /\ arg = 0
  /\ vts' = SourceVts
  /\ gts' = SourceGts
  /\ Flag(SourceIsNew)
  /\ MarkSource
  /\ IF Instr.passes = {} \/ Instr.args = << >>
     THEN NextInstr
     ELSE rest' = Instr.passes /\ UNCHANGED <<pos, callee, arg>>
  /\ UNCHANGED <<prog, meta>>

TakeCallee ==
  /\ At("call") /\ rest # {} /\ arg = 0
  /\ \E names \in rest : callee' = names /\ rest' = rest \ {names}
  /\ arg' = 1
  /\ UNCHANGED <<driverVars, prog, gts, src, vts, meta, pos>>

(* The name the current argument has in the callee.                        *)
ArgNameLast == callee[Len(callee)]   \* faulty: the index of another loop

ArgName == callee[arg]

NextArgBeyond ==   \* faulty: one argument too many
  IF arg <= Len(callee)
  THEN arg' = arg + 1 /\ UNCHANGED <<pos, rest, callee>>
  ELSE arg' = 0 /\ callee' = << >> /\ pos' = pos + 1 /\ UNCHANGED rest

NextArg ==
  IF arg < Len(callee)
  THEN arg' = arg + 1 /\ UNCHANGED <<pos, rest, callee>>
  ELSE /\ arg' = 0
       /\ callee' = << >>
       /\ pos' = IF rest = {} THEN pos + 1 ELSE pos
       /\ UNCHANGED rest

PassArg ==
  /\ At("call") /\ arg # 0
  /\ LET v == Instr.args[arg]
         D == GetTaint(gts, vts, v)
         to == IF D = {} THEN {} ELSE {ArgName}
     IN  /\ vts' = Cached(gts, vts, {v})
         /\ gts' = AddTo(gts, to, D)
         /\ Flag(IsNew(gts, to))
  /\ NextArg
  /\ UNCHANGED <<prog, src, meta>>

-----------------------------------------------------------------------------
AtSweepEnd == phase = "sweep" /\ pos > Len(prog[mod])

EndSweep ==
  /\ AtSweepEnd
  /\ SweepAgain
  /\ pos' = 1
  /\ UNCHANGED <<prog, gts, src, vts, meta, rest, callee, arg>>

EndModule ==
  /\ AtSweepEnd
  /\ ReturnFromModule
  /\ pos' = 1
  /\ UNCHANGED <<prog, gts, src, vts, meta, rest, callee, arg>>

(* doFinalization of one module: the metadata of its instructions.         *)
Finalize ==
  /\ phase = "final"
  /\ LET instrs == { ins.val : ins \in Code(mod) }
     IN  /\ meta' = [v \in Values |->
                       IF v \in instrs THEN GetTaint(gts, vts, v) ELSE meta[v]]
         /\ vts' = Cached(gts, vts, instrs)
  /\ FinalizedModule
  /\ UNCHANGED <<prog, gts, src, pos, rest, callee, arg>>

Ended ==
  /\ phase = "done"
  /\ UNCHANGED vars

Next ==
  \/ Initialize \/ Propagate \/ EnterCall \/ TakeCallee \/ PassArg
  \/ EndSweep \/ EndModule \/ Finalize \/ Ended

Spec == Init /\ [][Next]_vars

(* The pass is one thread that never waits.                                *)
FairSpec == Spec /\ WF_vars(Next)

-----------------------------------------------------------------------------
(* Nothing is marked that does not derive from a source: every description *)
(* in the tables and the metadata is in every pair of tables closed under  *)
(* the instructions (runOnFunction, src/Taint.cc:87).                      *)
Justified ==
  \A g \in GlobalTaints, t \in ValueTaints :
    Closed(g, t, prog) => /\ \A id \in Ids : gts[id] \subseteq g[id]
                          /\ \A v \in Values : vts[v] \cup meta[v] \subseteq t[v]

(* A value is marked if getTaint finds taint for it, or for the pointer it *)
(* was cast from; the marks as tables, with every description for a mark.  *)
Marked(v) == GetTaint(gts, vts, v) # {} \/ GetTaint(gts, vts, Strip[v]) # {}

MarkedNames  == [id \in Ids |-> IF gts[id] = {} THEN {} ELSE Descs]
MarkedValues == [v \in Values |-> IF Marked(v) THEN Descs ELSE {}]

(* Without loops the result is complete: the marks are closed under the    *)
(* instructions, so all that derives from a source is marked, and every    *)
(* marked instruction has its metadata, although the tables of values      *)
(* change without a flag and cached values are never looked up again       *)
(* (src/Taint.cc:38, :57, :129).                                           *)
DerivedMarked ==
  phase = "done" /\ Ordered(prog) =>
    /\ Closed(MarkedNames, MarkedValues, prog)
    /\ \A m \in Modules : \A ins \in Code(m) : Marked(ins.val) => meta[ins.val] # {}

(* No step forgets a description, a source flag or a metadata.             *)
Monotone ==
  [][ /\ \A id \in Ids : gts[id] \subseteq gts'[id]
      /\ src \subseteq src'
      /\ \A v \in Values : vts[v] \subseteq vts'[v] /\ meta[v] \subseteq meta'[v] ]_vars

(* The nested loops end although values are recorded without a flag.       *)
Termination == <>(phase = "done")

=============================================================================
