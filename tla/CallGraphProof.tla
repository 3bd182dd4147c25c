--------------------------- MODULE CallGraphProof ---------------------------
(***************************************************************************)
(* Theorems about the call graph pass, for every module list, set of       *)
(* functions, value graph and program.                                     *)
(***************************************************************************)
EXTENDS Linking, WellFoundedInduction, TLAPS

USE NumModulesAssumption

(* How the driver's parts of the actions keep its types; the flags apart   *)
(* from the numbers.                                                       *)
LEMMA DriverTypes ==
  ASSUME DriverTypeOK,
         \/ phase = "init" /\ InitializedModule
         \/ phase = "sweep" /\ SweepAgain
         \/ phase = "sweep" /\ ReturnFromModule
         \/ phase = "final" /\ FinalizedModule
         \/ Abort
         \/ changed' \in BOOLEAN /\ UNCHANGED <<phase, mod, updated, ret>>
  PROVE  DriverTypeOK'
<1> USE DEF DriverTypeOK, Modules, Phases
<1>1. changed' \in BOOLEAN /\ ret' \in BOOLEAN
  BY Zenon DEF InitializedModule, SweepAgain, ReturnFromModule, FinalizedModule, Abort, EnterModule
<1>2. /\ phase' \in Phases
      /\ mod' \in Modules
      /\ updated' \in 0 .. mod' - 1
      /\ phase' = "final" => updated' = 0
  <2>1. CASE phase = "init" /\ InitializedModule
    BY <2>1 DEF InitializedModule, EnterModule
  <2>2. CASE phase = "sweep" /\ SweepAgain
    BY <2>2 DEF SweepAgain
  <2>3. CASE phase = "sweep" /\ ReturnFromModule
    BY <2>3 DEF ReturnFromModule, EnterModule, Counted
  <2>4. CASE phase = "final" /\ FinalizedModule
    BY <2>4 DEF FinalizedModule, EnterModule
  <2>5. CASE Abort
    BY <2>5 DEF Abort
  <2>6. CASE UNCHANGED <<phase, mod, updated, ret>>
    BY <2>6
  <2> QED
    BY <2>1, <2>2, <2>3, <2>4, <2>5, <2>6
<1> QED
  BY <1>1, <1>2

(* ... and how they begin.                                                 *)
LEMMA DriverInitTypes == DriverInit => DriverTypeOK
<1> SUFFICES ASSUME DriverInit PROVE DriverTypeOK
  OBVIOUS
<1>1. changed \in BOOLEAN /\ ret \in BOOLEAN
  BY Zenon DEF DriverInit
<1> QED
  BY <1>1 DEF DriverInit, DriverTypeOK, Modules, Phases

(* What findFunctions returns are Function objects.                        *)
LEMMA FindType ==
  ASSUME NEW links \in LinkTables, NEW map \in FuncPtrMaps, NEW v \in Values
  PROVE  Find(links, map, v) \subseteq Functions
<1>1. \A f \in Functions : Resolve(links, f) \in Functions
  BY DEF Resolve, LinkTables
<1>2. Visited[v] \subseteq Values
  BY DEF Visited
<1>3. \A w \in Visited[v] : Node[w] \in Nodes
  BY <1>2, ProgramAssumption
<1>4. \A w \in Visited[v] : Node[w].kind = "fun" => Node[w].fun \in Functions
  BY <1>3 DEF Nodes
<1>5. \A w \in Visited[v] : Node[w].kind = "slot" => map[Node[w].id] \subseteq Functions
  BY <1>3 DEF Nodes, FuncPtrMaps
<1> QED
  BY <1>1, <1>4, <1>5 DEF Find

(* The more is recorded, the more findFunctions finds.                     *)
LEMMA FindMonotone ==
  ASSUME NEW links, NEW low \in FuncPtrMaps, NEW high \in FuncPtrMaps,
         Below(low, high), NEW v \in Values
  PROVE  Find(links, low, v) \subseteq Find(links, high, v)
<1>1. \A w \in Visited[v] : Node[w] \in Nodes
  BY ProgramAssumption DEF Visited
<1>2. \A w \in Visited[v] : Node[w].kind = "slot" => low[Node[w].id] \subseteq high[Node[w].id]
  BY <1>1 DEF Nodes, Below
<1> QED
  BY <1>2 DEF Find

LEMMA MergeType ==
  ASSUME NEW map \in FuncPtrMaps, NEW ids \in SUBSET Ids, NEW S \in SUBSET Functions
  PROVE  /\ Merge(map, ids, S) \in FuncPtrMaps
         /\ Below(map, Merge(map, ids, S))
         /\ (\A id \in ids : S \subseteq map[id]) => Merge(map, ids, S) = map
BY DEF Merge, FuncPtrMaps, Below

LEMMA IdTypes ==
  /\ \A f \in Functions, no \in 1 .. MaxArgs : ArgId(f, no) \in Ids
  /\ \A f \in Functions : RetId(f) \in Ids
BY DEF Ids

(* The instruction at pos, and its parts.                                  *)
LEMMA InstrType ==
  ASSUME NEW p \in Programs, NEW m \in Modules, NEW i \in 1 .. Len(p.code[m])
  PROVE  LET ins == p.code[m][i]
         IN  /\ ins \in Instrs
             /\ ins.op \in {"store", "ret"} =>
                  /\ ins.val \in Values
                  /\ Target(ins) # NoId => Target(ins) \in Ids
             /\ ins.op = "call" =>
                  /\ ins.callee \in Values
                  /\ ins.ignored \in BOOLEAN
                  /\ Len(ins.args) \in 0 .. MaxArgs
                  /\ ins.args \in Seq(Values \cup {NoValue})
                  /\ \A no \in 1 .. Len(ins.args) : ins.args[no] # NoValue => ins.args[no] \in Values
<1> DEFINE ins == p.code[m][i]
<1>1. p \in ProgramTypes
  BY ProgramAssumption
<1>2. p.code[m] \in Seq(Instrs)
  BY <1>1 DEF ProgramTypes
<1>3. ins \in Instrs
  BY <1>2
<1>4. ASSUME ins.op \in {"store", "ret"}
      PROVE  ins.val \in Values /\ (Target(ins) # NoId => Target(ins) \in Ids)
  BY <1>3, <1>4, IdTypes DEF Instrs, Target
<1>5. ASSUME ins.op = "call"
      PROVE  /\ ins.callee \in Values
             /\ ins.ignored \in BOOLEAN
             /\ ins.args \in Seq(Values \cup {NoValue})
  BY <1>3, <1>5 DEF Instrs
<1>6. ASSUME ins.op = "call"
      PROVE  Len(ins.args) \in 0 .. MaxArgs
  <2>1. Len(ins.args) <= MaxArgs
    BY <1>6, ProgramAssumption
  <2>2. Len(ins.args) \in Nat
    BY <1>5, <1>6
  <2> QED
    BY <2>1, <2>2
<1>7. ASSUME ins.op = "call", NEW no \in 1 .. Len(ins.args), ins.args[no] # NoValue
      PROVE  ins.args[no] \in Values
  <2>1. ins.args[no] \in Values \cup {NoValue}
    BY <1>5, <1>7
  <2> QED
    BY <2>1, <1>7
<1> QED
  BY <1>3, <1>4, <1>5, <1>6, <1>7

-----------------------------------------------------------------------------
LEMMA FoundType ==
  ASSUME DataTypeOK, NEW v \in Values
  PROVE  Found(v) \subseteq Functions
BY FindType DEF Found, DataTypeOK

(* The instruction the pass is at.                                         *)
LEMMA AssignType ==
  ASSUME TypeOK, AtInstr({"store", "ret"})
  PROVE  Instr.val \in Values /\ (Target(Instr) # NoId => Target(Instr) \in Ids)
<1>1. prog \in Programs /\ mod \in Modules /\ pos \in 1 .. Len(prog.code[mod])
  BY DEF AtInstr, TypeOK, DriverTypeOK, DataTypeOK, PlaceTypeOK
<1> QED
  BY <1>1, InstrType DEF AtInstr, Instr

LEMMA CallType ==
  ASSUME TypeOK, AtInstr({"call"})
  PROVE  /\ Instr.callee \in Values
         /\ Instr.ignored \in BOOLEAN
         /\ Len(Instr.args) \in 0 .. MaxArgs
         /\ Instr.args # << >> => 1 \in 1 .. Len(Instr.args)
         /\ \A no \in 1 .. Len(Instr.args) :
              no \in 1 .. MaxArgs /\ (Instr.args[no] # NoValue => Instr.args[no] \in Values)
<1>1. prog \in Programs /\ mod \in Modules /\ pos \in 1 .. Len(prog.code[mod])
  BY DEF AtInstr, TypeOK, DriverTypeOK, DataTypeOK, PlaceTypeOK
<1>2. /\ Instr.callee \in Values
      /\ Instr.ignored \in BOOLEAN
      /\ Len(Instr.args) \in 0 .. MaxArgs
      /\ Instr.args \in Seq(Values \cup {NoValue})
      /\ \A no \in 1 .. Len(Instr.args) : Instr.args[no] # NoValue => Instr.args[no] \in Values
  BY <1>1, InstrType DEF AtInstr, Instr
<1>3. Instr.args # << >> => Len(Instr.args) # 0
  BY <1>2
<1>4. MaxArgs \in Nat
  BY ProgramAssumption
<1> QED
  BY <1>2, <1>3, <1>4

(* Each action keeps the types of the data ...                             *)
LEMMA DataTypes == TypeOK /\ [Next]_vars => DataTypeOK'
<1> SUFFICES ASSUME TypeOK, [Next]_vars PROVE DataTypeOK'
  OBVIOUS
<1> USE DEF TypeOK, DataTypeOK
<1> DEFINE CalleesOK == /\ DOMAIN callees \subseteq UNION { CallSites(m) : m \in Modules }
                       /\ \A c \in DOMAIN callees : callees[c] \subseteq Functions
<1>1. CASE UNCHANGED <<prog, funcs, ptrs, callees, fs>>
  BY <1>1 DEF CallSites
<1>2. ASSUME UNCHANGED <<prog, callees>> PROVE CalleesOK'
  BY <1>2 DEF CallSites
<1>4. CASE Initialize
  <2>1. funcs' \in LinkTables
    <3> DEFINE new == [n \in { f.name : f \in Defined(mod) } |->
                         CHOOSE f \in Defined(mod) : f.name = n]
    <3>1. \A n \in DOMAIN new : new[n] \in Functions
      BY DEF Defined, Definitions
    <3>2. DOMAIN new \subseteq { f.name : f \in Functions }
      BY DEF Defined, Definitions
    <3>3. DOMAIN funcs \subseteq { f.name : f \in Functions } /\ \A n \in DOMAIN funcs : funcs[n] \in Functions
      BY DEF LinkTables
    <3>4. funcs' = [n \in DOMAIN new \cup DOMAIN funcs |-> IF n \in DOMAIN new THEN new[n] ELSE funcs[n]]
      BY <1>4 DEF Initialize, Over
    <3>5. funcs' \in [DOMAIN new \cup DOMAIN funcs -> Functions]
      <4> HIDE DEF new
      <4> QED
        BY <3>1, <3>3, <3>4
    <3> QED
      BY <3>2, <3>3, <3>5 DEF LinkTables
  <2>2. ptrs' \in FuncPtrMaps
    BY <1>4 DEF Initialize, FuncPtrMaps, Inits
  <2>3. UNCHANGED <<prog, callees, fs>>
    BY <1>4 DEF Initialize
  <2> QED
    BY <1>2, <2>1, <2>2, <2>3
<1>5. CASE Assign
  <2>1. Target(Instr) \in Ids /\ Instr.val \in Values
    BY <1>5, AssignType DEF Assign
  <2>2. ptrs' \in FuncPtrMaps
    BY <1>5, <2>1, MergeType, FoundType DEF Assign, MergeFuncSet
  <2>3. UNCHANGED <<prog, funcs, callees>> /\ fs' = {}
    BY <1>5 DEF Assign, NextInstr
  <2> QED
    BY <1>2, <2>2, <2>3
<1>6. CASE Skip
  <2>1. UNCHANGED <<prog, funcs, ptrs, callees>> /\ fs' = {}
    BY <1>6 DEF Skip, NextInstr
  <2> QED
    BY <1>2, <2>1
<1>7. CASE ResolveCallee
  <2>1. Instr.callee \in Values
    BY <1>7, CallType DEF ResolveCallee
  <2>2. UNCHANGED <<prog, funcs, ptrs, callees>> /\ fs' = Found(Instr.callee)
    BY <1>7 DEF ResolveCallee
  <2> QED
    BY <1>2, <2>1, <2>2, FoundType
<1>8. CASE PassArg
  <2>1. ptrs' \in FuncPtrMaps
    <3>1. CASE Instr.args[arg] = NoValue
      BY <1>8, <3>1 DEF PassArg
    <3>2. CASE Instr.args[arg] # NoValue
      <4>1. arg \in 1 .. MaxArgs /\ arg \in 1 .. Len(Instr.args)
        BY <1>8, CallType, ProgramAssumption DEF PassArg, PlaceTypeOK, AtInstr
      <4>2. Instr.args[arg] \in Values
        BY <1>8, <3>2, <4>1, CallType DEF PassArg
      <4>3. { ArgId(k, arg) : k \in fs } \subseteq Ids
        BY <4>1, IdTypes
      <4> QED
        BY <1>8, <3>2, <4>2, <4>3, MergeType, FoundType DEF PassArg, MergeFuncSet
    <3> QED
      BY <3>1, <3>2
  <2>2. UNCHANGED <<prog, funcs, callees>> /\ fs' \in {fs, {}}
    BY <1>8 DEF PassArg, NextArg, NextInstr
  <2> QED
    BY <1>2, <2>1, <2>2
<1>9. CASE Finalize
  <2>1. mod \in Modules
    BY DEF DriverTypeOK
  <2>2. \A c \in CallSites(mod) : Callee(c) \in Values
    BY <2>1, InstrType DEF CallSites, Callee
  <2>3. callees' = Over([c \in CallSites(mod) |-> Found(Callee(c))], callees)
    BY <1>9 DEF Finalize
  <2>4. DOMAIN callees' = CallSites(mod) \cup DOMAIN callees
    BY <2>3 DEF Over
  <2>5. \A c \in DOMAIN callees' : callees'[c] \subseteq Functions
    BY <2>2, <2>3, <2>4, FoundType DEF Over
  <2>6. UNCHANGED <<prog, funcs, ptrs, fs>>
    BY <1>9 DEF Finalize
  <2>7. UNION { CallSites(m) : m \in Modules }' = UNION { CallSites(m) : m \in Modules }
    BY <2>6 DEF CallSites
  <2> QED
    BY <2>1, <2>4, <2>5, <2>6, <2>7
<1> QED
  BY <1>1, <1>4, <1>5, <1>6, <1>7, <1>8, <1>9
     DEF Next, GiveUp, EndSweep, EndModule, Ended, vars

(* ... the driver's types ...                                              *)
LEMMA DriverStep == TypeOK /\ [Next]_vars => DriverTypeOK'
<1> SUFFICES ASSUME TypeOK, [Next]_vars PROVE DriverTypeOK'
  OBVIOUS
<1>1. DriverTypeOK
  BY DEF TypeOK
<1>2. changed \in BOOLEAN
  BY <1>1 DEF DriverTypeOK
<1>3. CASE UNCHANGED driverVars
  BY <1>1, <1>2, <1>3, DriverTypes DEF driverVars
<1>4. CASE Initialize
  BY <1>1, <1>4, DriverTypes DEF Initialize
<1>5. CASE Assign
  BY <1>1, <1>5, DriverTypes DEF Assign, MergeFuncSet
<1>6. CASE PassArg
  <2>1. \/ UNCHANGED driverVars
        \/ changed' \in BOOLEAN /\ UNCHANGED <<phase, mod, updated, ret>>
    BY <1>6, Zenon DEF PassArg, MergeFuncSet, driverVars
  <2> QED
    BY <1>1, <1>3, <2>1, DriverTypes
<1>7. CASE GiveUp
  BY <1>1, <1>7, DriverTypes DEF GiveUp
<1>8. CASE EndSweep
  BY <1>1, <1>8, DriverTypes DEF EndSweep, AtSweepEnd
<1>9. CASE EndModule
  BY <1>1, <1>9, DriverTypes DEF EndModule, AtSweepEnd
<1>10. CASE Finalize
  BY <1>1, <1>10, DriverTypes DEF Finalize
<1>11. CASE Skip \/ ResolveCallee \/ Ended \/ UNCHANGED vars
  BY <1>3, <1>11 DEF Skip, ResolveCallee, Ended, vars, driverVars
<1> QED
  BY <1>4, <1>5, <1>6, <1>7, <1>8, <1>9, <1>10, <1>11 DEF Next

(* ... and the place within the loops.                                     *)
LEMMA PlaceTypes == TypeOK /\ [Next]_vars => PlaceTypeOK'
<1> SUFFICES ASSUME TypeOK, [Next]_vars PROVE PlaceTypeOK'
  OBVIOUS
<1>1. prog' = prog
  BY DEF Next, Initialize, Assign, Skip, ResolveCallee, PassArg, GiveUp, EndSweep,
         EndModule, Finalize, Ended, vars
<1>2. mod' \in Modules
  BY DriverStep DEF DriverTypeOK
<1>3. \A m \in Modules : Len(prog.code[m]) \in Nat
  BY ProgramAssumption DEF ProgramTypes, TypeOK, DataTypeOK
<1>4. PlaceTypeOK /\ mod \in Modules /\ MaxArgs \in Nat /\ pos \in Nat /\ arg \in Nat
  BY <1>3, ProgramAssumption DEF TypeOK, PlaceTypeOK, DriverTypeOK
<1>5. ASSUME pos' = 1, arg' = 0 PROVE PlaceTypeOK'
  BY <1>1, <1>2, <1>3, <1>4, <1>5 DEF PlaceTypeOK
<1>6. ASSUME AtInstr({"store", "ret", "call"}), NextInstr, UNCHANGED <<mod, phase>> PROVE PlaceTypeOK'
  BY <1>1, <1>3, <1>4, <1>6 DEF PlaceTypeOK, AtInstr, NextInstr
<1>7. ASSUME AtInstr({"call"}), arg' \in 1 .. Len(Instr.args), UNCHANGED <<mod, phase, pos>>
      PROVE  PlaceTypeOK'
  <2>1. Len(Instr.args) \in 0 .. MaxArgs
    BY <1>7, CallType
  <2>2. Instr' = Instr /\ AtInstr({"call"})'
    BY <1>1, <1>7 DEF Instr, AtInstr
  <2> QED
    BY <1>1, <1>4, <1>7, <2>1, <2>2 DEF PlaceTypeOK, AtInstr
<1>8. phase \in {"init", "final", "done"} => pos = 1 /\ arg = 0
  BY <1>4 DEF PlaceTypeOK, AtInstr
<1>9. CASE Initialize
  BY <1>5, <1>8, <1>9 DEF Initialize
<1>10. CASE Assign
  BY <1>6, <1>10 DEF Assign, MergeFuncSet, AtInstr
<1>11. CASE Skip
  BY <1>6, <1>11 DEF Skip, AtInstr, driverVars
<1>12. CASE ResolveCallee
  <2>1. 1 \in 1 .. Len(Instr.args)
    BY <1>12, CallType DEF ResolveCallee
  <2> QED
    BY <1>7, <1>12, <2>1 DEF ResolveCallee, driverVars
<1>13. CASE PassArg
  <2>1. AtInstr({"call"}) /\ UNCHANGED <<mod, phase>>
    BY <1>13 DEF PassArg, MergeFuncSet, driverVars
  <2>2. CASE arg < Len(Instr.args)
    <3>1. Len(Instr.args) \in Nat
      BY <1>4, <2>1, CallType
    <3>2. arg' = arg + 1 /\ pos' = pos
      BY <1>13, <2>2 DEF PassArg, NextArg
    <3>3. arg' \in 1 .. Len(Instr.args)
      BY <1>4, <2>2, <3>1, <3>2
    <3> QED
      BY <1>7, <2>1, <3>2, <3>3
  <2>3. CASE ~(arg < Len(Instr.args))
    BY <1>6, <1>13, <2>1, <2>3 DEF PassArg, NextArg, AtInstr
  <2> QED
    BY <2>2, <2>3
<1>14. CASE GiveUp
  BY <1>1, <1>4, <1>14 DEF GiveUp, Abort, PlaceTypeOK
<1>15. CASE EndSweep
  BY <1>4, <1>5, <1>15 DEF EndSweep, AtSweepEnd, PlaceTypeOK, AtInstr
<1>16. CASE EndModule
  BY <1>4, <1>5, <1>16 DEF EndModule, AtSweepEnd, PlaceTypeOK, AtInstr
<1>17. CASE Finalize
  BY <1>5, <1>8, <1>17 DEF Finalize
<1>18. CASE Ended \/ UNCHANGED vars
  BY <1>1, <1>4, <1>18 DEF Ended, vars, driverVars, PlaceTypeOK, AtInstr, Instr
<1> QED
  BY <1>9, <1>10, <1>11, <1>12, <1>13, <1>14, <1>15, <1>16, <1>17, <1>18 DEF Next

LEMMA InitTypeOK == Init => TypeOK
<1> SUFFICES ASSUME Init PROVE TypeOK
  OBVIOUS
<1> USE DEF Init, DriverInit
<1>1. DriverTypeOK
  BY DriverInitTypes
<1>2. funcs \in LinkTables
  <2>1. funcs \in [{} -> Functions]
    OBVIOUS
  <2> QED
    BY <2>1 DEF LinkTables
<1>3. DataTypeOK
  BY <1>2 DEF DataTypeOK, FuncPtrMaps
<1>4. Len(prog.code[1]) \in Nat
  <2>1. prog \in ProgramTypes /\ 1 \in Modules
    BY ProgramAssumption DEF Modules
  <2> QED
    BY <2>1 DEF ProgramTypes
<1>5. PlaceTypeOK
  BY <1>4, ProgramAssumption DEF PlaceTypeOK
<1> QED
  BY <1>1, <1>3, <1>5 DEF TypeOK

LEMMA NextTypeOK == TypeOK /\ [Next]_vars => TypeOK'
BY DataTypes, DriverStep, PlaceTypes DEF TypeOK

(* Types, and the place in the nested loops of run, doModulePass and       *)
(* runOnFunction, for every program.                                       *)
THEOREM TypeCorrect == Spec => []TypeOK
BY InitTypeOK, NextTypeOK, PTL DEF Spec

-----------------------------------------------------------------------------
(* What recording a set does, seen from the flag: a clear flag means that  *)
(* nothing was new, so whatever held before still holds.                   *)
LEMMA MergeStep ==
  ASSUME TypeOK, NEW ids \in SUBSET Ids, NEW S \in SUBSET Functions, MergeFuncSet(ids, S)
  PROVE  /\ Below(ptrs, ptrs')
         /\ ~changed' => ~changed /\ ptrs' = ptrs /\ \A id \in ids : S \subseteq ptrs[id]
<1>1. ptrs \in FuncPtrMaps
  BY DEF TypeOK, DataTypeOK
<1>2. ~changed' => ~changed /\ \A id \in ids : S \subseteq ptrs[id]
  BY Zenon DEF MergeFuncSet
<1>3. ptrs' = Merge(ptrs, ids, S)
  BY DEF MergeFuncSet
<1> QED
  BY <1>1, <1>2, <1>3, MergeType

(* A step inside a sweep keeps what is known of the earlier instructions   *)
(* and modules if it adds nothing while the flag is clear.                 *)
LEMMA InsideSweep ==
  ASSUME FixpointInv,
         UNCHANGED <<phase, mod, updated, ret, prog, funcs>>,
         phase = "sweep",
         Below(ptrs, ptrs'), ptrs' \in FuncPtrMaps,
         ~changed' => ~changed /\ ptrs' = ptrs
  PROVE  /\ PassedModules'
         /\ InitsRecorded'
         /\ pos' = pos => PassedInstrs'
         /\ pos' = pos + 1 /\ (~changed' => Satisfied(funcs, ptrs, Instr)) => PassedInstrs'
         /\ (phase \in {"final", "done"} => Closed(funcs, ptrs, prog))'
<1>1. PassedModules'
  BY DEF FixpointInv, PassedModules
<1>2. InitsRecorded'
  <2>1. Below(Inits(prog, Modules), ptrs)
    BY DEF FixpointInv, InitsRecorded
  <2>2. Below(Inits(prog, Modules), ptrs')
    BY <2>1 DEF Below
  <2> QED
    BY <2>2 DEF InitsRecorded
<1>3. ASSUME pos' = pos PROVE PassedInstrs'
  BY <1>3 DEF FixpointInv, PassedInstrs
<1>4. ASSUME pos' = pos + 1, ~changed' => Satisfied(funcs, ptrs, Instr) PROVE PassedInstrs'
  <2> SUFFICES ASSUME ~changed', NEW i \in 1 .. pos' - 1
               PROVE  Satisfied(funcs, ptrs, prog.code[mod][i])
    BY DEF PassedInstrs
  <2>1. pos \in Nat
    BY ProgramAssumption DEF FixpointInv, TypeOK, PlaceTypeOK
  <2>2. i \in 1 .. pos - 1 \/ i = pos
    BY <1>4, <2>1
  <2>3. CASE i \in 1 .. pos - 1
    BY <2>3 DEF FixpointInv, PassedInstrs
  <2>4. CASE i = pos
    BY <1>4, <2>4 DEF Instr
  <2> QED
    BY <2>2, <2>3, <2>4
<1> QED
  BY <1>1, <1>2, <1>3, <1>4

LEMMA InitFixpointInv == Init => FixpointInv
<1> SUFFICES ASSUME Init PROVE FixpointInv
  OBVIOUS
<1>1. TypeOK
  BY InitTypeOK
<1>2. InitsRecorded
  BY DEF Init, DriverInit, InitsRecorded, Below, Inits
<1> QED
  BY <1>1, <1>2 DEF Init, DriverInit, FixpointInv, PassedInstrs, PassedArgs, PassedModules

LEMMA NextFixpointInv == FixpointInv /\ [Next]_vars => FixpointInv'
<1> SUFFICES ASSUME FixpointInv, [Next]_vars PROVE FixpointInv'
  OBVIOUS
<1>1. TypeOK /\ TypeOK'
  BY NextTypeOK DEF FixpointInv
<1>2. ptrs \in FuncPtrMaps /\ ptrs' \in FuncPtrMaps /\ fs \subseteq Functions
  BY <1>1 DEF TypeOK, DataTypeOK
<1>3. CASE Initialize
  <2>1. arg' = 0 /\ pos' = 1
    BY <1>1, <1>3 DEF Initialize, TypeOK, PlaceTypeOK, AtInstr
  <2>2. \/ phase' = "init" /\ mod' = mod + 1
        \/ phase' = "sweep" /\ mod' = 1 /\ mod = NumModules
    BY <1>1, <1>3 DEF Initialize, InitializedModule, EnterModule, TypeOK, DriverTypeOK, Modules
  <2>3. Inits(prog, 1 .. mod) = [id \in Ids |-> Inits(prog, 1 .. mod - 1)[id] \cup Inits(prog, {mod})[id]]
    <3>1. 1 .. mod = (1 .. mod - 1) \cup {mod}
      BY <1>1 DEF TypeOK, DriverTypeOK, Modules
    <3> QED
      BY <3>1 DEF Inits
  <2>4. Below(Inits(prog, 1 .. mod), ptrs') /\ Below(ptrs', Inits(prog, 1 .. mod))
    BY <1>3, <2>3 DEF Initialize, FixpointInv, InitsRecorded, Below
  <2>5. prog' = prog
    BY <1>3 DEF Initialize
  <2>6. CASE phase' = "init" /\ mod' = mod + 1
    <3>1. 1 .. mod' - 1 = 1 .. mod
      BY <1>1, <2>6 DEF TypeOK, DriverTypeOK, Modules
    <3> QED
      BY <1>1, <2>1, <2>4, <2>5, <2>6, <3>1
         DEF FixpointInv, InitsRecorded, PassedInstrs, PassedArgs, PassedModules
  <2>7. CASE phase' = "sweep" /\ mod' = 1 /\ mod = NumModules
    BY <1>1, <2>1, <2>4, <2>5, <2>7
       DEF FixpointInv, InitsRecorded, PassedInstrs, PassedArgs, PassedModules, Modules
  <2> QED
    BY <2>2, <2>6, <2>7
<1>4. CASE Assign
  <2>1. AtInstr({"store", "ret"}) /\ Target(Instr) \in Ids /\ Instr.val \in Values
    BY <1>1, <1>4, AssignType DEF Assign
  <2>2. /\ Below(ptrs, ptrs')
        /\ ~changed' => ~changed /\ ptrs' = ptrs /\ Found(Instr.val) \subseteq ptrs[Target(Instr)]
    BY <1>1, <1>4, <2>1, MergeStep, FoundType DEF Assign, TypeOK
  <2>3. UNCHANGED <<phase, mod, updated, ret, prog, funcs>> /\ arg' = 0 /\ pos' = pos + 1
    BY <1>4 DEF Assign, MergeFuncSet, NextInstr
  <2>4. ~changed' => Satisfied(funcs, ptrs, Instr)
    BY <2>1, <2>2 DEF Satisfied, AssignSatisfied, CallSatisfied, Found, AtInstr
  <2> QED
    BY <1>1, <1>2, <2>1, <2>2, <2>3, <2>4, InsideSweep DEF FixpointInv, PassedArgs, AtInstr
<1>5. CASE Skip
  <2>1. ~changed' => Satisfied(funcs, ptrs, Instr)
    <3>1. CASE AtInstr({"store"}) /\ Target(Instr) = NoId
      BY <3>1 DEF Satisfied, AssignSatisfied, CallSatisfied, AtInstr
    <3>2. CASE AtInstr({"call"}) /\ Instr.ignored
      BY <3>2 DEF Satisfied, AssignSatisfied, CallSatisfied, AtInstr
    <3>3. CASE AtInstr({"call"}) /\ Found(Instr.callee) = {}
      BY <3>3 DEF Satisfied, AssignSatisfied, CallSatisfied, ArgSatisfied, AtInstr, Found
    <3>4. CASE AtInstr({"call"}) /\ Instr.args = << >>
      <4>1. Len(Instr.args) = 0
        BY <3>4
      <4> QED
        BY <3>4, <4>1 DEF Satisfied, AssignSatisfied, CallSatisfied, AtInstr
    <3> QED
      BY <1>5, <3>1, <3>2, <3>3, <3>4 DEF Skip
  <2>2. UNCHANGED <<phase, mod, updated, ret, changed, prog, funcs, ptrs>> /\ arg' = 0 /\ pos' = pos + 1
    BY <1>5 DEF Skip, NextInstr, driverVars
  <2>3. phase = "sweep"
    BY <1>5 DEF Skip, AtInstr
  <2>4. Below(ptrs, ptrs')
    BY <2>2 DEF Below
  <2> QED
    BY <1>1, <1>2, <2>1, <2>2, <2>3, <2>4, InsideSweep DEF FixpointInv, PassedArgs
<1>6. CASE ResolveCallee
  <2>1. UNCHANGED <<phase, mod, updated, ret, changed, prog, funcs, ptrs, pos>> /\ arg' = 1
    BY <1>6 DEF ResolveCallee, driverVars
  <2>2. phase = "sweep" /\ ~Instr.ignored /\ fs' = Found(Instr.callee)
    BY <1>6 DEF ResolveCallee, AtInstr
  <2>3. PassedArgs'
    BY <2>1, <2>2 DEF PassedArgs, Found, Instr
  <2>4. Below(ptrs, ptrs')
    BY <2>1 DEF Below
  <2> QED
    BY <1>1, <1>2, <2>1, <2>2, <2>3, <2>4, InsideSweep DEF FixpointInv
<1>7. CASE PassArg
  <2>1. /\ AtInstr({"call"}) /\ arg # 0 /\ phase = "sweep" /\ Instr.op = "call"
        /\ UNCHANGED <<prog, funcs>>
    BY <1>7 DEF PassArg, AtInstr
  <2>2. arg \in 1 .. Len(Instr.args)
    BY <1>1, <2>1, CallType, ProgramAssumption DEF TypeOK, PlaceTypeOK
  <2>3. /\ Below(ptrs, ptrs')
        /\ ~changed' => /\ ~changed /\ ptrs' = ptrs
                        /\ ArgSatisfied(funcs, ptrs, fs, Instr, arg)
        /\ UNCHANGED <<phase, mod, updated, ret>>
    <3>1. CASE Instr.args[arg] = NoValue
      BY <1>7, <3>1 DEF PassArg, driverVars, ArgSatisfied, Below
    <3>2. CASE Instr.args[arg] # NoValue
      <4>1. Instr.args[arg] \in Values /\ { ArgId(k, arg) : k \in fs } \subseteq Ids
        <5>1. \A no \in 1 .. Len(Instr.args) :
                no \in 1 .. MaxArgs /\ (Instr.args[no] # NoValue => Instr.args[no] \in Values)
          BY <1>1, <2>1, CallType
        <5>2. arg \in 1 .. MaxArgs /\ Instr.args[arg] \in Values
          BY <2>2, <3>2, <5>1
        <5>3. \A k \in fs : ArgId(k, arg) \in Ids
          BY <1>2, <5>2, IdTypes
        <5> QED
          BY <5>2, <5>3
      <4>2. MergeFuncSet({ ArgId(k, arg) : k \in fs }, Found(Instr.args[arg]))
        BY <1>7, <3>2 DEF PassArg
      <4>3. /\ Below(ptrs, ptrs')
            /\ ~changed' => /\ ~changed /\ ptrs' = ptrs
                            /\ \A id \in { ArgId(k, arg) : k \in fs } : Found(Instr.args[arg]) \subseteq ptrs[id]
        BY <1>1, <4>1, <4>2, MergeStep, FoundType DEF TypeOK
      <4> QED
        BY <4>2, <4>3 DEF ArgSatisfied, Found, MergeFuncSet
    <3> QED
      BY <3>1, <3>2
  <2>4. /\ fs \subseteq Found(Instr.callee)
        /\ ~Instr.ignored
        /\ ~changed => /\ fs = Found(Instr.callee)
                       /\ \A no \in 1 .. arg - 1 : ArgSatisfied(funcs, ptrs, fs, Instr, no)
    BY <2>1 DEF FixpointInv, PassedArgs
  <2>5. ~changed' => \A no \in 1 .. arg : ArgSatisfied(funcs, ptrs, fs, Instr, no)
    BY <2>2, <2>3, <2>4
  <2>6. CASE arg < Len(Instr.args)
    <3>1. arg' = arg + 1 /\ pos' = pos /\ fs' = fs
      BY <1>7, <2>6 DEF PassArg, NextArg
    <3>2. Instr' = Instr
      BY <2>1, <2>3, <3>1 DEF Instr
    <3>3. Found(Instr.callee) \subseteq Found(Instr.callee)'
      BY <1>1, <1>2, <2>1, <2>3, <3>2, FindMonotone, CallType DEF Found
    <3>4. ~changed' => Found(Instr.callee)' = Found(Instr.callee)
      BY <2>1, <2>3, <3>2 DEF Found
    <3>5. 1 .. arg' - 1 = 1 .. arg
      BY <2>2, <3>1
    <3>6. ~changed' => \A no \in 1 .. arg' - 1 : ArgSatisfied(funcs, ptrs, fs, Instr, no)'
      BY <2>1, <2>3, <2>5, <3>1, <3>2, <3>5
    <3>7. PassedArgs'
      BY <2>3, <2>4, <3>1, <3>2, <3>3, <3>4, <3>6 DEF PassedArgs
    <3> QED
      BY <1>1, <1>2, <2>1, <2>3, <3>1, <3>7, InsideSweep DEF FixpointInv
  <2>7. CASE ~(arg < Len(Instr.args))
    <3>1. arg' = 0 /\ pos' = pos + 1
      BY <1>7, <2>7 DEF PassArg, NextArg, NextInstr
    <3>2. arg = Len(Instr.args)
      BY <1>1, <2>1, <2>2, <2>7, CallType, ProgramAssumption
    <3>3. ~changed' => Satisfied(funcs, ptrs, Instr)
      BY <2>1, <2>3, <2>4, <2>5, <3>2 DEF Satisfied, AssignSatisfied, CallSatisfied, Found
    <3> QED
      BY <1>1, <1>2, <2>1, <2>3, <3>1, <3>3, InsideSweep DEF FixpointInv, PassedArgs
  <2> QED
    BY <2>6, <2>7
<1>8. CASE GiveUp
  <2>1. phase' = "aborted" /\ UNCHANGED <<changed, prog, funcs, ptrs, pos, arg, fs, mod>>
    BY <1>8 DEF GiveUp, Abort
  <2>2. PassedArgs'
    BY <2>1 DEF FixpointInv, PassedArgs, Found, Instr
  <2> QED
    BY <1>1, <2>1, <2>2 DEF FixpointInv, PassedInstrs, PassedModules, InitsRecorded
<1>9. CASE EndSweep
  <2>1. /\ phase = "sweep" /\ phase' = "sweep" /\ changed' = FALSE /\ ret' = TRUE /\ pos' = 1
        /\ UNCHANGED <<prog, funcs, ptrs, arg, mod>>
    BY <1>9 DEF EndSweep, SweepAgain, AtSweepEnd
  <2>2. arg' = 0
    BY <1>1, <1>9, <2>1, ProgramAssumption DEF EndSweep, AtSweepEnd, AtInstr, TypeOK, PlaceTypeOK
  <2> QED
    BY <1>1, <2>1, <2>2 DEF FixpointInv, PassedInstrs, PassedArgs, PassedModules, InitsRecorded
<1>10. CASE EndModule
  <2>1. /\ phase = "sweep" /\ ~changed /\ ReturnFromModule /\ pos' = 1
        /\ UNCHANGED <<prog, funcs, ptrs, arg>>
    BY <1>10 DEF EndModule, ReturnFromModule, AtSweepEnd
  <2>2. arg' = 0 /\ pos - 1 = Len(prog.code[mod])
    <3>1. Len(prog.code[mod]) \in Nat
      BY <1>1, ProgramAssumption DEF TypeOK, DataTypeOK, DriverTypeOK, ProgramTypes
    <3> QED
      BY <1>1, <1>10, <2>1, <3>1, ProgramAssumption
         DEF EndModule, AtSweepEnd, AtInstr, TypeOK, PlaceTypeOK
  <2>3. ModuleSatisfied(funcs, ptrs, prog, mod)
    BY <2>1, <2>2 DEF FixpointInv, PassedInstrs, ModuleSatisfied
  <2>4. mod \in Nat /\ NumModules \in Nat
    BY <1>1 DEF TypeOK, DriverTypeOK, Modules
  <2>5. updated = 0 /\ ~ret => \A m \in 1 .. mod : ModuleSatisfied(funcs, ptrs, prog, m)
    BY <2>1, <2>3, <2>4 DEF FixpointInv, PassedModules
  <2>6. updated \in Nat /\ (Counted = 0 => updated = 0 /\ ~ret)
    BY <1>1, <2>4 DEF Counted, TypeOK, DriverTypeOK
  <2>7. Below(Inits(prog, Modules), ptrs')
    BY <2>1 DEF FixpointInv, InitsRecorded
  <2>8. CASE mod < NumModules /\ phase' = phase /\ mod' = mod + 1 /\ updated' = Counted
    <3>1. 1 .. mod' - 1 = 1 .. mod
      BY <2>4, <2>8
    <3>2. PassedModules'
      BY <2>1, <2>5, <2>6, <2>8, <3>1 DEF PassedModules, ModuleSatisfied
    <3>3. PassedInstrs' /\ PassedArgs' /\ InitsRecorded'
      BY <2>1, <2>2, <2>7, <2>8 DEF PassedInstrs, PassedArgs, InitsRecorded
    <3> QED
      BY <1>1, <2>1, <2>8, <3>2, <3>3 DEF FixpointInv
  <2>9. CASE mod = NumModules /\ mod' = 1 /\ phase' = "sweep"
    BY <1>1, <2>1, <2>2, <2>7, <2>9
       DEF FixpointInv, PassedInstrs, PassedArgs, PassedModules, InitsRecorded
  <2>10. CASE mod = NumModules /\ Counted = 0 /\ phase' = "final"
    <3>1. Closed(funcs, ptrs, prog)'
      BY <2>1, <2>5, <2>6, <2>10 DEF Closed, Modules, ModuleSatisfied
    <3> QED
      BY <1>1, <2>1, <2>2, <2>7, <2>10, <3>1
         DEF FixpointInv, PassedInstrs, PassedArgs, PassedModules, InitsRecorded
  <2>11. \/ mod < NumModules /\ phase' = phase /\ mod' = mod + 1 /\ updated' = Counted
         \/ mod = NumModules /\ mod' = 1 /\ phase' = "sweep"
         \/ mod = NumModules /\ Counted = 0 /\ phase' = "final"
    <3>1. Counted \in Nat
      BY <1>1, <2>4 DEF Counted, TypeOK, DriverTypeOK
    <3> QED
      BY <2>1, <3>1 DEF ReturnFromModule, EnterModule
  <2> QED
    BY <2>8, <2>9, <2>10, <2>11
<1>11. CASE Finalize
  <2>1. /\ phase = "final" /\ phase' \in {"final", "done"}
        /\ UNCHANGED <<prog, funcs, ptrs, pos, arg, fs>>
    BY <1>11 DEF Finalize, FinalizedModule
  <2>2. arg' = 0
    BY <1>1, <2>1 DEF TypeOK, PlaceTypeOK, AtInstr
  <2>3. Closed(funcs, ptrs, prog)'
    BY <2>1 DEF FixpointInv
  <2>4. InitsRecorded'
    BY <2>1 DEF FixpointInv, InitsRecorded
  <2> QED
    BY <1>1, <2>1, <2>2, <2>3, <2>4 DEF FixpointInv, PassedInstrs, PassedArgs, PassedModules
<1>12. CASE Ended \/ UNCHANGED vars
  <2>1. UNCHANGED vars
    BY <1>12 DEF Ended
  <2> QED
    BY <1>1, <2>1 DEF vars, driverVars, FixpointInv, PassedInstrs, PassedArgs, PassedModules,
       InitsRecorded, Found, Instr
<1> QED
  BY <1>3, <1>4, <1>5, <1>6, <1>7, <1>8, <1>9, <1>10, <1>11, <1>12 DEF Next

(* When run() leaves its loop, every instruction of every module is        *)
(* satisfied: the flags Changed, ret and changed miss nothing, whatever    *)
(* the modules record for one another.                                     *)
THEOREM FixpointReached == Spec => []Fixpoint
<1>1. FixpointInv => Fixpoint
  BY DEF FixpointInv, InitsRecorded, Fixpoint, Solution
<1> QED
  BY <1>1, InitFixpointInv, NextFixpointInv, PTL DEF Spec

-----------------------------------------------------------------------------
(* Why it may leave it: at every moment each instruction passed since the  *)
(* flags were cleared is satisfied, each argument of the call at hand, and *)
(* each module of the round (doModulePass, runOnFunction).                 *)
THEOREM InvAlways == Spec => []FixpointInv
BY InitFixpointInv, NextFixpointInv, PTL DEF Spec

-----------------------------------------------------------------------------
(* Callees are computed once per call, by the finalization of its module.  *)
FinalizedBefore == phase = "final" => \A c \in DOMAIN callees : c[1] \in 1 .. mod - 1

CalleesInv == FinalizedBefore /\ (phase \in {"init", "sweep"} => DOMAIN callees = {})

LEMMA NextCalleesInv == FixpointInv /\ CalleesInv /\ [Next]_vars => CalleesInv'
<1> SUFFICES ASSUME FixpointInv, CalleesInv, [Next]_vars PROVE CalleesInv'
  OBVIOUS
<1>1. mod \in Modules
  BY DEF FixpointInv, TypeOK, DriverTypeOK
<1>2. ASSUME UNCHANGED <<phase, mod, callees>> PROVE CalleesInv'
  BY <1>2 DEF CalleesInv, FinalizedBefore
<1>3. CASE Initialize
  BY <1>3 DEF Initialize, InitializedModule, CalleesInv, FinalizedBefore
<1>4. CASE Assign \/ Skip \/ ResolveCallee \/ PassArg
  BY <1>2, <1>4, Zenon DEF Assign, Skip, ResolveCallee, PassArg, MergeFuncSet, driverVars
<1>5. CASE EndSweep
  BY <1>2, <1>5 DEF EndSweep, SweepAgain
<1>6. CASE EndModule
  BY <1>6 DEF EndModule, AtSweepEnd, ReturnFromModule, CalleesInv, FinalizedBefore
<1>7. CASE GiveUp
  BY <1>7 DEF GiveUp, Abort, CalleesInv, FinalizedBefore
<1>8. CASE Finalize
  <2>1. DOMAIN callees' = CallSites(mod) \cup DOMAIN callees
    BY <1>8 DEF Finalize, Over
  <2>2. \A c \in CallSites(mod) : c[1] = mod
    BY DEF CallSites
  <2>3. \A c \in DOMAIN callees' : c[1] \in 1 .. mod
    BY <1>1, <1>8, <2>1, <2>2 DEF Finalize, CalleesInv, FinalizedBefore, Modules
  <2>4. phase' = "done" \/ (phase' = "final" /\ mod' = mod + 1)
    BY <1>8 DEF Finalize, FinalizedModule, EnterModule
  <2> QED
    BY <1>1, <2>3, <2>4 DEF CalleesInv, FinalizedBefore, Modules
<1>9. CASE Ended \/ UNCHANGED vars
  BY <1>2, <1>9 DEF Ended, vars, driverVars
<1> QED
  BY <1>3, <1>4, <1>5, <1>6, <1>7, <1>8, <1>9 DEF Next

LEMMA NextKeeps ==
  FixpointInv /\ CalleesInv /\ [Next]_vars =>
    /\ Below(ptrs, ptrs')
    /\ DOMAIN funcs \subseteq DOMAIN funcs'
    /\ \A c \in DOMAIN callees : c \in DOMAIN callees' /\ callees'[c] = callees[c]
<1> SUFFICES ASSUME FixpointInv, CalleesInv, [Next]_vars
             PROVE  /\ Below(ptrs, ptrs')
                    /\ DOMAIN funcs \subseteq DOMAIN funcs'
                    /\ \A c \in DOMAIN callees : c \in DOMAIN callees' /\ callees'[c] = callees[c]
  OBVIOUS
<1>1. TypeOK /\ ptrs \in FuncPtrMaps /\ fs \subseteq Functions
  BY DEF FixpointInv, TypeOK, DataTypeOK
<1>2. CASE Initialize
  <2>1. Below(ptrs, ptrs')
    BY <1>2 DEF Initialize, Below
  <2>2. DOMAIN funcs \subseteq DOMAIN funcs'
    BY <1>2 DEF Initialize, Over
  <2> QED
    BY <1>2, <2>1, <2>2 DEF Initialize
<1>3. CASE Assign
  <2>1. Target(Instr) \in Ids /\ Found(Instr.val) \subseteq Functions
    BY <1>1, <1>3, AssignType, FoundType DEF Assign, TypeOK
  <2>2. ptrs' = Merge(ptrs, {Target(Instr)}, Found(Instr.val)) /\ UNCHANGED <<funcs, callees>>
    BY <1>3 DEF Assign, MergeFuncSet
  <2> QED
    BY <1>1, <2>1, <2>2, MergeType
<1>4. ASSUME UNCHANGED <<ptrs, funcs, callees>>
      PROVE  /\ Below(ptrs, ptrs')
             /\ DOMAIN funcs \subseteq DOMAIN funcs'
             /\ \A c \in DOMAIN callees : c \in DOMAIN callees' /\ callees'[c] = callees[c]
  BY <1>4 DEF Below
<1>5. CASE PassArg
  <2>1. CASE Instr.args[arg] = NoValue
    BY <1>4, <1>5, <2>1 DEF PassArg
  <2>2. CASE Instr.args[arg] # NoValue
    <3>1. arg \in 1 .. Len(Instr.args) /\ arg \in 1 .. MaxArgs
      BY <1>1, <1>5, CallType, ProgramAssumption DEF PassArg, TypeOK, PlaceTypeOK, AtInstr
    <3>2. Found(Instr.args[arg]) \subseteq Functions
      BY <1>1, <1>5, <2>2, <3>1, CallType, FoundType DEF PassArg, TypeOK
    <3>3. { ArgId(k, arg) : k \in fs } \subseteq Ids
      BY <1>1, <3>1, IdTypes
    <3>4. ptrs' = Merge(ptrs, { ArgId(k, arg) : k \in fs }, Found(Instr.args[arg]))
          /\ UNCHANGED <<funcs, callees>>
      BY <1>5, <2>2 DEF PassArg, MergeFuncSet
    <3> QED
      BY <1>1, <3>2, <3>3, <3>4, MergeType
  <2> QED
    BY <2>1, <2>2
<1>6. CASE Finalize
  <2>1. callees' = Over([c \in CallSites(mod) |-> Found(Callee(c))], callees)
        /\ UNCHANGED <<ptrs, funcs>> /\ phase = "final"
    BY <1>6 DEF Finalize
  <2>2. \A c \in DOMAIN callees : c \notin CallSites(mod)
    <3>1. \A c \in CallSites(mod) : c[1] = mod
      BY DEF CallSites
    <3>2. mod \in Nat /\ \A c \in DOMAIN callees : c[1] \in 1 .. mod - 1
      BY <1>1, <2>1 DEF CalleesInv, FinalizedBefore, TypeOK, DriverTypeOK, Modules
    <3> QED
      BY <3>1, <3>2
  <2> QED
    BY <2>1, <2>2 DEF Below, Over
<1>7. CASE Skip \/ ResolveCallee \/ GiveUp \/ EndSweep \/ EndModule \/ Ended \/ UNCHANGED vars
  BY <1>4, <1>7 DEF Skip, ResolveCallee, GiveUp, EndSweep, EndModule, Ended, vars
<1> QED
  BY <1>2, <1>3, <1>5, <1>6, <1>7 DEF Next

(* No step forgets a function recorded under a name, a definition by name, *)
(* or the callees of a call: the finalization of a module computes the     *)
(* callees of its own calls and leaves those of earlier modules.           *)
THEOREM NothingForgotten == Spec => Monotone
<1>1. Init => CalleesInv
  BY DEF Init, DriverInit, CalleesInv, FinalizedBefore
<1>2. FixpointInv /\ CalleesInv /\ [Next]_vars
        => [ /\ Below(ptrs, ptrs')
             /\ DOMAIN funcs \subseteq DOMAIN funcs'
             /\ \A c \in DOMAIN callees : c \in DOMAIN callees' /\ callees'[c] = callees[c] ]_vars
  BY NextKeeps
<1> QED
  BY <1>1, <1>2, InvAlways, NextCalleesInv, PTL DEF Spec, Monotone

-----------------------------------------------------------------------------
(* A step of a sweep that records S under ids stays below a solution that  *)
(* holds S under ids.                                                      *)
LEMMA MergeBelow ==
  ASSUME NEW map \in FuncPtrMaps, NEW sol \in FuncPtrMaps, Below(map, sol),
         NEW ids \in SUBSET Ids, NEW S, \A id \in ids : S \subseteq sol[id]
  PROVE  Below(Merge(map, ids, S), sol)
BY DEF Below, Merge

LEMMA NextLeast == FixpointInv /\ FixpointInv' /\ Least /\ [Next]_vars => Least'
<1> SUFFICES ASSUME FixpointInv, FixpointInv', Least, [Next]_vars,
                    phase' \notin {"init", "aborted"},
                    NEW sol \in FuncPtrMaps, Solution(funcs', sol, prog')
             PROVE  Below(ptrs', sol)
  BY DEF Least
<1>1. TypeOK /\ ptrs \in FuncPtrMaps /\ fs \subseteq Functions
  BY DEF FixpointInv, TypeOK, DataTypeOK
<1>2. prog' = prog
  BY DEF Next, Initialize, Assign, Skip, ResolveCallee, PassArg, GiveUp, EndSweep,
         EndModule, Finalize, Ended, vars
<1>3. CASE Initialize
  <2>1. mod = NumModules
    BY <1>3 DEF Initialize, InitializedModule, FixpointInv, TypeOK, DriverTypeOK, Modules
  <2>2. Below(ptrs', Inits(prog, Modules))
    <3>1. Modules = (1 .. mod - 1) \cup {mod}
      BY <1>1, <2>1 DEF TypeOK, DriverTypeOK, Modules
    <3> QED
      BY <1>3, <3>1 DEF Initialize, FixpointInv, InitsRecorded, Below, Inits
  <2> QED
    BY <1>2, <2>2 DEF Solution, Below
<1>4. ASSUME phase = "sweep", UNCHANGED funcs
      PROVE  Below(ptrs, sol) /\ Closed(funcs, sol, prog)
  BY <1>2, <1>4 DEF Least, Solution
<1>5. CASE Assign
  <2>1. AtInstr({"store", "ret"}) /\ Target(Instr) \in Ids /\ Instr.val \in Values
    BY <1>1, <1>5, AssignType DEF Assign
  <2>2. Below(ptrs, sol) /\ Closed(funcs, sol, prog)
    BY <1>4, <1>5 DEF Assign, AtInstr
  <2>3. Find(funcs, sol, Instr.val) \subseteq sol[Target(Instr)]
    <3>1. mod \in Modules /\ pos \in 1 .. Len(prog.code[mod])
      BY <1>1, <2>1 DEF AtInstr, TypeOK, DriverTypeOK, PlaceTypeOK
    <3>2. Satisfied(funcs, sol, Instr)
      BY <2>2, <3>1 DEF Closed, ModuleSatisfied, Instr
    <3> QED
      BY <1>5, <2>1, <3>2 DEF Satisfied, AssignSatisfied, AtInstr, Assign
  <2>4. Found(Instr.val) \subseteq sol[Target(Instr)]
    BY <1>1, <2>1, <2>2, <2>3, FindMonotone DEF Found
  <2>5. ptrs' = Merge(ptrs, {Target(Instr)}, Found(Instr.val))
    BY <1>5 DEF Assign, MergeFuncSet
  <2> QED
    BY <1>1, <2>1, <2>2, <2>4, <2>5, MergeBelow
<1>6. CASE PassArg
  <2>1. AtInstr({"call"}) /\ arg # 0 /\ phase = "sweep" /\ Instr.op = "call" /\ UNCHANGED funcs
    BY <1>6 DEF PassArg, AtInstr
  <2>2. Below(ptrs, sol) /\ Closed(funcs, sol, prog)
    BY <1>4, <2>1
  <2>3. arg \in 1 .. Len(Instr.args) /\ arg \in 1 .. MaxArgs
    BY <1>1, <2>1, CallType, ProgramAssumption DEF TypeOK, PlaceTypeOK
  <2>4. CASE Instr.args[arg] = NoValue
    BY <1>6, <2>2, <2>4 DEF PassArg
  <2>5. CASE Instr.args[arg] # NoValue
    <3>1. Instr.args[arg] \in Values /\ Instr.callee \in Values
      BY <1>1, <2>1, <2>3, <2>5, CallType
    <3>2. fs \subseteq Find(funcs, sol, Instr.callee)
      BY <1>1, <2>1, <2>2, <3>1, FindMonotone DEF FixpointInv, PassedArgs, Found
    <3>3. \A k \in fs : Find(funcs, sol, Instr.args[arg]) \subseteq sol[ArgId(k, arg)]
      <4>1. mod \in Modules /\ pos \in 1 .. Len(prog.code[mod])
        BY <1>1, <2>1 DEF AtInstr, TypeOK, DriverTypeOK, PlaceTypeOK
      <4>2. Satisfied(funcs, sol, Instr) /\ ~Instr.ignored
        BY <2>1, <2>2, <4>1 DEF Closed, ModuleSatisfied, Instr, FixpointInv, PassedArgs
      <4> QED
        BY <2>1, <2>3, <2>5, <3>2, <4>2 DEF Satisfied, CallSatisfied, ArgSatisfied
    <3>4. \A k \in fs : Found(Instr.args[arg]) \subseteq sol[ArgId(k, arg)]
      BY <1>1, <2>2, <3>1, <3>3, FindMonotone DEF Found
    <3>5. { ArgId(k, arg) : k \in fs } \subseteq Ids
      BY <1>1, <2>3, IdTypes
    <3>6. ptrs' = Merge(ptrs, { ArgId(k, arg) : k \in fs }, Found(Instr.args[arg]))
      BY <1>6, <2>5 DEF PassArg, MergeFuncSet
    <3> QED
      BY <1>1, <2>2, <3>4, <3>5, <3>6, MergeBelow
  <2> QED
    BY <2>4, <2>5
<1>7. ASSUME UNCHANGED <<funcs, ptrs>>, phase \notin {"init", "aborted"} PROVE Below(ptrs', sol)
  BY <1>2, <1>7 DEF Least
<1>8. CASE Skip \/ ResolveCallee \/ EndSweep \/ EndModule
  BY <1>7, <1>8 DEF Skip, ResolveCallee, EndSweep, EndModule, AtInstr, AtSweepEnd
<1>9. CASE GiveUp
  BY <1>9 DEF GiveUp, Abort
<1>10. CASE Finalize
  BY <1>7, <1>10 DEF Finalize
<1>11. CASE Ended \/ UNCHANGED vars
  BY <1>7, <1>11 DEF Ended, vars, driverVars
<1> QED
  BY <1>3, <1>5, <1>6, <1>8, <1>9, <1>10, <1>11 DEF Next

(* FuncPtrs never holds a function that some solution does not: with       *)
(* FixpointReached, the result is the least solution, and so the same for  *)
(* every order of the modules on the command line and of the instructions. *)
THEOREM LeastSolution == Spec => []Least
<1>1. Init => Least
  BY DEF Init, DriverInit, Least
<1> QED
  BY <1>1, InvAlways, NextLeast, PTL DEF Spec

-----------------------------------------------------------------------------
(* The definitions Saturation shares with CallGraph through FuncPtrs are   *)
(* the same in both.                                                       *)
LEMMA SameIds ==
  /\ Abstract!Ids = Ids
  /\ \A f \in Functions : \A no : Abstract!ArgId(f, no) = ArgId(f, no)
  /\ \A ins : Abstract!Target(ins) = Target(ins)
BY DEF Abstract!Ids, Ids, Abstract!ArgId, ArgId, Abstract!RetId, RetId, Abstract!MemId, MemId,
       Abstract!Scope, Scope, Abstract!Target, Target

LEMMA SameFind ==
  /\ Abstract!Visited = Visited
  /\ \A links, map, v : Abstract!Find(links, map, v) = Find(links, map, v)
<1>1. Abstract!Visited = Visited
  BY DEF Abstract!Visited, Visited, Abstract!JoinsFrom, JoinsFrom, Abstract!Joins, Joins,
         Abstract!LeadsNoFurther, LeadsNoFurther
<1>2. \A links, f : Abstract!Resolve(links, f) = Resolve(links, f)
  BY DEF Abstract!Resolve, Resolve
<1> QED
  BY <1>1, <1>2 DEF Abstract!Find, Find

LEMMA SameSolutions ==
  /\ Abstract!Modules = Modules
  /\ \A p, M : Abstract!Inits(p, M) = Inits(p, M)
  /\ \A low, high : Abstract!Below(low, high) = Below(low, high)
  /\ \A links, map, p : Abstract!Closed(links, map, p) = Closed(links, map, p)
<1>1. Abstract!Modules = Modules
  BY DEF Abstract!Modules, Modules
<1>2. \A p, M : Abstract!Inits(p, M) = Inits(p, M)
  BY SameIds DEF Abstract!Inits, Inits
<1>3. \A low, high : Abstract!Below(low, high) = Below(low, high)
  BY SameIds DEF Abstract!Below, Below
<1>4. ASSUME NEW links, NEW map, NEW ins
      PROVE  Abstract!Satisfied(links, map, ins) = Satisfied(links, map, ins)
  <2>1. \A k, no : Abstract!ArgId(k, no) = ArgId(k, no)
    BY DEF Abstract!ArgId, ArgId, Abstract!Scope, Scope
  <2>2. Abstract!AssignSatisfied(links, map, ins) = AssignSatisfied(links, map, ins)
    BY SameIds, SameFind DEF Abstract!AssignSatisfied, AssignSatisfied
  <2>3. Abstract!CallSatisfied(links, map, ins) = CallSatisfied(links, map, ins)
    BY <2>1, SameFind DEF Abstract!CallSatisfied, CallSatisfied, Abstract!ArgSatisfied, ArgSatisfied
  <2> QED
    BY <2>2, <2>3 DEF Abstract!Satisfied, Satisfied
<1>5. \A links, map, p : Abstract!Closed(links, map, p) = Closed(links, map, p)
  BY <1>1, <1>4 DEF Abstract!Closed, Closed, Abstract!ModuleSatisfied, ModuleSatisfied
<1> QED
  BY <1>1, <1>2, <1>3, <1>5

(* Recording S under ids is a Derive step if each function of S is called  *)
(* for under each of ids.                                                  *)
LEMMA MergeDerives ==
  ASSUME TypeOK, NEW ids \in SUBSET Ids, NEW S \in SUBSET Functions,
         ptrs' = Merge(ptrs, ids, S), UNCHANGED <<prog, funcs, Status>>,
         Status = "solving",
         \A id \in ids : S \subseteq Abstract!Derivable(funcs, ptrs, prog)[id]
  PROVE  Abstract!Derive
<1>1. Below(ptrs, ptrs')
  BY MergeType DEF TypeOK, DataTypeOK
<1>2. \A id \in Ids : ptrs'[id] \subseteq ptrs[id] \cup Abstract!Derivable(funcs, ptrs, prog)[id]
  BY DEF Merge
<1> QED
  BY <1>1, <1>2, SameIds, SameSolutions DEF Abstract!Derive, Abstract!Between

LEMMA NextSaturates ==
  FixpointInv /\ FixpointInv' /\ [Next]_vars => [Abstract!Next]_(Abstract!saturationVars)
<1> SUFFICES ASSUME FixpointInv, FixpointInv', [Next]_vars
             PROVE  Abstract!Next \/ UNCHANGED Abstract!saturationVars
  OBVIOUS
<1> USE DEF Abstract!Next
<1>1. TypeOK /\ TypeOK' /\ ptrs \in FuncPtrMaps /\ ptrs' \in FuncPtrMaps /\ funcs' \in LinkTables
  BY DEF FixpointInv, TypeOK, DataTypeOK
<1>2. ASSUME UNCHANGED <<prog, funcs, ptrs>>, Status' = Status PROVE UNCHANGED Abstract!saturationVars
  BY <1>2 DEF Abstract!saturationVars
<1>3. ASSUME UNCHANGED phase PROVE Status' = Status
  BY <1>3 DEF Status
<1>4. CASE Initialize
  <2>1. Status = "seeding" /\ prog' = prog /\ Status' \in {"seeding", "solving"}
    BY <1>4 DEF Initialize, Status, InitializedModule
  <2>2. /\ Below(ptrs, ptrs')
        /\ \A id \in Ids : ptrs'[id] \subseteq ptrs[id] \cup Inits(prog, Modules)[id]
    <3>1. mod \in Modules
      BY <1>1 DEF TypeOK, DriverTypeOK
    <3> QED
      BY <1>4, <3>1 DEF Initialize, Below, Inits
  <2>3. Status' = "solving" => Below(Inits(prog, Modules), ptrs')
    <3>1. phase' \in {"init", "sweep"}
      BY <1>4 DEF Initialize, InitializedModule
    <3> QED
      BY <2>1, <3>1 DEF FixpointInv, InitsRecorded, Status
  <2>4. funcs' \in Abstract!LinkTables
    BY <1>1 DEF LinkTables, Abstract!LinkTables
  <2>5. Abstract!Seed
    BY <2>1, <2>2, <2>3, <2>4, SameIds, SameSolutions DEF Abstract!Seed, Abstract!Between
  <2> QED
    BY <2>5
<1>5. CASE Assign
  <2>1. AtInstr({"store", "ret"}) /\ Target(Instr) \in Ids /\ Instr.val \in Values
    BY <1>1, <1>5, AssignType DEF Assign
  <2>2. ptrs' = Merge(ptrs, {Target(Instr)}, Found(Instr.val)) /\ UNCHANGED <<prog, funcs, phase>>
    BY <1>5 DEF Assign, MergeFuncSet
  <2>3. Found(Instr.val) \subseteq Functions
    BY <1>1, <2>1, FoundType DEF TypeOK
  <2>4. mod \in Modules /\ pos \in 1 .. Len(prog.code[mod]) /\ Instr.op \in {"store", "ret"}
    BY <1>1, <2>1 DEF AtInstr, TypeOK, DriverTypeOK, PlaceTypeOK
  <2>5. Found(Instr.val) \subseteq Abstract!Derivable(funcs, ptrs, prog)[Target(Instr)]
    BY <2>1, <2>3, <2>4, SameIds, SameFind, SameSolutions DEF Abstract!Derivable, Instr, Found
  <2>6. Status = "solving"
    BY <2>1 DEF AtInstr, Status
  <2>7. Abstract!Derive
    BY <1>1, <1>3, <2>1, <2>2, <2>3, <2>5, <2>6, MergeDerives
  <2> QED
    BY <2>7
<1>6. CASE PassArg
  <2>1. AtInstr({"call"}) /\ arg # 0 /\ phase = "sweep" /\ Instr.op = "call" /\ UNCHANGED <<prog, funcs>>
    BY <1>6 DEF PassArg, AtInstr
  <2>2. arg \in 1 .. Len(Instr.args) /\ arg \in 1 .. MaxArgs
    BY <1>1, <2>1, CallType, ProgramAssumption DEF TypeOK, PlaceTypeOK
  <2>3. UNCHANGED phase
    BY <1>6 DEF PassArg, MergeFuncSet, driverVars
  <2>4. CASE Instr.args[arg] = NoValue
    BY <1>2, <1>3, <1>6, <2>1, <2>3, <2>4 DEF PassArg
  <2>5. CASE Instr.args[arg] # NoValue
    <3>1. Instr.args[arg] \in Values
      BY <1>1, <2>1, <2>2, <2>5, CallType
    <3>2. Found(Instr.args[arg]) \subseteq Functions /\ fs \subseteq Functions
      BY <1>1, <3>1, FoundType DEF TypeOK, DataTypeOK
    <3>3. { ArgId(k, arg) : k \in fs } \subseteq Ids
      BY <2>2, <3>2, IdTypes
    <3>4. mod \in Modules /\ pos \in 1 .. Len(prog.code[mod])
      BY <1>1, <2>1 DEF AtInstr, TypeOK, DriverTypeOK, PlaceTypeOK
    <3>5. fs \subseteq Find(funcs, ptrs, Instr.callee) /\ ~Instr.ignored
      BY <2>1 DEF FixpointInv, PassedArgs, Found
    <3>6. ASSUME NEW k \in fs
          PROVE  Found(Instr.args[arg]) \subseteq Abstract!Derivable(funcs, ptrs, prog)[ArgId(k, arg)]
      <4>1. ArgId(k, arg) \in Abstract!Ids /\ Abstract!ArgId(k, arg) = ArgId(k, arg)
        BY <3>2, <3>3, SameIds
      <4> SUFFICES ASSUME NEW f \in Found(Instr.args[arg])
                   PROVE  f \in Abstract!Derivable(funcs, ptrs, prog)[ArgId(k, arg)]
        OBVIOUS
      <4>2. f \in Functions /\ f \in Abstract!Find(funcs, ptrs, Instr.args[arg])
        BY <3>2, SameFind DEF Found
      <4>3. k \in Abstract!Find(funcs, ptrs, Instr.callee)
        BY <3>5, SameFind
      <4> QED
        BY <2>1, <2>2, <2>5, <3>4, <3>5, <4>1, <4>2, <4>3, SameSolutions DEF Abstract!Derivable, Instr
    <3>7. ptrs' = Merge(ptrs, { ArgId(k, arg) : k \in fs }, Found(Instr.args[arg]))
      BY <1>6, <2>5 DEF PassArg, MergeFuncSet
    <3>8. Status = "solving"
      BY <2>1 DEF AtInstr, Status
    <3>9. Abstract!Derive
      BY <1>1, <1>3, <2>1, <2>3, <3>2, <3>3, <3>6, <3>7, <3>8, MergeDerives
    <3> QED
      BY <3>9
  <2> QED
    BY <2>4, <2>5
<1>7. CASE Skip \/ ResolveCallee
  BY <1>2, <1>3, <1>7 DEF Skip, ResolveCallee, driverVars
<1>8. CASE GiveUp
  <2>1. Abstract!Fail
    BY <1>8 DEF GiveUp, Abort, Abstract!Fail, Status
  <2> QED
    BY <2>1
<1>9. CASE EndSweep
  BY <1>2, <1>3, <1>9 DEF EndSweep, SweepAgain
<1>10. CASE EndModule
  <2>1. phase = "sweep" /\ phase' \in {"sweep", "final"} /\ UNCHANGED <<prog, funcs, ptrs>>
    BY <1>10 DEF EndModule, AtSweepEnd, ReturnFromModule
  <2>2. CASE phase' = "sweep"
    BY <1>2, <1>3, <2>1, <2>2
  <2>3. CASE phase' = "final"
    <3>1. Closed(funcs, ptrs, prog)
      BY <2>1, <2>3 DEF FixpointInv
    <3>2. Abstract!Finish
      BY <2>1, <2>3, <3>1, SameSolutions DEF Abstract!Finish, Status
    <3> QED
      BY <3>2
  <2> QED
    BY <2>1, <2>2, <2>3
<1>11. CASE Finalize
  <2>1. phase = "final" /\ phase' \in {"final", "done"} /\ UNCHANGED <<prog, funcs, ptrs>>
    BY <1>11 DEF Finalize, FinalizedModule
  <2> QED
    BY <1>2, <2>1 DEF Status
<1>12. CASE Ended \/ UNCHANGED vars
  BY <1>2, <1>3, <1>12 DEF Ended, vars, driverVars
<1> QED
  BY <1>4, <1>5, <1>6, <1>7, <1>8, <1>9, <1>10, <1>11, <1>12 DEF Next

(* The pass implements Saturation: a function enters FuncPtrs only when an *)
(* instruction calls for it, and callees are computed only from a map that *)
(* satisfies all instructions.                                             *)
THEOREM Saturating == Spec => Saturates
<1>1. Init => Abstract!Init
  BY SameIds DEF Init, DriverInit, Abstract!Init, Status
<1> QED
  BY <1>1, InvAlways, NextSaturates, PTL DEF Spec, Saturates, Abstract!Spec

-----------------------------------------------------------------------------
(* Names and symbols.  In programs that link, two functions have one scope *)
(* exactly if they are one symbol.                                         *)
LEMMA ScopeSymbol ==
  ASSUME Linkable, NEW f \in Functions, NEW g \in Functions
  PROVE  Scope(f) = Scope(g) <=> Symbol(f) = Symbol(g)
<1>1. f.linkage \in {"external", "internal"} /\ g.linkage \in {"external", "internal"}
  BY DEF Linkable
<1>2. f.mod \in Modules /\ g.mod \in Modules
  BY ProgramAssumption
<1>3. Stem[f.mod] = Stem[g.mod] <=> f.mod = g.mod
  BY <1>2 DEF Linkable
<1>4. CASE f.linkage = "external" /\ g.linkage = "external"
  BY <1>4 DEF Scope, Symbol
<1>5. CASE f.linkage = "internal" /\ g.linkage = "internal"
  BY <1>3, <1>5 DEF Scope, Symbol
<1>6. CASE f.linkage # g.linkage
  <2>1. \A a, b, c : <<a>> # <<b, c>>
    OBVIOUS
  <2> QED
    BY <1>1, <1>6, <2>1 DEF Scope, Symbol
<1> QED
  BY <1>1, <1>4, <1>5, <1>6

(* So names and places correspond one to one.                              *)
IsArg(id, pl) == \E f \in Functions, no \in 1 .. MaxArgs : id = ArgId(f, no) /\ pl = ArgOf(f, no)
IsRet(id, pl) == \E f \in Functions : id = RetId(f) /\ pl = RetOf(f)
IsMem(id, pl) == \E x \in Mems : id = MemId(x) /\ pl = MemId(x)

LEMMA Shapes ==
  ASSUME NEW a, NEW b, NEW c, NEW d, NEW e, NEW g
  PROVE  /\ <<"arg", a, b>> # <<"ret", c>> /\ <<"arg", a, b>> # <<"mem", c>> /\ <<"ret", a>> # <<"mem", c>>
         /\ <<"arg", a, b>> = <<"arg", d, e>> <=> a = d /\ b = e
         /\ <<"ret", a>> = <<"ret", d>> <=> a = d
OBVIOUS

LEMMA PlaceUnique ==
  ASSUME Linkable, NEW id, NEW pl, NEW id2, NEW pl2, StandsFor(id, pl), StandsFor(id2, pl2)
  PROVE  id = id2 <=> pl = pl2
<1>1. IsArg(id, pl) \/ IsRet(id, pl) \/ IsMem(id, pl)
  BY DEF StandsFor, IsArg, IsRet, IsMem
<1>2. IsArg(id2, pl2) \/ IsRet(id2, pl2) \/ IsMem(id2, pl2)
  BY DEF StandsFor, IsArg, IsRet, IsMem
<1>3. CASE IsArg(id, pl) /\ IsArg(id2, pl2)
  <2>1. PICK f \in Functions, no \in 1 .. MaxArgs : id = ArgId(f, no) /\ pl = ArgOf(f, no)
    BY <1>3 DEF IsArg
  <2>2. PICK g \in Functions, k \in 1 .. MaxArgs : id2 = ArgId(g, k) /\ pl2 = ArgOf(g, k)
    BY <1>3 DEF IsArg
  <2>3. id = id2 <=> Scope(f) = Scope(g) /\ no = k
    BY <2>1, <2>2, Shapes DEF ArgId
  <2>4. pl = pl2 <=> Symbol(f) = Symbol(g) /\ no = k
    BY <2>1, <2>2, Shapes DEF ArgOf
  <2> QED
    BY <2>3, <2>4, ScopeSymbol
<1>4. CASE IsRet(id, pl) /\ IsRet(id2, pl2)
  <2>1. PICK f \in Functions : id = RetId(f) /\ pl = RetOf(f)
    BY <1>4 DEF IsRet
  <2>2. PICK g \in Functions : id2 = RetId(g) /\ pl2 = RetOf(g)
    BY <1>4 DEF IsRet
  <2>3. id = id2 <=> Scope(f) = Scope(g)
    BY <2>1, <2>2, Shapes DEF RetId
  <2>4. pl = pl2 <=> Symbol(f) = Symbol(g)
    BY <2>1, <2>2, Shapes DEF RetOf
  <2> QED
    BY <2>3, <2>4, ScopeSymbol
<1>5. CASE IsMem(id, pl) /\ IsMem(id2, pl2)
  BY <1>5 DEF IsMem
<1>6. CASE IsArg(id, pl) /\ (IsRet(id2, pl2) \/ IsMem(id2, pl2))
  BY <1>6, Shapes DEF IsArg, IsRet, IsMem, ArgId, ArgOf, RetId, RetOf, MemId
<1>7. CASE IsRet(id, pl) /\ (IsArg(id2, pl2) \/ IsMem(id2, pl2))
  BY <1>7, Shapes DEF IsArg, IsRet, IsMem, ArgId, ArgOf, RetId, RetOf, MemId
<1>8. CASE IsMem(id, pl) /\ (IsArg(id2, pl2) \/ IsRet(id2, pl2))
  BY <1>8, Shapes DEF IsArg, IsRet, IsMem, ArgId, ArgOf, RetId, RetOf, MemId
<1> QED
  BY <1>1, <1>2, <1>3, <1>4, <1>5, <1>6, <1>7, <1>8

LEMMA PlaceIs ==
  ASSUME NEW id \in Ids
  PROVE  Place[id] \in Places /\ StandsFor(id, Place[id])
<1>1. \E pl \in Places : StandsFor(id, pl)
  <2>1. CASE \E f \in Functions, no \in 1 .. MaxArgs : id = ArgId(f, no)
    <3>1. PICK f \in Functions, no \in 1 .. MaxArgs : id = ArgId(f, no)
      BY <2>1
    <3>2. ArgOf(f, no) \in Places /\ StandsFor(id, ArgOf(f, no))
      BY <3>1 DEF Places, StandsFor
    <3> QED
      BY <3>2
  <2>2. CASE \E f \in Functions : id = RetId(f)
    <3>1. PICK f \in Functions : id = RetId(f)
      BY <2>2
    <3>2. RetOf(f) \in Places /\ StandsFor(id, RetOf(f))
      BY <3>1 DEF Places, StandsFor
    <3> QED
      BY <3>2
  <2>3. CASE \E x \in Mems : id = MemId(x)
    <3>1. PICK x \in Mems : id = MemId(x)
      BY <2>3
    <3>2. MemId(x) \in Places /\ StandsFor(id, MemId(x))
      BY <3>1 DEF Places, StandsFor
    <3> QED
      BY <3>2
  <2> QED
    BY <2>1, <2>2, <2>3 DEF Ids
<1>2. Place[id] = CHOOSE pl \in Places : StandsFor(id, pl)
  BY DEF Place
<1> QED
  BY <1>1, <1>2

LEMMA PlaceInjective ==
  ASSUME Linkable, NEW id \in Ids, NEW id2 \in Ids, Place[id] = Place[id2]
  PROVE  id = id2
BY PlaceIs, PlaceUnique

LEMMA PlacesOfFunctions ==
  ASSUME Linkable, NEW f \in Functions
  PROVE  /\ Place[RetId(f)] = RetOf(f)
         /\ \A no \in 1 .. MaxArgs : Place[ArgId(f, no)] = ArgOf(f, no)
<1>1. StandsFor(RetId(f), RetOf(f)) /\ RetId(f) \in Ids
  BY IdTypes DEF StandsFor
<1>2. ASSUME NEW no \in 1 .. MaxArgs PROVE StandsFor(ArgId(f, no), ArgOf(f, no)) /\ ArgId(f, no) \in Ids
  BY IdTypes DEF StandsFor
<1>3. Place[RetId(f)] = RetOf(f)
  BY <1>1, PlaceIs, PlaceUnique
<1>4. ASSUME NEW no \in 1 .. MaxArgs PROVE Place[ArgId(f, no)] = ArgOf(f, no)
  BY <1>2, PlaceIs, PlaceUnique
<1> QED
  BY <1>3, <1>4

-----------------------------------------------------------------------------
(* What findFunctions finds and what the linked program has: the table of  *)
(* definitions does not change symbols.                                    *)
LinksSound(links) ==
  \A n \in DOMAIN links : links[n] \in Functions /\ links[n].linkage = "external" /\ links[n].name = n

LEMMA ResolveSymbol ==
  ASSUME Linkable, NEW links, LinksSound(links), NEW f \in Functions
  PROVE  Resolve(links, f) \in Functions /\ Symbol(Resolve(links, f)) = Symbol(f)
<1>1. f.def \in BOOLEAN /\ f.linkage \in {"external", "internal"} /\ (f.linkage = "internal" => f.def)
  BY ProgramAssumption DEF Linkable
<1>2. CASE ~f.def /\ f.name \in DOMAIN links
  <2>1. Resolve(links, f) = links[f.name]
    BY <1>2 DEF Resolve
  <2>2. links[f.name] \in Functions /\ links[f.name].linkage = "external" /\ links[f.name].name = f.name
    BY <1>2 DEF LinksSound
  <2>3. f.linkage = "external"
    BY <1>1, <1>2
  <2> QED
    BY <2>1, <2>2, <2>3 DEF Symbol
<1>3. CASE ~(~f.def /\ f.name \in DOMAIN links)
  BY <1>3 DEF Resolve
<1> QED
  BY <1>2, <1>3

(* Symbol s is found from v through the functions it is, or in a name.     *)
IsFunction(v, s) == \E w \in Visited[v] : Node[w].kind = "fun" /\ s = Symbol(Node[w].fun)

LEMMA NodeTypes ==
  ASSUME NEW v \in Values, NEW w \in Visited[v]
  PROVE  /\ Node[w].kind = "fun" => Node[w].fun \in Functions
         /\ Node[w].kind = "slot" => Node[w].id \in Ids
<1>1. Node[w] \in Nodes
  BY ProgramAssumption DEF Visited
<1> QED
  BY <1>1 DEF Nodes

LEMMA LinkedIs ==
  ASSUME NEW R, NEW v, NEW s
  PROVE  s \in Linked(R, v) <=>
           IsFunction(v, s) \/ \E w \in Visited[v] : Node[w].kind = "slot" /\ s \in R[Place[Node[w].id]]
BY DEF Linked, IsFunction

LEMMA FindIs ==
  ASSUME NEW links, NEW map, NEW v, NEW f
  PROVE  f \in Find(links, map, v) <=>
           \/ \E w \in Visited[v] : Node[w].kind = "fun" /\ f = Resolve(links, Node[w].fun)
           \/ \E w \in Visited[v] : Node[w].kind = "slot" /\ f \in map[Node[w].id]
BY DEF Find

LEMMA FoundIs ==
  ASSUME Linkable, NEW links, LinksSound(links), NEW map, NEW v \in Values, NEW s
  PROVE  s \in Symbols(Find(links, map, v)) <=>
           IsFunction(v, s) \/ \E w \in Visited[v] : Node[w].kind = "slot" /\ s \in Symbols(map[Node[w].id])
<1>1. ASSUME NEW f \in Find(links, map, v), s = Symbol(f)
      PROVE  IsFunction(v, s) \/ \E w \in Visited[v] : Node[w].kind = "slot" /\ s \in Symbols(map[Node[w].id])
  <2>1. CASE \E w \in Visited[v] : Node[w].kind = "fun" /\ f = Resolve(links, Node[w].fun)
    <3>1. PICK w \in Visited[v] : Node[w].kind = "fun" /\ f = Resolve(links, Node[w].fun)
      BY <2>1
    <3>2. s = Symbol(Node[w].fun)
      BY <1>1, <3>1, NodeTypes, ResolveSymbol
    <3> QED
      BY <3>1, <3>2 DEF IsFunction
  <2>2. CASE \E w \in Visited[v] : Node[w].kind = "slot" /\ f \in map[Node[w].id]
    BY <1>1, <2>2 DEF Symbols
  <2> QED
    BY <2>1, <2>2, FindIs
<1>2. ASSUME IsFunction(v, s) PROVE s \in Symbols(Find(links, map, v))
  <2>1. PICK w \in Visited[v] : Node[w].kind = "fun" /\ s = Symbol(Node[w].fun)
    BY <1>2 DEF IsFunction
  <2>2. Resolve(links, Node[w].fun) \in Find(links, map, v)
    BY <2>1, FindIs
  <2>3. s = Symbol(Resolve(links, Node[w].fun))
    BY <2>1, NodeTypes, ResolveSymbol
  <2> QED
    BY <2>2, <2>3 DEF Symbols
<1>3. ASSUME NEW w \in Visited[v], Node[w].kind = "slot", s \in Symbols(map[Node[w].id])
      PROVE  s \in Symbols(Find(links, map, v))
  <2>1. PICK f \in map[Node[w].id] : s = Symbol(f)
    BY <1>3 DEF Symbols
  <2>2. f \in Find(links, map, v)
    BY <1>3, <2>1, FindIs
  <2> QED
    BY <2>1, <2>2 DEF Symbols
<1>4. s \in Symbols(Find(links, map, v)) <=> \E f \in Find(links, map, v) : s = Symbol(f)
  BY DEF Symbols
<1> QED
  BY <1>1, <1>2, <1>3, <1>4

LEMMA LinkedBelow ==
  ASSUME Linkable, NEW links, LinksSound(links), NEW map, NEW R,
         \A id \in Ids : R[Place[id]] \subseteq Symbols(map[id]), NEW v \in Values
  PROVE  Linked(R, v) \subseteq Symbols(Find(links, map, v))
BY LinkedIs, FoundIs, NodeTypes

LEMMA FoundBelow ==
  ASSUME Linkable, NEW links, LinksSound(links), NEW map, NEW R,
         \A id \in Ids : Symbols(map[id]) \subseteq R[Place[id]], NEW v \in Values
  PROVE  Symbols(Find(links, map, v)) \subseteq Linked(R, v)
BY LinkedIs, FoundIs, NodeTypes

-----------------------------------------------------------------------------
(* What an application of the instructions adds to a place.                *)
PutsSymbol(R, ins, pl, s) ==
  \/ ins.op = "store" /\ ins.id # NoId /\ Place[ins.id] = pl /\ s \in Linked(R, ins.val)
  \/ ins.op = "ret" /\ RetOf(ins.fun) = pl /\ s \in Linked(R, ins.val)
  \/ /\ ins.op = "call" /\ ~ins.ignored
     /\ \E no \in 1 .. Len(ins.args), f \in Functions :
          /\ ins.args[no] # NoValue /\ ArgOf(f, no) = pl
          /\ Symbol(f) \in Linked(R, ins.callee) /\ s \in Linked(R, ins.args[no])

LEMMA PutsIs ==
  ASSUME NEW R, NEW ins \in Instrs, NEW pl, NEW s
  PROVE  s \in Puts(R, ins, pl) <=> PutsSymbol(R, ins, pl, s)
<1>1. ins.op \in {"store", "ret", "call"}
  BY DEF Instrs
<1>2. CASE ins.op = "store"
  <2>1. Puts(R, ins, pl) = IF ins.id # NoId /\ Place[ins.id] = pl THEN Linked(R, ins.val) ELSE {}
    BY <1>2 DEF Puts
  <2> QED
    BY <1>2, <2>1 DEF PutsSymbol
<1>3. CASE ins.op = "ret"
  <2>1. Puts(R, ins, pl) = IF RetOf(ins.fun) = pl THEN Linked(R, ins.val) ELSE {}
    BY <1>3 DEF Puts
  <2> QED
    BY <1>3, <2>1 DEF PutsSymbol
<1>4. CASE ins.op = "call"
  <2> DEFINE N == { n \in 1 .. Len(ins.args) :
                      /\ ~ins.ignored
                      /\ ins.args[n] # NoValue
                      /\ \E f \in Functions : ArgOf(f, n) = pl /\ Symbol(f) \in Linked(R, ins.callee) }
  <2>1. Puts(R, ins, pl) = UNION { Linked(R, ins.args[no]) : no \in N }
    BY <1>4 DEF Puts
  <2>2. \A no : no \in N <=> /\ no \in 1 .. Len(ins.args) /\ ~ins.ignored /\ ins.args[no] # NoValue
                             /\ \E f \in Functions : ArgOf(f, no) = pl /\ Symbol(f) \in Linked(R, ins.callee)
    OBVIOUS
  <2> HIDE DEF N
  <2>3. s \in Puts(R, ins, pl) <=> \E no \in N : s \in Linked(R, ins.args[no])
    BY <2>1
  <2>4. PutsSymbol(R, ins, pl, s) <=>
          /\ ~ins.ignored
          /\ \E no \in 1 .. Len(ins.args), f \in Functions :
               /\ ins.args[no] # NoValue /\ ArgOf(f, no) = pl
               /\ Symbol(f) \in Linked(R, ins.callee) /\ s \in Linked(R, ins.args[no])
    BY <1>4 DEF PutsSymbol
  <2> QED
    BY <2>2, <2>3, <2>4
<1> QED
  BY <1>1, <1>2, <1>3, <1>4

Seeds(p, pl, s) == \E m \in Modules : \E e \in p.inits[m] : Place[e[1]] = pl /\ s = Symbol(e[2])

LEMMA StepIs ==
  ASSUME NEW p \in Programs, NEW R, NEW pl \in Places, NEW s
  PROVE  s \in LinkedStep(p, R)[pl] <=>
           \/ s \in R[pl] \/ Seeds(p, pl, s)
           \/ \E m \in Modules : \E i \in 1 .. Len(p.code[m]) : PutsSymbol(R, p.code[m][i], pl, s)
<1> DEFINE code == UNION { { p.code[m][i] : i \in 1 .. Len(p.code[m]) } : m \in Modules }
           put == { Puts(R, ins, pl) : ins \in code }
<1>1. LinkedStep(p, R)[pl] = R[pl] \cup Initial(p, pl) \cup UNION put
  BY DEF LinkedStep
<1>2. \A ins : ins \in code <=> \E m \in Modules : \E i \in 1 .. Len(p.code[m]) : ins = p.code[m][i]
  OBVIOUS
<1>3. s \in Initial(p, pl) <=> Seeds(p, pl, s)
  <2> DEFINE from(m) == { Symbol(e[2]) : e \in { d \in p.inits[m] : Place[d[1]] = pl } }
  <2>1. \A m : s \in from(m) <=> \E e \in p.inits[m] : Place[e[1]] = pl /\ s = Symbol(e[2])
    OBVIOUS
  <2> HIDE DEF from
  <2>2. s \in UNION { from(m) : m \in Modules } <=> \E m \in Modules : s \in from(m)
    OBVIOUS
  <2>3. s \in UNION { from(m) : m \in Modules } <=> Seeds(p, pl, s)
    BY <2>1, <2>2 DEF Seeds
  <2> QED
    BY <2>3 DEF Initial, from
<1> HIDE DEF code
<1>4. s \in UNION put <=> \E ins \in code : s \in Puts(R, ins, pl)
  OBVIOUS
<1>5. ASSUME NEW m \in Modules, NEW i \in 1 .. Len(p.code[m])
      PROVE  s \in Puts(R, p.code[m][i], pl) <=> PutsSymbol(R, p.code[m][i], pl, s)
  BY InstrType, PutsIs
<1>6. s \in UNION put <=> \E m \in Modules : \E i \in 1 .. Len(p.code[m]) : PutsSymbol(R, p.code[m][i], pl, s)
  BY <1>2, <1>4, <1>5
<1> HIDE DEF put
<1> QED
  BY <1>1, <1>3, <1>6

(* What the linked program has is within every solution ...                *)
LEMMA SeedType ==
  ASSUME NEW p \in Programs, NEW m \in Modules, NEW e \in p.inits[m]
  PROVE  e[1] \in Ids /\ e[2] \in Functions /\ e = <<e[1], e[2]>>
<1>1. p \in ProgramTypes
  BY ProgramAssumption
<1>2. e \in Ids \X Functions
  BY <1>1 DEF ProgramTypes
<1> QED
  BY <1>2

LEMMA SymbolsGrow == ASSUME NEW S, NEW T, S \subseteq T PROVE Symbols(S) \subseteq Symbols(T)
BY DEF Symbols

LEMMA StepBelow ==
  ASSUME Linkable, NEW links \in LinkTables, LinksSound(links), NEW map \in FuncPtrMaps, NEW p \in Programs,
         Solution(links, map, p), NEW R, \A id \in Ids : R[Place[id]] \subseteq Symbols(map[id])
  PROVE  \A id \in Ids : LinkedStep(p, R)[Place[id]] \subseteq Symbols(map[id])
<1> SUFFICES ASSUME NEW id \in Ids, NEW s \in LinkedStep(p, R)[Place[id]] PROVE s \in Symbols(map[id])
  OBVIOUS
<1>1. Place[id] \in Places
  BY PlaceIs
<1>2. \A v \in Values : Linked(R, v) \subseteq Symbols(Find(links, map, v))
  BY LinkedBelow
<1>3. CASE s \in R[Place[id]]
  BY <1>3
<1>4. CASE Seeds(p, Place[id], s)
  <2>1. PICK m \in Modules : \E e \in p.inits[m] : Place[e[1]] = Place[id] /\ s = Symbol(e[2])
    BY <1>4 DEF Seeds
  <2>2. PICK e \in p.inits[m] : Place[e[1]] = Place[id] /\ s = Symbol(e[2])
    BY <2>1
  <2>3. e[1] \in Ids /\ e[2] \in Functions /\ e = <<e[1], e[2]>>
    BY SeedType
  <2>4. e[1] = id
    BY <2>2, <2>3, PlaceInjective
  <2>5. <<id, e[2]>> \in p.inits[m]
    BY <2>3, <2>4
  <2>6. e[2] \in Inits(p, Modules)[id]
    BY <2>3, <2>5 DEF Inits
  <2>7. e[2] \in map[id]
    BY <2>6 DEF Solution, Below
  <2> QED
    BY <2>2, <2>7 DEF Symbols
<1>5. ASSUME NEW m \in Modules, NEW i \in 1 .. Len(p.code[m]), PutsSymbol(R, p.code[m][i], Place[id], s)
      PROVE  s \in Symbols(map[id])
  <2> DEFINE ins == p.code[m][i]
  <2>1. Satisfied(links, map, ins)
    BY DEF Solution, Closed, ModuleSatisfied
  <2>2. /\ ins \in Instrs
        /\ ins.op \in {"store", "ret"} =>
             /\ ins.val \in Values
             /\ Target(ins) # NoId => Target(ins) \in Ids
        /\ ins.op = "call" =>
             /\ ins.callee \in Values
             /\ Len(ins.args) \in 0 .. MaxArgs
             /\ \A no \in 1 .. Len(ins.args) : ins.args[no] # NoValue => ins.args[no] \in Values
    BY InstrType
  <2>3. PutsSymbol(R, ins, Place[id], s)
    BY <1>5
  <2> HIDE DEF ins
  <2>4. ASSUME ins.op \in {"store", "ret"}, Target(ins) = id, s \in Linked(R, ins.val)
        PROVE  s \in Symbols(map[id])
    <3>1. Find(links, map, ins.val) \subseteq map[id]
      BY <2>1, <2>4, ProgramAssumption DEF Satisfied, AssignSatisfied
    <3>2. s \in Symbols(Find(links, map, ins.val))
      BY <1>2, <2>2, <2>4
    <3> QED
      BY <3>1, <3>2, SymbolsGrow
  <2>5. ASSUME ins.op = "store", ins.id # NoId, Place[ins.id] = Place[id], s \in Linked(R, ins.val)
        PROVE  s \in Symbols(map[id])
    <3>1. Target(ins) = ins.id
      BY <2>5 DEF Target
    <3>2. ins.id \in Ids
      BY <2>2, <2>5, <3>1
    <3>3. ins.id = id
      BY <2>5, <3>2, PlaceInjective
    <3> QED
      BY <2>4, <2>5, <3>1, <3>3
  <2>6. ASSUME ins.op = "ret", RetOf(ins.fun) = Place[id], s \in Linked(R, ins.val)
        PROVE  s \in Symbols(map[id])
    <3>1. ins.fun \in Functions
      BY <2>2, <2>6 DEF Instrs
    <3>2. Target(ins) = RetId(ins.fun)
      BY <2>6 DEF Target
    <3>3. RetId(ins.fun) = id
      BY <2>6, <3>1, IdTypes, PlacesOfFunctions, PlaceInjective
    <3> QED
      BY <2>4, <2>6, <3>2, <3>3
  <2>7. ASSUME ins.op = "call", ~ins.ignored, NEW no \in 1 .. Len(ins.args), NEW f \in Functions,
               ins.args[no] # NoValue, ArgOf(f, no) = Place[id],
               Symbol(f) \in Linked(R, ins.callee), s \in Linked(R, ins.args[no])
        PROVE  s \in Symbols(map[id])
    <3>1. no \in 1 .. MaxArgs /\ ins.args[no] \in Values /\ ins.callee \in Values
      BY <2>2, <2>7, ProgramAssumption
    <3>2. ArgId(f, no) = id
      BY <2>7, <3>1, IdTypes, PlacesOfFunctions, PlaceInjective
    <3>3. Symbol(f) \in Symbols(Find(links, map, ins.callee))
      BY <1>2, <2>7, <3>1
    <3>4. PICK k \in Find(links, map, ins.callee) : Symbol(f) = Symbol(k)
      BY <3>3 DEF Symbols
    <3>5. k \in Functions
      BY <3>1, FindType
    <3>6. ArgId(k, no) = id
      BY <3>2, <3>4, <3>5, ScopeSymbol DEF ArgId
    <3>7. Find(links, map, ins.args[no]) \subseteq map[id]
      BY <2>1, <2>7, <3>6 DEF Satisfied, CallSatisfied, ArgSatisfied
    <3>8. s \in Symbols(Find(links, map, ins.args[no]))
      BY <1>2, <2>7, <3>1
    <3> QED
      BY <3>7, <3>8, SymbolsGrow
  <2> QED
    BY <2>3, <2>5, <2>6, <2>7 DEF PutsSymbol
<1> QED
  BY <1>1, <1>3, <1>4, <1>5, StepIs

(* ... and is one itself: the functions whose symbols it has under each    *)
(* name.                                                                   *)
FunctionsOf(R) == [id \in Ids |-> { f \in Functions : Symbol(f) \in R[Place[id]] }]

LEMMA LinkedSolves ==
  ASSUME Linkable, NEW links \in LinkTables, LinksSound(links), NEW p \in Programs, NEW R, LinkedStep(p, R) = R
  PROVE  FunctionsOf(R) \in FuncPtrMaps /\ Solution(links, FunctionsOf(R), p)
<1> DEFINE sol == FunctionsOf(R)
<1>1. sol \in FuncPtrMaps
  BY DEF FunctionsOf, FuncPtrMaps
<1>2. \A id \in Ids : \A f : f \in sol[id] <=> f \in Functions /\ Symbol(f) \in R[Place[id]]
  BY DEF FunctionsOf
<1> HIDE DEF sol
<1>3. \A id \in Ids : Symbols(sol[id]) \subseteq R[Place[id]]
  BY <1>2 DEF Symbols
<1>4. ASSUME NEW v \in Values, NEW f \in Find(links, sol, v)
      PROVE  f \in Functions /\ Symbol(f) \in Linked(R, v)
  <2>1. Symbol(f) \in Symbols(Find(links, sol, v))
    BY DEF Symbols
  <2> QED
    BY <1>1, <1>3, <2>1, FoundBelow, FindType
<1>5. \A pl \in Places : \A s :
        \/ Seeds(p, pl, s)
        \/ \E m \in Modules : \E i \in 1 .. Len(p.code[m]) : PutsSymbol(R, p.code[m][i], pl, s)
        => s \in R[pl]
  BY StepIs
<1>6. Below(Inits(p, Modules), sol)
  <2> SUFFICES ASSUME NEW id \in Ids, NEW f \in Inits(p, Modules)[id] PROVE f \in sol[id]
    BY DEF Below
  <2>1. f \in Functions /\ \E m \in Modules : <<id, f>> \in p.inits[m]
    BY DEF Inits
  <2>2. Seeds(p, Place[id], Symbol(f))
    <3>1. PICK m \in Modules : <<id, f>> \in p.inits[m]
      BY <2>1
    <3>2. <<id, f>>[1] = id /\ <<id, f>>[2] = f
      OBVIOUS
    <3> QED
      BY <3>1, <3>2 DEF Seeds
  <2> QED
    BY <1>2, <1>5, <2>1, <2>2, PlaceIs
<1>7. ASSUME NEW m \in Modules, NEW i \in 1 .. Len(p.code[m]) PROVE Satisfied(links, sol, p.code[m][i])
  <2> DEFINE ins == p.code[m][i]
  <2>1. /\ ins \in Instrs
        /\ ins.op \in {"store", "ret"} =>
             /\ ins.val \in Values
             /\ Target(ins) # NoId => Target(ins) \in Ids
        /\ ins.op = "call" =>
             /\ ins.callee \in Values
             /\ Len(ins.args) \in 0 .. MaxArgs
             /\ \A no \in 1 .. Len(ins.args) : ins.args[no] # NoValue => ins.args[no] \in Values
    BY InstrType
  <2>2. \A pl \in Places : \A s : PutsSymbol(R, ins, pl, s) => s \in R[pl]
    BY <1>5
  <2> HIDE DEF ins
  <2>3. ASSUME ins.op \in {"store", "ret"}, Target(ins) # NoId, NEW f \in Find(links, sol, ins.val)
        PROVE  f \in sol[Target(ins)]
    <3>1. Target(ins) \in Ids /\ ins.val \in Values
      BY <2>1, <2>3
    <3>2. f \in Functions /\ Symbol(f) \in Linked(R, ins.val)
      BY <1>4, <3>1
    <3>3. PutsSymbol(R, ins, Place[Target(ins)], Symbol(f))
      <4>1. CASE ins.op = "store"
        BY <2>3, <3>2, <4>1 DEF PutsSymbol, Target
      <4>2. CASE ins.op = "ret"
        <5>1. ins.fun \in Functions /\ Target(ins) = RetId(ins.fun)
          BY <2>1, <4>2 DEF Instrs, Target
        <5>2. Place[Target(ins)] = RetOf(ins.fun)
          BY <5>1, PlacesOfFunctions
        <5> QED
          BY <3>2, <4>2, <5>2 DEF PutsSymbol
      <4> QED
        BY <2>3, <4>1, <4>2
    <3> QED
      BY <1>2, <2>2, <3>1, <3>2, <3>3, PlaceIs
  <2>4. ASSUME ins.op = "call", ~ins.ignored, NEW no \in 1 .. Len(ins.args), ins.args[no] # NoValue,
               NEW k \in Find(links, sol, ins.callee), NEW f \in Find(links, sol, ins.args[no])
        PROVE  f \in sol[ArgId(k, no)]
    <3>1. no \in 1 .. MaxArgs /\ ins.args[no] \in Values /\ ins.callee \in Values
      BY <2>1, <2>4, ProgramAssumption
    <3>2. k \in Functions /\ Symbol(k) \in Linked(R, ins.callee)
      BY <1>4, <3>1
    <3>3. f \in Functions /\ Symbol(f) \in Linked(R, ins.args[no])
      BY <1>4, <3>1
    <3>4. ArgId(k, no) \in Ids /\ Place[ArgId(k, no)] = ArgOf(k, no)
      BY <3>1, <3>2, IdTypes, PlacesOfFunctions
    <3>5. PutsSymbol(R, ins, Place[ArgId(k, no)], Symbol(f))
      BY <2>4, <3>2, <3>3, <3>4 DEF PutsSymbol
    <3> QED
      BY <1>2, <2>2, <3>3, <3>4, <3>5, PlaceIs
  <2>5. AssignSatisfied(links, sol, ins)
    BY <2>3 DEF AssignSatisfied
  <2>6. CallSatisfied(links, sol, ins)
    BY <2>4 DEF CallSatisfied, ArgSatisfied
  <2>7. Satisfied(links, sol, ins)
    BY <2>5, <2>6 DEF Satisfied
  <2> QED
    BY <2>7 DEF ins
<1>8. Solution(links, sol, p)
  BY <1>6, <1>7 DEF Solution, Closed, ModuleSatisfied
<1> QED
  BY <1>1, <1>8 DEF sol

-----------------------------------------------------------------------------
(* The numbers below a bound, one after the other.                         *)
LEMMA LeastNumber ==
  ASSUME NEW T \in SUBSET Nat, T # {}
  PROVE  \E n \in T : \A k \in T : n <= k
<1> DEFINE R == OpToRel(<, Nat)
<1>1. IsWellFoundedOn(R, Nat)
  BY NatLessThanWellFounded
<1>2. \A i, k \in Nat : <<k, i>> \in R <=> k < i
  BY DEF OpToRel
<1> HIDE DEF R
<1>3. PICK n \in T : \A k \in T : <<k, n>> \notin R
  BY <1>1, WFMin
<1>4. ASSUME NEW k \in T PROVE n <= k
  <2>1. n \in Nat /\ k \in Nat /\ ~ (k < n)
    BY <1>2, <1>3
  <2> QED
    BY <2>1
<1> QED
  BY <1>4

LEMMA Counting ==
  ASSUME NEW T \in SUBSET Nat, 0 \in T, \A n \in T : n + 1 \in T
  PROVE  T = Nat
<1> SUFFICES ASSUME Nat \ T # {} PROVE FALSE
  OBVIOUS
<1>1. PICK n \in Nat \ T : \A k \in Nat \ T : n <= k
  BY LeastNumber
<1>2. n - 1 \in Nat /\ n - 1 \notin Nat \ T
  BY <1>1
<1> QED
  BY <1>2

(* The tables after 0 to n applications of the instructions.               *)
Applied(f, p, n) ==
  f = [k \in 0 .. n |-> IF k = 0 THEN [pl \in Places |-> {}] ELSE Advance(p, f[k - 1])]

LEMMA AppliedExist == \A p : \A n \in Nat : \E f : Applied(f, p, n)
<1> SUFFICES ASSUME NEW p PROVE \A n \in Nat : \E f : Applied(f, p, n)
  OBVIOUS
<1> DEFINE T == { n \in Nat : \E f : Applied(f, p, n) }
           none == [pl \in Places |-> {}]
<1> HIDE DEF none
<1>1. 0 \in T
  <2> DEFINE f == [k \in 0 .. 0 |-> none]
  <2>1. f = [k \in 0 .. 0 |-> IF k = 0 THEN none ELSE Advance(p, f[k - 1])]
    OBVIOUS
  <2> HIDE DEF f
  <2>2. Applied(f, p, 0)
    BY <2>1 DEF Applied, none
  <2> QED
    BY <2>2
<1>2. ASSUME NEW n \in T PROVE n + 1 \in T
  <2>1. PICK f : f = [k \in 0 .. n |-> IF k = 0 THEN none ELSE Advance(p, f[k - 1])]
    BY DEF Applied, none
  <2> DEFINE g == [k \in 0 .. n + 1 |-> IF k = n + 1 THEN Advance(p, f[n]) ELSE f[k]]
  <2>2. \A k \in 0 .. n + 1 : g[k] = IF k = 0 THEN none ELSE Advance(p, g[k - 1])
    <3> TAKE k \in 0 .. n + 1
    <3>1. CASE k = n + 1
      <4>1. k # 0 /\ k - 1 = n /\ n \in 0 .. n + 1 /\ n # n + 1
        BY <3>1
      <4>2. g[k] = Advance(p, f[n]) /\ g[k - 1] = f[n]
        BY <3>1, <4>1
      <4> QED
        BY <4>1, <4>2
    <3>2. CASE k # n + 1
      <4>1. k \in 0 .. n /\ (k # 0 => k - 1 \in 0 .. n /\ k - 1 \in 0 .. n + 1 /\ k - 1 # n + 1)
        BY <3>2
      <4>2. f[k] = IF k = 0 THEN none ELSE Advance(p, f[k - 1])
        BY <2>1, <4>1
      <4>3. g[k] = f[k] /\ (k # 0 => g[k - 1] = f[k - 1])
        BY <3>2, <4>1
      <4> QED
        BY <4>2, <4>3
    <3> QED
      BY <3>1, <3>2
  <2>3. g = [k \in 0 .. n + 1 |-> g[k]]
    OBVIOUS
  <2> HIDE DEF g
  <2>4. Applied(g, p, n + 1)
    BY <2>2, <2>3 DEF Applied, none
  <2> QED
    BY <2>4
<1> HIDE DEF T
<1>3. T = Nat
  <2>1. T \in SUBSET Nat
    BY DEF T
  <2> QED
    BY <1>1, <1>2, <2>1, Counting
<1> QED
  BY <1>3 DEF T

LEMMA ResultIs ==
  ASSUME NEW p
  PROVE  \E f : /\ LinkedResult(p) = f[Depth] /\ f[0] = [pl \in Places |-> {}]
                /\ \A k \in 1 .. Depth : f[k] = LinkedStep(p, f[k - 1])
<1> DEFINE F == CHOOSE f : Applied(f, p, Depth)
<1>1. Depth \in Nat
  BY LinkingAssumption
<1>2. Applied(F, p, Depth)
  BY <1>1, AppliedExist
<1>3. LinkedResult(p) = F[Depth]
  BY DEF LinkedResult, Applied
<1> HIDE DEF F
<1>4. F[0] = [pl \in Places |-> {}]
  BY <1>1, <1>2 DEF Applied
<1>5. ASSUME NEW k \in 1 .. Depth PROVE F[k] = LinkedStep(p, F[k - 1])
  <2>1. k \in 0 .. Depth /\ k # 0
    BY <1>1
  <2>2. F[k] = Advance(p, F[k - 1])
    BY <1>2, <2>1 DEF Applied
  <2> QED
    BY <2>2 DEF Advance
<1> QED
  BY <1>3, <1>4, <1>5

(* So the linked program, too, has no symbol that a solution does not.     *)
LEMMA ResultBelow ==
  ASSUME Linkable, NEW links \in LinkTables, LinksSound(links), NEW map \in FuncPtrMaps, NEW p \in Programs,
         Solution(links, map, p)
  PROVE  \A id \in Ids : LinkedResult(p)[Place[id]] \subseteq Symbols(map[id])
<1> DEFINE BelowMap(R) == \A id \in Ids : R[Place[id]] \subseteq Symbols(map[id])
<1>1. PICK f : /\ LinkedResult(p) = f[Depth] /\ f[0] = [pl \in Places |-> {}]
               /\ \A k \in 1 .. Depth : f[k] = LinkedStep(p, f[k - 1])
  BY ResultIs
<1>2. Depth \in Nat
  BY LinkingAssumption
<1>3. BelowMap(f[0])
  BY <1>1, PlaceIs
<1>4. ASSUME NEW R, BelowMap(R) PROVE BelowMap(LinkedStep(p, R))
  BY <1>4, StepBelow
<1> HIDE DEF BelowMap
<1> DEFINE T == { k \in Nat : k <= Depth => BelowMap(f[k]) }
<1>5. 0 \in T
  BY <1>3
<1>6. ASSUME NEW k \in T PROVE k + 1 \in T
  <2>1. k \in Nat /\ (k <= Depth => BelowMap(f[k]))
    OBVIOUS
  <2> HIDE DEF T
  <2>2. ASSUME k + 1 <= Depth PROVE BelowMap(f[k + 1])
    <3>1. k + 1 \in 1 .. Depth /\ (k + 1) - 1 = k /\ BelowMap(f[k])
      BY <1>2, <2>1, <2>2
    <3>2. f[k + 1] = LinkedStep(p, f[k])
      BY <1>1, <3>1
    <3> QED
      BY <1>4, <3>1, <3>2
  <2> QED
    BY <2>1, <2>2 DEF T
<1> HIDE DEF T
<1>7. T = Nat
  <2>1. T \in SUBSET Nat
    BY DEF T
  <2> QED
    BY <1>5, <1>6, <2>1, Counting
<1>8. BelowMap(f[Depth])
  <2>1. Depth \in T /\ Depth <= Depth
    BY <1>2, <1>7
  <2> QED
    BY <2>1 DEF T
<1> QED
  BY <1>1, <1>8 DEF BelowMap

-----------------------------------------------------------------------------
(* The table of definitions holds what it is indexed by, and finalization  *)
(* asks for the callees when nothing changes any more.                     *)
FoundCallees(m) ==
  \A c \in CallSites(m) : c \in DOMAIN callees /\ callees[c] = Found(Callee(c))

LinkInv ==
  /\ LinksSound(funcs)
  /\ phase = "final" => \A m \in 1 .. mod - 1 : FoundCallees(m)
  /\ phase = "done" => \A m \in Modules : FoundCallees(m)

LEMMA NextLinkInv == FixpointInv /\ LinkInv /\ [Next]_vars => LinkInv'
<1> SUFFICES ASSUME FixpointInv, LinkInv, [Next]_vars PROVE LinkInv'
  OBVIOUS
<1>1. TypeOK /\ mod \in Modules
  BY DEF FixpointInv, TypeOK, DriverTypeOK
<1>2. ASSUME UNCHANGED <<prog, phase, mod, funcs, ptrs, callees>> PROVE LinkInv'
  <2>1. \A m : FoundCallees(m)' <=> FoundCallees(m)
    BY <1>2 DEF FoundCallees, CallSites, Callee, Found
  <2> QED
    BY <1>2, <2>1 DEF LinkInv
<1>3. ASSUME phase' \notin {"final", "done"}, UNCHANGED funcs PROVE LinkInv'
  BY <1>3 DEF LinkInv
<1>4. CASE Initialize
  <2>1. phase' \notin {"final", "done"}
    BY <1>4 DEF Initialize, InitializedModule, EnterModule
  <2> DEFINE names == { f.name : f \in Defined(mod) }
             new == [n \in names |-> CHOOSE f \in Defined(mod) : f.name = n]
  <2>2. funcs' = Over(new, funcs)
    BY <1>4 DEF Initialize
  <2>3. ASSUME NEW n \in names
        PROVE  new[n] \in Functions /\ new[n].linkage = "external" /\ new[n].name = n
    <3>1. \E f \in Defined(mod) : f.name = n
      OBVIOUS
    <3>2. new[n] \in Defined(mod) /\ new[n].name = n
      BY <3>1
    <3> QED
      BY <3>2 DEF Defined, Definitions
  <2>4. DOMAIN new = names
    OBVIOUS
  <2> HIDE DEF new, names
  <2>5. LinksSound(funcs')
    BY <2>2, <2>3, <2>4 DEF LinkInv, LinksSound, Over
  <2> QED
    BY <2>1, <2>5 DEF LinkInv, LinksSound
<1>5. CASE Assign \/ Skip \/ ResolveCallee \/ PassArg \/ EndSweep
  <2>1. phase = "sweep" /\ phase' = "sweep" /\ UNCHANGED funcs
    BY <1>5, Zenon DEF Assign, Skip, ResolveCallee, PassArg, EndSweep, AtInstr, AtSweepEnd, MergeFuncSet,
                       SweepAgain, driverVars
  <2> QED
    BY <1>3, <2>1
<1>6. CASE EndModule
  <2>1. phase = "sweep" /\ UNCHANGED funcs /\ ReturnFromModule
    BY <1>6 DEF EndModule, AtSweepEnd
  <2>2. phase' = "sweep" \/ (phase' = "final" /\ mod' = 1)
    BY <2>1 DEF ReturnFromModule, EnterModule
  <2> QED
    BY <2>1, <2>2 DEF LinkInv
<1>7. CASE GiveUp
  BY <1>3, <1>7 DEF GiveUp, Abort
<1>8. CASE Finalize
  <2>1. /\ phase = "final" /\ UNCHANGED <<prog, funcs, ptrs>>
        /\ callees' = Over([c \in CallSites(mod) |-> Found(Callee(c))], callees)
        /\ FinalizedModule
    BY <1>8 DEF Finalize
  <2>2. \A c : Found(Callee(c))' = Found(Callee(c))
    BY <2>1 DEF Found, Callee
  <2>3. \A m : CallSites(m)' = CallSites(m)
    BY <2>1 DEF CallSites
  <2>4. ASSUME NEW m \in Modules, m = mod PROVE FoundCallees(m)'
    <3> SUFFICES ASSUME NEW c \in CallSites(m)
                 PROVE  c \in DOMAIN callees' /\ callees'[c] = Found(Callee(c))
      BY <2>2, <2>3 DEF FoundCallees
    <3> QED
      BY <2>1, <2>4 DEF Over
  <2>5. ASSUME NEW m \in 1 .. mod - 1 PROVE FoundCallees(m)'
    <3> SUFFICES ASSUME NEW c \in CallSites(m)
                 PROVE  c \in DOMAIN callees' /\ callees'[c] = Found(Callee(c))
      BY <2>2, <2>3 DEF FoundCallees
    <3>1. c \in DOMAIN callees /\ callees[c] = Found(Callee(c))
      BY <2>1 DEF LinkInv, FoundCallees
    <3>2. c \notin CallSites(mod)
      BY <1>1 DEF CallSites, Modules
    <3> QED
      BY <2>1, <3>1, <3>2 DEF Over
  <2>6. \A m \in Modules : m <= mod => FoundCallees(m)'
    <3>1. \A m \in Modules : m <= mod => m = mod \/ m \in 1 .. mod - 1
      BY <1>1 DEF Modules
    <3> QED
      BY <2>4, <2>5, <3>1
  <2>7. CASE mod < NumModules
    <3>1. phase' = "final" /\ mod' = mod + 1
      BY <2>1, <2>7 DEF FinalizedModule, EnterModule
    <3>2. \A m \in 1 .. mod' - 1 : m \in Modules /\ m <= mod
      BY <1>1, <3>1 DEF Modules
    <3> QED
      BY <2>1, <2>6, <3>1, <3>2 DEF LinkInv
  <2>8. CASE ~ (mod < NumModules)
    <3>1. phase' = "done"
      BY <2>1, <2>8 DEF FinalizedModule
    <3>2. \A m \in Modules : m <= mod
      BY <1>1, <2>8 DEF Modules
    <3> QED
      BY <2>1, <2>6, <3>1, <3>2 DEF LinkInv
  <2> QED
    BY <2>7, <2>8
<1>9. CASE Ended \/ UNCHANGED vars
  BY <1>2, <1>9 DEF Ended, vars, driverVars
<1> QED
  BY <1>4, <1>5, <1>6, <1>7, <1>8, <1>9 DEF Next

(* In programs that link, the callees of every call are exactly those of   *)
(* the linked program, whatever the order of modules: what the pass        *)
(* exchanges by name stands for what the linker makes one symbol           *)
(* (getScopeName, src/Annotation.h; doFinalization, src/CallGraph.cc:213). *)
THEOREM CalleesLinked == Linkable => (Spec => []LinkedCallees)
<1> SUFFICES ASSUME Linkable PROVE Spec => []LinkedCallees
  OBVIOUS
<1>1. Init => LinkInv
  BY DEF Init, DriverInit, LinkInv, LinksSound
<1>2. FixpointInv /\ Fixpoint /\ Least /\ LinkInv => LinkedCallees
  <2> SUFFICES ASSUME FixpointInv, Fixpoint, Least, LinkInv, phase = "done",
                      NEW m \in Modules, NEW c \in CallSites(m)
               PROVE  Symbols(callees[c]) = Linked(LinkedResult(prog), Callee(c))
    BY DEF LinkedCallees
  <2> DEFINE R == LinkedResult(prog)
  <2>1. prog \in Programs /\ funcs \in LinkTables /\ ptrs \in FuncPtrMaps /\ LinksSound(funcs)
    BY DEF FixpointInv, TypeOK, DataTypeOK, LinkInv
  <2>2. LinkedStep(prog, R) = R
    BY <2>1, LinkingAssumption
  <2>3. Solution(funcs, ptrs, prog)
    BY DEF Fixpoint
  <2>4. \A id \in Ids : R[Place[id]] \subseteq Symbols(ptrs[id])
    BY <2>1, <2>3, ResultBelow
  <2> HIDE DEF R
  <2>5. Below(ptrs, FunctionsOf(R))
    BY <2>1, <2>2, LinkedSolves DEF Least
  <2>6. \A id \in Ids : Symbols(ptrs[id]) \subseteq R[Place[id]]
    BY <2>5 DEF Below, FunctionsOf, Symbols
  <2>7. Callee(c) \in Values
    <3>1. c[1] = m /\ c[2] \in 1 .. Len(prog.code[m]) /\ prog.code[m][c[2]].op = "call"
      BY DEF CallSites
    <3> QED
      BY <2>1, <3>1, InstrType DEF Callee
  <2>8. callees[c] = Find(funcs, ptrs, Callee(c))
    BY DEF LinkInv, FoundCallees, Found
  <2>9. Linked(R, Callee(c)) \subseteq Symbols(callees[c])
    BY <2>1, <2>4, <2>7, <2>8, LinkedBelow
  <2>10. Symbols(callees[c]) \subseteq Linked(R, Callee(c))
    BY <2>1, <2>6, <2>7, <2>8, FoundBelow
  <2> QED
    BY <2>9, <2>10 DEF R
<1> QED
  BY <1>1, <1>2, NextLinkInv, InvAlways, FixpointReached, LeastSolution, PTL DEF Spec

=============================================================================
