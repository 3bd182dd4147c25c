----------------------------- MODULE TaintProof -----------------------------
(***************************************************************************)
(* Theorems about the taint pass, for every module list, set of names,     *)
(* values and descriptions, and program.                                   *)
(***************************************************************************)
EXTENDS Derivation, WellFoundedInduction, TLAPS

USE NumModulesAssumption

(* How the driver's parts of the actions keep its types; the flags apart   *)
(* from the numbers.                                                       *)
LEMMA DriverTypes ==
  ASSUME DriverTypeOK,
         \/ phase = "init" /\ InitializedModule
         \/ phase = "sweep" /\ SweepAgain
         \/ phase = "sweep" /\ ReturnFromModule
         \/ phase = "final" /\ FinalizedModule
         \/ Abort
         \/ changed' \in BOOLEAN /\ UNCHANGED <<phase, mod, updated, ret>>
  PROVE  DriverTypeOK'
<1> USE DEF DriverTypeOK, Modules, Phases
<1>1. changed' \in BOOLEAN /\ ret' \in BOOLEAN
  BY Zenon DEF InitializedModule, SweepAgain, ReturnFromModule, FinalizedModule, Abort, EnterModule
<1>2. /\ phase' \in Phases
      /\ mod' \in Modules
      /\ updated' \in 0 .. mod' - 1
      /\ phase' = "final" => updated' = 0
  <2>1. CASE phase = "init" /\ InitializedModule
    BY <2>1 DEF InitializedModule, EnterModule
  <2>2. CASE phase = "sweep" /\ SweepAgain
    BY <2>2 DEF SweepAgain
  <2>3. CASE phase = "sweep" /\ ReturnFromModule
    BY <2>3 DEF ReturnFromModule, EnterModule, Counted
  <2>4. CASE phase = "final" /\ FinalizedModule
    BY <2>4 DEF FinalizedModule, EnterModule
  <2>5. CASE Abort
    BY <2>5 DEF Abort
  <2>6. CASE UNCHANGED <<phase, mod, updated, ret>>
    BY <2>6
  <2> QED
    BY <2>1, <2>2, <2>3, <2>4, <2>5, <2>6
<1> QED
  BY <1>1, <1>2

(* ... and how they begin.                                                 *)
LEMMA DriverInitTypes == DriverInit => DriverTypeOK
<1> SUFFICES ASSUME DriverInit PROVE DriverTypeOK
  OBVIOUS
<1>1. changed \in BOOLEAN /\ ret \in BOOLEAN
  BY Zenon DEF DriverInit
<1> QED
  BY <1>1 DEF DriverInit, DriverTypeOK, Modules, Phases

USE TaintAssumption

LEMMA TableTypes ==
  ASSUME NEW g \in GlobalTaints, NEW w \in ValueTaints
  PROVE  /\ \A v \in Values : FromNames(g, v) \subseteq Descs
         /\ \A v \in Values : GetTaint(g, w, v) \subseteq Descs
         /\ \A S : Cached(g, w, S) \in ValueTaints
         /\ \A ids \in SUBSET Ids, D \in SUBSET Descs : AddTo(g, ids, D) \in GlobalTaints
<1>1. \A v \in Values : Feeds(v) \subseteq Ids
  BY DEF Feeds
<1>2. \A v \in Values : FromNames(g, v) \subseteq Descs
  BY <1>1 DEF FromNames, GlobalTaints
<1>3. \A v \in Values : GetTaint(g, w, v) \subseteq Descs
  BY <1>2 DEF GetTaint, ValueTaints
<1>4. \A S : Cached(g, w, S) \in ValueTaints
  BY <1>2 DEF Cached, ValueTaints
<1>5. \A ids \in SUBSET Ids, D \in SUBSET Descs : AddTo(g, ids, D) \in GlobalTaints
  BY DEF AddTo, GlobalTaints
<1> QED
  BY <1>2, <1>3, <1>4, <1>5

LEMMA InstrType ==
  ASSUME NEW p \in Programs, NEW m \in Modules, NEW i \in 1 .. Len(p[m])
  PROVE  /\ p[m][i] \in Instrs
         /\ p[m][i].val \in Values
         /\ p[m][i].source \in Descs \cup {NoDesc}
         /\ SourceNames(p[m][i]) \subseteq Ids
         /\ p[m][i].op = "other" =>
              p[m][i].ops \subseteq Values /\ p[m][i].to \in Ids \cup {NoId}
         /\ p[m][i].op = "call" =>
              /\ p[m][i].args \in Seq(Values)
              /\ p[m][i].passes \subseteq Seq(Ids)
              /\ \A names \in p[m][i].passes : Len(names) = Len(p[m][i].args)
<1>1. p[m][i] \in Instrs
  <2>1. p[m] \in Seq(Instrs)
    OBVIOUS
  <2> QED
    BY <2>1
<1> DEFINE ins == p[m][i]
<1>2. ins.val \in Values /\ ins.source \in Descs \cup {NoDesc} /\ ins.members \subseteq Ids
  BY <1>1 DEF Instrs
<1>3. ins.op = "other" => ins.ops \subseteq Values /\ ins.to \in Ids \cup {NoId}
  BY <1>1 DEF Instrs
<1>4. ins.op = "call" => ins.args \in Seq(Values) /\ ins.passes \subseteq Seq(Ids)
  BY <1>1 DEF Instrs
<1>5. ins.op = "call" => \A names \in ins.passes : Len(names) = Len(ins.args)
  OBVIOUS
<1>6. SourceNames(ins) \subseteq Ids
  BY <1>2 DEF SourceNames
<1> QED
  BY <1>1, <1>2, <1>3, <1>4, <1>5, <1>6

(* The tables after checkTaintSource.                                      *)
LEMMA SourceTypes ==
  ASSUME TypeOK, phase = "sweep", pos <= Len(prog[mod])
  PROVE  /\ pos \in 1 .. Len(prog[mod]) /\ Len(prog[mod]) \in Nat
         /\ SourceVts \in ValueTaints
         /\ SourceGts \in GlobalTaints
         /\ MarkSource => src' \subseteq { id \in Ids : SourceGts[id] # {} }
<1>1. prog \in Programs /\ mod \in Modules /\ Len(prog[mod]) \in Nat
  BY DEF TypeOK, DriverTypeOK
<1>2. pos \in 1 .. Len(prog[mod])
  BY <1>1 DEF TypeOK
<1>3. /\ Instr.val \in Values
      /\ IsSource => Instr.source \in Descs
      /\ SourceNames(Instr) \subseteq Ids
  BY <1>1, <1>2, InstrType DEF Instr, IsSource
<1>4. gts \in GlobalTaints /\ vts \in ValueTaints /\ src \subseteq { id \in Ids : gts[id] # {} }
  BY DEF TypeOK
<1>5. SourceVts \in ValueTaints
  BY <1>3, <1>4 DEF SourceVts, ValueTaints
<1>6. IsSource => SourceVts[Instr.val] \subseteq Descs /\ SourceVts[Instr.val] # {}
  BY <1>3, <1>4 DEF SourceVts, ValueTaints
<1>7. SourceGts \in GlobalTaints
  BY <1>3, <1>4, <1>6, TableTypes DEF SourceGts
<1>8. ASSUME MarkSource PROVE src' \subseteq { id \in Ids : SourceGts[id] # {} }
  BY <1>3, <1>4, <1>6, <1>8 DEF MarkSource, SourceGts, AddTo, GlobalTaints
<1> QED
  BY <1>1, <1>2, <1>5, <1>7, <1>8

LEMMA DriverFlags ==
  ASSUME DriverTypeOK, NEW isNew, Flag(isNew)
  PROVE  DriverTypeOK' /\ phase' = phase /\ mod' = mod
<1>1. changed' \in BOOLEAN
  BY Zenon DEF Flag
<1> QED
  BY <1>1, DriverTypes DEF Flag

(* What TypeOK says of the tables and of the place in the loops.           *)
TablesOK ==
  /\ gts \in GlobalTaints
  /\ src \subseteq { id \in Ids : gts[id] # {} }
  /\ vts \in ValueTaints
  /\ meta \in ValueTaints
  /\ phase \in {"init", "sweep"} => meta = [v \in Values |-> {}]

PlaceOK ==
  /\ pos \in 1 .. Len(prog[mod]) + 1
  /\ phase # "sweep" => pos = 1
  /\ rest # {} => At("call") /\ rest \subseteq Instr.passes /\ Instr.args # << >>
  /\ IF arg = 0
     THEN callee = << >>
     ELSE At("call") /\ callee \in Instr.passes /\ arg \in 1 .. Len(callee)

LEMMA TypeParts ==
  TypeOK <=> DriverTypeOK /\ prog \in Programs /\ TablesOK /\ PlaceOK
BY DEF TypeOK, TablesOK, PlaceOK

LEMMA TypePartsNext ==
  ASSUME DriverTypeOK', prog' \in Programs, TablesOK', PlaceOK'
  PROVE  TypeOK'
BY DEF TypeOK, TablesOK, PlaceOK

(* Outside a sweep, and at its end, no call is being handled.              *)
LEMMA NoCall ==
  ASSUME TypeOK, phase # "sweep" \/ pos > Len(prog[mod]) \/ Instr.op # "call"
  PROVE  rest = {} /\ arg = 0 /\ callee = << >>
BY DEF TypeOK, At

LEMMA AtStart ==
  ASSUME prog' \in Programs, mod' \in Modules, pos' = 1, rest' = {}, arg' = 0, callee' = << >>
  PROVE  PlaceOK'
<1>1. Len(prog'[mod']) \in Nat
  OBVIOUS
<1> QED
  BY <1>1 DEF PlaceOK

LEMMA AddKeeps ==
  ASSUME NEW g \in GlobalTaints, NEW ids, NEW D, NEW id \in Ids
  PROVE  /\ g[id] \subseteq AddTo(g, ids, D)[id]
         /\ g[id] # {} => AddTo(g, ids, D)[id] # {}
BY DEF AddTo, GlobalTaints

(* The argument PassArg handles, and its name.                             *)
LEMMA ArgTypes ==
  ASSUME TypeOK, At("call"), arg # 0
  PROVE  /\ pos \in 1 .. Len(prog[mod])
         /\ callee \in Instr.passes /\ arg \in 1 .. Len(callee) /\ Len(callee) \in Nat
         /\ Instr.args[arg] \in Values
         /\ ArgName \in Ids
<1>1. prog \in Programs /\ mod \in Modules /\ Len(prog[mod]) \in Nat
  BY DEF TypeOK, DriverTypeOK
<1>2. pos \in 1 .. Len(prog[mod]) /\ callee \in Instr.passes /\ arg \in 1 .. Len(callee)
  BY <1>1 DEF TypeOK, At
<1>3. /\ Instr.args \in Seq(Values) /\ callee \in Seq(Ids)
      /\ Len(callee) = Len(Instr.args)
  BY <1>1, <1>2, InstrType DEF Instr, At
<1> QED
  BY <1>2, <1>3 DEF ArgName

LEMMA InitTypeOK == Init => TypeOK
<1> SUFFICES ASSUME Init PROVE TypeOK
  OBVIOUS
<1>1. DriverTypeOK /\ prog \in Programs /\ TablesOK
  BY DriverInitTypes DEF Init, TablesOK, GlobalTaints, ValueTaints
<1>2. Len(prog[mod]) \in Nat
  BY <1>1 DEF DriverTypeOK
<1>3. PlaceOK
  BY <1>2 DEF Init, PlaceOK
<1> QED
  BY <1>1, <1>3, TypeParts

LEMMA TypeStep ==
  ASSUME TypeOK, [Next]_vars
  PROVE  TypeOK'
<1>1. /\ DriverTypeOK /\ prog \in Programs /\ TablesOK /\ PlaceOK
      /\ mod \in Modules /\ Len(prog[mod]) \in Nat
  BY TypeParts DEF DriverTypeOK
<1>2. CASE Initialize
  <2>1. DriverTypeOK' /\ phase' \in {"init", "sweep"}
    BY <1>1, <1>2, DriverTypes DEF Initialize, InitializedModule
  <2>2. PlaceOK'
    BY <1>1, <1>2, <2>1, NoCall, AtStart DEF Initialize, PlaceOK, DriverTypeOK
  <2>3. TablesOK'
    BY <1>1, <1>2, <2>1 DEF Initialize, TablesOK
  <2> QED
    BY <1>1, <1>2, <2>1, <2>2, <2>3, TypePartsNext DEF Initialize
<1>3. CASE Propagate
  <2> DEFINE D == UNION { GetTaint(SourceGts, SourceVts, v) : v \in Instr.ops }
             to == IF D = {} THEN {} ELSE {Instr.to} \ {NoId}
             seen == Cached(SourceGts, SourceVts, Instr.ops)
  <2>1. /\ phase = "sweep" /\ pos <= Len(prog[mod]) /\ Instr.op = "other"
        /\ vts' = [seen EXCEPT ![Instr.val] = @ \cup D]
        /\ gts' = AddTo(SourceGts, to, D)
        /\ Flag(SourceIsNew \/ IsNew(SourceGts, to))
        /\ MarkSource /\ UNCHANGED <<prog, meta, rest, callee, arg>> /\ pos' = pos + 1
    BY <1>3 DEF Propagate, At, NextInstr
  <2>2. /\ pos \in 1 .. Len(prog[mod])
        /\ SourceVts \in ValueTaints /\ SourceGts \in GlobalTaints
        /\ src' \subseteq { id \in Ids : SourceGts[id] # {} }
    BY <2>1, SourceTypes
  <2>3. Instr.ops \subseteq Values /\ Instr.val \in Values /\ to \subseteq Ids
    BY <1>1, <2>1, <2>2, InstrType DEF Instr
  <2>4. D \subseteq Descs
    BY <2>2, <2>3, TableTypes
  <2>5. seen \in ValueTaints
    BY <2>2, TableTypes
  <2>6. vts' \in ValueTaints
    BY <2>1, <2>3, <2>4, <2>5 DEF ValueTaints
  <2>7. gts' \in GlobalTaints
    BY <2>1, <2>2, <2>3, <2>4, TableTypes
  <2>8. src' \subseteq { id \in Ids : gts'[id] # {} }
    <3>1. \A id \in Ids : SourceGts[id] # {} => AddTo(SourceGts, to, D)[id] # {}
      <4> HIDE DEF D, to
      <4> QED
        BY <2>2, AddKeeps
    <3>2. \A id \in Ids : SourceGts[id] # {} => gts'[id] # {}
      BY <2>1, <3>1
    <3> QED
      BY <2>2, <3>2
  <2>9. DriverTypeOK' /\ phase' = phase /\ mod' = mod
    BY <1>1, <2>1, DriverFlags
  <2>10. TablesOK'
    BY <1>1, <2>1, <2>6, <2>7, <2>8, <2>9 DEF TablesOK
  <2>11. PlaceOK'
    <3>1. rest = {} /\ arg = 0 /\ callee = << >>
      BY <2>1, NoCall
    <3> QED
      BY <1>1, <2>1, <2>2, <2>9, <3>1 DEF PlaceOK
  <2> QED
    BY <1>1, <2>1, <2>9, <2>10, <2>11, TypePartsNext
<1>4. CASE EnterCall
  <2>1. /\ phase = "sweep" /\ pos <= Len(prog[mod]) /\ Instr.op = "call"
        /\ rest = {} /\ arg = 0
        /\ vts' = SourceVts /\ gts' = SourceGts /\ Flag(SourceIsNew)
        /\ MarkSource /\ UNCHANGED <<prog, meta, callee, arg>>
        /\ \/ pos' = pos + 1 /\ rest' = rest
           \/ pos' = pos /\ rest' = Instr.passes /\ Instr.args # << >>
    BY <1>4 DEF EnterCall, At, NextInstr
  <2>2. /\ pos \in 1 .. Len(prog[mod])
        /\ SourceVts \in ValueTaints /\ SourceGts \in GlobalTaints
        /\ src' \subseteq { id \in Ids : SourceGts[id] # {} }
    BY <2>1, SourceTypes
  <2>3. DriverTypeOK' /\ phase' = phase /\ mod' = mod
    BY <1>1, <2>1, DriverFlags
  <2>4. TablesOK'
    BY <1>1, <2>1, <2>2, <2>3 DEF TablesOK
  <2>5. callee = << >>
    BY <1>1, <2>1 DEF PlaceOK
  <2>6. PlaceOK'
    <3>1. CASE pos' = pos + 1 /\ rest' = rest
      BY <1>1, <2>1, <2>2, <2>3, <2>5, <3>1 DEF PlaceOK
    <3>2. CASE pos' = pos /\ rest' = Instr.passes /\ Instr.args # << >>
      <4>1. At("call")' /\ Instr' = Instr
        BY <2>1, <2>2, <2>3, <3>2 DEF At, Instr
      <4> QED
        BY <1>1, <2>1, <2>2, <2>3, <2>5, <3>2, <4>1 DEF PlaceOK
    <3> QED
      BY <2>1, <3>1, <3>2
  <2> QED
    BY <1>1, <2>1, <2>3, <2>4, <2>6, TypePartsNext
<1>5. CASE TakeCallee
  <2>1. /\ UNCHANGED <<driverVars, prog, gts, src, vts, meta, pos>>
        /\ At("call") /\ rest # {} /\ arg' = 1
    BY <1>5 DEF TakeCallee
  <2>2. UNCHANGED <<phase, mod, updated, changed, ret>>
    BY <2>1 DEF driverVars
  <2>3. PICK names \in rest : callee' = names /\ rest' = rest \ {names}
    BY <1>5 DEF TakeCallee
  <2>4. PlaceOK'
    <3>1. names \in Instr.passes /\ rest \subseteq Instr.passes
      BY <1>1, <2>1, <2>3 DEF PlaceOK
    <3>2. Len(names) \in Nat \ {0}
      <4>1. pos \in 1 .. Len(prog[mod]) /\ Instr.op = "call"
        BY <1>1, <2>1 DEF At, PlaceOK
      <4>2. Instr.args \in Seq(Values) /\ Len(names) = Len(Instr.args)
        BY <1>1, <3>1, <4>1, InstrType DEF Instr
      <4>3. Instr.args # << >>
        BY <1>1, <2>1 DEF PlaceOK
      <4> QED
        BY <4>2, <4>3
    <3> QED
      BY <1>1, <2>1, <2>2, <2>3, <3>1, <3>2 DEF PlaceOK, At, Instr
  <2>5. DriverTypeOK' /\ TablesOK'
    BY <1>1, <2>1, <2>2 DEF DriverTypeOK, TablesOK
  <2> QED
    BY <1>1, <2>1, <2>4, <2>5, TypePartsNext
<1>6. CASE PassArg
  <2> DEFINE v == Instr.args[arg]
             D == GetTaint(gts, vts, v)
             to == IF D = {} THEN {} ELSE {ArgName}
  <2>1. /\ At("call") /\ arg # 0
        /\ vts' = Cached(gts, vts, {v})
        /\ gts' = AddTo(gts, to, D)
        /\ Flag(IsNew(gts, to))
        /\ NextArg
        /\ UNCHANGED <<prog, src, meta>>
    BY <1>6 DEF PassArg
  <2>2. v \in Values /\ ArgName \in Ids
    BY <1>1, <2>1, ArgTypes
  <2>3. D \subseteq Descs /\ vts' \in ValueTaints /\ gts' \in GlobalTaints
    BY <1>1, <2>1, <2>2, TableTypes DEF TablesOK
  <2>4. src' \subseteq { id \in Ids : gts'[id] # {} }
    BY <1>1, <2>1, <2>2, <2>3, AddKeeps DEF TablesOK
  <2>5. DriverTypeOK' /\ phase' = phase /\ mod' = mod
    BY <1>1, <2>1, DriverFlags
  <2>6. TablesOK'
    BY <1>1, <2>1, <2>3, <2>4, <2>5 DEF TablesOK
  <2>7. PlaceOK'
    <3>1. /\ pos \in 1 .. Len(prog[mod]) /\ phase = "sweep" /\ callee \in Instr.passes
          /\ arg \in 1 .. Len(callee) /\ Len(callee) \in Nat
          /\ (rest # {} => rest \subseteq Instr.passes /\ Instr.args # << >>)
      BY <1>1, <2>1, ArgTypes DEF PlaceOK, At
    <3>2. CASE arg < Len(callee)
      BY <1>1, <2>1, <2>5, <3>1, <3>2 DEF NextArg, PlaceOK, At, Instr
    <3>3. CASE ~(arg < Len(callee))
      <4>1. /\ arg' = 0 /\ callee' = << >> /\ rest' = rest
            /\ pos' = IF rest = {} THEN pos + 1 ELSE pos
        BY <2>1, <3>3 DEF NextArg
      <4> QED
        BY <1>1, <2>1, <2>5, <3>1, <4>1 DEF PlaceOK, At, Instr
    <3> QED
      BY <3>2, <3>3
  <2> QED
    BY <1>1, <2>1, <2>5, <2>6, <2>7, TypePartsNext
<1>7. CASE EndSweep \/ EndModule
  <2>1. DriverTypeOK' /\ phase = "sweep"
    BY <1>1, <1>7, DriverTypes DEF EndSweep, EndModule, AtSweepEnd
  <2>2. /\ pos > Len(prog[mod]) /\ pos' = 1
        /\ UNCHANGED <<prog, gts, src, vts, meta, rest, callee, arg>>
    BY <1>7 DEF EndSweep, EndModule, AtSweepEnd
  <2>3. PlaceOK'
    BY <1>1, <2>1, <2>2, NoCall, AtStart DEF DriverTypeOK
  <2>4. TablesOK'
    BY <1>1, <2>1, <2>2 DEF TablesOK
  <2> QED
    BY <1>1, <2>1, <2>2, <2>3, <2>4, TypePartsNext
<1>8. CASE Finalize
  <2> DEFINE instrs == { ins.val : ins \in Code(mod) }
  <2>1. /\ phase = "final"
        /\ meta' = [v \in Values |-> IF v \in instrs THEN GetTaint(gts, vts, v) ELSE meta[v]]
        /\ vts' = Cached(gts, vts, instrs)
        /\ UNCHANGED <<prog, gts, src, pos, rest, callee, arg>>
    BY <1>8 DEF Finalize
  <2>2. DriverTypeOK' /\ phase' \notin {"init", "sweep"}
    BY <1>1, <1>8, DriverTypes DEF Finalize, FinalizedModule
  <2>3. vts' \in ValueTaints /\ meta' \in ValueTaints
    BY <1>1, <2>1, TableTypes DEF TablesOK, ValueTaints
  <2>4. TablesOK'
    BY <1>1, <2>1, <2>2, <2>3 DEF TablesOK
  <2>5. PlaceOK'
    BY <1>1, <2>1, <2>2, NoCall, AtStart DEF PlaceOK, DriverTypeOK
  <2> QED
    BY <1>1, <2>1, <2>2, <2>4, <2>5, TypePartsNext
<1>9. CASE UNCHANGED vars
  BY <1>1, <1>9 DEF vars, driverVars, TypeOK, DriverTypeOK, At, Instr
<1> QED
  BY <1>2, <1>3, <1>4, <1>5, <1>6, <1>7, <1>8, <1>9 DEF Next, Ended

(* The tables, the metadata and the place in the loops have the values     *)
(* TypeOK gives them; a source flag belongs to a name with descriptions,   *)
(* and no module has metadata before all have been swept (TaintPass,       *)
(* src/Taint.cc:87).                                                       *)
THEOREM TypeCorrect == Spec => []TypeOK
BY InitTypeOK, TypeStep, PTL DEF Spec

-----------------------------------------------------------------------------
(* The tables and the metadata stay within tables that are closed under    *)
(* the instructions.                                                       *)
Within(g, t) ==
  /\ \A id \in Ids : gts[id] \subseteq g[id]
  /\ \A v \in Values : vts[v] \subseteq t[v] /\ meta[v] \subseteq t[v]

TablesWithin(gt, vt, g, t) ==
  /\ \A id \in Ids : gt[id] \subseteq g[id]
  /\ \A v \in Values : vt[v] \subseteq t[v]

(* What getTaint returns and what it leaves in the table stay within them. *)
LEMMA GetTaintWithin ==
  ASSUME NEW gt \in GlobalTaints, NEW vt \in ValueTaints,
         NEW g \in GlobalTaints, NEW t \in ValueTaints,
         TablesWithin(gt, vt, g, t), ValuesClosed(g, t)
  PROVE  /\ \A v \in Values : GetTaint(gt, vt, v) \subseteq t[v]
         /\ \A S : \A v \in Values : Cached(gt, vt, S)[v] \subseteq t[v]
<1>1. \A v \in Values : FromNames(gt, v) \subseteq t[v]
  <2>1. \A v \in Values : Feeds(v) \subseteq Ids
    BY DEF Feeds
  <2>2. \A v \in Values : FromNames(gt, v) \subseteq FromNames(g, v)
    BY <2>1 DEF FromNames, TablesWithin
  <2>3. \A v \in Values : FromNames(g, v) \subseteq t[v]
    BY DEF ValuesClosed
  <2> QED
    BY <2>2, <2>3
<1>2. \A v \in Values : vt[v] \subseteq t[v] /\ vt[Strip[v]] \subseteq t[v]
  <2>1. \A v \in Values : t[Strip[v]] \subseteq t[v] /\ Strip[v] \in Values
    BY DEF ValuesClosed
  <2> QED
    BY <2>1 DEF TablesWithin
<1>3. \A v \in Values : GetTaint(gt, vt, v) \subseteq t[v]
  BY <1>1, <1>2 DEF GetTaint
<1>4. \A S : \A v \in Values : Cached(gt, vt, S)[v] \subseteq t[v]
  BY <1>1, <1>2 DEF Cached
<1> QED
  BY <1>3, <1>4

(* So does what checkTaintSource leaves.                                   *)
LEMMA SourceWithin ==
  ASSUME TypeOK, phase = "sweep", pos <= Len(prog[mod]),
         NEW g \in GlobalTaints, NEW t \in ValueTaints, Closed(g, t, prog), Within(g, t)
  PROVE  /\ TablesWithin(SourceGts, SourceVts, g, t)
         /\ InstrClosed(g, t, Instr) /\ ValuesClosed(g, t)
<1>1. /\ prog \in Programs /\ mod \in Modules /\ pos \in 1 .. Len(prog[mod])
      /\ gts \in GlobalTaints /\ vts \in ValueTaints
  BY SourceTypes DEF TypeOK, DriverTypeOK
<1>2. InstrClosed(g, t, Instr) /\ ValuesClosed(g, t)
  BY <1>1 DEF Closed, Instr
<1>3. Instr.val \in Values /\ SourceNames(Instr) \subseteq Ids
  BY <1>1, InstrType DEF Instr
<1>4. \A v \in Values : SourceVts[v] \subseteq t[v]
  BY <1>1, <1>2, <1>3 DEF SourceVts, IsSource, InstrClosed, Within, ValueTaints
<1>5. \A id \in Ids : SourceGts[id] \subseteq g[id]
  BY <1>1, <1>2, <1>3, <1>4 DEF SourceGts, IsSource, AddTo, InstrClosed, Within, GlobalTaints
<1> QED
  BY <1>2, <1>4, <1>5 DEF TablesWithin

LEMMA WithinStep ==
  ASSUME TypeOK, [Next]_vars,
         NEW g \in GlobalTaints, NEW t \in ValueTaints, Closed(g, t, prog), Within(g, t)
  PROVE  Within(g, t)'
<1>1. /\ prog \in Programs /\ mod \in Modules
      /\ gts \in GlobalTaints /\ vts \in ValueTaints
  BY DEF TypeOK, DriverTypeOK
<1>2. ValuesClosed(g, t) /\ TablesWithin(gts, vts, g, t)
  BY DEF Closed, Within, TablesWithin
<1>3. CASE Propagate
  <2> DEFINE D == UNION { GetTaint(SourceGts, SourceVts, v) : v \in Instr.ops }
             to == IF D = {} THEN {} ELSE {Instr.to} \ {NoId}
             seen == Cached(SourceGts, SourceVts, Instr.ops)
  <2>1. /\ phase = "sweep" /\ pos <= Len(prog[mod]) /\ Instr.op = "other"
        /\ vts' = [seen EXCEPT ![Instr.val] = @ \cup D]
        /\ gts' = AddTo(SourceGts, to, D)
        /\ meta' = meta
    BY <1>3 DEF Propagate, At
  <2>2. /\ TablesWithin(SourceGts, SourceVts, g, t) /\ InstrClosed(g, t, Instr)
        /\ pos \in 1 .. Len(prog[mod])
        /\ SourceVts \in ValueTaints /\ SourceGts \in GlobalTaints
    BY <2>1, SourceTypes, SourceWithin
  <2>3. Instr.ops \subseteq Values /\ Instr.val \in Values
    BY <1>1, <2>1, <2>2, InstrType DEF Instr
  <2>4. /\ \A v \in Values : GetTaint(SourceGts, SourceVts, v) \subseteq t[v]
        /\ \A v \in Values : seen[v] \subseteq t[v]
        /\ seen \in ValueTaints
    BY <1>2, <2>2, GetTaintWithin, TableTypes
  <2>5. D \subseteq t[Instr.val] /\ \A id \in to : D \subseteq g[id]
    BY <2>1, <2>2, <2>3, <2>4 DEF InstrClosed
  <2> HIDE DEF D, seen, to
  <2>6. \A v \in Values : vts'[v] \subseteq t[v]
    BY <2>1, <2>3, <2>4, <2>5 DEF ValueTaints
  <2>7. \A id \in Ids : gts'[id] \subseteq g[id]
    BY <2>1, <2>2, <2>5 DEF AddTo, TablesWithin
  <2> QED
    BY <2>1, <2>6, <2>7 DEF Within
<1>4. CASE EnterCall
  <2>1. /\ phase = "sweep" /\ pos <= Len(prog[mod])
        /\ vts' = SourceVts /\ gts' = SourceGts /\ meta' = meta
    BY <1>4 DEF EnterCall, At
  <2> QED
    BY <2>1, SourceWithin DEF TablesWithin, Within
<1>5. CASE PassArg
  <2> DEFINE v == Instr.args[arg]
             D == GetTaint(gts, vts, v)
             to == IF D = {} THEN {} ELSE {ArgName}
  <2>1. /\ phase = "sweep" /\ pos <= Len(prog[mod]) /\ Instr.op = "call" /\ arg # 0
        /\ vts' = Cached(gts, vts, {v})
        /\ gts' = AddTo(gts, to, D)
        /\ meta' = meta
    BY <1>5 DEF PassArg, At
  <2>2. /\ callee \in Instr.passes /\ arg \in 1 .. Len(callee) /\ v \in Values
    BY <1>5, <2>1, ArgTypes DEF PassArg
  <2>3. InstrClosed(g, t, Instr)
    BY <2>1, SourceWithin
  <2>4. t[v] \subseteq g[ArgName]
    BY <2>1, <2>2, <2>3 DEF InstrClosed, ArgName
  <2>5. D \subseteq t[v] /\ \A w \in Values : vts'[w] \subseteq t[w]
    BY <1>1, <1>2, <2>1, <2>2, GetTaintWithin
  <2>6. \A id \in Ids : gts'[id] \subseteq g[id]
    BY <1>2, <2>1, <2>4, <2>5 DEF AddTo, TablesWithin
  <2> QED
    BY <2>1, <2>5, <2>6 DEF Within
<1>6. CASE Finalize
  <2> DEFINE instrs == { ins.val : ins \in Code(mod) }
  <2>1. /\ meta' = [v \in Values |-> IF v \in instrs THEN GetTaint(gts, vts, v) ELSE meta[v]]
        /\ vts' = Cached(gts, vts, instrs)
        /\ gts' = gts
    BY <1>6 DEF Finalize
  <2>2. \A v \in Values : GetTaint(gts, vts, v) \subseteq t[v] /\ vts'[v] \subseteq t[v]
    BY <1>1, <1>2, <2>1, GetTaintWithin
  <2> QED
    BY <2>1, <2>2 DEF Within
<1>7. CASE UNCHANGED <<gts, vts, meta>>
  BY <1>7 DEF Within
<1> QED
  BY <1>3, <1>4, <1>5, <1>6, <1>7
     DEF Next, Initialize, TakeCallee, EndSweep, EndModule, Ended, vars

(* Nothing is marked that does not derive from a source: the tables and    *)
(* the metadata stay within every pair of tables that is closed under the  *)
(* instructions of the program (runOnFunction, src/Taint.cc:87).           *)
THEOREM OnlyJustified == Spec => []Justified
<1> DEFINE Inv == TypeOK /\ Justified
<1>1. Init => Inv
  <2> SUFFICES ASSUME Init PROVE Justified
    BY InitTypeOK
  <2> QED
    BY DEF Init, Justified
<1>2. Inv /\ [Next]_vars => Inv'
  <2> SUFFICES ASSUME TypeOK, Justified, [Next]_vars,
                      NEW g \in GlobalTaints, NEW t \in ValueTaints, Closed(g, t, prog')
               PROVE  /\ \A id \in Ids : gts'[id] \subseteq g[id]
                      /\ \A v \in Values : vts'[v] \cup meta'[v] \subseteq t[v]
    BY TypeStep DEF Justified
  <2>1. prog' = prog
    BY DEF Next, Initialize, Propagate, EnterCall, TakeCallee, PassArg, EndSweep, EndModule,
           Finalize, Ended, vars
  <2>2. Closed(g, t, prog)
    BY <2>1
  <2>3. Within(g, t)
    BY <2>2 DEF Justified, Within
  <2>4. Within(g, t)'
    BY <2>2, <2>3, WithinStep
  <2> QED
    BY <2>4 DEF Within
<1> QED
  BY <1>1, <1>2, PTL DEF Spec

-----------------------------------------------------------------------------
(* A set of natural numbers has a least one.                               *)
LEMMA LeastNumber ==
  ASSUME NEW T \in SUBSET Nat, T # {}
  PROVE  \E n \in T : \A k \in T : n <= k
<1> DEFINE R == OpToRel(<, Nat)
<1>1. IsWellFoundedOn(R, Nat)
  BY NatLessThanWellFounded
<1>2. \A i, k \in Nat : <<k, i>> \in R <=> k < i
  BY DEF OpToRel
<1> HIDE DEF R
<1>3. PICK n \in T : \A k \in T : <<k, n>> \notin R
  BY <1>1, WFMin
<1>4. ASSUME NEW k \in T PROVE n <= k
  <2>1. n \in Nat /\ k \in Nat /\ ~ (k < n)
    BY <1>2, <1>3
  <2> QED
    BY <2>1
<1> QED
  BY <1>4

(* Induction on the natural numbers, for a set.                            *)
LEMMA Counting ==
  ASSUME NEW T \in SUBSET Nat, 0 \in T, \A n \in T : n + 1 \in T
  PROVE  T = Nat
<1> SUFFICES ASSUME Nat \ T # {} PROVE FALSE
  OBVIOUS
<1>1. PICK n \in Nat \ T : \A k \in Nat \ T : n <= k
  BY LeastNumber
<1>2. n - 1 \in Nat /\ n - 1 \notin Nat \ T
  BY <1>1
<1> QED
  BY <1>2

(* The tables after 0 to n applications of the instructions.               *)
Applied(f, p, n) ==
  f = [k \in 0 .. n |-> IF k = 0 THEN NoTables ELSE Advance(AllCode(p), f[k - 1])]

LEMMA AppliedExist == \A p : \A n \in Nat : \E f : Applied(f, p, n)
<1> SUFFICES ASSUME NEW p PROVE \A n \in Nat : \E f : Applied(f, p, n)
  OBVIOUS
<1> DEFINE T == { n \in Nat : \E f : Applied(f, p, n) }
<1>1. 0 \in T
  <2> DEFINE f == [k \in 0 .. 0 |-> NoTables]
  <2>1. f = [k \in 0 .. 0 |-> IF k = 0 THEN NoTables ELSE Advance(AllCode(p), f[k - 1])]
    OBVIOUS
  <2> HIDE DEF f
  <2>2. Applied(f, p, 0)
    BY <2>1 DEF Applied
  <2> QED
    BY <2>2
<1>2. ASSUME NEW n \in T PROVE n + 1 \in T
  <2>1. PICK f : f = [k \in 0 .. n |-> IF k = 0 THEN NoTables ELSE Advance(AllCode(p), f[k - 1])]
    BY DEF Applied
  <2> DEFINE g == [k \in 0 .. n + 1 |-> IF k = n + 1 THEN Advance(AllCode(p), f[n]) ELSE f[k]]
  <2>2. \A k \in 0 .. n + 1 : g[k] = IF k = 0 THEN NoTables ELSE Advance(AllCode(p), g[k - 1])
    <3> TAKE k \in 0 .. n + 1
    <3>1. CASE k = n + 1
      <4>1. k # 0 /\ k - 1 = n /\ n \in 0 .. n + 1 /\ n # n + 1
        BY <3>1
      <4>2. g[k] = Advance(AllCode(p), f[n]) /\ g[k - 1] = f[n]
        BY <3>1, <4>1
      <4> QED
        BY <4>1, <4>2
    <3>2. CASE k # n + 1
      <4>1. k \in 0 .. n /\ (k # 0 => k - 1 \in 0 .. n /\ k - 1 \in 0 .. n + 1 /\ k - 1 # n + 1)
        BY <3>2
      <4>2. f[k] = IF k = 0 THEN NoTables ELSE Advance(AllCode(p), f[k - 1])
        BY <2>1, <4>1
      <4>3. g[k] = f[k] /\ (k # 0 => g[k - 1] = f[k - 1])
        BY <3>2, <4>1
      <4> QED
        BY <4>2, <4>3
    <3> QED
      BY <3>1, <3>2
  <2>3. g = [k \in 0 .. n + 1 |-> g[k]]
    OBVIOUS
  <2> HIDE DEF g
  <2>4. Applied(g, p, n + 1)
    BY <2>2, <2>3 DEF Applied
  <2> QED
    BY <2>4
<1> HIDE DEF T
<1>3. T = Nat
  <2>1. T \in SUBSET Nat
    BY DEF T
  <2> QED
    BY <1>1, <1>2, <2>1, Counting
<1> QED
  BY <1>3 DEF T

(* So what derives from the sources of a program is what Depth             *)
(* applications yield.                                                     *)
LEMMA DerivedIs ==
  ASSUME NEW p
  PROVE  \E f : /\ Derived(p) = f[Depth] /\ f[0] = NoTables
                /\ \A k \in 1 .. Depth : f[k] = DeriveStep(AllCode(p), f[k - 1])
<1> DEFINE F == CHOOSE f : Applied(f, p, Depth)
<1>1. Depth \in Nat
  BY DerivationAssumption
<1>2. Applied(F, p, Depth)
  BY <1>1, AppliedExist
<1>3. Derived(p) = F[Depth]
  BY DEF Derived, Applied
<1> HIDE DEF F
<1>4. F[0] = NoTables
  BY <1>1, <1>2 DEF Applied
<1>5. ASSUME NEW k \in 1 .. Depth PROVE F[k] = DeriveStep(AllCode(p), F[k - 1])
  <2>1. k \in 0 .. Depth /\ k # 0
    BY <1>1
  <2>2. F[k] = Advance(AllCode(p), F[k - 1])
    BY <1>2, <2>1 DEF Applied
  <2> QED
    BY <2>2 DEF Advance
<1> QED
  BY <1>3, <1>4, <1>5

(* An application adds nothing to tables below closed ones that these do   *)
(* not have.                                                               *)
InTables(u, g, t) ==
  /\ u.gts \in GlobalTaints /\ u.vts \in ValueTaints
  /\ TablesWithin(u.gts, u.vts, g, t)

CodeOf(p, ins) == \E m \in Modules : \E i \in 1 .. Len(p[m]) : ins = p[m][i]

LEMMA CodeIs == ASSUME NEW p, NEW ins PROVE ins \in AllCode(p) <=> CodeOf(p, ins)
BY DEF AllCode, CodeOf

LEMMA CodeTypes ==
  ASSUME NEW p \in Programs, NEW ins, ins \in AllCode(p)
  PROVE  /\ ins.val \in Values /\ ins.source \in Descs \cup {NoDesc}
         /\ SourceNames(ins) \subseteq Ids
         /\ ins.op = "other" => ins.ops \subseteq Values /\ ins.to \in Ids \cup {NoId}
         /\ ins.op = "call" =>
              /\ ins.args \in Seq(Values) /\ ins.passes \subseteq Seq(Ids)
              /\ \A names \in ins.passes : Len(names) = Len(ins.args)
<1>1. PICK m \in Modules : \E i \in 1 .. Len(p[m]) : ins = p[m][i]
  BY CodeIs DEF CodeOf
<1>2. PICK i \in 1 .. Len(p[m]) : ins = p[m][i]
  BY <1>1
<1> QED
  BY <1>2, InstrType

(* What an application adds to a value and to a name.                      *)
AddsValue(code, t, v, d) ==
  \/ d \in t.vts[v] \/ d \in t.vts[Strip[v]] \/ d \in FromNames(t.gts, v)
  \/ \E ins \in code : ins.val = v /\ ins.source = d /\ d # NoDesc
  \/ \E ins \in code : ins.op = "other" /\ ins.val = v /\ \E w \in ins.ops : d \in t.vts[w]

AddsName(code, t, id, d) ==
  \/ d \in t.gts[id]
  \/ \E ins \in code : ins.op = "other" /\ ins.to = id /\ \E w \in ins.ops : d \in t.vts[w]
  \/ \E ins \in code : ins.op = "call" /\ \E a \in 1 .. Len(ins.args), names \in ins.passes :
       names[a] = id /\ d \in t.vts[ins.args[a]]
  \/ \E ins \in code : ins.source # NoDesc /\ id \in SourceNames(ins) /\ d \in t.vts[ins.val]

(* The descriptions of the operands of some instructions.                  *)
LEMMA OperandsAdd ==
  ASSUME NEW J, NEW t, NEW d
  PROVE  d \in UNION { t[w] : w \in UNION { ins.ops : ins \in J } } <=>
           \E ins \in J : \E w \in ins.ops : d \in t[w]
<1> DEFINE W == UNION { ins.ops : ins \in J }
<1>1. \A w : w \in W <=> \E ins \in J : w \in ins.ops
  OBVIOUS
<1> HIDE DEF W
<1>2. d \in UNION { t[w] : w \in W } <=> \E w \in W : d \in t[w]
  OBVIOUS
<1>3. (\E w \in W : d \in t[w]) <=> \E ins \in J : \E w \in ins.ops : d \in t[w]
  BY <1>1
<1>4. d \in UNION { t[w] : w \in W } <=> \E ins \in J : \E w \in ins.ops : d \in t[w]
  BY <1>2, <1>3
<1> QED
  BY <1>4 DEF W

(* Those of the arguments that some calls pass under a name.               *)
LEMMA ArgumentsAdd ==
  ASSUME NEW J, NEW t, NEW id, NEW d
  PROVE  d \in UNION UNION { { t[c.args[a]] : a \in { b \in 1 .. Len(c.args) :
                                \E names \in c.passes : names[b] = id } } : c \in J } <=>
           \E c \in J : \E a \in 1 .. Len(c.args), names \in c.passes :
             names[a] = id /\ d \in t[c.args[a]]
<1> DEFINE A(c) == { b \in 1 .. Len(c.args) : \E names \in c.passes : names[b] = id }
           P(c) == { t[c.args[a]] : a \in A(c) }
<1>1. ASSUME NEW c PROVE d \in UNION P(c) <=> \E a \in A(c) : d \in t[c.args[a]]
  OBVIOUS
<1>2. ASSUME NEW c
      PROVE  (\E a \in A(c) : d \in t[c.args[a]]) <=>
               \E a \in 1 .. Len(c.args), names \in c.passes : names[a] = id /\ d \in t[c.args[a]]
  OBVIOUS
<1> HIDE DEF A, P
<1>3. d \in UNION UNION { P(c) : c \in J } <=> \E c \in J : d \in UNION P(c)
  <2>1. ASSUME d \in UNION UNION { P(c) : c \in J } PROVE \E c \in J : d \in UNION P(c)
    <3>1. PICK X \in UNION { P(c) : c \in J } : d \in X
      BY <2>1
    <3>2. PICK c \in J : X \in P(c)
      OBVIOUS
    <3> QED
      BY <3>1, <3>2
  <2>2. ASSUME NEW c \in J, d \in UNION P(c) PROVE d \in UNION UNION { P(e) : e \in J }
    <3>1. PICK X \in P(c) : d \in X
      BY <2>2
    <3>2. X \in UNION { P(e) : e \in J }
      OBVIOUS
    <3> QED
      BY <3>1, <3>2
  <2> QED
    BY <2>1, <2>2
<1>4. (\E c \in J : d \in UNION P(c)) <=>
        \E c \in J : \E a \in 1 .. Len(c.args), names \in c.passes :
          names[a] = id /\ d \in t[c.args[a]]
  BY <1>1, <1>2
<1>5. d \in UNION UNION { P(c) : c \in J } <=>
        \E c \in J : \E a \in 1 .. Len(c.args), names \in c.passes :
          names[a] = id /\ d \in t[c.args[a]]
  BY <1>3, <1>4
<1> QED
  BY <1>5 DEF P, A

LEMMA StepAdds ==
  ASSUME NEW code, NEW t
  PROVE  LET u == DeriveStep(code, t)
         IN  /\ DOMAIN u.vts = Values /\ DOMAIN u.gts = Ids
             /\ u.vts = [v \in Values |-> u.vts[v]] /\ u.gts = [id \in Ids |-> u.gts[id]]
             /\ \A v \in Values : \A d : d \in u.vts[v] <=> AddsValue(code, t, v, d)
             /\ \A id \in Ids : \A d : d \in u.gts[id] <=> AddsName(code, t, id, d)
<1> DEFINE others == { ins \in code : ins.op = "other" }
           calls == { ins \in code : ins.op = "call" }
           marked(v) == { t.vts[w] : w \in UNION { ins.ops : ins \in { j \in others : j.val = v } } }
           stored(id) == { t.vts[w] : w \in UNION { ins.ops : ins \in { j \in others : j.to = id } } }
           passed(id) == UNION { { t.vts[c.args[a]] : a \in { b \in 1 .. Len(c.args) :
                                \E names \in c.passes : names[b] = id } } : c \in calls }
           tainted(id) == { t.vts[ins.val] : ins \in
                         { j \in code : j.source # NoDesc /\ id \in SourceNames(j) } }
           V == [v \in Values |-> UNION { t.vts[v], t.vts[Strip[v]], FromNames(t.gts, v),
                                          SourcesOf(code, v), UNION marked(v) }]
           G == [id \in Ids |-> t.gts[id] \cup UNION (stored(id) \cup passed(id) \cup tainted(id))]
           u == DeriveStep(code, t)
<1>1. u.vts = V /\ u.gts = G
  BY DEF DeriveStep
<1>2. ASSUME NEW v, NEW d
      PROVE  /\ d \in UNION marked(v) <=>
                  \E ins \in code : ins.op = "other" /\ ins.val = v /\ \E w \in ins.ops : d \in t.vts[w]
             /\ d \in SourcesOf(code, v) <=> \E ins \in code : ins.val = v /\ ins.source = d /\ d # NoDesc
  <2> DEFINE J == { j \in others : j.val = v }
  <2>1. \A ins : ins \in J <=> ins \in code /\ ins.op = "other" /\ ins.val = v
    OBVIOUS
  <2>2. d \in UNION marked(v) <=> \E ins \in J : \E w \in ins.ops : d \in t.vts[w]
    BY OperandsAdd
  <2>3. d \in SourcesOf(code, v) <=> \E ins \in code : ins.val = v /\ ins.source = d /\ d # NoDesc
    BY DEF SourcesOf
  <2> HIDE DEF marked, others, J
  <2> QED
    BY <2>1, <2>2, <2>3
<1>3. ASSUME NEW id, NEW d
      PROVE  /\ d \in UNION stored(id) <=>
                  \E ins \in code : ins.op = "other" /\ ins.to = id /\ \E w \in ins.ops : d \in t.vts[w]
             /\ d \in UNION passed(id) <=>
                  \E ins \in code : ins.op = "call" /\ \E a \in 1 .. Len(ins.args), names \in ins.passes :
                    names[a] = id /\ d \in t.vts[ins.args[a]]
             /\ d \in UNION tainted(id) <=>
                  \E ins \in code : ins.source # NoDesc /\ id \in SourceNames(ins) /\ d \in t.vts[ins.val]
  <2>1. d \in UNION stored(id) <=>
          \E ins \in code : ins.op = "other" /\ ins.to = id /\ \E w \in ins.ops : d \in t.vts[w]
    <3> DEFINE J == { j \in others : j.to = id }
    <3>1. \A ins : ins \in J <=> ins \in code /\ ins.op = "other" /\ ins.to = id
      OBVIOUS
    <3>2. d \in UNION stored(id) <=> \E ins \in J : \E w \in ins.ops : d \in t.vts[w]
      BY OperandsAdd
    <3> HIDE DEF stored, others, J
    <3> QED
      BY <3>1, <3>2
  <2>2. d \in UNION passed(id) <=>
          \E ins \in code : ins.op = "call" /\ \E a \in 1 .. Len(ins.args), names \in ins.passes :
            names[a] = id /\ d \in t.vts[ins.args[a]]
    <3>1. \A ins : ins \in calls <=> ins \in code /\ ins.op = "call"
      OBVIOUS
    <3> HIDE DEF calls
    <3>2. d \in UNION passed(id) <=>
            \E c \in calls : \E a \in 1 .. Len(c.args), names \in c.passes :
              names[a] = id /\ d \in t.vts[c.args[a]]
      BY ArgumentsAdd
    <3> HIDE DEF passed
    <3> QED
      BY <3>1, <3>2
  <2>3. d \in UNION tainted(id) <=>
          \E ins \in code : ins.source # NoDesc /\ id \in SourceNames(ins) /\ d \in t.vts[ins.val]
    <3> DEFINE J == { j \in code : j.source # NoDesc /\ id \in SourceNames(j) }
    <3>1. \A ins : ins \in J <=> ins \in code /\ ins.source # NoDesc /\ id \in SourceNames(ins)
      OBVIOUS
    <3> HIDE DEF J
    <3>2. d \in UNION { t.vts[ins.val] : ins \in J } <=> \E ins \in J : d \in t.vts[ins.val]
      OBVIOUS
    <3>3. d \in UNION { t.vts[ins.val] : ins \in J } <=>
            \E ins \in code : ins.source # NoDesc /\ id \in SourceNames(ins) /\ d \in t.vts[ins.val]
      BY <3>1, <3>2
    <3> QED
      BY <3>3 DEF J
  <2> QED
    BY <2>1, <2>2, <2>3
<1> HIDE DEF marked, stored, passed, tainted
<1>4. \A v \in Values : \A d :
        d \in V[v] <=> \/ d \in t.vts[v] \/ d \in t.vts[Strip[v]] \/ d \in FromNames(t.gts, v)
                       \/ d \in SourcesOf(code, v) \/ d \in UNION marked(v)
  BY Zenon
<1>5. \A id \in Ids : \A d :
        d \in G[id] <=> \/ d \in t.gts[id] \/ d \in UNION stored(id) \/ d \in UNION passed(id)
                        \/ d \in UNION tainted(id)
  <2> SUFFICES ASSUME NEW id \in Ids, NEW d
      PROVE  d \in G[id] <=> \/ d \in t.gts[id] \/ d \in UNION stored(id) \/ d \in UNION passed(id)
                             \/ d \in UNION tainted(id)
    OBVIOUS
  <2>1. G[id] = t.gts[id] \cup UNION (stored(id) \cup passed(id) \cup tainted(id))
    OBVIOUS
  <2> HIDE DEF G
  <2> QED
    BY <2>1, Zenon
<1>6. DOMAIN V = Values /\ DOMAIN G = Ids /\ V = [v \in Values |-> V[v]] /\ G = [id \in Ids |-> G[id]]
  OBVIOUS
<1> HIDE DEF V, G, u
<1>7. \A v \in Values : \A d : d \in V[v] <=> AddsValue(code, t, v, d)
  <2> SUFFICES ASSUME NEW v \in Values, NEW d PROVE d \in V[v] <=> AddsValue(code, t, v, d)
    OBVIOUS
  <2>1. d \in V[v] <=> \/ d \in t.vts[v] \/ d \in t.vts[Strip[v]] \/ d \in FromNames(t.gts, v)
                       \/ d \in SourcesOf(code, v) \/ d \in UNION marked(v)
    BY <1>4
  <2>2. d \in UNION marked(v) <=>
          \E ins \in code : ins.op = "other" /\ ins.val = v /\ \E w \in ins.ops : d \in t.vts[w]
    BY <1>2
  <2>3. d \in SourcesOf(code, v) <=> \E ins \in code : ins.val = v /\ ins.source = d /\ d # NoDesc
    BY <1>2
  <2> QED
    BY <2>1, <2>2, <2>3, Zenon DEF AddsValue
<1>8. \A id \in Ids : \A d : d \in G[id] <=> AddsName(code, t, id, d)
  BY <1>3, <1>5, Zenon DEF AddsName
<1> QED
  BY <1>1, <1>6, <1>7, <1>8 DEF u

LEMMA StepWithin ==
  ASSUME NEW p \in Programs, NEW g \in GlobalTaints, NEW t \in ValueTaints, Closed(g, t, p),
         NEW u, InTables(u, g, t)
  PROVE  InTables(DeriveStep(AllCode(p), u), g, t)
<1> DEFINE n == DeriveStep(AllCode(p), u)
<1>1. /\ \A v \in Values : \A d : d \in n.vts[v] <=> AddsValue(AllCode(p), u, v, d)
      /\ \A id \in Ids : \A d : d \in n.gts[id] <=> AddsName(AllCode(p), u, id, d)
      /\ n.vts = [v \in Values |-> n.vts[v]] /\ n.gts = [id \in Ids |-> n.gts[id]]
  BY StepAdds
<1> HIDE DEF n
<1>2. /\ \A id \in Ids : u.gts[id] \subseteq g[id]
      /\ \A v \in Values : u.vts[v] \subseteq t[v]
      /\ u.gts \in GlobalTaints /\ u.vts \in ValueTaints
  BY DEF InTables, TablesWithin
<1>3. ASSUME NEW ins, ins \in AllCode(p) PROVE InstrClosed(g, t, ins)
  BY <1>3, CodeIs DEF CodeOf, Closed
<1>4. ASSUME NEW v \in Values, NEW d, AddsValue(AllCode(p), u, v, d) PROVE d \in t[v]
  <2>1. Strip[v] \in Values /\ FromNames(g, v) \subseteq t[v] /\ t[Strip[v]] \subseteq t[v]
    BY DEF Closed, ValuesClosed
  <2>2. FromNames(u.gts, v) \subseteq FromNames(g, v)
    <3>1. Feeds(v) \subseteq Ids
      BY DEF Feeds
    <3> QED
      BY <1>2, <3>1 DEF FromNames
  <2>3. CASE d \in u.vts[v] \/ d \in u.vts[Strip[v]] \/ d \in FromNames(u.gts, v)
    BY <1>2, <2>1, <2>2, <2>3
  <2>4. ASSUME NEW ins \in AllCode(p), ins.val = v, ins.source = d, d # NoDesc PROVE d \in t[v]
    BY <1>3, <2>4 DEF InstrClosed
  <2>5. ASSUME NEW ins \in AllCode(p), ins.op = "other", ins.val = v, NEW w \in ins.ops, d \in u.vts[w]
        PROVE  d \in t[v]
    <3>1. w \in Values
      BY <2>5, CodeTypes
    <3>2. t[w] \subseteq t[v]
      BY <1>3, <2>5 DEF InstrClosed
    <3> QED
      BY <1>2, <2>5, <3>1, <3>2
  <2> QED
    BY <1>4, <2>3, <2>4, <2>5 DEF AddsValue
<1>5. ASSUME NEW id \in Ids, NEW d, AddsName(AllCode(p), u, id, d) PROVE d \in g[id]
  <2>1. CASE d \in u.gts[id]
    BY <1>2, <2>1
  <2>2. ASSUME NEW ins \in AllCode(p), ins.op = "other", ins.to = id, NEW w \in ins.ops, d \in u.vts[w]
        PROVE  d \in g[id]
    <3>1. w \in Values
      BY <2>2, CodeTypes
    <3>2. t[w] \subseteq g[id]
      BY <1>3, <2>2 DEF InstrClosed
    <3> QED
      BY <1>2, <2>2, <3>1, <3>2
  <2>3. ASSUME NEW ins \in AllCode(p), ins.op = "call", NEW a \in 1 .. Len(ins.args), NEW names \in ins.passes,
               names[a] = id, d \in u.vts[ins.args[a]]
        PROVE  d \in g[id]
    <3>1. ins.args \in Seq(Values) /\ Len(names) = Len(ins.args)
      BY <2>3, CodeTypes
    <3>2. ins.args[a] \in Values /\ a \in 1 .. Len(names)
      BY <3>1
    <3>3. t[ins.args[a]] \subseteq g[id]
      BY <1>3, <2>3, <3>2 DEF InstrClosed
    <3> QED
      BY <1>2, <2>3, <3>2, <3>3
  <2>4. ASSUME NEW ins \in AllCode(p), ins.source # NoDesc, id \in SourceNames(ins), d \in u.vts[ins.val]
        PROVE  d \in g[id]
    <3>1. ins.val \in Values
      BY <2>4, CodeTypes
    <3>2. t[ins.val] \subseteq g[id]
      BY <1>3, <2>4 DEF InstrClosed
    <3> QED
      BY <1>2, <2>4, <3>1, <3>2
  <2> QED
    BY <1>5, <2>1, <2>2, <2>3, <2>4 DEF AddsName
<1>6. /\ \A v \in Values : n.vts[v] \subseteq t[v]
      /\ \A id \in Ids : n.gts[id] \subseteq g[id]
  BY <1>1, <1>4, <1>5
<1>7. n.vts \in ValueTaints /\ n.gts \in GlobalTaints
  <2>1. (\A v \in Values : n.vts[v] \in SUBSET Descs) /\ \A id \in Ids : n.gts[id] \in SUBSET Descs
    BY <1>6 DEF ValueTaints, GlobalTaints
  <2> QED
    BY <1>1, <2>1 DEF ValueTaints, GlobalTaints
<1> QED
  BY <1>6, <1>7 DEF InTables, TablesWithin, n

LEMMA DerivedWithin ==
  ASSUME NEW p \in Programs, NEW g \in GlobalTaints, NEW t \in ValueTaints, Closed(g, t, p)
  PROVE  InTables(Derived(p), g, t)
<1>1. PICK f : /\ Derived(p) = f[Depth] /\ f[0] = NoTables
               /\ \A k \in 1 .. Depth : f[k] = DeriveStep(AllCode(p), f[k - 1])
  BY DerivedIs
<1>0. Depth \in Nat
  BY DerivationAssumption
<1> DEFINE T == { k \in Nat : k <= Depth => InTables(f[k], g, t) }
<1>2. 0 \in T
  <2>1. NoTables.vts = [v \in Values |-> {}] /\ NoTables.gts = [id \in Ids |-> {}]
    BY DEF NoTables
  <2>2. InTables(NoTables, g, t)
    BY <2>1 DEF InTables, TablesWithin, GlobalTaints, ValueTaints
  <2> QED
    BY <1>1, <2>2
<1>3. ASSUME NEW k \in T PROVE k + 1 \in T
  <2>1. k \in Nat /\ (k <= Depth => InTables(f[k], g, t))
    OBVIOUS
  <2> HIDE DEF T
  <2>2. ASSUME k + 1 <= Depth PROVE InTables(f[k + 1], g, t)
    <3>1. k + 1 \in 1 .. Depth /\ (k + 1) - 1 = k /\ InTables(f[k], g, t)
      BY <1>0, <2>1, <2>2
    <3>2. f[k + 1] = DeriveStep(AllCode(p), f[k])
      BY <1>1, <3>1
    <3> QED
      BY <3>1, <3>2, StepWithin
  <2> QED
    BY <2>1, <2>2 DEF T
<1> HIDE DEF T
<1>4. T = Nat
  <2>1. T \in SUBSET Nat
    BY DEF T
  <2> QED
    BY <1>2, <1>3, <2>1, Counting
<1>5. InTables(f[Depth], g, t)
  <2>1. Depth \in T /\ Depth <= Depth
    BY <1>0, <1>4
  <2> QED
    BY <2>1 DEF T
<1> QED
  BY <1>1, <1>5

(* Tables that an application leaves as they are are closed: what derives  *)
(* from the sources is the least pair of closed tables.                    *)
LEMMA DerivedClosed ==
  ASSUME NEW p \in Programs
  PROVE  /\ Closed(Derived(p).gts, Derived(p).vts, p)
         /\ Derived(p).gts \in GlobalTaints /\ Derived(p).vts \in ValueTaints
<1> DEFINE u == Derived(p)
<1>1. DeriveStep(AllCode(p), u) = u
  BY DerivationAssumption
<1>2. u.gts \in GlobalTaints /\ u.vts \in ValueTaints
  <2> DEFINE g == [id \in Ids |-> Descs]
             t == [v \in Values |-> Descs]
  <2>1. g \in GlobalTaints /\ t \in ValueTaints
    BY DEF GlobalTaints, ValueTaints
  <2>2. Closed(g, t, p)
    <3>1. ValuesClosed(g, t)
      <4> SUFFICES ASSUME NEW v \in Values PROVE FromNames(g, v) \cup t[Strip[v]] \subseteq t[v]
        BY DEF ValuesClosed
      <4>1. FromNames(g, v) \subseteq Descs /\ Strip[v] \in Values
        BY <2>1, TableTypes
      <4> QED
        BY <4>1
    <3>2. ASSUME NEW m \in Modules, NEW i \in 1 .. Len(p[m]) PROVE InstrClosed(g, t, p[m][i])
      <4> DEFINE ins == p[m][i]
      <4>1. /\ ins.val \in Values /\ SourceNames(ins) \subseteq Ids /\ ins.source \in Descs \cup {NoDesc}
            /\ ins.op = "other" => ins.ops \subseteq Values /\ ins.to \in Ids \cup {NoId}
            /\ ins.op = "call" =>
                 /\ ins.args \in Seq(Values) /\ ins.passes \subseteq Seq(Ids)
                 /\ \A names \in ins.passes : Len(names) = Len(ins.args)
        BY InstrType
      <4> HIDE DEF ins
      <4>2. ASSUME ins.op = "call", NEW names \in ins.passes, NEW a \in 1 .. Len(names)
            PROVE  t[ins.args[a]] \subseteq g[names[a]]
        <5>1. names \in Seq(Ids) /\ ins.args \in Seq(Values) /\ Len(names) = Len(ins.args)
          BY <4>1, <4>2
        <5>2. names[a] \in Ids /\ ins.args[a] \in Values
          BY <4>2, <5>1
        <5> QED
          BY <5>2
      <4>3. ins.source # NoDesc =>
              ins.source \in t[ins.val] /\ \A id \in SourceNames(ins) : t[ins.val] \subseteq g[id]
        BY <4>1
      <4>4. ins.op = "other" => \A v \in ins.ops :
              t[v] \subseteq t[ins.val] /\ (ins.to # NoId => t[v] \subseteq g[ins.to])
        BY <4>1
      <4> HIDE DEF g, t
      <4>5. InstrClosed(g, t, ins)
        BY <4>2, <4>3, <4>4 DEF InstrClosed
      <4> QED
        BY <4>5 DEF ins
    <3> QED
      BY <3>1, <3>2 DEF Closed
  <2> HIDE DEF g, t
  <2> QED
    BY <2>1, <2>2, DerivedWithin DEF InTables
<1> HIDE DEF u
<1>3. /\ \A v \in Values : \A d : AddsValue(AllCode(p), u, v, d) => d \in u.vts[v]
      /\ \A id \in Ids : \A d : AddsName(AllCode(p), u, id, d) => d \in u.gts[id]
  <2> DEFINE n == DeriveStep(AllCode(p), u)
  <2>1. /\ \A v \in Values : \A d : d \in n.vts[v] <=> AddsValue(AllCode(p), u, v, d)
        /\ \A id \in Ids : \A d : d \in n.gts[id] <=> AddsName(AllCode(p), u, id, d)
    BY StepAdds
  <2>2. n = u
    BY <1>1
  <2> HIDE DEF n
  <2> QED
    BY <2>1, <2>2
<1>4. ValuesClosed(u.gts, u.vts)
  BY <1>3 DEF ValuesClosed, AddsValue
<1>5. ASSUME NEW m \in Modules, NEW i \in 1 .. Len(p[m]) PROVE InstrClosed(u.gts, u.vts, p[m][i])
  <2> DEFINE ins == p[m][i]
  <2>0. ins \in AllCode(p)
    BY CodeIs DEF CodeOf
  <2> HIDE DEF ins
  <2>1. /\ ins.val \in Values /\ SourceNames(ins) \subseteq Ids
        /\ ins.op = "other" => ins.ops \subseteq Values /\ ins.to \in Ids \cup {NoId}
        /\ ins.op = "call" =>
             /\ ins.args \in Seq(Values) /\ ins.passes \subseteq Seq(Ids)
             /\ \A names \in ins.passes : Len(names) = Len(ins.args)
    BY <2>0, CodeTypes
  <2>2. ins.source # NoDesc =>
          /\ ins.source \in u.vts[ins.val]
          /\ \A id \in SourceNames(ins) : u.vts[ins.val] \subseteq u.gts[id]
    BY <1>3, <2>0, <2>1 DEF AddsValue, AddsName
  <2>3. ASSUME ins.op = "call", NEW names \in ins.passes, NEW a \in 1 .. Len(names)
        PROVE  u.vts[ins.args[a]] \subseteq u.gts[names[a]]
    <3>1. names \in Seq(Ids) /\ Len(names) = Len(ins.args)
      BY <2>1, <2>3
    <3>2. names[a] \in Ids /\ a \in 1 .. Len(ins.args)
      BY <2>3, <3>1
    <3> QED
      BY <1>3, <2>0, <2>3, <3>2 DEF AddsName
  <2>4. ASSUME ins.op = "other", NEW v \in ins.ops
        PROVE  u.vts[v] \subseteq u.vts[ins.val] /\ (ins.to # NoId => u.vts[v] \subseteq u.gts[ins.to])
    <3>1. u.vts[v] \subseteq u.vts[ins.val]
      BY <1>3, <2>0, <2>1, <2>4 DEF AddsValue
    <3>2. ins.to # NoId => u.vts[v] \subseteq u.gts[ins.to]
      BY <1>3, <2>0, <2>1, <2>4 DEF AddsName
    <3> QED
      BY <3>1, <3>2
  <2>5. InstrClosed(u.gts, u.vts, ins)
    BY <2>2, <2>3, <2>4 DEF InstrClosed
  <2> QED
    BY <2>5 DEF ins
<1>6. Closed(u.gts, u.vts, p)
  BY <1>4, <1>5 DEF Closed
<1> QED
  BY <1>2, <1>6 DEF u

(* Nothing is marked that does not derive from a source: what the pass     *)
(* writes into the metadata and keeps for names is in the least tables     *)
(* closed under the instructions, in whatever order callees come and       *)
(* however often a module is swept (doFinalization, src/Taint.cc:141).     *)
COROLLARY OnlyDerivedMarked == Spec => []OnlyDerived
<1>1. TypeOK /\ Justified => OnlyDerived
  <2> SUFFICES ASSUME TypeOK, Justified PROVE OnlyDerived
    OBVIOUS
  <2> DEFINE u == Derived(prog)
  <2>1. Closed(u.gts, u.vts, prog) /\ u.gts \in GlobalTaints /\ u.vts \in ValueTaints
    BY DerivedClosed DEF TypeOK
  <2> HIDE DEF u
  <2>2. /\ \A id \in Ids : gts[id] \subseteq u.gts[id]
        /\ \A v \in Values : vts[v] \cup meta[v] \subseteq u.vts[v]
    BY <2>1 DEF Justified
  <2> QED
    BY <2>2 DEF OnlyDerived, u
<1> QED
  BY <1>1, TypeCorrect, OnlyJustified, PTL

-----------------------------------------------------------------------------
(* Finalization asks for taint of which nothing is lost later.             *)
MetaInv == \A v \in Values : meta[v] \subseteq GetTaint(gts, vts, v)

(* A table is only filled where it was empty, with what getTaint returned. *)
LEMMA CachedGrows ==
  ASSUME NEW g \in GlobalTaints, NEW w \in ValueTaints, NEW S, NEW v \in Values
  PROVE  /\ w[v] \subseteq Cached(g, w, S)[v]
         /\ GetTaint(g, w, v) \subseteq GetTaint(g, Cached(g, w, S), v)
<1>1. Strip[v] \in Values
  OBVIOUS
<1>2. w[v] \subseteq Cached(g, w, S)[v]
  BY DEF Cached
<1>3. CASE w[v] # {} \/ w[Strip[v]] # {}
  BY <1>1, <1>3 DEF GetTaint, Cached
<1>4. CASE w[v] = {} /\ w[Strip[v]] = {} /\ Strip[v] = v
  BY <1>1, <1>4 DEF GetTaint, Cached
<1>5. CASE w[v] = {} /\ w[Strip[v]] = {} /\ Strip[v] # v
  <2>1. Feeds(v) = {}
    BY <1>5 DEF Feeds
  <2>2. FromNames(g, v) = {}
    BY <2>1 DEF FromNames
  <2> QED
    BY <1>5, <2>2, <1>2 DEF GetTaint
<1> QED
  BY <1>2, <1>3, <1>4, <1>5

LEMMA SourceGrows ==
  ASSUME TypeOK, phase = "sweep", pos <= Len(prog[mod])
  PROVE  /\ \A id \in Ids : gts[id] \subseteq SourceGts[id]
         /\ \A v \in Values : vts[v] \subseteq SourceVts[v]
<1>1. prog \in Programs /\ mod \in Modules /\ gts \in GlobalTaints /\ vts \in ValueTaints
  BY DEF TypeOK, DriverTypeOK
<1>2. \A v \in Values : vts[v] \subseteq SourceVts[v]
  BY <1>1 DEF SourceVts, ValueTaints
<1>3. \A id \in Ids : gts[id] \subseteq SourceGts[id]
  BY <1>1, AddKeeps DEF SourceGts
<1> QED
  BY <1>2, <1>3

Grows ==
  /\ \A id \in Ids : gts[id] \subseteq gts'[id]
  /\ src \subseteq src'
  /\ \A v \in Values : vts[v] \subseteq vts'[v] /\ meta[v] \subseteq meta'[v]

LEMMA GrowStep ==
  ASSUME TypeOK, MetaInv, [Next]_vars
  PROVE  Grows /\ MetaInv'
<1>1. gts \in GlobalTaints /\ vts \in ValueTaints /\ meta \in ValueTaints
  BY DEF TypeOK
<1>2. ASSUME phase = "sweep", meta' = meta PROVE MetaInv'
  BY <1>2 DEF TypeOK, MetaInv
<1>3. CASE Propagate
  <2> DEFINE D == UNION { GetTaint(SourceGts, SourceVts, v) : v \in Instr.ops }
             to == IF D = {} THEN {} ELSE {Instr.to} \ {NoId}
             seen == Cached(SourceGts, SourceVts, Instr.ops)
  <2>1. /\ phase = "sweep" /\ pos <= Len(prog[mod])
        /\ vts' = [seen EXCEPT ![Instr.val] = @ \cup D]
        /\ gts' = AddTo(SourceGts, to, D)
        /\ MarkSource /\ meta' = meta
    BY <1>3 DEF Propagate, At
  <2>2. SourceVts \in ValueTaints /\ SourceGts \in GlobalTaints
    BY <2>1, SourceTypes
  <2> HIDE DEF D, to
  <2>3. \A v \in Values : vts[v] \subseteq seen[v]
    BY <2>1, <2>2, CachedGrows, SourceGrows
  <2>4. seen \in ValueTaints
    BY <2>2, TableTypes
  <2> HIDE DEF seen
  <2>5. \A v \in Values : vts[v] \subseteq vts'[v]
    BY <2>1, <2>3, <2>4 DEF ValueTaints
  <2>6. \A id \in Ids : gts[id] \subseteq gts'[id]
    BY <2>1, <2>2, SourceGrows, AddKeeps
  <2> QED
    BY <1>2, <2>1, <2>5, <2>6 DEF Grows, MarkSource
<1>4. CASE EnterCall
  <2>1. /\ phase = "sweep" /\ pos <= Len(prog[mod])
        /\ vts' = SourceVts /\ gts' = SourceGts /\ MarkSource /\ meta' = meta
    BY <1>4 DEF EnterCall, At
  <2> QED
    BY <1>2, <2>1, SourceGrows DEF Grows, MarkSource
<1>5. CASE PassArg
  <2> DEFINE v == Instr.args[arg]
             D == GetTaint(gts, vts, v)
             to == IF D = {} THEN {} ELSE {ArgName}
  <2>1. /\ phase = "sweep" /\ src' = src /\ meta' = meta
        /\ vts' = Cached(gts, vts, {v})
        /\ gts' = AddTo(gts, to, D)
    BY <1>5 DEF PassArg, At
  <2> HIDE DEF v, D, to
  <2>2. \A w \in Values : vts[w] \subseteq vts'[w]
    BY <1>1, <2>1, CachedGrows
  <2>3. \A id \in Ids : gts[id] \subseteq gts'[id]
    BY <1>1, <2>1, AddKeeps
  <2> QED
    BY <1>2, <2>1, <2>2, <2>3 DEF Grows
<1>6. CASE Finalize
  <2> DEFINE instrs == { ins.val : ins \in Code(mod) }
  <2>1. /\ meta' = [v \in Values |-> IF v \in instrs THEN GetTaint(gts, vts, v) ELSE meta[v]]
        /\ vts' = Cached(gts, vts, instrs)
        /\ gts' = gts /\ src' = src
    BY <1>6 DEF Finalize
  <2> HIDE DEF instrs
  <2>2. \A v \in Values : vts[v] \subseteq vts'[v]
                          /\ GetTaint(gts, vts, v) \subseteq GetTaint(gts', vts', v)
    BY <1>1, <2>1, CachedGrows
  <2>3. \A v \in Values : meta[v] \subseteq meta'[v] /\ meta'[v] \subseteq GetTaint(gts, vts, v)
    BY <2>1 DEF MetaInv
  <2> QED
    BY <2>1, <2>2, <2>3 DEF Grows, MetaInv
<1>7. CASE UNCHANGED <<gts, src, vts, meta>>
  BY <1>7 DEF Grows, MetaInv
<1> QED
  BY <1>3, <1>4, <1>5, <1>6, <1>7
     DEF Next, Initialize, TakeCallee, EndSweep, EndModule, Ended, vars

(* No step forgets a description, a source flag or a metadata: also        *)
(* finalization, which asks for values again, writes nothing smaller       *)
(* (TaintMap::add, src/IntGlobal.h:60; doFinalization, src/Taint.cc:141).  *)
THEOREM NothingForgotten == Spec => Monotone
<1>1. Init => TypeOK /\ MetaInv
  BY InitTypeOK DEF Init, MetaInv
<1>2. TypeOK /\ MetaInv /\ [Next]_vars => (TypeOK /\ MetaInv)' /\ Grows
  BY TypeStep, GrowStep
<1>3. Grows => [ /\ \A id \in Ids : gts[id] \subseteq gts'[id]
                 /\ src \subseteq src'
                 /\ \A v \in Values : vts[v] \subseteq vts'[v] /\ meta[v] \subseteq meta'[v] ]_vars
  BY DEF Grows
<1> QED
  BY <1>1, <1>2, <1>3, PTL DEF Spec, Monotone

-----------------------------------------------------------------------------
(* That the marks are complete.  Only whether an entry is empty matters:   *)
(* whether v is marked in tables g and w, and what an instruction asks of  *)
(* the marks once it has been handled.                                     *)
Mark(g, w, v) == GetTaint(g, w, v) # {} \/ GetTaint(g, w, Strip[v]) # {}

SourceSat(g, w, ins) ==
  ins.source # NoDesc => w[ins.val] # {} /\ \A id \in SourceNames(ins) : g[id] # {}

CalleeSat(g, w, ins, names, n) ==
  \A a \in 1 .. n : Mark(g, w, ins.args[a]) => g[names[a]] # {}

OperandSat(g, w, ins, v) ==
  Mark(g, w, v) => w[ins.val] # {} /\ (ins.to # NoId => g[ins.to] # {})

Sat(g, w, ins) ==
  /\ SourceSat(g, w, ins)
  /\ ins.op = "call" => \A names \in ins.passes : CalleeSat(g, w, ins, names, Len(names))
  /\ ins.op = "other" => \A v \in ins.ops : OperandSat(g, w, ins, v)

ModuleSat(g, w, p, m) == \A i \in 1 .. Len(p[m]) : Sat(g, w, p[m][i])

(* The instructions passed since the flags were cleared, the callees and   *)
(* arguments of the call at hand, and the modules of the round.            *)
PassedInstrs ==
  phase = "sweep" /\ ~changed => \A i \in 1 .. pos - 1 : Sat(gts, vts, prog[mod][i])

Handled(names) == ~(names \in rest \/ (arg # 0 /\ names = callee))

PassedArgs ==
  phase = "sweep" /\ ~changed /\ (rest # {} \/ arg # 0) =>
    /\ SourceSat(gts, vts, Instr)
    /\ \A names \in Instr.passes :
         Handled(names) => CalleeSat(gts, vts, Instr, names, Len(names))
    /\ arg # 0 => CalleeSat(gts, vts, Instr, callee, arg - 1)

PassedModules ==
  phase = "sweep" /\ ~changed /\ updated = 0 /\ ~ret =>
    \A m \in 1 .. mod - 1 : ModuleSat(gts, vts, prog, m)

MetaWritten(m) ==
  \A i \in 1 .. Len(prog[m]) :
    Mark(gts, vts, prog[m][i].val) => meta[prog[m][i].val] # {}

Finished ==
  phase \in {"final", "done"} =>
    /\ \A m \in Modules : ModuleSat(gts, vts, prog, m)
    /\ \A m \in Modules : phase = "done" \/ m < mod => MetaWritten(m)

(* What no instruction defines and no name feeds has no taint.             *)
Undefined(p, v) == \A n \in Modules : \A j \in 1 .. Len(p[n]) : ~Defines(p, n, j, v)

NoTaint == \A v \in Values : Feeds(v) = {} /\ Undefined(prog, v) => vts[v] = {}

MarkInv == PassedInstrs /\ PassedArgs /\ PassedModules /\ Finished /\ NoTaint

CompleteInv == Ordered(prog) => MarkInv

LEMMA MarkParts ==
  ASSUME NEW g \in GlobalTaints, NEW w \in ValueTaints, NEW v \in Values
  PROVE  /\ GetTaint(g, w, v) # {} <=> w[v] # {} \/ w[Strip[v]] # {} \/ FromNames(g, v) # {}
         /\ Mark(g, w, v) <=> \/ w[v] # {} \/ w[Strip[v]] # {}
                              \/ FromNames(g, v) # {} \/ FromNames(g, Strip[v]) # {}
<1>1. Strip[v] \in Values /\ Strip[Strip[v]] = Strip[v]
  OBVIOUS
<1> QED
  BY <1>1 DEF Mark, GetTaint

(* A change that is quiet: no name gets its first description, and values  *)
(* outside X get taint only from their names.                              *)
SameNames(g, g2) == \A id \in Ids : g2[id] # {} <=> g[id] # {}

Quiet(g, w, g2, w2, X) ==
  /\ SameNames(g, g2)
  /\ \A v \in Values : w[v] # {} => w2[v] # {}
  /\ \A v \in Values : w2[v] # {} => w[v] # {} \/ v \in X \/ FromNames(g, v) # {}

LEMMA QuietMark ==
  ASSUME NEW g \in GlobalTaints, NEW w \in ValueTaints,
         NEW g2 \in GlobalTaints, NEW w2 \in ValueTaints, NEW X,
         Quiet(g, w, g2, w2, X),
         NEW v \in Values, v \notin X, Strip[v] \notin X
  PROVE  Mark(g2, w2, v) <=> Mark(g, w, v)
<1>1. Strip[v] \in Values
  OBVIOUS
<1>2. \A u \in Values : Feeds(u) \subseteq Ids
  BY DEF Feeds
<1>3. \A u \in Values : FromNames(g2, u) # {} <=> FromNames(g, u) # {}
  <2> SUFFICES ASSUME NEW u \in Values PROVE FromNames(g2, u) # {} <=> FromNames(g, u) # {}
    OBVIOUS
  <2>1. FromNames(g2, u) # {} <=> \E id \in Feeds(u) : g2[id] # {}
    BY DEF FromNames
  <2>2. FromNames(g, u) # {} <=> \E id \in Feeds(u) : g[id] # {}
    BY DEF FromNames
  <2>3. \A id \in Feeds(u) : g2[id] # {} <=> g[id] # {}
    BY <1>2 DEF Quiet, SameNames
  <2> QED
    BY <2>1, <2>2, <2>3
<1>4. /\ w2[v] # {} => w[v] # {} \/ FromNames(g, v) # {}
      /\ w2[Strip[v]] # {} => w[Strip[v]] # {} \/ FromNames(g, Strip[v]) # {}
      /\ w[v] # {} => w2[v] # {}
      /\ w[Strip[v]] # {} => w2[Strip[v]] # {}
  BY <1>1 DEF Quiet, SameNames
<1>5. FromNames(g2, v) # {} <=> FromNames(g, v) # {}
  BY <1>3
<1>6. FromNames(g2, Strip[v]) # {} <=> FromNames(g, Strip[v]) # {}
  BY <1>1, <1>3
<1>7. Mark(g, w, v) <=> \/ w[v] # {} \/ w[Strip[v]] # {}
                        \/ FromNames(g, v) # {} \/ FromNames(g, Strip[v]) # {}
  BY MarkParts
<1>8. Mark(g2, w2, v) <=> \/ w2[v] # {} \/ w2[Strip[v]] # {}
                          \/ FromNames(g2, v) # {} \/ FromNames(g2, Strip[v]) # {}
  BY MarkParts
<1> QED
  BY <1>4, <1>5, <1>6, <1>7, <1>8

(* What has been asked of the marks stays satisfied.                       *)
LEMMA QuietSat ==
  ASSUME NEW g \in GlobalTaints, NEW w \in ValueTaints,
         NEW g2 \in GlobalTaints, NEW w2 \in ValueTaints, NEW X,
         Quiet(g, w, g2, w2, X),
         NEW p \in Programs, NEW m \in Modules, NEW i \in 1 .. Len(p[m]),
         \A v \in UsedValues(p[m][i]) : v \notin X /\ Strip[v] \notin X
  PROVE  /\ SourceSat(g, w, p[m][i]) => SourceSat(g2, w2, p[m][i])
         /\ p[m][i].op = "call" =>
              \A names \in p[m][i].passes, n \in 0 .. Len(p[m][i].args) :
                CalleeSat(g, w, p[m][i], names, n) => CalleeSat(g2, w2, p[m][i], names, n)
         /\ Sat(g, w, p[m][i]) => Sat(g2, w2, p[m][i])
<1> DEFINE ins == p[m][i]
<1>1. /\ ins.val \in Values /\ SourceNames(ins) \subseteq Ids
      /\ ins.op = "other" => ins.ops \subseteq Values /\ ins.to \in Ids \cup {NoId}
      /\ ins.op = "call" =>
           /\ ins.args \in Seq(Values) /\ ins.passes \subseteq Seq(Ids)
           /\ \A names \in ins.passes : Len(names) = Len(ins.args)
  BY InstrType
<1> HIDE DEF ins
<1>2. SourceSat(g, w, ins) => SourceSat(g2, w2, ins)
  BY <1>1 DEF SourceSat, Quiet, SameNames
<1>3. ASSUME ins.op = "call", NEW names \in ins.passes, NEW n \in 0 .. Len(ins.args),
             CalleeSat(g, w, ins, names, n)
      PROVE  CalleeSat(g2, w2, ins, names, n)
  <2> SUFFICES ASSUME NEW a \in 1 .. n, Mark(g2, w2, ins.args[a]) PROVE g2[names[a]] # {}
    BY DEF CalleeSat
  <2>1. names \in Seq(Ids) /\ Len(names) = Len(ins.args) /\ a \in 1 .. Len(ins.args)
    BY <1>1, <1>3
  <2>2. ins.args[a] \in Values /\ names[a] \in Ids
    BY <1>1, <1>3, <2>1
  <2>3. ins.args[a] \in UsedValues(ins)
    BY <1>3, <2>1 DEF UsedValues
  <2>4. Mark(g, w, ins.args[a])
    BY <2>2, <2>3, QuietMark DEF ins
  <2> QED
    BY <1>3, <2>2, <2>4 DEF CalleeSat, Quiet, SameNames
<1>4. ASSUME ins.op = "other", NEW v \in ins.ops, OperandSat(g, w, ins, v)
      PROVE  OperandSat(g2, w2, ins, v)
  <2>1. v \in Values /\ v \in UsedValues(ins)
    BY <1>1, <1>4 DEF UsedValues
  <2>2. Mark(g2, w2, v) => Mark(g, w, v)
    BY <2>1, QuietMark DEF ins
  <2> QED
    BY <1>1, <1>4, <2>2 DEF OperandSat, Quiet, SameNames
<1>5. ASSUME ins.op = "call", NEW names \in ins.passes, CalleeSat(g, w, ins, names, Len(names))
      PROVE  CalleeSat(g2, w2, ins, names, Len(names))
  <2>1. Len(names) \in 0 .. Len(ins.args)
    BY <1>1, <1>5
  <2> QED
    BY <1>3, <1>5, <2>1
<1>6. Sat(g, w, ins) => Sat(g2, w2, ins)
  BY <1>2, <1>4, <1>5 DEF Sat
<1> QED
  BY <1>2, <1>3, <1>6 DEF ins

(* What an instruction uses is not defined by this instruction, or by one  *)
(* after it, or by one of another module.                                  *)
LEMMA UsedEarlier ==
  ASSUME NEW p \in Programs, Ordered(p), NEW m \in Modules, NEW i \in 1 .. Len(p[m]),
         NEW n \in Modules, NEW j \in 1 .. Len(p[n]), n # m \/ i <= j
  PROVE  \A v \in UsedValues(p[m][i]) : v # p[n][j].val /\ Strip[v] # p[n][j].val
<1> SUFFICES ASSUME NEW v \in UsedValues(p[m][i])
             PROVE  v # p[n][j].val /\ Strip[v] # p[n][j].val
  OBVIOUS
<1>1. DefinedBefore(p, m, i, v) /\ DefinedBefore(p, m, i, Strip[v])
  BY DEF Ordered
<1>2. p[n] \in Seq(Instrs) /\ p[m] \in Seq(Instrs)
  OBVIOUS
<1>3. ~(n = m /\ j < i)
  BY <1>2
<1> QED
  BY <1>1, <1>3 DEF DefinedBefore, Defines

(* A used value whose operand is marked is found marked by getTaint: the   *)
(* cast came before, and took the mark.                                    *)
LEMMA UsedIsFound ==
  ASSUME TypeOK, Ordered(prog), PassedInstrs, NoTaint, ~changed, phase = "sweep",
         pos \in 1 .. Len(prog[mod]),
         NEW v \in UsedValues(Instr), v \in Values, Mark(gts, vts, v)
  PROVE  GetTaint(gts, vts, v) # {}
<1>0. /\ prog \in Programs /\ mod \in Modules
      /\ gts \in GlobalTaints /\ vts \in ValueTaints
  BY DEF TypeOK, DriverTypeOK
<1>1. Strip[v] \in Values /\ Strip[Strip[v]] = Strip[v]
  OBVIOUS
<1>2. CASE Strip[v] = v
  BY <1>2 DEF Mark
<1>3. CASE Strip[v] # v
  <2>1. CastBefore(prog, mod, pos, v)
    BY <1>0, <1>3 DEF Ordered, Instr
  <2>2. CASE \E j \in 1 .. pos - 1 : Defines(prog, mod, j, v)
    <3>1. PICK j \in 1 .. pos - 1 : Defines(prog, mod, j, v)
      BY <2>2
    <3>2. j \in 1 .. Len(prog[mod]) /\ prog[mod][j].val = v /\ Sat(gts, vts, prog[mod][j])
      BY <3>1 DEF Defines, PassedInstrs
    <3>3. CastsOperand(prog[mod][j])
      BY <1>0, <3>2 DEF Ordered
    <3>4. PICK x \in prog[mod][j].ops : Strip[x] = Strip[v]
      BY <1>3, <3>2, <3>3 DEF CastsOperand
    <3>5. prog[mod][j].op = "other"
      BY <1>3, <3>2, <3>3 DEF CastsOperand
    <3>6. x \in Values
      BY <1>0, <3>2, <3>5, InstrType
    <3>7. GetTaint(gts, vts, Strip[v]) # {} => Mark(gts, vts, x)
      BY <3>4 DEF Mark
    <3>8. Mark(gts, vts, x) => vts[v] # {}
      BY <3>2, <3>5 DEF Sat, OperandSat
    <3> QED
      BY <1>0, <1>1, <3>7, <3>8, MarkParts DEF Mark
  <2>3. CASE Feeds(Strip[v]) = {} /\ Undefined(prog, Strip[v])
    <3>1. vts[Strip[v]] = {}
      BY <1>1, <2>3 DEF NoTaint
    <3>2. FromNames(gts, Strip[v]) = {}
      BY <2>3 DEF FromNames
    <3> QED
      BY <1>1, <3>1, <3>2 DEF Mark, GetTaint
  <2> QED
    BY <2>1, <2>2, <2>3 DEF CastBefore, Undefined
<1> QED
  BY <1>2, <1>3

(* So is the value of an instruction that is satisfied.                    *)
LEMMA ValueIsFound ==
  ASSUME NEW g \in GlobalTaints, NEW w \in ValueTaints,
         NEW p \in Programs, Ordered(p), NEW m \in Modules, NEW i \in 1 .. Len(p[m]),
         Sat(g, w, p[m][i]), Mark(g, w, p[m][i].val)
  PROVE  GetTaint(g, w, p[m][i].val) # {}
<1> DEFINE v == p[m][i].val
<1>1. v \in Values /\ Strip[v] \in Values
  BY InstrType
<1>2. CASE Strip[v] = v
  BY <1>2 DEF Mark
<1>3. CASE Strip[v] # v
  <2>1. CastsOperand(p[m][i])
    BY DEF Ordered
  <2>2. p[m][i].op = "other"
    BY <1>3, <2>1 DEF CastsOperand
  <2>3. PICK x \in p[m][i].ops : Strip[x] = Strip[v]
    BY <1>3, <2>1 DEF CastsOperand
  <2>4. GetTaint(g, w, Strip[v]) # {} => Mark(g, w, x)
    BY <2>3 DEF Mark
  <2>5. Mark(g, w, x) => w[v] # {}
    BY <2>2 DEF Sat, OperandSat
  <2> QED
    BY <1>1, <2>4, <2>5, MarkParts DEF Mark
<1> QED
  BY <1>2, <1>3

(* Caching is quiet.                                                       *)
LEMMA CachedQuiet ==
  ASSUME NEW g \in GlobalTaints, NEW w \in ValueTaints, NEW S, NEW X
  PROVE  Quiet(g, w, g, Cached(g, w, S), X)
BY DEF Quiet, SameNames, Cached

LEMMA QuietSame ==
  ASSUME NEW g \in GlobalTaints, NEW w \in ValueTaints, NEW X
  PROVE  Quiet(g, w, g, w, X)
BY DEF Quiet, SameNames

(* Adding descriptions is, if no entry is new.                             *)
LEMMA AddQuiet ==
  ASSUME NEW g \in GlobalTaints, NEW ids \in SUBSET Ids, NEW D, ~IsNew(g, ids)
  PROVE  SameNames(g, AddTo(g, ids, D))
BY DEF IsNew, AddTo, SameNames

LEMMA SourceQuiet ==
  ASSUME TypeOK, phase = "sweep", pos <= Len(prog[mod]), ~SourceIsNew
  PROVE  /\ Quiet(gts, vts, SourceGts, SourceVts, {Instr.val})
         /\ SourceSat(SourceGts, SourceVts, Instr)
<1>1. /\ prog \in Programs /\ mod \in Modules /\ pos \in 1 .. Len(prog[mod])
      /\ gts \in GlobalTaints /\ vts \in ValueTaints
  BY SourceTypes DEF TypeOK, DriverTypeOK
<1>2. Instr.val \in Values /\ SourceNames(Instr) \subseteq Ids
  BY <1>1, InstrType DEF Instr
<1>3. IsSource => SourceVts[Instr.val] # {}
  BY <1>1, <1>2 DEF SourceVts, ValueTaints
<1>4. IsSource => \A id \in SourceNames(Instr) : SourceGts[id] # {}
  BY <1>2, <1>3 DEF SourceGts, AddTo
<1>5. SameNames(gts, SourceGts)
  <2>1. CASE ~IsSource
    BY <2>1 DEF SourceGts, SameNames
  <2>2. CASE IsSource
    <3>1. ~IsNew(gts, SourceNames(Instr))
      BY <2>2 DEF SourceIsNew
    <3>2. \A D : SameNames(gts, AddTo(gts, SourceNames(Instr), D))
      BY <1>1, <1>2, <3>1, AddQuiet
    <3> QED
      BY <2>2, <3>2 DEF SourceGts
  <2> QED
    BY <2>1, <2>2
<1>6. \A v \in Values : /\ vts[v] # {} => SourceVts[v] # {}
                        /\ SourceVts[v] # {} => vts[v] # {} \/ v \in {Instr.val}
  BY <1>1, <1>2 DEF SourceVts, ValueTaints
<1> QED
  BY <1>3, <1>4, <1>5, <1>6 DEF Quiet, SourceSat, IsSource

(* A step inside a sweep keeps what is known of the earlier instructions   *)
(* and modules if it is quiet while the flag is clear.                     *)
LEMMA InsideSweep ==
  ASSUME TypeOK, TypeOK', Ordered(prog), PassedInstrs, PassedModules,
         UNCHANGED <<phase, mod, updated, ret, prog>>,
         phase = "sweep", pos \in 1 .. Len(prog[mod]),
         ~changed' => ~changed /\ Quiet(gts, vts, gts', vts', {Instr.val})
  PROVE  /\ PassedModules'
         /\ pos' = pos => PassedInstrs'
         /\ pos' = pos + 1 /\ (~changed' => Sat(gts', vts', Instr)) => PassedInstrs'
<1>1. /\ prog \in Programs /\ mod \in Modules /\ NumModules \in Nat
      /\ gts \in GlobalTaints /\ vts \in ValueTaints
      /\ gts' \in GlobalTaints /\ vts' \in ValueTaints
  BY DEF TypeOK, DriverTypeOK
<1>2. ASSUME ~changed', NEW m \in Modules, NEW i \in 1 .. Len(prog[m]),
             m # mod \/ i <= pos, Sat(gts, vts, prog[m][i])
      PROVE  Sat(gts', vts', prog[m][i])
  <2>1. \A v \in UsedValues(prog[m][i]) : v \notin {Instr.val} /\ Strip[v] \notin {Instr.val}
    BY <1>1, <1>2, UsedEarlier DEF Instr
  <2> QED
    BY <1>1, <1>2, <2>1, QuietSat
<1>3. PassedModules'
  <2> SUFFICES ASSUME ~changed', updated = 0, ~ret, NEW m \in 1 .. mod - 1,
                      NEW i \in 1 .. Len(prog[m])
               PROVE  Sat(gts', vts', prog[m][i])
    BY DEF PassedModules, ModuleSat
  <2>1. m \in Modules /\ m # mod
    BY <1>1 DEF Modules
  <2>2. Sat(gts, vts, prog[m][i])
    BY DEF PassedModules, ModuleSat
  <2> QED
    BY <1>2, <2>1, <2>2
<1>4. Len(prog[mod]) \in Nat /\ pos \in Nat
  BY <1>1
<1>5. ASSUME ~changed', NEW i \in 1 .. pos - 1
      PROVE  Sat(gts', vts', prog[mod][i])
  <2>1. i \in 1 .. Len(prog[mod]) /\ i <= pos
    BY <1>4
  <2>2. Sat(gts, vts, prog[mod][i])
    BY <1>5 DEF PassedInstrs
  <2> QED
    BY <1>1, <1>2, <1>5, <2>1, <2>2
<1>6. ASSUME pos' = pos PROVE PassedInstrs'
  BY <1>5, <1>6 DEF PassedInstrs
<1>7. ASSUME pos' = pos + 1, ~changed' => Sat(gts', vts', Instr) PROVE PassedInstrs'
  <2> SUFFICES ASSUME ~changed', NEW i \in 1 .. pos' - 1
               PROVE  Sat(gts', vts', prog[mod][i])
    BY DEF PassedInstrs
  <2>1. i \in 1 .. pos - 1 \/ i = pos
    BY <1>4, <1>7
  <2> QED
    BY <1>5, <1>7, <2>1 DEF Instr
<1> QED
  BY <1>3, <1>6, <1>7

(* What no instruction defines gets no taint, flag or no flag.             *)
LEMMA NoTaintStep ==
  ASSUME TypeOK, TypeOK', NoTaint, [Next]_vars
  PROVE  NoTaint'
<1>1. /\ prog \in Programs /\ mod \in Modules
      /\ gts \in GlobalTaints /\ vts \in ValueTaints /\ vts' \in ValueTaints
  BY DEF TypeOK, DriverTypeOK
<1>2. prog' = prog
  BY DEF Next, Initialize, Propagate, EnterCall, TakeCallee, PassArg, EndSweep, EndModule,
         Finalize, Ended, vars
<1> SUFFICES ASSUME NEW v \in Values, Feeds(v) = {}, Undefined(prog, v), vts[v] = {}
             PROVE  vts'[v] = {}
  BY <1>2 DEF NoTaint
<1>3. \A g : FromNames(g, v) = {}
  BY DEF FromNames
<1>4. ASSUME phase = "sweep", pos <= Len(prog[mod]) PROVE Instr.val # v /\ SourceVts[v] = {}
  <2>1. pos \in 1 .. Len(prog[mod])
    BY <1>4, SourceTypes
  <2>2. Instr.val # v
    BY <1>1, <2>1 DEF Undefined, Defines, Instr
  <2> QED
    BY <1>1, <2>2 DEF SourceVts, ValueTaints
<1>5. CASE Propagate
  <2> DEFINE D == UNION { GetTaint(SourceGts, SourceVts, u) : u \in Instr.ops }
             seen == Cached(SourceGts, SourceVts, Instr.ops)
  <2>1. phase = "sweep" /\ pos <= Len(prog[mod]) /\ vts' = [seen EXCEPT ![Instr.val] = @ \cup D]
    BY <1>5 DEF Propagate, At
  <2>2. seen[v] = {} /\ seen \in [Values -> SUBSET Descs]
    BY <1>3, <1>4, <2>1, SourceTypes, TableTypes DEF Cached, ValueTaints
  <2> HIDE DEF D, seen
  <2> QED
    BY <1>4, <2>1, <2>2
<1>6. CASE EnterCall
  BY <1>4, <1>6 DEF EnterCall, At
<1>7. CASE PassArg
  BY <1>3, <1>7 DEF PassArg, Cached
<1>8. CASE Finalize
  BY <1>3, <1>8 DEF Finalize, Cached
<1>9. CASE UNCHANGED vts
  BY <1>9
<1> QED
  BY <1>5, <1>6, <1>7, <1>8, <1>9
     DEF Next, Initialize, TakeCallee, EndSweep, EndModule, Ended, vars

(* Propagate, as long as the flag stays clear.                             *)
LEMMA PropagateQuiet ==
  ASSUME TypeOK, Ordered(prog), PassedInstrs, NoTaint, Propagate, ~changed'
  PROVE  /\ ~changed
         /\ Quiet(gts, vts, gts', vts', {Instr.val})
         /\ Sat(gts', vts', Instr)
<1> DEFINE D == UNION { GetTaint(SourceGts, SourceVts, v) : v \in Instr.ops }
           to == IF D = {} THEN {} ELSE {Instr.to} \ {NoId}
           seen == Cached(SourceGts, SourceVts, Instr.ops)
<1>1. /\ phase = "sweep" /\ pos <= Len(prog[mod]) /\ Instr.op = "other"
      /\ vts' = [seen EXCEPT ![Instr.val] = @ \cup D]
      /\ gts' = AddTo(SourceGts, to, D)
      /\ Flag(SourceIsNew \/ IsNew(SourceGts, to))
  BY DEF Propagate, At
<1>2. /\ prog \in Programs /\ mod \in Modules /\ pos \in 1 .. Len(prog[mod])
      /\ gts \in GlobalTaints /\ vts \in ValueTaints
      /\ SourceVts \in ValueTaints /\ SourceGts \in GlobalTaints
  BY <1>1, SourceTypes DEF TypeOK, DriverTypeOK
<1>3. /\ Instr.val \in Values /\ Instr.ops \subseteq Values /\ Instr.to \in Ids \cup {NoId}
      /\ SourceNames(Instr) \subseteq Ids
  BY <1>1, <1>2, InstrType DEF Instr
<1>4. ~changed /\ ~SourceIsNew /\ ~IsNew(SourceGts, to)
  BY <1>1, Zenon DEF Flag
<1>5. /\ Quiet(gts, vts, SourceGts, SourceVts, {Instr.val})
      /\ SourceSat(SourceGts, SourceVts, Instr)
  BY <1>1, <1>4, SourceQuiet
<1>6. seen \in ValueTaints /\ Quiet(SourceGts, SourceVts, SourceGts, seen, {Instr.val})
  BY <1>2, CachedQuiet, TableTypes
<1>7. D # {} => \A id \in to : gts'[id] # {}
  <2> SUFFICES ASSUME D # {}, NEW id \in to PROVE gts'[id] # {}
    OBVIOUS
  <2>1. id \in Ids
    BY <1>3
  <2> HIDE DEF D, to
  <2> QED
    BY <1>1, <2>1 DEF AddTo
<1>8. SameNames(SourceGts, gts')
  <2>1. to \in SUBSET Ids
    BY <1>3
  <2> HIDE DEF D, to
  <2> QED
    BY <1>1, <1>2, <1>4, <2>1, AddQuiet
<1>9. /\ \A v \in Values : seen[v] # {} => vts'[v] # {}
      /\ \A v \in Values : v # Instr.val => vts'[v] = seen[v]
      /\ D # {} => vts'[Instr.val] # {}
  <2> HIDE DEF D, seen
  <2> QED
    BY <1>1, <1>3, <1>6 DEF ValueTaints
<1>10. \A v \in Values : FromNames(SourceGts, v) # {} => FromNames(gts, v) # {}
  <2> SUFFICES ASSUME NEW v \in Values, NEW id \in Feeds(v), SourceGts[id] # {}
               PROVE  FromNames(gts, v) # {}
    BY DEF FromNames
  <2>1. id \in Ids
    BY DEF Feeds
  <2>2. gts[id] # {}
    BY <1>5, <2>1 DEF Quiet, SameNames
  <2> QED
    BY <2>2 DEF FromNames
<1>11. Quiet(gts, vts, gts', vts', {Instr.val})
  <2>1. SameNames(gts, gts')
    BY <1>5, <1>8 DEF Quiet, SameNames
  <2>2. ASSUME NEW v \in Values PROVE vts[v] # {} => vts'[v] # {}
    BY <1>5, <1>6, <1>9 DEF Quiet
  <2>3. ASSUME NEW v \in Values, vts'[v] # {}, v # Instr.val
        PROVE  vts[v] # {} \/ FromNames(gts, v) # {}
    <3>1. seen[v] # {}
      BY <1>9, <2>3
    <3>2. SourceVts[v] # {} \/ FromNames(SourceGts, v) # {}
      BY <1>6, <2>3, <3>1 DEF Quiet
    <3>3. SourceVts[v] # {} => vts[v] # {} \/ FromNames(gts, v) # {}
      BY <1>5, <2>3 DEF Quiet
    <3> QED
      BY <1>10, <3>2, <3>3
  <2> QED
    BY <2>1, <2>2, <2>3 DEF Quiet
<1>12. ASSUME NEW v \in Instr.ops PROVE OperandSat(gts', vts', Instr, v)
  <2> SUFFICES ASSUME Mark(gts', vts', v)
               PROVE  vts'[Instr.val] # {} /\ (Instr.to # NoId => gts'[Instr.to] # {})
    BY DEF OperandSat
  <2>1. v \in Values /\ v \in UsedValues(Instr) /\ Strip[v] \in Values
    BY <1>1, <1>3 DEF UsedValues
  <2>2. v # Instr.val /\ Strip[v] # Instr.val
    BY <1>2, <2>1, UsedEarlier DEF Instr
  <2>3. gts' \in GlobalTaints /\ vts' \in ValueTaints
    BY TypeStep DEF Next, TypeOK
  <2>4. Mark(gts, vts, v)
    BY <1>2, <1>11, <2>1, <2>2, <2>3, QuietMark
  <2>5. GetTaint(gts, vts, v) # {}
    BY <1>1, <1>2, <1>4, <2>1, <2>4, UsedIsFound
  <2>6. GetTaint(SourceGts, SourceVts, v) # {}
    <3>1. SourceVts[v] = vts[v] /\ SourceVts[Strip[v]] = vts[Strip[v]]
      BY <1>2, <1>3, <2>1, <2>2 DEF SourceVts, ValueTaints
    <3>2. FromNames(gts, v) \subseteq FromNames(SourceGts, v)
      <4>1. Feeds(v) \subseteq Ids
        BY <2>1 DEF Feeds
      <4>2. \A id \in Ids : gts[id] \subseteq SourceGts[id]
        BY <1>1, SourceGrows
      <4> QED
        BY <4>1, <4>2 DEF FromNames
    <3> QED
      BY <2>5, <3>1, <3>2 DEF GetTaint
  <2>7. D # {}
    BY <2>6
  <2>8. Instr.to # NoId => Instr.to \in to
    BY <2>7
  <2> HIDE DEF D, to
  <2> QED
    BY <1>7, <1>9, <2>7, <2>8
<1>13. SourceSat(gts', vts', Instr)
  <2>1. \A id \in SourceNames(Instr) : SourceGts[id] # {} => gts'[id] # {}
    BY <1>3, <1>8 DEF SameNames
  <2>2. SourceVts[Instr.val] # {} => vts'[Instr.val] # {}
    BY <1>3, <1>6, <1>9 DEF Quiet
  <2> QED
    BY <1>5, <2>1, <2>2 DEF SourceSat
<1> QED
  BY <1>1, <1>4, <1>11, <1>12, <1>13 DEF Sat

(* PassArg, as long as the flag stays clear.                               *)
LEMMA PassArgQuiet ==
  ASSUME TypeOK, Ordered(prog), PassedInstrs, NoTaint, PassArg, ~changed'
  PROVE  /\ ~changed
         /\ Quiet(gts, vts, gts', vts', {Instr.val})
         /\ Mark(gts', vts', Instr.args[arg]) => gts'[ArgName] # {}
<1> DEFINE v == Instr.args[arg]
           D == GetTaint(gts, vts, v)
           to == IF D = {} THEN {} ELSE {ArgName}
<1>1. /\ At("call") /\ arg # 0
      /\ vts' = Cached(gts, vts, {v})
      /\ gts' = AddTo(gts, to, D)
      /\ Flag(IsNew(gts, to))
  BY DEF PassArg
<1>2. /\ prog \in Programs /\ mod \in Modules /\ pos \in 1 .. Len(prog[mod])
      /\ gts \in GlobalTaints /\ vts \in ValueTaints
      /\ v \in Values /\ ArgName \in Ids
  BY <1>1, ArgTypes DEF TypeOK, DriverTypeOK
<1>3. ~changed /\ ~IsNew(gts, to)
  BY <1>1, Zenon DEF Flag
<1>4. to \in SUBSET Ids
  BY <1>2
<1>5. Quiet(gts, vts, gts', vts', {Instr.val})
  <2>1. Quiet(gts, vts, gts, vts', {Instr.val})
    BY <1>1, <1>2, CachedQuiet
  <2> HIDE DEF D, to
  <2>2. SameNames(gts, gts')
    BY <1>1, <1>2, <1>3, <1>4, AddQuiet
  <2> QED
    BY <2>1, <2>2 DEF Quiet
<1>6. ASSUME Mark(gts', vts', v) PROVE gts'[ArgName] # {}
  <2>1. v \in UsedValues(Instr)
    <3>1. arg \in 1 .. Len(Instr.args)
      BY <1>1, <1>2, ArgTypes, InstrType DEF Instr, At
    <3> QED
      BY <1>1, <3>1 DEF UsedValues, At
  <2>2. v # Instr.val /\ Strip[v] # Instr.val
    BY <1>2, <2>1, UsedEarlier DEF Instr
  <2>3. gts' \in GlobalTaints /\ vts' \in ValueTaints
    BY TypeStep DEF Next, TypeOK
  <2>4. Mark(gts, vts, v)
    BY <1>2, <1>5, <1>6, <2>2, <2>3, QuietMark
  <2>5. D # {}
    BY <1>1, <1>2, <1>3, <2>1, <2>4, UsedIsFound DEF At
  <2>6. ArgName \in to
    BY <2>5
  <2> HIDE DEF D, to
  <2> QED
    BY <1>1, <1>2, <2>5, <2>6 DEF AddTo
<1> QED
  BY <1>3, <1>5, <1>6

(* No call is at hand: nothing to remember of one.                         *)
LEMMA NoArgs == rest = {} /\ arg = 0 => PassedArgs
BY DEF PassedArgs

LEMMA NotSweeping ==
  ASSUME phase # "sweep"
  PROVE  PassedInstrs /\ PassedArgs /\ PassedModules
BY DEF PassedInstrs, PassedArgs, PassedModules

LEMMA InSweep == phase = "sweep" => Finished
BY DEF Finished

LEMMA InitMarkInv == Init => MarkInv
<1> SUFFICES ASSUME Init PROVE MarkInv
  OBVIOUS
<1>1. phase = "init" /\ vts = [v \in Values |-> {}]
  BY DEF Init, DriverInit
<1>2. NoTaint
  BY <1>1 DEF NoTaint
<1>3. Finished
  BY <1>1 DEF Finished
<1>4. PassedInstrs /\ PassedArgs /\ PassedModules
  BY <1>1, NotSweeping
<1> QED
  BY <1>2, <1>3, <1>4 DEF MarkInv

LEMMA MarkStep ==
  ASSUME TypeOK, Ordered(prog), MarkInv, [Next]_vars
  PROVE  MarkInv'
<1>1. /\ TypeOK' /\ prog \in Programs /\ mod \in Modules /\ NumModules \in Nat
      /\ Len(prog[mod]) \in Nat
      /\ gts \in GlobalTaints /\ vts \in ValueTaints
      /\ gts' \in GlobalTaints /\ vts' \in ValueTaints
  <2>1. TypeOK'
    BY TypeStep
  <2>2. prog \in Programs /\ mod \in Modules /\ gts \in GlobalTaints /\ vts \in ValueTaints
    BY DEF TypeOK, DriverTypeOK
  <2>3. gts' \in GlobalTaints /\ vts' \in ValueTaints
    BY <2>1 DEF TypeOK
  <2>4. Len(prog[mod]) \in Nat
    BY <2>2
  <2> QED
    BY <2>1, <2>2, <2>3, <2>4
<1>2. PassedInstrs /\ PassedArgs /\ PassedModules /\ Finished /\ NoTaint /\ NoTaint'
  BY <1>1, NoTaintStep DEF MarkInv
<1>3. CASE Initialize
  <2>1. pos' = 1 /\ rest' = {} /\ arg' = 0
    BY <1>3, NoCall DEF Initialize, TypeOK
  <2>2. phase' \in {"init", "sweep"} /\ (phase' = "sweep" => mod' = 1)
    BY <1>3 DEF Initialize, InitializedModule, EnterModule
  <2>3. PassedInstrs' /\ PassedModules'
    BY <2>1, <2>2 DEF PassedInstrs, PassedModules
  <2> QED
    BY <1>2, <2>1, <2>2, <2>3 DEF MarkInv, PassedArgs, Finished
<1>4. CASE Propagate
  <2>1. /\ phase = "sweep" /\ pos <= Len(prog[mod]) /\ pos' = pos + 1
        /\ UNCHANGED <<phase, mod, updated, ret, prog, rest, arg>> /\ Instr.op # "call"
    BY <1>4 DEF Propagate, At, NextInstr, Flag
  <2>2. pos \in 1 .. Len(prog[mod])
    BY <2>1, SourceTypes
  <2>3. ~changed' => /\ ~changed /\ Quiet(gts, vts, gts', vts', {Instr.val})
                     /\ Sat(gts', vts', Instr)
    BY <1>2, <1>4, PropagateQuiet
  <2>4. PassedModules' /\ PassedInstrs'
    BY <1>1, <1>2, <2>1, <2>2, <2>3, InsideSweep
  <2>5. rest' = {} /\ arg' = 0
    BY <2>1, NoCall
  <2> QED
    BY <1>2, <2>1, <2>4, <2>5 DEF MarkInv, PassedArgs, Finished
<1>5. CASE EnterCall
  <2>1. /\ phase = "sweep" /\ pos <= Len(prog[mod]) /\ Instr.op = "call"
        /\ vts' = SourceVts /\ gts' = SourceGts /\ Flag(SourceIsNew)
        /\ rest = {} /\ arg' = 0
        /\ UNCHANGED <<phase, mod, updated, ret, prog>>
    BY <1>5 DEF EnterCall, At, Flag, NextInstr
  <2>2. pos \in 1 .. Len(prog[mod])
    BY <2>1, SourceTypes
  <2>3. ~changed' => ~changed /\ ~SourceIsNew
    BY <2>1, Zenon DEF Flag
  <2>4. ~changed' => /\ ~changed /\ Quiet(gts, vts, gts', vts', {Instr.val})
                     /\ SourceSat(gts', vts', Instr)
    BY <2>1, <2>3, SourceQuiet
  <2>5. CASE pos' = pos + 1 /\ rest' = rest /\ (Instr.passes = {} \/ Instr.args = << >>)
    <3>1. \A names \in Instr.passes : Len(names) = 0
      BY <1>1, <2>1, <2>2, <2>5, InstrType DEF Instr
    <3>2. ~changed' => Sat(gts', vts', Instr)
      BY <2>1, <2>4, <3>1 DEF Sat, CalleeSat
    <3>3. PassedModules' /\ PassedInstrs'
      BY <1>1, <1>2, <2>1, <2>2, <2>4, <2>5, <3>2, InsideSweep
    <3> QED
      BY <1>2, <2>1, <2>5, <3>3 DEF MarkInv, PassedArgs, Finished
  <2>6. CASE pos' = pos /\ rest' = Instr.passes
    <3>1. PassedModules' /\ PassedInstrs'
      BY <1>1, <1>2, <2>1, <2>2, <2>4, <2>6, InsideSweep
    <3>2. Instr' = Instr
      BY <2>1, <2>6 DEF Instr
    <3>3. PassedArgs'
      BY <2>1, <2>4, <2>6, <3>2 DEF PassedArgs, Handled
    <3> QED
      BY <1>2, <2>1, <3>1, <3>3 DEF MarkInv, Finished
  <2> QED
    BY <1>5, <2>5, <2>6 DEF EnterCall, NextInstr
<1>6. CASE TakeCallee
  <2>1. /\ At("call") /\ rest # {} /\ arg = 0 /\ arg' = 1
        /\ UNCHANGED <<driverVars, prog, gts, src, vts, meta, pos>>
    BY <1>6 DEF TakeCallee
  <2>2. /\ UNCHANGED <<phase, mod, updated, changed, ret>> /\ phase = "sweep"
        /\ pos <= Len(prog[mod])
    BY <2>1 DEF driverVars, At
  <2>3. PICK names \in rest : callee' = names /\ rest' = rest \ {names}
    BY <1>6 DEF TakeCallee
  <2>4. Instr' = Instr /\ pos \in 1 .. Len(prog[mod])
    BY <2>1, <2>2, SourceTypes DEF Instr
  <2>5. PassedInstrs' /\ PassedModules'
    BY <1>1, <1>2, <2>1, <2>2, <2>4, QuietSame, InsideSweep
  <2>6. PassedArgs'
    <3> SUFFICES ASSUME ~changed
                 PROVE  /\ SourceSat(gts, vts, Instr)
                        /\ \A n \in Instr.passes :
                             Handled(n)' => CalleeSat(gts, vts, Instr, n, Len(n))
                        /\ CalleeSat(gts, vts, Instr, callee', 0)
      BY <2>1, <2>2, <2>4 DEF PassedArgs
    <3>1. /\ SourceSat(gts, vts, Instr)
          /\ \A n \in Instr.passes : Handled(n) => CalleeSat(gts, vts, Instr, n, Len(n))
      BY <1>2, <2>1, <2>2 DEF PassedArgs
    <3>2. \A n : Handled(n)' => Handled(n)
      BY <2>1, <2>3 DEF Handled
    <3>3. CalleeSat(gts, vts, Instr, callee', 0)
      BY DEF CalleeSat
    <3> QED
      BY <3>1, <3>2, <3>3
  <2> QED
    BY <1>2, <2>2, <2>5, <2>6 DEF MarkInv, Finished
<1>7. CASE PassArg
  <2>1. /\ At("call") /\ arg # 0 /\ NextArg /\ prog' = prog
        /\ UNCHANGED <<phase, mod, updated, ret>> /\ phase = "sweep" /\ Instr.op = "call"
    BY <1>7 DEF PassArg, Flag, At
  <2>2. /\ pos \in 1 .. Len(prog[mod]) /\ callee \in Instr.passes
        /\ arg \in 1 .. Len(callee) /\ Len(callee) \in Nat
    BY <2>1, ArgTypes
  <2>3. ~changed' => /\ ~changed
                     /\ Quiet(gts, vts, gts', vts', {Instr.val})
                     /\ Mark(gts', vts', Instr.args[arg]) => gts'[ArgName] # {}
    BY <1>2, <1>7, PassArgQuiet
  <2>4. ASSUME ~changed'
        PROVE  /\ SourceSat(gts', vts', Instr)
               /\ \A n \in Instr.passes :
                    Handled(n) => CalleeSat(gts', vts', Instr, n, Len(n))
               /\ CalleeSat(gts', vts', Instr, callee, arg)
    <3>1. \A v \in UsedValues(Instr) : v \notin {Instr.val} /\ Strip[v] \notin {Instr.val}
      BY <1>1, <2>2, UsedEarlier DEF Instr
    <3>2. /\ Instr.passes \subseteq Seq(Ids)
          /\ \A n \in Instr.passes : Len(n) = Len(Instr.args)
          /\ Instr.args \in Seq(Values)
      BY <1>1, <2>1, <2>2, InstrType DEF Instr
    <3>3. /\ SourceSat(gts, vts, Instr)
          /\ \A n \in Instr.passes : Handled(n) => CalleeSat(gts, vts, Instr, n, Len(n))
          /\ CalleeSat(gts, vts, Instr, callee, arg - 1)
      BY <1>2, <2>1, <2>3, <2>4 DEF PassedArgs
    <3>4. /\ SourceSat(gts, vts, Instr) => SourceSat(gts', vts', Instr)
          /\ \A n \in Instr.passes, k \in 0 .. Len(Instr.args) :
               CalleeSat(gts, vts, Instr, n, k) => CalleeSat(gts', vts', Instr, n, k)
      <4>1. /\ Quiet(gts, vts, gts', vts', {Instr.val})
            /\ prog[mod][pos] = Instr
        BY <2>3, <2>4 DEF Instr
      <4>2. \A v \in UsedValues(prog[mod][pos]) : v \notin {Instr.val} /\ Strip[v] \notin {Instr.val}
        BY <3>1, <4>1
      <4>3. /\ SourceSat(gts, vts, prog[mod][pos]) => SourceSat(gts', vts', prog[mod][pos])
            /\ prog[mod][pos].op = "call" =>
                 \A n \in prog[mod][pos].passes, k \in 0 .. Len(prog[mod][pos].args) :
                   CalleeSat(gts, vts, prog[mod][pos], n, k)
                     => CalleeSat(gts', vts', prog[mod][pos], n, k)
        BY <1>1, <2>2, <4>1, <4>2, QuietSat
      <4> QED
        BY <2>1, <4>1, <4>3
    <3>5. \A n \in Instr.passes : Len(n) \in 0 .. Len(Instr.args)
      BY <3>2
    <3>6. arg - 1 \in 0 .. Len(Instr.args)
      BY <2>2, <3>2
    <3>7. CalleeSat(gts', vts', Instr, callee, arg - 1)
      BY <2>2, <3>3, <3>4, <3>6
    <3>8. CalleeSat(gts', vts', Instr, callee, arg)
      <4> SUFFICES ASSUME NEW a \in 1 .. arg, Mark(gts', vts', Instr.args[a])
                   PROVE  gts'[callee[a]] # {}
        BY DEF CalleeSat
      <4>1. a \in 1 .. arg - 1 \/ a = arg
        BY <2>2
      <4> QED
        BY <2>3, <2>4, <3>7, <4>1 DEF CalleeSat, ArgName
    <3> QED
      BY <3>3, <3>4, <3>5, <3>8
  <2>5. CASE arg < Len(callee)
    <3>1. arg' = arg + 1 /\ pos' = pos /\ rest' = rest /\ callee' = callee
      BY <2>1, <2>5 DEF NextArg
    <3>2. Instr' = Instr
      BY <2>1, <3>1 DEF Instr
    <3>3. PassedInstrs' /\ PassedModules'
      BY <1>1, <1>2, <2>1, <2>2, <2>3, <3>1, InsideSweep
    <3>4. \A n : Handled(n)' => Handled(n)
      BY <2>1, <2>2, <3>1 DEF Handled
    <3>5. arg' - 1 = arg
      BY <2>2, <3>1
    <3>6. PassedArgs'
      BY <2>4, <3>1, <3>2, <3>4, <3>5 DEF PassedArgs
    <3> QED
      BY <1>2, <2>1, <3>3, <3>6 DEF MarkInv, Finished
  <2>6. CASE ~(arg < Len(callee))
    <3>1. /\ arg' = 0 /\ callee' = << >> /\ rest' = rest /\ arg = Len(callee)
          /\ pos' = IF rest = {} THEN pos + 1 ELSE pos
      BY <2>1, <2>2, <2>6 DEF NextArg
    <3>2. ASSUME ~changed', NEW n \in Instr.passes, n \notin rest
          PROVE  CalleeSat(gts', vts', Instr, n, Len(n))
      <4>1. Handled(n) \/ n = callee
        BY <3>2 DEF Handled
      <4> QED
        BY <2>4, <3>1, <3>2, <4>1
    <3>3. CASE rest = {}
      <4>1. ~changed' => Sat(gts', vts', Instr)
        BY <2>1, <2>4, <3>2, <3>3 DEF Sat
      <4>2. PassedInstrs' /\ PassedModules'
        BY <1>1, <1>2, <2>1, <2>2, <2>3, <3>1, <3>3, <4>1, InsideSweep
      <4> QED
        BY <1>2, <2>1, <3>1, <3>3, <4>2 DEF MarkInv, PassedArgs, Finished
    <3>4. CASE rest # {}
      <4>1. PassedInstrs' /\ PassedModules'
        BY <1>1, <1>2, <2>1, <2>2, <2>3, <3>1, <3>4, InsideSweep
      <4>2. Instr' = Instr
        BY <2>1, <3>1, <3>4 DEF Instr
      <4>3. \A n : Handled(n)' => n \notin rest
        BY <3>1 DEF Handled
      <4>4. PassedArgs'
        BY <2>4, <3>1, <3>2, <4>2, <4>3 DEF PassedArgs
      <4> QED
        BY <1>2, <2>1, <4>1, <4>4 DEF MarkInv, Finished
    <3> QED
      BY <3>3, <3>4
  <2> QED
    BY <2>5, <2>6
<1>8. CASE EndSweep
  <2>1. /\ phase = "sweep" /\ phase' = "sweep" /\ ret' = TRUE /\ pos' = 1
        /\ rest' = {} /\ arg' = 0
    BY <1>8, NoCall DEF EndSweep, SweepAgain, AtSweepEnd
  <2> QED
    BY <1>2, <2>1 DEF MarkInv, PassedInstrs, PassedArgs, PassedModules, Finished
<1>9. CASE EndModule
  <2>1. /\ phase = "sweep" /\ pos > Len(prog[mod]) /\ ~changed /\ ReturnFromModule /\ pos' = 1
        /\ UNCHANGED <<prog, gts, vts, meta, rest, arg>>
    BY <1>9 DEF EndModule, ReturnFromModule, AtSweepEnd
  <2>2. rest' = {} /\ arg' = 0 /\ pos - 1 = Len(prog[mod])
    <3>1. rest = {} /\ arg = 0
      BY <2>1, NoCall
    <3>2. pos \in 1 .. Len(prog[mod]) + 1
      BY DEF TypeOK
    <3> QED
      BY <1>1, <2>1, <3>1, <3>2
  <2>3. ModuleSat(gts, vts, prog, mod)
    BY <1>2, <2>1, <2>2 DEF PassedInstrs, ModuleSat
  <2>4. mod \in Nat
    BY <1>1 DEF Modules
  <2>5. updated = 0 /\ ~ret => \A m \in 1 .. mod : ModuleSat(gts, vts, prog, m)
    BY <1>2, <2>1, <2>3, <2>4 DEF PassedModules
  <2>6. updated \in Nat /\ Counted \in Nat /\ (Counted = 0 => updated = 0 /\ ~ret)
    BY <2>4 DEF Counted, TypeOK, DriverTypeOK
  <2>7. PassedInstrs' /\ PassedArgs'
    BY <2>1, <2>2 DEF PassedInstrs, PassedArgs
  <2>8. CASE mod < NumModules /\ phase' = phase /\ mod' = mod + 1 /\ updated' = Counted
    <3>1. 1 .. mod' - 1 = 1 .. mod
      BY <2>4, <2>8
    <3>2. PassedModules'
      BY <2>1, <2>5, <2>6, <2>8, <3>1 DEF PassedModules
    <3> QED
      BY <1>2, <2>1, <2>7, <2>8, <3>2 DEF MarkInv, Finished
  <2>9. CASE mod = NumModules /\ mod' = 1 /\ phase' = "sweep"
    BY <1>2, <2>1, <2>7, <2>9 DEF MarkInv, Finished, PassedModules
  <2>10. CASE mod = NumModules /\ Counted = 0 /\ phase' = "final" /\ mod' = 1
    <3>1. \A m \in Modules : ModuleSat(gts', vts', prog', m)
      BY <2>1, <2>5, <2>6, <2>10 DEF Modules
    <3>2. \A m \in Modules : ~(m < mod')
      BY <2>10 DEF Modules
    <3>3. Finished'
      BY <2>10, <3>1, <3>2 DEF Finished
    <3> QED
      BY <1>2, <2>7, <2>10, <3>3 DEF MarkInv, PassedModules
  <2> QED
    BY <2>1, <2>6, <2>8, <2>9, <2>10 DEF ReturnFromModule, EnterModule
<1>10. CASE Finalize
  <2> DEFINE instrs == { ins.val : ins \in Code(mod) }
  <2>1. /\ phase = "final" /\ FinalizedModule
        /\ meta' = [v \in Values |-> IF v \in instrs THEN GetTaint(gts, vts, v) ELSE meta[v]]
        /\ vts' = Cached(gts, vts, instrs)
        /\ UNCHANGED <<prog, gts, pos, rest, arg>>
    BY <1>10 DEF Finalize
  <2>2. /\ phase' \in {"final", "done"}
        /\ \A m \in Modules : m < mod' \/ phase' = "done" => m < mod \/ m = mod
    BY <1>1, <2>1 DEF FinalizedModule, EnterModule, Modules
  <2>3. \A m \in Modules : ModuleSat(gts, vts, prog, m)
    BY <1>2, <2>1 DEF Finished
  <2>4. Quiet(gts, vts, gts', vts', {})
    BY <1>1, <2>1, CachedQuiet
  <2>5. ASSUME NEW m \in Modules, NEW i \in 1 .. Len(prog[m])
        PROVE  /\ Sat(gts', vts', prog[m][i])
               /\ Mark(gts', vts', prog[m][i].val) => Mark(gts, vts, prog[m][i].val)
    <3>1. Sat(gts, vts, prog[m][i])
      BY <2>3 DEF ModuleSat
    <3>2. Sat(gts', vts', prog[m][i])
      BY <1>1, <2>4, <3>1, QuietSat
    <3>3. prog[m][i].val \in Values
      BY <1>1, InstrType
    <3> QED
      BY <1>1, <2>4, <3>2, <3>3, QuietMark
  <2>6. ASSUME NEW m \in Modules, m < mod \/ m = mod, NEW i \in 1 .. Len(prog[m]),
               Mark(gts, vts, prog[m][i].val)
        PROVE  meta'[prog[m][i].val] # {}
    <3>1. prog[m][i].val \in Values
      BY <1>1, InstrType
    <3>2. Sat(gts, vts, prog[m][i])
      BY <2>3 DEF ModuleSat
    <3>3. GetTaint(gts, vts, prog[m][i].val) # {}
      BY <1>1, <2>6, <3>2, ValueIsFound
    <3>4. CASE prog[m][i].val \in instrs
      BY <2>1, <3>1, <3>3, <3>4
    <3>5. CASE prog[m][i].val \notin instrs
      <4>1. m # mod
        BY <3>5 DEF Code
      <4>2. meta[prog[m][i].val] # {}
        BY <1>2, <2>1, <2>6, <4>1 DEF Finished, MetaWritten
      <4> QED
        BY <2>1, <3>1, <3>5, <4>2
    <3> QED
      BY <3>4, <3>5
  <2>7. \A m \in Modules : ModuleSat(gts', vts', prog', m)
    BY <2>1, <2>5 DEF ModuleSat
  <2>8. \A m \in Modules : phase' = "done" \/ m < mod' => MetaWritten(m)'
    <3> SUFFICES ASSUME NEW m \in Modules, phase' = "done" \/ m < mod'
                 PROVE  MetaWritten(m)'
      OBVIOUS
    <3>1. m < mod \/ m = mod
      BY <2>2
    <3>2. ASSUME NEW i \in 1 .. Len(prog[m]), Mark(gts', vts', prog[m][i].val)
          PROVE  meta'[prog[m][i].val] # {}
      BY <2>5, <2>6, <3>1, <3>2
    <3>3. prog' = prog
      BY <2>1
    <3> QED
      BY <3>2, <3>3 DEF MetaWritten
  <2>9. Finished'
    BY <2>7, <2>8 DEF Finished
  <2>10. PassedInstrs' /\ PassedArgs' /\ PassedModules'
    BY <2>2 DEF PassedInstrs, PassedArgs, PassedModules
  <2> QED
    BY <1>2, <2>9, <2>10 DEF MarkInv
<1>11. CASE Ended \/ UNCHANGED vars
  <2>1. UNCHANGED vars
    BY <1>11 DEF Ended
  <2> QED
    BY <1>2, <2>1 DEF vars, driverVars, MarkInv, PassedInstrs, PassedArgs, PassedModules,
       Finished, Instr, Handled, MetaWritten
<1> QED
  BY <1>3, <1>4, <1>5, <1>6, <1>7, <1>8, <1>9, <1>10, <1>11 DEF Next

LEMMA CompleteStep ==
  ASSUME TypeOK, CompleteInv, [Next]_vars
  PROVE  CompleteInv'
<1>1. prog' = prog
  BY DEF Next, Initialize, Propagate, EnterCall, TakeCallee, PassArg, EndSweep, EndModule,
         Finalize, Ended, vars
<1> QED
  BY <1>1, MarkStep DEF CompleteInv

(* The marks, as tables, are closed under a program whose instructions are *)
(* all satisfied.                                                          *)
LEMMA SatisfiedIsClosed ==
  ASSUME TypeOK, \A m \in Modules : ModuleSat(gts, vts, prog, m)
  PROVE  Closed(MarkedNames, MarkedValues, prog)
<1>1. prog \in Programs /\ gts \in GlobalTaints /\ vts \in ValueTaints
  BY DEF TypeOK
<1>2. /\ \A v \in Values : Marked(v) <=> Mark(gts, vts, v)
      /\ \A v \in Values : MarkedValues[v] = IF Marked(v) THEN Descs ELSE {}
      /\ \A id \in Ids : MarkedNames[id] = IF gts[id] = {} THEN {} ELSE Descs
  BY DEF Marked, Mark, MarkedValues, MarkedNames
<1>3. ASSUME NEW v \in Values, NEW id \in Ids, Marked(v) => gts[id] # {}
      PROVE  MarkedValues[v] \subseteq MarkedNames[id]
  BY <1>2, <1>3
<1>4. ValuesClosed(MarkedNames, MarkedValues)
  <2> SUFFICES ASSUME NEW v \in Values
               PROVE  FromNames(MarkedNames, v) \cup MarkedValues[Strip[v]] \subseteq MarkedValues[v]
    BY DEF ValuesClosed
  <2>1. Strip[v] \in Values /\ Strip[Strip[v]] = Strip[v] /\ Feeds(v) \subseteq Ids
    BY DEF Feeds
  <2>2. Marked(Strip[v]) => Marked(v)
    BY <2>1 DEF Marked
  <2>3. ASSUME NEW id \in Feeds(v) PROVE MarkedNames[id] \subseteq MarkedValues[v]
    <3>1. gts[id] # {} => FromNames(gts, v) # {}
      BY <2>3 DEF FromNames
    <3>2. gts[id] # {} => Marked(v)
      BY <1>1, <1>2, <3>1, MarkParts
    <3> QED
      BY <1>2, <2>1, <3>2
  <2>4. FromNames(MarkedNames, v) \subseteq MarkedValues[v]
    BY <2>3 DEF FromNames
  <2> QED
    BY <1>2, <2>1, <2>2, <2>4
<1>5. ASSUME NEW m \in Modules, NEW i \in 1 .. Len(prog[m])
      PROVE  InstrClosed(MarkedNames, MarkedValues, prog[m][i])
  <2> DEFINE ins == prog[m][i]
  <2>1. /\ ins.val \in Values /\ SourceNames(ins) \subseteq Ids
        /\ ins.source \in Descs \cup {NoDesc}
        /\ ins.op = "other" => ins.ops \subseteq Values /\ ins.to \in Ids \cup {NoId}
        /\ ins.op = "call" =>
             /\ ins.args \in Seq(Values) /\ ins.passes \subseteq Seq(Ids)
             /\ \A names \in ins.passes : Len(names) = Len(ins.args)
    BY <1>1, InstrType
  <2>2. Sat(gts, vts, ins)
    BY DEF ModuleSat
  <2> HIDE DEF ins
  <2>3. vts[ins.val] # {} => Marked(ins.val)
    BY <1>1, <1>2, <2>1, MarkParts
  <2>4. ASSUME ins.source # NoDesc
        PROVE  /\ ins.source \in MarkedValues[ins.val]
               /\ \A id \in SourceNames(ins) : MarkedValues[ins.val] \subseteq MarkedNames[id]
    <3>1. Marked(ins.val) /\ \A id \in SourceNames(ins) : gts[id] # {}
      BY <2>2, <2>3, <2>4 DEF Sat, SourceSat
    <3> QED
      BY <1>2, <2>1, <2>4, <3>1
  <2>5. ASSUME ins.op = "call", NEW names \in ins.passes, NEW a \in 1 .. Len(names)
        PROVE  MarkedValues[ins.args[a]] \subseteq MarkedNames[names[a]]
    <3>1. names \in Seq(Ids) /\ Len(names) = Len(ins.args)
      BY <2>1, <2>5
    <3>2. ins.args[a] \in Values /\ names[a] \in Ids
      BY <2>1, <2>5, <3>1
    <3>3. Marked(ins.args[a]) => gts[names[a]] # {}
      BY <1>2, <2>2, <2>5, <3>2 DEF Sat, CalleeSat
    <3> QED
      BY <1>3, <3>2, <3>3
  <2>6. ASSUME ins.op = "other", NEW v \in ins.ops
        PROVE  /\ MarkedValues[v] \subseteq MarkedValues[ins.val]
               /\ ins.to # NoId => MarkedValues[v] \subseteq MarkedNames[ins.to]
    <3>1. v \in Values
      BY <2>1, <2>6
    <3>2. Marked(v) => Marked(ins.val) /\ (ins.to # NoId => gts[ins.to] # {})
      BY <1>2, <2>2, <2>3, <2>6, <3>1 DEF Sat, OperandSat
    <3> QED
      BY <1>2, <2>1, <2>6, <3>1, <3>2
  <2>7. InstrClosed(MarkedNames, MarkedValues, ins)
    BY <2>4, <2>5, <2>6 DEF InstrClosed
  <2> QED
    BY <2>7 DEF ins
<1> QED
  BY <1>4, <1>5 DEF Closed

(* Without loops the result is complete: when the pass is done, the marks  *)
(* are closed under the instructions of all modules, and each marked       *)
(* instruction has metadata (runOnFunction and doModulePass,               *)
(* src/Taint.cc:87, :129).                                                 *)
THEOREM AllMarked == Spec => []DerivedMarked
<1>1. Init => TypeOK /\ CompleteInv
  BY InitTypeOK, InitMarkInv DEF CompleteInv
<1>2. TypeOK /\ CompleteInv /\ [Next]_vars => (TypeOK /\ CompleteInv)'
  BY TypeStep, CompleteStep
<1>3. TypeOK /\ CompleteInv => DerivedMarked
  <2> SUFFICES ASSUME TypeOK, CompleteInv, phase = "done", Ordered(prog)
               PROVE  /\ Closed(MarkedNames, MarkedValues, prog)
                      /\ \A m \in Modules : \A ins \in Code(m) :
                           Marked(ins.val) => meta[ins.val] # {}
    BY DEF DerivedMarked
  <2>1. /\ \A m \in Modules : ModuleSat(gts, vts, prog, m)
        /\ \A m \in Modules : MetaWritten(m)
    BY DEF CompleteInv, MarkInv, Finished
  <2>2. ASSUME NEW m \in Modules, NEW ins \in Code(m), Marked(ins.val)
        PROVE  meta[ins.val] # {}
    <3>1. PICK i \in 1 .. Len(prog[m]) : ins = prog[m][i]
      BY <2>2 DEF Code
    <3>2. Mark(gts, vts, prog[m][i].val)
      BY <2>2, <3>1 DEF Marked, Mark
    <3> QED
      BY <2>1, <3>1, <3>2 DEF MetaWritten
  <2> QED
    BY <2>1, <2>2, SatisfiedIsClosed
<1> QED
  BY <1>1, <1>2, <1>3, PTL DEF Spec

(* Of a program without loops the pass marks all that derives from an      *)
(* untrusted input, as README:47 says (doFinalization, src/Taint.cc:141).  *)
COROLLARY AllInputsMarked == Spec => [](Ordered(prog) => InputsMarked)
<1>1. TypeOK /\ DerivedMarked => (Ordered(prog) => InputsMarked)
  <2> SUFFICES ASSUME TypeOK, DerivedMarked, phase = "done", Ordered(prog),
                      NEW m \in Modules, NEW ins \in Code(m), Derived(prog).vts[ins.val] # {}
               PROVE  meta[ins.val] # {}
    BY DEF InputsMarked
  <2>1. MarkedNames \in GlobalTaints /\ MarkedValues \in ValueTaints
    BY DEF MarkedNames, MarkedValues, GlobalTaints, ValueTaints
  <2>2. ins.val \in Values /\ prog \in Programs
    BY InstrType DEF Code, TypeOK
  <2>3. Closed(MarkedNames, MarkedValues, prog)
    BY DEF DerivedMarked
  <2>4. MarkedValues[ins.val] # {}
    BY <2>1, <2>2, <2>3, DerivedWithin DEF InTables, TablesWithin
  <2> QED
    BY <2>2, <2>4 DEF MarkedValues, DerivedMarked
<1> QED
  BY <1>1, TypeCorrect, AllMarked, PTL

=============================================================================
