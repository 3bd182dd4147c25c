------------------------------ MODULE Collected ------------------------------
(***************************************************************************)
(* The values that can reach each name, value and block of a program, as a *)
(* reference for the result of the range pass (src/Range.cc): the least    *)
(* sets closed under the instructions and branches, reached by applying    *)
(* all of them at once, Depth times, from empty sets.  No ranges, no       *)
(* widening, no caches or flags, and with back edges.                      *)
(***************************************************************************)
EXTENDS Range

CONSTANT Depth   \* applications after which nothing is added

Entering(f, b) == { q \in DOMAIN f.blocks : b \in f.blocks[q].succs }

(* What names and operands can be: names holds the values of each name,    *)
(* row those of each value in a block, rows the row of each block.         *)
Under(names, ids) == UNION { IF id \in Sources THEN Word ELSE names[id] : id \in ids }

HereIn(row, u) == IF u \in Word THEN {u} ELSE row[u]

(* What an instruction of block b makes of the values before it.           *)
Made(names, f, rows, b, ins) ==
  CASE ins.op = "bin"    -> Image(ins.fn, HereIn(rows[b], ins.l), HereIn(rows[b], ins.r))
    [] ins.op = "select" -> HereIn(rows[b], ins.l) \cup HereIn(rows[b], ins.r)
    [] ins.op = "phi"    -> UNION { HereIn(rows[q], ins.from[q]) : q \in Entering(f, b) }
    [] ins.op = "load"   -> IF NameOf[ins.val] = NoId THEN Word ELSE Under(names, {NameOf[ins.val]})
    [] ins.op = "mark"   -> Under(names, {ins.id})
    [] ins.op = "call"   -> Under(names, Returns[ins.val])
    [] ins.op = "other"  -> Word

(* The values of v that leave a block by its terminator t for block b.     *)
Passing(t, row, b, v) ==
  LET met(u, w) == Compare(t.pred, u, w) <=> (t.yes = b)
  IN  CASE t.kind = "cond" /\ v = t.l ->
             { u \in row[v] : \E w \in HereIn(row, t.r) : met(u, w) }
        [] t.kind = "cond" /\ v # t.l /\ v = t.r ->
             { w \in row[v] : \E u \in HereIn(row, t.l) : met(u, w) }
        [] t.kind = "switch" /\ v = t.v ->
             { u \in row[v] : b = IF u \in DOMAIN t.cases THEN t.cases[u] ELSE t.default }
        [] OTHER -> row[v]

Makes(ins) == ins.op \notin {"store", "ret"}

AtPlace(names, f, rows, b, v) ==
  UNION ({ Made(names, f, rows, b, ins) :
             ins \in { o \in Range(f.blocks[b].code) : Makes(o) /\ o.val = v } }
         \cup { Passing(f.blocks[q].term, rows[q], b, v) : q \in Entering(f, b) })

(* The values an instruction records under a name.                         *)
Recorded(names, row, ins, id) ==
  CASE ins.op \in {"store", "ret"} -> IF ins.id = id THEN HereIn(row, ins.v) ELSE {}
    [] ins.op = "call" ->
         (UNION { HereIn(row, ins.args[i]) :
                    i \in { j \in 1 .. Len(ins.args) : \E ids \in ins.passes : ids[j] = id } })
           \cup (IF ins.ret = id THEN Under(names, Returns[ins.val]) ELSE {})
    [] OTHER -> {}

FromFunction(names, f, rows, id) ==
  UNION { UNION { Recorded(names, rows[b], ins, id) : ins \in Range(f.blocks[b].code) } :
            b \in DOMAIN f.blocks }

FromModule(p, s, m, id) ==
  { e[2] : e \in { o \in p.inits[m] : o[1] = id } }
    \cup UNION { FromFunction(s.names, p.code[m][g], s.at[m][g], id) : g \in DOMAIN p.code[m] }

(* Tables for the names and, per module, function, block and value, for    *)
(* the values.                                                             *)
NoValues(p) ==
  [ names |-> [id \in Ids |-> {}],
    at    |-> [m \in Modules |-> [g \in DOMAIN p.code[m] |->
                 [b \in DOMAIN p.code[m][g].blocks |-> [v \in Values |-> {}]]]] ]

CollectStep(p, s) ==
  [ names |-> [id \in Ids |-> s.names[id] \cup UNION { FromModule(p, s, m, id) : m \in Modules }],
    at    |-> [m \in Modules |-> [g \in DOMAIN p.code[m] |->
                 [b \in DOMAIN p.code[m][g].blocks |-> [v \in Values |->
                    s.at[m][g][b][v] \cup AtPlace(s.names, p.code[m][g], s.at[m][g], b, v)]]]] ]

(* The tables after a further step.  The comparisons are for a checker     *)
(* that evaluates late: all of s before the step, and each step once.      *)
Advance(p, s) == LET next == CollectStep(p, s) IN IF s = s /\ next = s THEN s ELSE next

Collected(p) ==
  LET Tables[n \in 0 .. Depth] == IF n = 0 THEN NoValues(p) ELSE Advance(p, Tables[n - 1])
  IN  Tables[Depth]

ASSUME ReferenceAssumption ==
  /\ NoRange \notin Ranges /\ NoId \notin Ids
  /\ Values \cap Word = {}

ASSUME CollectedAssumption ==
  /\ Depth \in Nat
  /\ \A p \in Programs : CollectStep(p, Collected(p)) = Collected(p)

(* "The analysis is a forward may analysis" (src/Range.cc:6): no value     *)
(* that can reach a name is outside the range of the name, and no metadata *)
(* excludes a value its instruction can have.                              *)
MayAnalysis ==
  phase = "done" =>
    LET all == Collected(prog)
    IN  /\ \A id \in Ids \ Sources : all.names[id] \subseteq ranges[id]
        /\ \A m \in Modules : \A g \in DOMAIN prog.code[m] :
             \A b \in DOMAIN prog.code[m][g].blocks, v \in Values :
               meta[v] # NoRange => all.at[m][g][b][v] \subseteq meta[v]

-----------------------------------------------------------------------------
(* Programs whose blocks and instructions the pass meets in the order in   *)
(* which values flow.  Blocks come after their predecessors:               *)
LaidOut(f) ==
  /\ f.back = {}
  /\ \A q \in DOMAIN f.blocks : \A b \in f.blocks[q].succs : q < b

(* ... and definitions before uses.                                        *)
Reads(f, b, ins) ==
  CASE ins.op \in {"store", "ret"}  -> {ins.v}
    [] ins.op \in {"bin", "select"} -> {ins.l, ins.r}
    [] ins.op = "phi"               -> { ins.from[q] : q \in Entering(f, b) }
    [] ins.op = "call"              -> Range(ins.args)
    [] OTHER                        -> {}

TermReads(t) ==
  CASE t.kind = "cond"   -> {t.l, t.r}
    [] t.kind = "switch" -> {t.v}
    [] OTHER             -> {}

MadeFirst(f, b, i, v) ==
  \A q \in 1 .. b :
    /\ q < b => v \notin TermReads(f.blocks[q].term)
    /\ \A j \in DOMAIN f.blocks[q].code : q < b \/ j <= i => v \notin Reads(f, q, f.blocks[q].code[j])

DefinedFirst(f) ==
  \A b \in DOMAIN f.blocks : \A i \in DOMAIN f.blocks[b].code :
    Makes(f.blocks[b].code[i]) => MadeFirst(f, b, i, f.blocks[b].code[i].val)

(* Each value is made once, in all modules.                                *)
Sites(p) ==
  UNION { UNION { UNION { { <<m, g, b, i>> : i \in DOMAIN p.code[m][g].blocks[b].code } :
                            b \in DOMAIN p.code[m][g].blocks } :
                    g \in DOMAIN p.code[m] } : m \in Modules }

InstrAt(p, x) == p.code[x[1]][x[2]].blocks[x[3]].code[x[4]]

MadeOnce(p) ==
  \A x, y \in Sites(p) :
    LET ins == InstrAt(p, x)
        o   == InstrAt(p, y)
    IN  Makes(ins) /\ Makes(o) /\ ins.val = o.val => x = y

(* What the pass has no range for is not used, and the names of taint      *)
(* sources, whose ranges metadata is written from but which lookups do not *)
(* ask, hold no other values.                                              *)
MarkValues(p) == { InstrAt(p, x).val : x \in { y \in Sites(p) : InstrAt(p, y).op = "mark" } }

Known(p, x) ==
  LET ins == InstrAt(p, x)
      f   == p.code[x[1]][x[2]]
  IN  /\ ins.op = "bin" => ins.fn # "urem"
      /\ ins.op = "load" => NameOf[ins.val] # NoId
      /\ ins.op = "call" => (ins.passes = {} => Returns[ins.val] = {})
      /\ Reads(f, x[3], ins) \cap MarkValues(p) = {}

Writes(ins) ==
  CASE ins.op \in {"store", "ret"} -> {ins.id}
    [] ins.op = "call"             -> {ins.ret} \cup UNION { Range(ids) : ids \in ins.passes }
    [] OTHER                       -> {}

SourcesOutside(p) ==
  /\ \A x \in Sites(p) : Writes(InstrAt(p, x)) \cap Sources = {}
  /\ \A m \in Modules : \A e \in p.inits[m] : e[1] \notin Sources

Ordered(p) ==
  /\ \A m \in Modules : \A g \in DOMAIN p.code[m] :
       LaidOut(p.code[m][g]) /\ DefinedFirst(p.code[m][g])
  /\ MadeOnce(p)
  /\ \A x \in Sites(p) : Known(p, x)
  /\ SourcesOutside(p)

=============================================================================
