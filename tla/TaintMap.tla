------------------------------ MODULE TaintMap ------------------------------
(***************************************************************************)
(* What the taint pass works on (src/Taint.cc): the values and             *)
(* instructions of the modules, the two tables of TaintMap                 *)
(* (src/IntGlobal.h), and what it means for a value to derive from a       *)
(* source.  The flow of the pass is in Taint.                              *)
(***************************************************************************)
EXTENDS ModuleList, Sequences

CONSTANTS
  Ids,       \* the names under which facts are exchanged (src/Annotation.h)
  NoId,      \* the empty name
  Descs,     \* descriptions of taint sources
  NoDesc,    \* an instruction without metadata "taint_src"
  Values,    \* arguments, instructions and constants that use them
  Strip,     \* Strip[v]: v without its pointer casts
  NameOf,    \* NameOf[v]: the name of an argument, a load or a call (getValueId)
  Returns,   \* Returns[v]: for a call the result names of its callees (Ctx->Callees)
  Programs   \* the programs to analyse

(* An instruction: val is its value, source and members the description and *)
(* structure fields of a taint source.  A call has one entry in "passes"    *)
(* for each callee that is neither variadic nor an intrinsic: the names of  *)
(* its arguments, in order.  Any other instruction derives its value from   *)
(* ops, and records it under "to" if it is a store or a return.             *)
Instrs == [op : {"call"}, val : Values, source : Descs \cup {NoDesc}, members : SUBSET Ids,
           args : Seq(Values), passes : SUBSET Seq(Ids)]
            \cup [op : {"other"}, val : Values, source : Descs \cup {NoDesc}, members : SUBSET Ids,
                  ops : SUBSET Values, to : Ids \cup {NoId}]

ASSUME TaintAssumption ==
  /\ NoId \notin Ids
  /\ NoDesc \notin Descs
  /\ Strip \in [Values -> Values]
  /\ \A v \in Values : Strip[Strip[v]] = Strip[v]
  /\ NameOf \in [Values -> Ids \cup {NoId}]
  /\ Returns \in [Values -> SUBSET Ids]
  /\ \A v \in Values : Strip[v] # v => NameOf[v] = NoId /\ Returns[v] = {}
  /\ Programs \subseteq [Modules -> Seq(Instrs)]
  /\ \A p \in Programs, m \in Modules : \A i \in 1 .. Len(p[m]) :
        p[m][i].op = "call" =>
          \A names \in p[m][i].passes : Len(names) = Len(p[m][i].args)

GlobalTaints == [Ids -> SUBSET Descs]
ValueTaints  == [Values -> SUBSET Descs]

(* The names a value takes taint from when it has none of its own.         *)
Feeds(v) == Returns[v] \cup ({NameOf[v]} \ {NoId})

FromNames(gts, v) == UNION { gts[id] : id \in Feeds(v) }

(* getTaint: the taint of the value itself, else of the pointer it was     *)
(* cast from, else of its names.                                           *)
GetTaint(gts, vts, v) ==
  IF vts[v] # {} THEN vts[v]
  ELSE IF vts[Strip[v]] # {} THEN vts[Strip[v]]
  ELSE FromNames(gts, v)

(* What getTaint leaves in the table for each value of S it is asked for:  *)
(* the taint of its names is kept, the taint of the stripped pointer is    *)
(* not.                                                                    *)
Cached(gts, vts, S) ==
  [v \in Values |-> IF v \in S /\ vts[v] = {} /\ vts[Strip[v]] = {}
                    THEN FromNames(gts, v) ELSE vts[v]]

(* The names a source taints: its own, and the fields of the structure it  *)
(* points to.                                                              *)
SourceNames(ins) == ({NameOf[ins.val]} \ {NoId}) \cup ins.members

(* TaintMap::add(ID, D): insert D, and report whether the entry was empty. *)
AddToReplaces(gts, ids, D) ==   \* faulty: assign instead of insert
  [id \in Ids |-> IF id \in ids THEN D ELSE gts[id]]

IsNewAlways(gts, ids) == ids # {}   \* faulty: whether anything was inserted

AddTo(gts, ids, D) == [id \in Ids |-> IF id \in ids THEN gts[id] \cup D ELSE gts[id]]

IsNew(gts, ids) == \E id \in ids : gts[id] = {}

-----------------------------------------------------------------------------
(* What derives from what: a pair of tables closed under the instructions  *)
(* of a program.                                                           *)
ValuesClosed(gts, vts) ==
  \A v \in Values : FromNames(gts, v) \cup vts[Strip[v]] \subseteq vts[v]

InstrClosed(gts, vts, ins) ==
  /\ ins.source # NoDesc =>
       /\ ins.source \in vts[ins.val]
       /\ \A id \in SourceNames(ins) : vts[ins.val] \subseteq gts[id]
  /\ ins.op = "call" =>
       \A names \in ins.passes : \A a \in 1 .. Len(names) :
         vts[ins.args[a]] \subseteq gts[names[a]]
  /\ ins.op = "other" =>
       \A v \in ins.ops :
         /\ vts[v] \subseteq vts[ins.val]
         /\ ins.to # NoId => vts[v] \subseteq gts[ins.to]

Closed(gts, vts, p) ==
  /\ ValuesClosed(gts, vts)
  /\ \A m \in Modules : \A i \in 1 .. Len(p[m]) : InstrClosed(gts, vts, p[m][i])

-----------------------------------------------------------------------------
(* Programs without loops: no value travels over a back edge.  An operand, *)
(* or the pointer it was cast from, that is an instruction comes earlier   *)
(* in the same module; a cast of what may be tainted is an instruction,    *)
(* with the pointer, or another cast of it, as its operand.                *)
UsedValues(ins) == IF ins.op = "call" THEN { ins.args[a] : a \in 1 .. Len(ins.args) } ELSE ins.ops

Defines(p, n, j, v) == j \in 1 .. Len(p[n]) /\ p[n][j].val = v

DefinedBefore(p, m, i, v) ==
  \A n \in Modules : \A j \in 1 .. Len(p[n]) : Defines(p, n, j, v) => n = m /\ j < i

CastBefore(p, m, i, v) ==
  \/ \E j \in 1 .. i - 1 : Defines(p, m, j, v)
  \/ /\ Feeds(Strip[v]) = {}
     /\ \A n \in Modules : \A j \in 1 .. Len(p[n]) : ~Defines(p, n, j, Strip[v])

CastsOperand(ins) ==
  Strip[ins.val] # ins.val =>
    ins.op = "other" /\ \E x \in ins.ops : Strip[x] = Strip[ins.val]

Ordered(p) ==
  \A m \in Modules : \A i \in 1 .. Len(p[m]) :
    /\ CastsOperand(p[m][i])
    /\ \A v \in UsedValues(p[m][i]) :
         /\ DefinedBefore(p, m, i, v)
         /\ DefinedBefore(p, m, i, Strip[v])
         /\ Strip[v] # v => CastBefore(p, m, i, v)

=============================================================================
