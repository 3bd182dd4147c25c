------------------------------ MODULE FuncPtrs ------------------------------
(***************************************************************************)
(* What the call graph pass works on (src/CallGraph.cc, src/Annotation.h): *)
(* the functions and function-pointer values of the modules, the names     *)
(* under which facts are exchanged, and what a function-pointer value may  *)
(* point to.  The flow of the pass is in CallGraph.                        *)
(*                                                                         *)
(* A value is a node of a graph given by Node:                             *)
(*   "fun"   a Function used as a value                                    *)
(*   "join"  a bitcast, constant cast, phi or select of other values       *)
(*   "slot"  an argument, the result of a direct call, or a load: it may   *)
(*           be whatever was recorded under its name                       *)
(*   "none"  null and other constants, inline asm, inttoptr, a load        *)
(*           without a name, and the result of an indirect call            *)
(*   "bad"   anything else: findFunctions gives up on it                   *)
(* Arguments are numbered from 1.                                          *)
(***************************************************************************)
EXTENDS ModuleList, Sequences

CONSTANTS
  Stem,       \* Stem[m]: the file name of module m without its extension
  Functions,  \* every Function object: one per module that defines or declares it
  Mems,       \* names of variables and structure fields (metadata "id")
  MaxArgs,    \* the longest argument list
  Values,     \* values of function-pointer type, and called values
  Node,       \* Node[v]: what value v is
  Programs,   \* the programs to analyse
  NoId,       \* the name of a store without metadata "id"
  NoValue     \* an argument that is not a function pointer

Linkages == {"external", "internal", "weak"}

(* getScopeName: the name alone for external linkage, otherwise prefixed   *)
(* with the file name of the module.                                       *)
ScopeByName(f) == <<f.name>>   \* faulty: internal functions of two modules collide

Scope(f) ==
  IF f.linkage = "external" THEN <<f.name>> ELSE <<Stem[f.mod], f.name>>

ArgId(f, no) == <<"arg", Scope(f), no>>
RetId(f)     == <<"ret", Scope(f)>>
MemId(x)     == <<"mem", x>>

Ids == { ArgId(f, no) : f \in Functions, no \in 1 .. MaxArgs }
         \cup { RetId(f) : f \in Functions }
         \cup { MemId(x) : x \in Mems }

Nodes == [kind : {"fun"}, fun : Functions]
           \cup [kind : {"slot"}, id : Ids]
           \cup [kind : {"join"}, ops : SUBSET Values]
           \cup [kind : {"none", "bad"}]

(* The instructions runOnFunction acts on; "ignored" is a call of inline   *)
(* asm or of an intrinsic.                                                 *)
Instrs == [op : {"store"}, id : Ids \cup {NoId}, val : Values]
            \cup [op : {"ret"}, fun : Functions, val : Values]
            \cup [op : {"call"}, callee : Values,
                  args : Seq(Values \cup {NoValue}), ignored : BOOLEAN]

(* code[m]: the instructions of module m, function after function;         *)
(* inits[m]: the pairs of a name and a Function in its initialisers.       *)
ProgramTypes == [code  : [Modules -> Seq(Instrs)],
                 inits : [Modules -> SUBSET (Ids \X Functions)]]

FuncPtrMaps == [Ids -> SUBSET Functions]

ASSUME ProgramAssumption ==
  /\ \A f \in Functions : f.mod \in Modules /\ f.linkage \in Linkages /\ f.def \in BOOLEAN
  /\ MaxArgs \in Nat
  /\ Node \in [Values -> Nodes]
  /\ Programs \subseteq ProgramTypes
  /\ \A p \in Programs, m \in Modules : \A i \in 1 .. Len(p.code[m]) :
        p.code[m][i].op = "call" => Len(p.code[m][i].args) <= MaxArgs
  /\ NoId \notin Ids
  /\ NoValue \notin Values
  /\ \A f, g \in Functions : f.name = g.name /\ f.mod = g.mod => f = g

(* The values the recursion of findFunctions visits from v: v, and the     *)
(* operands of the joins it comes to, the least set of joins that leads no *)
(* further.                                                                *)
Joins == { v \in Values : Node[v].kind = "join" }

LeadsNoFurther(S) == \A v \in S : Node[v].ops \cap Joins \subseteq S

JoinsFrom(v) == { j \in Joins : \A S \in SUBSET Joins :
                                  {v} \cap Joins \subseteq S /\ LeadsNoFurther(S) => j \in S }

Visited ==
  [v \in Values |-> { w \in Values : w = v \/ \E j \in JoinsFrom(v) : w \in Node[j].ops }]

IsBad(v) == \E w \in Visited[v] : Node[w].kind = "bad"

(* Ctx->Funcs: for each name its definition with external linkage; where   *)
(* several modules have one, the last of them up to module m.              *)
Definitions(m) == { f \in Functions : /\ f.linkage = "external"
                                      /\ f.def
                                      /\ f.mod <= m }

LinkTable(m) ==
  [ n \in { f.name : f \in Definitions(m) } |->
      CHOOSE f \in Definitions(m) :
        /\ f.name = n
        /\ \A g \in Definitions(m) : g.name = n => g.mod <= f.mod ]

LinkTables == UNION { [names -> Functions] : names \in SUBSET { f.name : f \in Functions } }

(* findFunctions replaces a declaration by the definition it finds.        *)
Resolve(funcs, f) ==
  IF ~f.def /\ f.name \in DOMAIN funcs THEN funcs[f.name] ELSE f

(* findFunctions(V, S): what it adds to S, given Funcs and FuncPtrs.       *)
Find(funcs, ptrs, v) ==
  { Resolve(funcs, Node[w].fun) : w \in { u \in Visited[v] : Node[u].kind = "fun" } }
    \cup UNION { ptrs[Node[w].id] : w \in { u \in Visited[v] : Node[u].kind = "slot" } }

(* The name a store or a return records its value under.                   *)
Target(ins) == IF ins.op = "store" THEN ins.id ELSE RetId(ins.fun)

(* Faulty: assign instead of insert.                                       *)
MergeReplaces(ptrs, ids, S) == [id \in Ids |-> IF id \in ids THEN S ELSE ptrs[id]]

Merge(ptrs, ids, S) == [id \in Ids |-> IF id \in ids THEN ptrs[id] \cup S ELSE ptrs[id]]

-----------------------------------------------------------------------------
(* What runOnFunction is to achieve for each instruction: the value of a   *)
(* store or return is recorded under its name, and the function-pointer    *)
(* arguments of a call are recorded for every function it may call.        *)

AssignSatisfied(funcs, ptrs, ins) ==
  ins.op \in {"store", "ret"} /\ Target(ins) # NoId
    => Find(funcs, ptrs, ins.val) \subseteq ptrs[Target(ins)]

ArgSatisfied(funcs, ptrs, callees, ins, no) ==
  ins.args[no] # NoValue =>
    \A k \in callees : Find(funcs, ptrs, ins.args[no]) \subseteq ptrs[ArgId(k, no)]

CallSatisfied(funcs, ptrs, ins) ==
  ins.op = "call" /\ ~ins.ignored =>
    \A no \in 1 .. Len(ins.args) :
      ArgSatisfied(funcs, ptrs, Find(funcs, ptrs, ins.callee), ins, no)

Satisfied(funcs, ptrs, ins) ==
  AssignSatisfied(funcs, ptrs, ins) /\ CallSatisfied(funcs, ptrs, ins)

ModuleSatisfied(funcs, ptrs, prog, m) ==
  \A i \in 1 .. Len(prog.code[m]) : Satisfied(funcs, ptrs, prog.code[m][i])

Closed(funcs, ptrs, prog) ==
  \A m \in Modules : ModuleSatisfied(funcs, ptrs, prog, m)

Below(a, b) == \A id \in Ids : a[id] \subseteq b[id]

Inits(prog, M) == [id \in Ids |-> { f \in Functions : \E m \in M : <<id, f>> \in prog.inits[m] }]

(* A solution holds the initialisers and satisfies every instruction.      *)
Solution(funcs, ptrs, prog) ==
  Below(Inits(prog, Modules), ptrs) /\ Closed(funcs, ptrs, prog)

=============================================================================
