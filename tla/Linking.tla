------------------------------- MODULE Linking -------------------------------
(***************************************************************************)
(* The call graph of the program the linker builds from the modules, as a  *)
(* reference for the result of the call graph pass (src/CallGraph.cc): on  *)
(* symbols, without link table, declarations, flags or rounds.             *)
(***************************************************************************)
EXTENDS CallGraph

CONSTANT Depth   \* applications of the instructions after which nothing is added

(* The linked program: functions with external or weak linkage are one     *)
(* symbol per name, internal ones a symbol per module.                     *)
Symbol(f) == IF f.linkage = "internal" THEN <<f.mod, f.name>> ELSE <<f.name>>

Symbols(S) == { Symbol(f) : f \in S }

(* Where the linked program keeps what the modules' names stand for: the   *)
(* argument or result of a symbol, or a memory name.                       *)
ArgOf(f, no) == <<"arg", Symbol(f), no>>
RetOf(f)     == <<"ret", Symbol(f)>>

Places == { ArgOf(f, no) : f \in Functions, no \in 1 .. MaxArgs }
            \cup { RetOf(f) : f \in Functions }
            \cup { MemId(x) : x \in Mems }

StandsFor(id, pl) ==
  \/ \E f \in Functions, no \in 1 .. MaxArgs : id = ArgId(f, no) /\ pl = ArgOf(f, no)
  \/ \E f \in Functions : id = RetId(f) /\ pl = RetOf(f)
  \/ \E x \in Mems : id = MemId(x) /\ pl = MemId(x)

Place == [id \in Ids |-> CHOOSE pl \in Places : StandsFor(id, pl)]

(* The symbols a value may be, given those in each place.                  *)
Linked(R, v) ==
  { Symbol(Node[w].fun) : w \in { u \in Visited[v] : Node[u].kind = "fun" } }
    \cup UNION { R[Place[Node[w].id]] : w \in { u \in Visited[v] : Node[u].kind = "slot" } }

(* The symbols an instruction puts into a place, and those that are there  *)
(* from the start.                                                         *)
Puts(R, ins, pl) ==
  CASE ins.op = "store" -> IF ins.id # NoId /\ Place[ins.id] = pl THEN Linked(R, ins.val) ELSE {}
    [] ins.op = "ret" -> IF RetOf(ins.fun) = pl THEN Linked(R, ins.val) ELSE {}
    [] ins.op = "call" ->
         UNION { Linked(R, ins.args[no]) : no \in
                   { n \in 1 .. Len(ins.args) :
                       /\ ~ins.ignored
                       /\ ins.args[n] # NoValue
                       /\ \E f \in Functions : /\ ArgOf(f, n) = pl
                                               /\ Symbol(f) \in Linked(R, ins.callee) } }

Initial(p, pl) ==
  UNION { { Symbol(e[2]) : e \in { d \in p.inits[m] : Place[d[1]] = pl } } : m \in Modules }

LinkedStep(p, R) ==
  LET code == UNION { { p.code[m][i] : i \in 1 .. Len(p.code[m]) } : m \in Modules }
  IN  [pl \in Places |-> R[pl] \cup Initial(p, pl) \cup UNION { Puts(R, ins, pl) : ins \in code }]

(* After Depth applications of the instructions; each compared with the    *)
(* one before, so that a checker computes it once.                         *)
Advance(p, R) == LET next == LinkedStep(p, R) IN IF next = R THEN R ELSE next

LinkedResult(p) ==
  LET Rounds[n \in 0 .. Depth] ==
        IF n = 0 THEN [pl \in Places |-> {}] ELSE Advance(p, Rounds[n - 1])
  IN  Rounds[Depth]

ASSUME LinkingAssumption ==
  /\ Depth \in Nat
  /\ \A p \in Programs : LinkedStep(p, LinkedResult(p)) = LinkedResult(p)

(* Programs whose names link as getScopeName and Ctx->Funcs suppose: no    *)
(* weak or linkonce functions, internal functions are defined where they   *)
(* are, and no two modules have one file name.                             *)
Linkable ==
  /\ \A f \in Functions : /\ f.linkage \in {"external", "internal"}
                          /\ f.linkage = "internal" => f.def
  /\ \A m, n \in Modules : Stem[m] = Stem[n] => m = n

(* For a program the pass finishes, the callees of every call are exactly  *)
(* those of the linked program, although the pass sees one module at a     *)
(* time, meets declarations before definitions, and exchanges facts by     *)
(* name only (Ctx->Callees, src/IntGlobal.h:86-87).                        *)
LinkedCallees ==
  phase = "done" =>
    LET R == LinkedResult(prog)
    IN  \A m \in Modules : \A c \in CallSites(m) :
          Symbols(callees[c]) = Linked(R, Callee(c))

=============================================================================
