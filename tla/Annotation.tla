----------------------------- MODULE Annotation -----------------------------
(***************************************************************************)
(* What intglobal does to a function when it loads its file                *)
(* (AnnotationPass, src/Annotation.cc): integer arguments become calls     *)
(* that name them, loads and stores get the name of their memory, taint    *)
(* sources and the sizes of allocations are marked, and calls made only to *)
(* mark a value are erased.                                                *)
(***************************************************************************)
EXTENDS Integers, Sequences, FiniteSetsExt

(* A function: whether its name starts with sys_, whether it is variadic,  *)
(* the types of its arguments and its code, the instructions by place: a   *)
(* sequence when it is compiled.  An instruction has a value, operands and *)
(* the metadata "id", "taint_src" and "sink"; a load or store the memory   *)
(* it accesses, a call the function it names, "" if none.                  *)
(* Values are arguments, instructions, the calls that stand for arguments, *)
(* or constants, among them the addresses of variables.                    *)
NoId   == <<>>
NoMark == "none"

Fields == {"val", "op", "callee", "cell", "ops", "id", "source", "sink"}

Arg(k)    == <<"arg", k>>
Marker(k) == <<"marker", k>>

IsInstruction(v) == v[1] \in {"instruction", "marker"}

Used(code, v) == \E i \in DOMAIN code : \E n \in DOMAIN code[i].ops : code[i].ops[n] = v

Erased(code, I) == I.callee = "__kint_taint" /\ ~Used(code, I.val)

(* What the compiler makes: a function of at least one instruction that is *)
(* no call to mark a value.  A value named to __kint_taint has a           *)
(* description, and what such a call returns is used by more than calls    *)
(* that are erased.                                                        *)
Named(f, I) ==
  /\ {1, 2} \subseteq DOMAIN I.ops
  /\ I.ops[1][1] = "constant" /\ I.ops[1][2] # NoMark
  /\ Used(f.code, I.val) => \E j \in DOMAIN f.code :
       ~Erased(f.code, f.code[j]) /\ I.val \in Range(f.code[j].ops)

Compiled(f) ==
  /\ f = [x \in {"syscall", "vararg", "args", "code"} |-> f[x]]
  /\ Len(f.args) \in Nat /\ DOMAIN f.args = 1 .. Len(f.args)
  /\ Len(f.code) \in Nat /\ f.code = [i \in 1 .. Len(f.code) |-> f.code[i]]
  /\ \A i \in DOMAIN f.code :
       LET I == f.code[i]
       IN  /\ I = [x \in Fields |-> I[x]]
           /\ I.ops = [n \in DOMAIN I.ops |-> I.ops[n]]
           /\ I.val[1] = "instruction"
           /\ I.callee = "__kint_taint" => Named(f, I)
  /\ \E i \in DOMAIN f.code : f.code[i].callee # "__kint_taint"

-----------------------------------------------------------------------------
(* annotateArguments: an integer argument that is used becomes a call of   *)
(* kint_arg.iN at the entry, before those of the arguments before it.      *)
ToReplace(f) ==
  IF f.vararg THEN {}
  ELSE { k \in DOMAIN f.args : f.args[k] = "int" /\ Used(f.code, Arg(k)) }

Place(k) == 1 - k

MarkerOf(k) ==
  [val |-> Marker(k), op |-> "call", callee |-> "kint_arg.i", cell |-> "none", ops |-> <<>>,
   id |-> Arg(k), source |-> NoMark, sink |-> NoMark]

AnnotateArguments(f) ==
  LET by(v) == IF v \in { Arg(k) : k \in ToReplace(f) } THEN Marker(v[2]) ELSE v
  IN  [i \in DOMAIN f.code \cup { Place(k) : k \in ToReplace(f) } |->
         IF i \in DOMAIN f.code
         THEN [f.code[i] EXCEPT !.ops = [n \in DOMAIN @ |-> by(@[n])]]
         ELSE MarkerOf(Place(i))]

(* getAnnotation: the name of a variable, or of a field at a constant      *)
(* offset of a structure that has a name.                                  *)
NeedAnnotation(cell) == cell.holds \in {"int", "function pointer"}

GetAnnotation(cell) ==
  IF cell.at = "variable" \/ (cell.at = "field" /\ cell.constant /\ cell.named)
  THEN <<cell.at, cell.name>> ELSE NoId

AnnotateLoadStore(I) ==
  IF I.op \in {"load", "store"} /\ NeedAnnotation(I.cell) /\ GetAnnotation(I.cell) # NoId
  THEN GetAnnotation(I.cell) ELSE I.id

(* Instructions set metadata of others and read none, so of those that set *)
(* the same one the last in the order of the code decides.                 *)
(* annotateTaintSource: the arguments of system calls; what is named to    *)
(* __kint_taint, and its result if it is used.                             *)
MarksSource(f, code, I, v) ==
  \/ I.callee = "kint_arg.i" /\ f.syscall /\ v = I.val
  \/ I.callee = "__kint_taint" /\ (v = I.ops[2] \/ (v = I.val /\ Used(code, v)))

Description(I) == IF I.callee = "kint_arg.i" THEN "syscall" ELSE I.ops[1][2]

AnnotateTaintSource(f, code, J) ==
  LET marks == { i \in DOMAIN code : MarksSource(f, code, code[i], J.val) }
  IN  IF marks = {} THEN J.source ELSE Description(code[Max(marks)])

(* annotateSink: the first entry of the table whose operand is an          *)
(* instruction decides, and is the only one.  Three entries of the table.  *)
Allocs == << <<"kmalloc", 1>>, <<"kcalloc", 1>>, <<"kcalloc", 2>> >>

Fitting(I) == { a \in DOMAIN Allocs : Allocs[a][1] = I.callee /\ IsInstruction(I.ops[Allocs[a][2]]) }

MarksSink(I, v) == Fitting(I) # {} /\ v = I.ops[Allocs[Min(Fitting(I))][2]]

AnnotateSink(code, J) ==
  LET marks == { i \in DOMAIN code : MarksSink(code[i], J.val) }
  IN  IF marks = {} THEN J.sink ELSE code[Max(marks)].callee

(* runOnFunction; the calls of __kint_taint nobody uses are erased.        *)
Annotate(f) ==
  LET code == AnnotateArguments(f)
      kept == { i \in DOMAIN code : ~Erased(code, code[i]) }
  IN  [f EXCEPT !.code = [i \in kept |->
         [code[i] EXCEPT !.id     = AnnotateLoadStore(code[i]),
                         !.source = AnnotateTaintSource(f, code, code[i]),
                         !.sink   = AnnotateSink(code, code[i])]]]

=============================================================================
