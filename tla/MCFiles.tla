------------------------------ MODULE MCFiles -------------------------------
(***************************************************************************)
(* Files with two files; the functions in them have three instructions,    *)
(* among them calls that mark values and calls that allocate.              *)
(***************************************************************************)
EXTENDS Files

Instr(n) == <<"instruction", n>>
Const(c) == <<"constant", c>>

Plain(n, op, ops) ==
  [val |-> Instr(n), op |-> op, callee |-> "", cell |-> "none", ops |-> ops, id |-> NoId,
   source |-> NoMark, sink |-> NoMark]

CallOf(n, f, ops) == [Plain(n, "call", ops) EXCEPT !.callee = f]

Access(n, op, ops, cell) == [Plain(n, op, ops) EXCEPT !.cell = cell]

Cell(a, h, c, s) == [at |-> a, holds |-> h, constant |-> c, named |-> s, name |-> "x"]

Cells == { Cell("variable", "int", TRUE, FALSE), Cell("variable", "other", TRUE, FALSE),
           Cell("field", "function pointer", TRUE, TRUE), Cell("field", "int", FALSE, TRUE),
           Cell("field", "int", TRUE, FALSE), Cell("other", "int", TRUE, FALSE) }

(* A value is computed or read, named as tainted or used, and used again.  *)
Sum        == Plain(1, "other", <<Arg(1)>>)
Load1(c)   == Access(1, "load", <<Arg(2)>>, c)
Names(n, d, v) == CallOf(n, "__kint_taint", <<Const(d), v>>)
Alloc(vs)  == CallOf(3, IF Len(vs) = 1 THEN "kmalloc" ELSE "kcalloc", vs)

Seconds == { Names(2, "user", v) : v \in {Instr(1), Arg(1), Const("address")} }
             \cup { CallOf(2, "", <<Arg(1)>>) }

Thirds == { Alloc(vs) : vs \in { <<Instr(1)>>, <<Instr(2)>>, <<Arg(1)>>, <<Const("size")>>,
                                 <<Instr(2), Instr(1)>>, <<Const("size"), Instr(2)>> } }
            \cup { Names(3, "net", v) : v \in {Instr(1), Arg(1)} }

Function(s, v, code) == [syscall |-> s, vararg |-> v, args |-> <<"int", "pointer">>, code |-> code]

Functions == { Function(t[1], t[2], <<Sum, b, c>>) :
                 t \in {<<TRUE, FALSE>>, <<FALSE, FALSE>>, <<FALSE, TRUE>>},
                 b \in Seconds, c \in Thirds }
               \cup { Function(TRUE, FALSE, <<Load1(c), Access(2, "store", <<Instr(1), Arg(2)>>, c)>>) :
                        c \in Cells }

(* The first file has any of them, the second a system call with a sink.   *)
Second == Function(TRUE, FALSE, <<Sum, Alloc(<<Instr(1)>>)>>)

MCPrograms == { <<f, Second>> : f \in Functions }

=============================================================================
