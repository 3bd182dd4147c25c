------------------------------- MODULE MCRange -------------------------------
(***************************************************************************)
(* Range on two modules.                                                   *)
(*                                                                         *)
(* Module 1 holds f(a), which loads x, tests it, and calls g or stores to  *)
(* y; module 2 holds g(b), which stores to x, and h(), which calls f or g  *)
(* through a pointer.  z is a taint source.                                *)
(***************************************************************************)
EXTENDS Collected

CONSTANTS Family,   \* which of the families of programs below
          a, l, s, c, j, b, t, y, k, i, n, z   \* values

IdTable == {"x", "y", "z", "argf", "argg", "retf", "retg", "retp"}

ValueTable == {a, l, s, c, j, b, t, y, k, i, n, z}

NameTable ==
  [v \in ValueTable |->
     CASE v = l -> "x" [] v \in {y, i} -> "y" [] v = z -> "z" [] OTHER -> NoId]

ReturnTable ==
  [v \in ValueTable |->
     CASE v = c -> {"retg"} [] v = k -> {"retf", "retg"} [] OTHER -> {}]

Mark(v, id)       == [op |-> "mark", val |-> v, id |-> id]
Store(id, v)      == [op |-> "store", id |-> id, v |-> v]
Return(id, v)     == [op |-> "ret", id |-> id, v |-> v]
Load(v)           == [op |-> "load", val |-> v]
Bin(v, op, u, w)  == [op |-> "bin", val |-> v, fn |-> op, l |-> u, r |-> w]
Select(v, u, w)   == [op |-> "select", val |-> v, l |-> u, r |-> w]
Phi(v, from)      == [op |-> "phi", val |-> v, from |-> from]
Call(v, args, passes, id) ==
  [op |-> "call", val |-> v, args |-> args, passes |-> passes, ret |-> id]

Cond(at, p, u, w, yes) == [kind |-> "cond", at |-> at, pred |-> p, l |-> u, r |-> w, yes |-> yes]
Switch(v, d, cases)    == [kind |-> "switch", v |-> v, default |-> d, cases |-> cases]
Jump                   == [kind |-> "br"]

Block(code, term, succs) == [code |-> code, term |-> term, succs |-> succs]
Func(blocks)             == [blocks |-> blocks, back |-> {}]
Straight(code)           == Func(<<Block(code, Jump, {})>>)
Prog(c1, c2, i1, i2)     == [code |-> <<c1, c2>>, inits |-> <<i1, i2>>]

(* The tests of block m with the targets u and 4.                          *)
Tests(m, u) ==
  { Cond(m, p, l, w, yes) : p \in {"ult", "eq"}, w \in {2, 5}, yes \in {u, 4} }
    \cup { Switch(l, 4, [w \in {1, 2} |-> u]), Switch(l, u, [w \in {0, 7} |-> 4]) }

(* f(a).  Its test is in block m, 2 or 3; the other one is the target that *)
(* calls g, laid out after or before the test.                             *)
MakeF(op, m, test) ==
  LET u == 5 - m
      body(w) ==
        CASE w = 1 -> Block(<<Mark(a, "argf"), Load(l)>>, Jump, {m})
          [] w = m -> Block(<< >>, test, {u, 4})
          [] w = u -> Block(<<Bin(s, op, l, 3), Call(c, <<s>>, {<<"argg">>}, "retg")>>, Jump, {5})
          [] w = 4 -> Block(<<Store("y", l), Select(n, l, 1)>>, Jump, {5})
          [] w = 5 -> Block(<<Phi(j, [q \in {u, 4} |-> IF q = u THEN c ELSE n]),
                              Return("retf", j)>>, Jump, {})
  IN  Func([w \in 1 .. 5 |-> body(w)])

MakeG(op, m) == Straight(<<Mark(b, "argg"), Load(y), Bin(t, op, y, m), Store("x", t), Return("retg", t)>>)

MakeH(v) == Straight(<<Load(i), Load(z), Call(k, <<v>>, {<<"argf">>, <<"argg">>}, "retp")>>)

Pools ==
  UNION { { Prog(<<MakeF(op, m, test)>>, <<MakeG(gn[1], gn[2]), MakeH(v)>>, {<<"x", 1>>}, {<<"y", 3>>}) :
              test \in Tests(m, 5 - m), op \in {"sub", "udiv"},
              gn \in {<<"add", 2>>, <<"mul", 3>>}, v \in {4, i, z} } : m \in {2, 3} }

(* A module that increments a variable by itself, in two sweeps.           *)
SelfCounter ==
  Prog(<< Straight(<<Load(l), Return("retf", l)>>),
          Straight(<<Load(y), Store("x", y)>>),
          Straight(<<Call(k, << >>, {<< >>}, "retp"), Bin(s, "add", k, 1), Store("y", s)>>) >>,
       << Straight(<<Load(i), Store("z", i)>>) >>, {<<"y", 0>>}, {})

(* Two modules that increment a variable in turn.                          *)
Counter ==
  Prog(<< Straight(<<Load(y), Bin(s, "add", y, 1), Store("x", s)>>) >>,
       << Straight(<<Load(l), Store("y", l)>>) >>, {<<"y", 0>>}, {})

(* f returns its argument or 1.                                            *)
Argument ==
  Prog(<< Func(<<Block(<<Mark(a, "argf")>>, Cond(1, "ult", a, 4, 2), {2, 3}),
                 Block(<< >>, Jump, {3}),
                 Block(<<Phi(j, <<a, 1>>), Return("retf", j)>>, Jump, {})>>) >>,
       << Straight(<<Call(k, <<6>>, {<<"argf">>}, "retf")>>) >>, {}, {})

(* The right operand of a test in a target laid out before the test.       *)
Compared ==
  Prog(<< Func(<<Block(<<Load(l), Load(y)>>, Jump, {3}),
                 Block(<<Call(c, <<y>>, {<<"argg">>}, "retg")>>, Jump, {4}),
                 Block(<< >>, Cond(3, "ult", l, y, 2), {2, 4}),
                 Block(<< >>, Jump, {})>>) >>,
       << Straight(<<Mark(b, "argg"), Return("retg", 0)>>) >>,
       {<<"x", 1>>, <<"x", 2>>}, {<<"y", 5>>})

(* A loop that passes its counter to g.                                    *)
Loop ==
  Prog(<< [blocks |-> <<Block(<< >>, Jump, {2}),
                        Block(<<Phi(j, <<0, s>>), Call(c, <<j>>, {<<"argg">>}, "retg"),
                                Bin(s, "add", j, 1)>>, Cond(2, "ult", s, 5, 2), {2, 3}),
                        Block(<< >>, Jump, {})>>,
           back |-> {<<2, 2>>}] >>,
       << Straight(<<Mark(b, "argg"), Return("retg", 0)>>) >>, {}, {})

Remainder ==
  Prog(<< Straight(<<Load(l), Bin(s, "urem", l, 3), Call(c, <<s>>, {<<"argg">>}, "retg")>>) >>,
       << Straight(<<Mark(b, "argg"), Return("retg", 0)>>) >>, {<<"x", 1>>, <<"x", 6>>}, {})

ProgramTable ==
  CASE Family = "pools"     -> Pools \cup {SelfCounter, Counter}
    [] Family = "counter"   -> {Counter}
    [] Family = "argument"  -> {Argument}
    [] Family = "compared"  -> {Compared}
    [] Family = "loop"      -> {Loop}
    [] Family = "remainder" -> {Remainder}

MCIds      == IdTable
MCValues   == ValueTable
MCNameOf   == NameTable
MCReturns  == ReturnTable
MCSources  == {"z"}
MCPrograms == ProgramTable

(* The theorem about MayAnalysis is about some of these programs.          *)
ASSUME OrderedPrograms == Family = "pools" => \E p \in Programs : Ordered(p)

=============================================================================
