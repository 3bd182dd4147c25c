----------------------------- MODULE MCCallGraph -----------------------------
(***************************************************************************)
(* CallGraph on two modules, with the call graph of the program the linker *)
(* builds from them.                                                       *)
(***************************************************************************)
EXTENDS Linking

CONSTANTS Breadth,     \* whether two instructions of each module are combined freely
          WeakLinkage  \* the linkage of the second module's g

MCStem == <<"a", "b">>

Fun(n, m, l, d) == [name |-> n, mod |-> m, linkage |-> l, def |-> d]

f1 == Fun("f", 1, "external", TRUE)
f2 == Fun("f", 2, "external", FALSE)
g1 == Fun("g", 1, "external", FALSE)
g2 == Fun("g", 2, WeakLinkage, TRUE)
h1 == Fun("h", 1, "internal", TRUE)
h2 == Fun("h", 2, "internal", TRUE)

FunctionTable == {f1, f2, g1, g2, h1, h2}

(* The values of both modules; "loop" is a phi of a loop.                  *)
NodeTable ==
  [ f1   |-> [kind |-> "fun", fun |-> f1],
    f2   |-> [kind |-> "fun", fun |-> f2],
    g1   |-> [kind |-> "fun", fun |-> g1],
    h1   |-> [kind |-> "fun", fun |-> h1],
    h2   |-> [kind |-> "fun", fun |-> h2],
    argf |-> [kind |-> "slot", id |-> ArgId(f1, 1)],
    argg |-> [kind |-> "slot", id |-> ArgId(g2, 1)],
    argh |-> [kind |-> "slot", id |-> ArgId(h1, 1)],
    arg2 |-> [kind |-> "slot", id |-> ArgId(h1, 2)],
    getg |-> [kind |-> "slot", id |-> RetId(g1)],
    x    |-> [kind |-> "slot", id |-> MemId("x")],
    y    |-> [kind |-> "slot", id |-> MemId("y")],
    loop |-> [kind |-> "join", ops |-> {"loop", "sel", "argh"}],
    sel  |-> [kind |-> "join", ops |-> {"x", "h2"}],
    null |-> [kind |-> "none"],
    odd  |-> [kind |-> "bad"],
    odds |-> [kind |-> "join", ops |-> {"odd", "h1"}] ]


Store(x, v) == [op |-> "store", id |-> MemId(x), val |-> v]
Lost(v)     == [op |-> "store", id |-> NoId, val |-> v]
Return(f, v) == [op |-> "ret", fun |-> f, val |-> v]
Call(c, as) == [op |-> "call", callee |-> c, args |-> as, ignored |-> FALSE]
Asm(c)      == [op |-> "call", callee |-> c, args |-> << >>, ignored |-> TRUE]

Pool1 == { Store("x", "h1"), Store("x", "loop"), Return(f1, "argf"),
           Call("x", <<"g1">>), Call("g1", <<"loop">>), Call("argf", <<"argf">>) }
Pool2 == { Store("x", "argg"), Return(g2, "sel"), Call("x", <<"h2">>),
           Call("argg", <<"getg">>), Call("f2", <<"argg">>), Call("getg", <<"f2">>) }

Pairs(S) == { <<a, b>> : a, b \in S }

Program(c1, c2, i1, i2) == [code |-> <<c1, c2>>, inits |-> <<i1, i2>>]

X(f) == <<MemId("x"), f>>

(* Programs for the cases the pools do not reach: several arguments, a     *)
(* call that passes its own arguments on, facts that travel through the    *)
(* modules against their order, values findFunctions gives up on.          *)
Special ==
  { Program(<<Call("x", <<"arg2", "argh">>), Lost("h1"), Asm("null")>>,
            <<Store("x", "getg"), Return(g2, "argg"), Call("g1", <<"h1">>)>>,
            {X(h1)}, {}),
    Program(<<Call("h1", <<"arg2", "x">>), Store("y", "argh")>>,
            <<Store("x", "f2"), Call("y", << >>)>>, {}, {X(g1)}),
    Program(<<Store("y", "x"), Call("argf", <<"null", "y">>)>>,
            <<Store("x", "argg"), Call("f2", <<"h1">>), Call("y", <<NoValue, "argh">>),
              Call("g1", <<"f2">>)>>, {X(g1)}, {}),
    Program(<<Store("x", "odds")>>, << >>, {}, {}),
    Program(<<Call("odds", << >>)>>, << >>, {}, {}),
    Program(<<Call("g1", <<"h1", "odd">>)>>, << >>, {}, {}),
    Program(<< >>, <<Return(g2, "odd")>>, {X(g1)}, {}),
    Program(<<Store("x", "h1")>>, <<Asm("odd")>>, {X(g1)}, {}) }

ProgramTable ==
  Special \cup
  IF Breadth
  THEN { Program(c1, c2, i, {}) : c1 \in Pairs(Pool1), c2 \in Pairs(Pool2), i \in {{}, {X(g1)}} }
  ELSE { Program(<<a>>, c2, i, {X(f2)}) : a \in Pool1, c2 \in Pairs(Pool2), i \in {{}, {X(g1)}} }

MCFunctions == FunctionTable
MCNode      == NodeTable
MCValues    == DOMAIN NodeTable
MCPrograms  == ProgramTable

(* With external and internal functions only, the programs link.           *)
ASSUME LinkableAssumption == WeakLinkage = "external" => Linkable

=============================================================================
