------------------------------- MODULE MCCmpSat -------------------------------
(***************************************************************************)
(* CmpSat on functions of five blocks, built by combining the terminators  *)
(* below: chains and diamonds, switches, infeasible paths, loops, nested   *)
(* loops and loops with two entries, with phis and an opaque value.        *)
(***************************************************************************)
EXTENDS CmpSat, FiniteSets, SequencesExt

CONSTANTS a, p, q, d

Ret            == [kind |-> "ret"]
Br(b)          == [kind |-> "br", to |-> b]
Cond(v, n, y, z) == [kind |-> "cond", val |-> v, num |-> n, yes |-> y, no |-> z]
Switch(v, b, c) == [kind |-> "switch", val |-> v, default |-> b, cases |-> c]
Jump(S)         == [kind |-> "any", to |-> S]

Terms1 == { Cond(a, 0, 2, 3), Br(2), Switch(a, 4, [k \in {0, 1} |-> IF k = 0 THEN 2 ELSE 3]),
            Switch(a, 3, [k \in {0, 2} |-> 2]), Jump({2, 3}) }
Terms2 == { Cond(p, 0, 3, 4), Br(3), Cond(p, 1, 5, 2), Cond(a, 1, 4, 5) }
Terms3 == { Br(4), Br(5), Cond(d, 0, 2, 4), Cond(p, 1, 4, 5), Cond(d, 1, 3, 4) }
Terms4 == { Br(5), Cond(q, 0, 5, 2), Cond(q, 1, 3, 5), Switch(q, 5, [k \in {0, 1} |-> 2 + k]) }

Phis == << << >>, [x \in {p} |-> <<a, 1, d, q, 0>>], << >>,
           [x \in {q} |-> <<2, p, Undef, 0, 0>>], << >> >>
Defs == << {}, {}, {d}, {}, {} >>

(* The successors of a terminator in the order of its operands.            *)
InOrder(t) ==
  CASE t.kind = "cond"   -> <<t.yes, t.no>>
    [] t.kind = "switch" -> <<t.default>> \o SetToSeq({ t.cases[k] : k \in DOMAIN t.cases })
    [] OTHER             -> SetToSeq(Succs(t))

(* FindFunctionBackedges: the edges to a block on the stack of a search.   *)
RECURSIVE Search(_, _, _, _)
Search(term, b, stack, found) ==
  FoldLeft(LAMBDA f, c :
             IF c \notin f.seen
             THEN Search(term, c, stack \cup {c}, [f EXCEPT !.seen = @ \cup {c}])
             ELSE IF c \in stack THEN [f EXCEPT !.back = @ \cup {<<b, c>>}] ELSE f,
           found, InOrder(term[b]))

Searched(term) == Search(term, Entry, {Entry}, [seen |-> {Entry}, back |-> {}])

RECURSIVE ReachedWithout(_, _, _)
ReachedWithout(term, x, R) ==
  LET more == R \cup (UNION { Succs(term[b]) : b \in R } \ {x})
  IN  IF more = R THEN R ELSE ReachedWithout(term, x, more)

Dominators(term) ==
  LET without == [x \in Blocks |-> ReachedWithout(term, x, {Entry} \ {x})]
  IN  [b \in Blocks |-> { x \in Blocks : b \notin without[x] }]

(* Control comes to every block, and a value is used only where its        *)
(* definition dominates, as LLVM demands.                                  *)
Verified(f) == Searched(f.term).seen = Blocks /\ UsesDominated(f)

FunctionTable ==
  { f \in { [term |-> t, phis |-> Phis, defs |-> Defs,
             back |-> Searched(t).back, dom |-> Dominators(t)] :
              t \in { <<t1, t2, t3, t4, Ret>> :
                        t1 \in Terms1, t2 \in Terms2, t3 \in Terms3, t4 \in Terms4 } } :
      Verified(f) }

MCValues    == {a, p, q, d}
MCWord      == 0 .. 2
MCFunctions == FunctionTable

=============================================================================
