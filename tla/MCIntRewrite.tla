---------------------------- MODULE MCIntRewrite ----------------------------
(***************************************************************************)
(* IntRewrite on every graph of FlowGraphs, with one or two uses of the    *)
(* instruction or of what is computed from it.                             *)
(***************************************************************************)
EXTENDS IntRewrite, FlowGraphs

(* A value is used only where its block dominates, by a phi in the block   *)
(* from which it comes.                                                    *)
Use(k, v, b, p) == [kind |-> k, of |-> v, block |-> b, pred |-> p]

UsesOf(v, home, succ, dom) ==
  LET below == { b \in Blocks : home \in dom[b] }
  IN  { Use("effect", v, b, 0) : b \in below } \cup
      { Use("branch", v, b, 0) : b \in { c \in below : Cardinality(succ[c]) = 2 } } \cup
      UNION { { Use("phi", v, b, p) : b \in succ[p] } : p \in below }

(* One use, or an effect on the instruction itself and a use of what is    *)
(* computed from it; a signed instruction with and without -fwrapv, and a  *)
(* difference of pointers.                                                 *)
FunctionsOf(g, dom, exiting) ==
  LET below(d) == { e \in Blocks : d \in dom[e] }
      function(d, e, S, n, p, w) ==
        [succ |-> g, dom |-> dom, exiting |-> exiting, def |-> d, der |-> e, uses |-> S,
         nsw |-> n, ptrs |-> p, fwrapv |-> w]
      effects(d) == { Use("effect", "def", b, 0) : b \in below(d) }
  IN  UNION { { function(d, d, {u}, f[1], f[2], f[3]) :
                  u \in UsesOf("def", d, g, dom),
                  f \in {<<FALSE, FALSE, FALSE>>, <<TRUE, FALSE, FALSE>>,
                         <<TRUE, FALSE, TRUE>>, <<FALSE, TRUE, FALSE>>} } : d \in Blocks } \cup
      UNION { UNION { { function(d, e, S, FALSE, FALSE, FALSE) :
                          S \in { {u} : u \in UsesOf("der", e, g, dom) } \cup
                                { {u, x} : u \in UsesOf("der", e, g, dom), x \in effects(d) } } :
                  e \in below(d) } : d \in Blocks }

MCFunctions ==
  { FunctionsOf(a[1], a[2], Exiting(a[1], Loops(a[1], a[2]))) : a \in Dominated }

=============================================================================
