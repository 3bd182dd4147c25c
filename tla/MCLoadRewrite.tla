---------------------------- MODULE MCLoadRewrite ----------------------------
(***************************************************************************)
(* LoadRewrite on every graph of FlowGraphs, with the address computed in  *)
(* any block, one load, one use of it, and up to two stores.               *)
(***************************************************************************)
EXTENDS LoadRewrite, FlowGraphs, FiniteSetsExt

Op(op) == [op |-> op]
PhiOf(p) == [op |-> "phi", pred |-> p]

(* In the block of the load a store comes before or after it, and the use  *)
(* before or after the later store.                                        *)
CodeOf(b, base, load, use, stores) ==
  LET part(is, op) == IF is THEN <<op>> ELSE <<>>
  IN  part(use[1] = "phi" /\ use[2] = b, PhiOf(use[3])) \o
      part(base = b, Op("base")) \o
      part(<<b, "early">> \in stores, Op("store")) \o
      part(load = b, Op("load")) \o
      part(use[1] = "early" /\ use[2] = b, Op("use")) \o
      part(<<b, "late">> \in stores, Op("store")) \o
      part(use[1] = "late" /\ use[2] = b, Op("use"))

FunctionsOf(g, dom) ==
  LET below(d) == { b \in Blocks : d \in dom[b] }
      uses(d) == { <<k, b, 0>> : k \in {"early", "late"}, b \in below(d) } \cup
                 UNION { { <<"phi", b, p>> : b \in g[p] } : p \in below(d) }
      stores(d) == UNION { kSubset(n, below(d) \X {"early", "late"}) : n \in 0 .. 2 }
      function(d, l, u, S) ==
        [succ |-> g, code |-> << CodeOf(1, d, l, u, S), CodeOf(2, d, l, u, S),
                                 CodeOf(3, d, l, u, S), CodeOf(4, d, l, u, S) >>]
  IN  UNION { UNION { { function(d, l, u, S) : u \in uses(l), S \in stores(d) } :
                l \in below(d) } : d \in Blocks }

MCFunctions == { FunctionsOf(a[1], a[2]) : a \in Dominated }

=============================================================================
