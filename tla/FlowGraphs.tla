----------------------------- MODULE FlowGraphs -----------------------------
(***************************************************************************)
(* The control flow graphs of four blocks on which the rewriting of checks *)
(* and loads is examined: blocks have at most two successors, the entry is *)
(* 1, every block is reached, and one returns.                             *)
(***************************************************************************)
EXTENDS Naturals, FiniteSets

LOCAL Blocks == 1 .. 4
LOCAL Entry  == 1

Successors == { S \in SUBSET Blocks : Cardinality(S) <= 2 /\ Entry \notin S }

RECURSIVE Reach(_, _, _)
Reach(succ, R, without) ==
  LET more == R \cup (UNION { succ[b] : b \in R } \ without)
  IN  IF more = R THEN R ELSE Reach(succ, more, without)

DominatorsOf(succ, b) == { d \in Blocks : b \notin Reach(succ, {Entry} \ {d}, {d}) }

Dominators(succ) ==
  << DominatorsOf(succ, 1), DominatorsOf(succ, 2), DominatorsOf(succ, 3), DominatorsOf(succ, 4) >>

(* The natural loops: a head that dominates a block before it, and the     *)
(* blocks from which that block is reached without the head.               *)
Heads(succ, dom) == { h \in Blocks : \E b \in Blocks : h \in succ[b] /\ h \in dom[b] }

LoopOf(succ, dom, h) ==
  {h} \cup { b \in Blocks : h \in dom[b] /\
               \E t \in Reach(succ, {b} \ {h}, {h}) : h \in succ[t] }

Loops(succ, dom) == { LoopOf(succ, dom, h) : h \in Heads(succ, dom) }

Exiting(succ, loops) ==
  { b \in Blocks :
      \E L \in loops : /\ b \in L /\ \A K \in loops : b \in K => L \subseteq K
                       /\ ~(succ[b] \subseteq L) }

FlowGraphs ==
  { g \in { <<s, t, u, v>> : s \in {{2}, {2, 3}}, t \in Successors, u \in Successors,
                             v \in {{}, {2}, {3}} } :
      /\ 3 \in g[1] \cup g[2]
      /\ Reach(g, {Entry}, {}) = Blocks
      /\ \E b \in Blocks : g[b] = {} }

(* A graph with its dominators, found once.                                *)
Dominated == { <<g, Dominators(g)>> : g \in FlowGraphs }

=============================================================================
