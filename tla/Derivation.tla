------------------------------ MODULE Derivation ------------------------------
(***************************************************************************)
(* What derives from the sources of a program, as a reference for the      *)
(* result of the taint pass (src/Taint.cc): the least tables closed under  *)
(* the instructions, reached by applying all of them at once, Depth times, *)
(* from empty tables.  No flags, no cache, no order.                       *)
(***************************************************************************)
EXTENDS Taint

CONSTANT Depth   \* applications after which nothing is added

AllCode(p) == UNION { { p[m][i] : i \in 1 .. Len(p[m]) } : m \in Modules }

SourcesOf(code, v) == { ins.source : ins \in { j \in code : j.val = v } } \ {NoDesc}

DeriveStep(code, t) ==
  LET others == { ins \in code : ins.op = "other" }
      calls  == { ins \in code : ins.op = "call" }
      marked(v) == { t.vts[w] : w \in UNION { ins.ops : ins \in { j \in others : j.val = v } } }
      stored(id) == { t.vts[w] : w \in UNION { ins.ops : ins \in { j \in others : j.to = id } } }
      passed(id) == UNION { { t.vts[c.args[a]] : a \in { b \in 1 .. Len(c.args) :
                                \E names \in c.passes : names[b] = id } } : c \in calls }
      tainted(id) == { t.vts[ins.val] : ins \in
                         { j \in code : j.source # NoDesc /\ id \in SourceNames(j) } }
  IN  [ vts |-> [v \in Values |-> UNION { t.vts[v], t.vts[Strip[v]], FromNames(t.gts, v),
                                          SourcesOf(code, v), UNION marked(v) }],
        gts |-> [id \in Ids |-> t.gts[id] \cup
                   UNION (stored(id) \cup passed(id) \cup tainted(id))] ]

NoTables == [ vts |-> [v \in Values |-> {}], gts |-> [id \in Ids |-> {}] ]

(* The tables after a further step; compared, so that a checker computes   *)
(* them once.                                                              *)
Advance(code, t) == LET next == DeriveStep(code, t) IN IF next = t THEN t ELSE next

Derived(p) ==
  LET Tables[n \in 0 .. Depth] ==
        IF n = 0 THEN NoTables ELSE Advance(AllCode(p), Tables[n - 1])
  IN  Tables[Depth]

ASSUME DerivationAssumption ==
  /\ Depth \in Nat
  /\ \A p \in Programs : DeriveStep(AllCode(p), Derived(p)) = Derived(p)

(* What the checkers are told is right: no description is written to an    *)
(* instruction, or kept for a name, that does not derive from its source   *)
(* (doFinalization, src/Taint.cc:141).                                     *)
OnlyDerived ==
  phase = "done" =>
    LET d == Derived(prog)
    IN  /\ \A v \in Values : meta[v] \cup vts[v] \subseteq d.vts[v]
        /\ \A id \in Ids : gts[id] \subseteq d.gts[id]

(* "taint analysis that marks values derived from untrusted inputs"        *)
(* (README:47), in any program.                                            *)
InputsMarked ==
  phase = "done" =>
    LET d == Derived(prog)
    IN  \A m \in Modules : \A ins \in Code(m) :
          d.vts[ins.val] # {} => meta[ins.val] # {}

=============================================================================
