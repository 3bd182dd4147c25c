----------------------------- MODULE CmpSatProof -----------------------------
(***************************************************************************)
(* Theorems about path conditions and the checker of branches, for every   *)
(* control flow graph, whatever its loops.                                 *)
(***************************************************************************)
EXTENDS CmpSat, WellFoundedInduction, TLAPS

(* A set of natural numbers has a least one.                               *)
LEMMA LeastNumber ==
  ASSUME NEW T \in SUBSET Nat, T # {}
  PROVE  \E n \in T : \A k \in T : n <= k
<1> DEFINE R == OpToRel(<, Nat)
<1>1. IsWellFoundedOn(R, Nat)
  BY NatLessThanWellFounded
<1>2. \A i, k \in Nat : <<k, i>> \in R <=> k < i
  BY DEF OpToRel
<1> HIDE DEF R
<1>3. PICK n \in T : \A k \in T : <<k, n>> \notin R
  BY <1>1, WFMin
<1>4. ASSUME NEW k \in T PROVE n <= k
  <2>1. n \in Nat /\ k \in Nat /\ ~ (k < n)
    BY <1>2, <1>3
  <2> QED
    BY <2>1
<1> QED
  BY <1>4

(* Induction on the natural numbers, for a set.                            *)
LEMMA Counting ==
  ASSUME NEW T \in SUBSET Nat, 0 \in T, \A n \in T : n + 1 \in T
  PROVE  T = Nat
<1> SUFFICES ASSUME Nat \ T # {} PROVE FALSE
  OBVIOUS
<1>1. PICK n \in Nat \ T : \A k \in Nat \ T : n <= k
  BY LeastNumber
<1>2. n - 1 \in Nat /\ n - 1 \notin Nat \ T
  BY <1>1
<1> QED
  BY <1>2

-----------------------------------------------------------------------------
(* The blocks of a function are numbered from here on such that all edges  *)
(* but the back edges lead upwards.                                        *)
Ordered(f, order) == f \in Functions /\ order \in [Blocks -> Blocks] /\ Numbers(f, order)

LEMMA OrderExists ==
  ASSUME NEW f \in Functions
  PROVE  WellFormed(f) /\ \E order : Ordered(f, order)
BY FunctionAssumption DEF WellFormed, Ordered

LEMMA BlockFacts ==
  /\ NumBlocks \in Nat /\ Entry \in Blocks
  /\ \A b \in Blocks : b \in Nat
BY FunctionAssumption DEF Blocks, Entry

LEMMA LowestBlock ==
  ASSUME NEW order \in [Blocks -> Blocks], NEW S \in SUBSET Blocks, S # {}
  PROVE  \E b \in S : \A c \in S : order[b] <= order[c]
<1> DEFINE T == { order[b] : b \in S }
<1>1. T \in SUBSET Nat /\ T # {}
  BY BlockFacts
<1> HIDE DEF T
<1>2. PICK n \in T : \A k \in T : n <= k
  BY <1>1, LeastNumber
<1> QED
  BY <1>2 DEF T

(* Predecessors by edges that are no back edges are lower, and dominators  *)
(* as well.                                                                *)
LEMMA ForwardBelow ==
  ASSUME NEW f, NEW order, Ordered(f, order), NEW b \in Blocks \ {Entry}
  PROVE  /\ Forward(f, b) # {}
         /\ \A p \in Forward(f, b) : p \in Blocks /\ b \in Succs(f.term[p]) /\ order[p] < order[b]
BY DEF Ordered, Numbers, Forward, Preds

LEMMA DominatorsBelow ==
  ASSUME NEW f, NEW order, Ordered(f, order), NEW b \in Blocks, NEW d \in f.dom[b]
  PROVE  d \in Blocks /\ (d # b => order[d] < order[b])
<1>1. f \in Functions /\ order \in [Blocks -> Blocks] /\ Dominance(f)
  BY OrderExists DEF Ordered, WellFormed
<1> DEFINE Above == { c \in Blocks : \E k \in f.dom[c] : k # c /\ ~ (order[k] < order[c]) }
<1>2. Above = {}
  <2> SUFFICES ASSUME Above # {} PROVE FALSE
    OBVIOUS
  <2>1. PICK c \in Above : \A k \in Above : order[c] <= order[k]
    <3>1. Above \in SUBSET Blocks
      OBVIOUS
    <3> HIDE DEF Above
    <3> QED
      BY <1>1, <3>1, LowestBlock
  <2>2. PICK k \in f.dom[c] : k # c /\ ~ (order[k] < order[c])
    OBVIOUS
  <2>3. c # Entry
    BY <1>1, <2>2 DEF Dominance
  <2>4. PICK p \in Forward(f, c) : p \in Blocks /\ c \in Succs(f.term[p]) /\ order[p] < order[c]
    BY <2>3, ForwardBelow
  <2>5. k \in f.dom[p] /\ k \in Blocks
    BY <1>1, <2>2, <2>4 DEF Dominance, CommonDominators, Preds
  <2>6. order[p] \in Nat /\ order[c] \in Nat /\ order[k] \in Nat
    BY <1>1, <2>4, <2>5, BlockFacts
  <2>7. p \notin Above
    BY <2>1, <2>4, <2>6
  <2>8. k = p \/ order[k] < order[p]
    BY <2>4, <2>5, <2>7
  <2> QED
    BY <2>2, <2>4, <2>6, <2>8
<1> QED
  BY <1>1, <1>2 DEF Dominance

(* The dominator get goes on with is lower.                                *)
LEMMA CommonDominatorBelow ==
  ASSUME NEW f, NEW order, Ordered(f, order), NEW b \in Blocks \ {Entry}
  PROVE  /\ CommonDominator(f, b) \in Blocks
         /\ \A p \in Preds(f, b) : CommonDominator(f, b) \in f.dom[p]
         /\ order[CommonDominator(f, b)] < order[b]
<1>1. f \in Functions /\ order \in [Blocks -> Blocks] /\ Dominance(f)
  BY OrderExists DEF Ordered, WellFormed
<1>2. CommonDominator(f, b) \in CommonDominators(f, b)
  BY <1>1 DEF Dominance, CommonDominator
<1>3. PICK p \in Forward(f, b) : p \in Blocks /\ order[p] < order[b]
  BY ForwardBelow
<1>4. CommonDominator(f, b) \in f.dom[p] /\ CommonDominator(f, b) \in Blocks
  BY <1>2, <1>3 DEF CommonDominators, Forward
<1>5. CommonDominator(f, b) = p \/ order[CommonDominator(f, b)] < order[p]
  BY <1>3, <1>4, DominatorsBelow
<1>6. order[p] \in Nat /\ order[b] \in Nat /\ order[CommonDominator(f, b)] \in Nat
  BY <1>1, <1>3, <1>4, BlockFacts
<1> QED
  BY <1>2, <1>3, <1>4, <1>5, <1>6 DEF CommonDominators

-----------------------------------------------------------------------------
(* e and d agree on what is computed up to block b.                        *)
Agree(f, order, b, e, d) ==
  \A v \in Values :
    (\A c \in Blocks : v \in Computed(f, c) => order[c] <= order[b]) => e[v] = d[v]

(* What get returns depends on what it returns for lower blocks and on     *)
(* values computed no higher.                                              *)
LEMMA GetLocal ==
  ASSUME NEW f, NEW order, Ordered(f, order), NEW dt \in BOOLEAN, NEW b \in Blocks,
         NEW e, NEW d, Agree(f, order, b, e, d), NEW g, NEW h,
         \A c \in Blocks : order[c] < order[b] => g[c] = h[c]
  PROVE  Get(f, dt, e, g, b) = Get(f, dt, d, h, b)
<1>1. f \in Functions /\ order \in [Blocks -> Blocks] /\ WellFormed(f)
  BY OrderExists DEF Ordered
<1>2. CASE b = Entry
  BY <1>2 DEF Get
<1>3. CASE b # Entry /\ dt /\ HasBackedge(f, b)
  <2>1. g[CommonDominator(f, b)] = h[CommonDominator(f, b)]
    BY <1>3, CommonDominatorBelow
  <2> QED
    BY <1>3, <2>1 DEF Get
<1>4. CASE b # Entry /\ ~ (dt /\ HasBackedge(f, b))
  <2>1. ASSUME NEW p \in Forward(f, b)
        PROVE  /\ TermGuard(f.term[p], b, e) = TermGuard(f.term[p], b, d)
               /\ PHIGuard(f, b, p, e) = PHIGuard(f, b, p, d)
               /\ g[p] = h[p]
    <3>1. p \in Blocks /\ p \in Preds(f, b) /\ order[p] < order[b]
      BY <1>4, ForwardBelow DEF Forward
    <3>2. ASSUME NEW v \in Values, \A c \in Blocks : v \in Computed(f, c) => c \in f.dom[p]
          PROVE  e[v] = d[v]
      <4>1. \A c \in Blocks : c \in f.dom[p] => order[c] <= order[b]
        <5> SUFFICES ASSUME NEW c \in Blocks, c \in f.dom[p] PROVE order[c] <= order[b]
          OBVIOUS
        <5>1. c = p \/ order[c] < order[p]
          BY <3>1, DominatorsBelow
        <5>2. order[c] \in Nat /\ order[p] \in Nat /\ order[b] \in Nat
          BY <1>1, <3>1, BlockFacts
        <5> QED
          BY <3>1, <5>1, <5>2
      <4> QED
        BY <3>2, <4>1 DEF Agree
    <3>3. TermGuard(f.term[p], b, e) = TermGuard(f.term[p], b, d)
      <4>1. CASE f.term[p].kind \in {"cond", "switch"}
        <5>1. e[f.term[p].val] = d[f.term[p].val]
          BY <1>1, <3>1, <3>2, <4>1 DEF WellFormed, UsesDominated, Terminator
        <5>2. CASE f.term[p].kind = "cond"
          BY <5>1, <5>2 DEF TermGuard, BranchGuard, Holds
        <5>3. CASE f.term[p].kind = "switch"
          BY <5>1, <5>3 DEF TermGuard, SwitchGuard
        <5> QED
          BY <4>1, <5>2, <5>3
      <4>2. CASE f.term[p].kind \notin {"cond", "switch"}
        BY <4>2 DEF TermGuard
      <4> QED
        BY <4>1, <4>2
    <3>4. PHIGuard(f, b, p, e) = PHIGuard(f, b, p, d)
      <4>1. ASSUME NEW x \in DOMAIN f.phis[b] PROVE e[x] = d[x]
        <5>1. x \in Values /\ x \in Computed(f, b)
          BY <1>1 DEF WellFormed, Computed
        <5>2. \A c \in Blocks : x \in Computed(f, c) => c = b
          BY <1>1, <5>1 DEF WellFormed, UsesDominated
        <5>3. order[b] \in Nat
          BY <1>1, BlockFacts
        <5> QED
          BY <5>1, <5>2, <5>3 DEF Agree
      <4>2. ASSUME NEW x \in DOMAIN f.phis[b]
            PROVE  Operand(f.phis[b][x][p], e) = Operand(f.phis[b][x][p], d)
        BY <1>1, <3>1, <3>2 DEF Operand, WellFormed, UsesDominated
      <4> QED
        BY <4>1, <4>2 DEF PHIGuard
    <3> QED
      BY <3>1, <3>3, <3>4
  <2> QED
    BY <1>4, <2>1 DEF Get
<1> QED
  BY <1>2, <1>3, <1>4

LEMMA AgreeWithSelf ==
  ASSUME NEW f, NEW order, NEW b, NEW e
  PROVE  Agree(f, order, b, e, e)
BY DEF Agree

(* get ends: its recursion defines a condition for every block.            *)
LEMMA GuardsDefined ==
  ASSUME NEW f \in Functions, NEW dt \in BOOLEAN, NEW e
  PROVE  Guards(f, dt, e) = [b \in Blocks |-> Get(f, dt, e, Guards(f, dt, e), b)]
<1>1. PICK order : Ordered(f, order)
  BY OrderExists
<1>2. order \in [Blocks -> Blocks] /\ \A b \in Blocks : order[b] \in Nat /\ order[b] <= NumBlocks
  BY <1>1, BlockFacts DEF Ordered, Blocks
<1> DEFINE Defines(g, n) == \A b \in Blocks : order[b] < n => g[b] = Get(f, dt, e, g, b)
           T == { n \in Nat : \E g : Defines(g, n) }
<1>3. T = Nat
  <2>1. 0 \in T
    BY <1>2
  <2>2. ASSUME NEW n \in T PROVE n + 1 \in T
    <3>1. PICK g : Defines(g, n)
      OBVIOUS
    <3> DEFINE h == [b \in Blocks |-> IF order[b] < n THEN g[b] ELSE Get(f, dt, e, g, b)]
    <3>2. ASSUME NEW b \in Blocks, order[b] < n + 1 PROVE h[b] = Get(f, dt, e, h, b)
      <4>1. \A c \in Blocks : order[c] < order[b] => g[c] = h[c]
        BY <1>2, <3>2
      <4>2. Get(f, dt, e, g, b) = Get(f, dt, e, h, b)
        <5> HIDE DEF h
        <5> QED
          BY <1>1, <4>1, GetLocal, AgreeWithSelf
      <4>3. h[b] = Get(f, dt, e, g, b)
        BY <3>1
      <4> QED
        BY <4>2, <4>3
    <3>3. Defines(h, n + 1)
      BY <3>2
    <3> HIDE DEF h
    <3>4. \E k : Defines(k, n + 1)
      BY <3>3
    <3> QED
      BY <3>4
  <2>3. T \in SUBSET Nat
    OBVIOUS
  <2> HIDE DEF T
  <2> QED
    BY <2>1, <2>2, <2>3, Counting
<1>4. PICK g : Defines(g, NumBlocks + 1)
  BY <1>3, BlockFacts
<1> DEFINE h == [b \in Blocks |-> Get(f, dt, e, g, b)]
<1>5. \A b \in Blocks : g[b] = h[b]
  BY <1>2, <1>4, BlockFacts
<1>6. ASSUME NEW b \in Blocks PROVE Get(f, dt, e, g, b) = Get(f, dt, e, h, b)
  <2>1. \A c \in Blocks : order[c] < order[b] => g[c] = h[c]
    BY <1>5
  <2>2. Agree(f, order, b, e, e)
    BY AgreeWithSelf
  <2> HIDE DEF Defines, T, h
  <2> QED
    BY <1>1, <2>1, <2>2, GetLocal
<1>7. h = [b \in Blocks |-> Get(f, dt, e, h, b)]
  BY <1>6
<1>8. \E guard : guard = [b \in Blocks |-> Get(f, dt, e, guard, b)]
  <2> HIDE DEF h
  <2> QED
    BY <1>7
<1> HIDE DEF Defines, T, h
<1> QED
  BY <1>8 DEF Guards

LEMMA GuardsStep ==
  ASSUME NEW f \in Functions, NEW dt \in BOOLEAN, NEW e, NEW b \in Blocks
  PROVE  Guards(f, dt, e)[b] = Get(f, dt, e, Guards(f, dt, e), b)
BY GuardsDefined

(* A block's condition does not depend on what is computed higher.         *)
LEMMA GuardsLocal ==
  ASSUME NEW f, NEW order, Ordered(f, order), NEW dt \in BOOLEAN, NEW b \in Blocks,
         NEW e, NEW d, Agree(f, order, b, e, d)
  PROVE  Guards(f, dt, e)[b] = Guards(f, dt, d)[b]
<1>1. f \in Functions /\ order \in [Blocks -> Blocks] /\ \A c \in Blocks : order[c] \in Nat
  BY BlockFacts DEF Ordered
<1> DEFINE Differ == { c \in Blocks : order[c] <= order[b] /\ Guards(f, dt, e)[c] # Guards(f, dt, d)[c] }
<1>2. Differ = {}
  <2> SUFFICES ASSUME Differ # {} PROVE FALSE
    OBVIOUS
  <2>1. PICK c \in Differ : \A k \in Differ : order[c] <= order[k]
    <3>1. Differ \in SUBSET Blocks
      OBVIOUS
    <3> HIDE DEF Differ
    <3> QED
      BY <1>1, <3>1, LowestBlock
  <2>2. \A k \in Blocks : order[k] < order[c] => Guards(f, dt, e)[k] = Guards(f, dt, d)[k]
    BY <1>1, <2>1
  <2>3. Agree(f, order, c, e, d)
    BY <1>1 DEF Agree
  <2>4. Get(f, dt, e, Guards(f, dt, e), c) = Get(f, dt, d, Guards(f, dt, d), c)
    BY <2>2, <2>3, GetLocal
  <2> QED
    BY <1>1, <2>4, GuardsStep
<1> QED
  BY <1>1, <1>2

-----------------------------------------------------------------------------
(* Where control goes on to, the terminator's condition holds.             *)
LEMMA TargetGuard ==
  ASSUME NEW t, Terminator(t), NEW b \in Targets(t)
  PROVE  TermGuard(t, b, env) /\ b \in Succs(t)
<1>1. CASE t.kind = "cond"
  BY <1>1 DEF Terminator, Targets, TermGuard, BranchGuard, Succs
<1>2. CASE t.kind = "switch"
  BY <1>2 DEF Terminator, Targets, TermGuard, SwitchGuard, Succs
<1>3. CASE t.kind \in {"ret", "br", "any"}
  BY <1>3 DEF Targets, TermGuard
<1> QED
  BY <1>1, <1>2, <1>3 DEF Terminator

(* What block b computes does not change the values lower blocks see.      *)
LEMMA LowerUnchanged ==
  ASSUME NEW f, NEW order, Ordered(f, order), NEW b \in Blocks, NEW c \in Blocks,
         order[c] < order[b], NEW e, NEW d, \A v \in Values \ Computed(f, b) : d[v] = e[v]
  PROVE  Agree(f, order, c, e, d)
<1>1. order[b] \in Nat /\ order[c] \in Nat
  BY BlockFacts DEF Ordered
<1> QED
  BY <1>1 DEF Agree

LEMMA LowerGuards ==
  ASSUME NEW f, NEW order, Ordered(f, order), NEW b \in Blocks, NEW c \in Blocks,
         order[c] < order[b], NEW e, NEW d, \A v \in Values \ Computed(f, b) : d[v] = e[v],
         NEW dt \in BOOLEAN
  PROVE  Guards(f, dt, e)[c] = Guards(f, dt, d)[c]
BY LowerUnchanged, GuardsLocal

(* Values used at the end of block p, which leads upwards to b, are not    *)
(* computed in b.                                                          *)
LEMMA NotOfTarget ==
  ASSUME NEW f, NEW order, Ordered(f, order), NEW b \in Blocks \ {Entry}, NEW p \in Forward(f, b)
  PROVE  /\ b \notin f.dom[p]
         /\ f.term[p].kind \in {"cond", "switch"} =>
              f.term[p].val \in Values \ Computed(f, b)
         /\ \A x \in DOMAIN f.phis[b] : f.phis[b][x][p] \notin Computed(f, b)
<1>1. WellFormed(f) /\ order \in [Blocks -> Blocks]
  BY OrderExists DEF Ordered
<1>2. p \in Blocks /\ p \in Preds(f, b) /\ order[p] < order[b]
  BY ForwardBelow DEF Forward
<1>3. b \notin f.dom[p]
  <2>1. order[p] \in Nat /\ order[b] \in Nat
    BY <1>1, <1>2, BlockFacts
  <2> QED
    BY <1>2, <2>1, DominatorsBelow
<1> QED
  BY <1>1, <1>2, <1>3 DEF WellFormed, UsesDominated, Terminator

(* An execution that comes to b by an edge that is no back edge satisfies  *)
(* the condition of b if it satisfied that of the block before.            *)
LEMMA Entering ==
  ASSUME NEW f, NEW order, Ordered(f, order), NEW dt \in BOOLEAN,
         NEW b \in Blocks \ {Entry}, NEW p \in Forward(f, b),
         ~ (dt /\ HasBackedge(f, b)),
         NEW e, NEW d, \A v \in Values \ Computed(f, b) : d[v] = e[v],
         TermGuard(f.term[p], b, e),
         \A x \in DOMAIN f.phis[b] :
           f.phis[b][x][p] # Undef => d[x] = Operand(f.phis[b][x][p], e),
         Guards(f, dt, e)[p]
  PROVE  Guards(f, dt, d)[b]
<1>1. f \in Functions /\ p \in Blocks /\ order[p] < order[b]
  BY ForwardBelow DEF Ordered
<1>2. Guards(f, dt, d)[p]
  BY <1>1, LowerGuards
<1>3. TermGuard(f.term[p], b, d)
  <2>1. CASE f.term[p].kind = "cond"
    BY <2>1, NotOfTarget DEF TermGuard, BranchGuard, Holds
  <2>2. CASE f.term[p].kind = "switch"
    BY <2>2, NotOfTarget DEF TermGuard, SwitchGuard
  <2>3. CASE f.term[p].kind \notin {"cond", "switch"}
    BY <2>3 DEF TermGuard
  <2> QED
    BY <2>1, <2>2, <2>3
<1>4. PHIGuard(f, b, p, d)
  BY NotOfTarget DEF PHIGuard, Operand
<1>5. Get(f, dt, d, Guards(f, dt, d), b)
  BY <1>2, <1>3, <1>4 DEF Get
<1> QED
  BY <1>1, <1>5, GuardsStep

-----------------------------------------------------------------------------
PathTypes == fun \in Functions /\ bb \in Blocks \cup {0} /\ (bb # 0 => env \in Envs)

PathInv ==
  /\ PathTypes
  /\ bb # 0 => \A c \in fun.dom[bb] : Guards(fun, TRUE, env)[c]
  /\ bb # 0 /\ ~looped => Guards(fun, FALSE, env)[bb]

(* A step of the execution.                                                *)
LEMMA StepFacts ==
  ASSUME PathTypes, Step
  PROVE  /\ bb \in Blocks /\ bb' \in Blocks \ {Entry} /\ bb \in Preds(fun, bb')
         /\ fun' = fun /\ start' = start /\ env' \in Envs
         /\ TermGuard(fun.term[bb], bb', env)
         /\ looped' = (looped \/ <<bb, bb'>> \in fun.back)
         /\ visited' = visited \cup {bb'}
         /\ \A v \in Values \ Computed(fun, bb') : env'[v] = env[v]
         /\ \A x \in Computed(fun, bb') : env'[x] \in Incoming(bb', bb, x)
<1>1. bb \in Blocks /\ WellFormed(fun) /\ env \in Envs
  BY OrderExists DEF PathTypes, Step
<1>2. PICK b \in Targets(fun.term[bb]) :
        /\ bb' = b
        /\ \E new \in { g \in [Computed(fun, b) -> Word] :
                         \A x \in Computed(fun, b) : g[x] \in Incoming(b, bb, x) } :
             env' = [x \in Values |-> IF x \in Computed(fun, b) THEN new[x] ELSE env[x]]
        /\ visited' = visited \cup {b}
        /\ looped' = (looped \/ <<bb, b>> \in fun.back)
  BY DEF Step
<1>3. PICK new \in [Computed(fun, b) -> Word] :
        /\ \A x \in Computed(fun, b) : new[x] \in Incoming(b, bb, x)
        /\ env' = [x \in Values |-> IF x \in Computed(fun, b) THEN new[x] ELSE env[x]]
  BY <1>2
<1>4. TermGuard(fun.term[bb], b, env) /\ b \in Succs(fun.term[bb]) /\ b \in Blocks \ {Entry}
  BY <1>1, TargetGuard DEF WellFormed, Terminator
<1>5. Computed(fun, b) \subseteq Values
  BY <1>1, <1>4 DEF WellFormed
<1>6. env' \in Envs
  BY <1>1, <1>3 DEF Envs
<1> QED
  BY <1>1, <1>2, <1>3, <1>4, <1>5, <1>6 DEF Step, Preds

(* Phis take the operand of the block control comes from.                  *)
LEMMA PHIValues ==
  ASSUME PathTypes, Step
  PROVE  \A x \in DOMAIN fun.phis[bb'] :
           fun.phis[bb'][x][bb] # Undef => env'[x] = Operand(fun.phis[bb'][x][bb], env)
BY StepFacts DEF Incoming, Computed

LEMMA StepPathInv == PathInv /\ Step => PathInv'
<1> SUFFICES ASSUME PathInv, Step PROVE PathInv'
  OBVIOUS
<1>1. PathTypes /\ fun \in Functions
  BY DEF PathInv, PathTypes
<1>2. PICK order : Ordered(fun, order)
  BY <1>1, OrderExists
<1>3. Dominance(fun) /\ order \in [Blocks -> Blocks] /\ fun.back \subseteq Blocks \X Blocks
  BY <1>1, <1>2, OrderExists DEF WellFormed, Ordered
<1> DEFINE b == bb'
<1>4. /\ bb \in Blocks /\ b \in Blocks \ {Entry} /\ bb \in Preds(fun, b)
      /\ fun' = fun /\ env' \in Envs
      /\ looped' = (looped \/ <<bb, b>> \in fun.back)
      /\ \A v \in Values \ Computed(fun, b) : env'[v] = env[v]
  BY <1>1, StepFacts
<1>5. PathTypes'
  BY <1>1, <1>4 DEF PathTypes
<1>6. bb # 0
  BY DEF Step
<1>7. bb \in fun.dom[bb]
  BY <1>3, <1>4 DEF Dominance
<1>8. ASSUME NEW dt \in BOOLEAN, <<bb, b>> \notin fun.back, Guards(fun, dt, env)[bb],
             ~ (dt /\ HasBackedge(fun, b))
      PROVE  Guards(fun, dt, env')[b]
  <2>1. bb \in Forward(fun, b)
    BY <1>4, <1>8 DEF Forward
  <2>2. TermGuard(fun.term[bb], b, env)
    BY <1>1, StepFacts
  <2>3. \A x \in DOMAIN fun.phis[b] :
          fun.phis[b][x][bb] # Undef => env'[x] = Operand(fun.phis[b][x][bb], env)
    BY <1>1, PHIValues
  <2> QED
    BY <1>2, <1>4, <1>8, <2>1, <2>2, <2>3, Entering
<1>9. ASSUME NEW c \in fun.dom[bb], order[c] < order[b]
      PROVE  Guards(fun, TRUE, env')[c]
  <2>1. c \in Blocks
    BY <1>2, <1>4, DominatorsBelow
  <2>2. Guards(fun, TRUE, env)[c]
    BY <1>6 DEF PathInv
  <2>3. \A dt \in BOOLEAN : Guards(fun, dt, env)[c] = Guards(fun, dt, env')[c]
    BY <1>2, <1>4, <1>9, <2>1, LowerGuards
  <2> QED
    BY <2>2, <2>3
<1>10. Guards(fun, TRUE, env')[b]
  <2>1. CASE HasBackedge(fun, b)
    <3>1. CommonDominator(fun, b) \in fun.dom[bb] /\ order[CommonDominator(fun, b)] < order[b]
      BY <1>2, <1>4, CommonDominatorBelow
    <3>2. Guards(fun, TRUE, env')[CommonDominator(fun, b)]
      BY <1>9, <3>1
    <3>3. Get(fun, TRUE, env', Guards(fun, TRUE, env'), b)
      BY <1>4, <2>1, <3>2 DEF Get
    <3> QED
      BY <1>1, <1>4, <3>3, GuardsStep
  <2>2. CASE ~ HasBackedge(fun, b)
    <3>1. <<bb, b>> \notin fun.back
      BY <1>4, <2>2 DEF HasBackedge
    <3>2. Guards(fun, TRUE, env)[bb]
      BY <1>6, <1>7 DEF PathInv
    <3> QED
      BY <1>8, <2>2, <3>1, <3>2
  <2> QED
    BY <2>1, <2>2
<1>11. ASSUME NEW c \in fun.dom[b] PROVE Guards(fun, TRUE, env')[c]
  <2>1. CASE c = b
    BY <1>10, <2>1
  <2>2. CASE c # b
    <3>1. c \in fun.dom[bb]
      BY <1>3, <1>4, <2>2 DEF Dominance, CommonDominators
    <3>2. order[c] < order[b]
      BY <1>2, <1>4, <2>2, DominatorsBelow
    <3> QED
      BY <1>9, <3>1, <3>2
  <2> QED
    BY <2>1, <2>2
<1>12. ~ looped' => Guards(fun, FALSE, env')[b]
  BY <1>4, <1>6, <1>8 DEF PathInv
<1> QED
  BY <1>4, <1>5, <1>11, <1>12 DEF PathInv

LEMMA EntryHolds ==
  ASSUME NEW f \in Functions, NEW dt \in BOOLEAN, NEW e
  PROVE  Guards(f, dt, e)[Entry]
BY GuardsStep, BlockFacts DEF Get

LEMMA NextPathInv == PathInv /\ [Next]_vars => PathInv'
<1> SUFFICES ASSUME PathInv, [Next]_vars PROVE PathInv'
  OBVIOUS
<1>1. CASE Check
  BY <1>1 DEF Check, execVars, PathInv, PathTypes
<1>2. CASE Start
  <2>1. bb' = Entry /\ env' \in Envs /\ fun' = fun /\ looped' = looped /\ fun \in Functions
    BY <1>2 DEF Start, PathInv, PathTypes
  <2>2. fun.dom[Entry] = {Entry}
    BY <2>1, OrderExists DEF WellFormed, Dominance
  <2> QED
    BY <2>1, <2>2, EntryHolds, BlockFacts DEF PathInv, PathTypes
<1>3. CASE Step
  BY <1>3, StepPathInv
<1>4. CASE UNCHANGED vars
  BY <1>4 DEF vars, PathInv, PathTypes
<1> QED
  BY <1>1, <1>2, <1>3, <1>4 DEF Next, Ended

LEMMA PathInvariant == Spec => []PathInv
<1>1. Init => PathInv
  BY DEF Init, PathInv, PathTypes
<1> QED
  BY <1>1, NextPathInv, PTL DEF Spec

(* The condition IntSat conjoins to its query, which skips back edges,     *)
(* holds of every execution that has taken none (PathGen::get without a    *)
(* dominator tree): in no control flow graph is an overflow on a first     *)
(* turn lost.                                                              *)
THEOREM FirstTurnsKept == Spec => []PathHolds
<1>1. PathInv => PathHolds
  BY DEF PathInv, PathHolds
<1> QED
  BY <1>1, PathInvariant, PTL

(* The condition CmpSat conjoins, with common dominators for blocks that   *)
(* have a back edge, holds of every execution, in loops of any shape.      *)
THEOREM EveryTurnKept == Spec => []PathHoldsInLoops
<1>1. PathInv => PathHoldsInLoops
  <2> SUFFICES ASSUME PathInv, bb # 0 PROVE Guards(fun, TRUE, env)[bb]
    BY DEF PathHoldsInLoops
  <2>1. bb \in fun.dom[bb]
    BY OrderExists DEF PathInv, PathTypes, WellFormed, Dominance
  <2> QED
    BY <2>1 DEF PathInv
<1> QED
  BY <1>1, PathInvariant, PTL

-----------------------------------------------------------------------------
(* What the checker has reported follows from an answer of the solver.     *)
ReportInv ==
  /\ reasons = [b \in Blocks |-> reasons[b]]
  /\ \A b \in Blocks : \/ reasons[b] = {}
                       \/ reasons[b] = {CMP_FALSE} /\ ~ Satisfiable(b, TRUE)
                       \/ reasons[b] = {CMP_TRUE} /\ ~ Satisfiable(b, FALSE)

LEMMA NextReportInv == ReportInv /\ [Next]_vars => ReportInv'
<1> SUFFICES ASSUME ReportInv, [Next]_vars PROVE ReportInv'
  OBVIOUS
<1>1. fun' = fun
  BY DEF Next, Check, Start, Step, Ended, vars
<1>2. \A b, outcome : Satisfiable(b, outcome)' <=> Satisfiable(b, outcome)
  BY <1>1 DEF Satisfiable
<1>3. ASSUME reasons' = reasons PROVE ReportInv'
  BY <1>2, <1>3 DEF ReportInv
<1>4. CASE Check /\ reasons' # reasons
  <2>1. PICK answered \in SUBSET BOOLEAN : reasons' = [reasons EXCEPT ![next] = Reason(next, answered)]
    BY <1>4 DEF Check
  <2>2. \/ Reason(next, answered) = {}
        \/ Reason(next, answered) = {CMP_FALSE} /\ ~ Satisfiable(next, TRUE)
        \/ Reason(next, answered) = {CMP_TRUE} /\ ~ Satisfiable(next, FALSE)
    BY DEF Reason, Unsat
  <2> QED
    BY <1>2, <2>1, <2>2 DEF ReportInv
<1> QED
  BY <1>3, <1>4 DEF Next, Start, Step, Ended, vars

(* A branch reported as always false is never true, one reported as always *)
(* true never false, and none is reported as both (CmpSat::check), in any  *)
(* control flow graph and whichever queries the solver answers.            *)
THEOREM ReportsRight == Spec => []ReportsHold
<1>1. Init => ReportInv
  BY DEF Init, ReportInv
<1>2. PathInv /\ PathHoldsInLoops /\ ReportInv => ReportsHold
  <2> SUFFICES ASSUME PathInv, PathHoldsInLoops, ReportInv PROVE ReportsHold
    OBVIOUS
  <2>1. CMP_FALSE # CMP_TRUE
    BY DEF CMP_FALSE, CMP_TRUE
  <2>2. \A b \in Blocks : \A r, q \in reasons[b] : r = q
    BY DEF ReportInv
  <2>3. ASSUME bb # 0
        PROVE  /\ CMP_FALSE \in reasons[bb] => ~Holds(fun.term[bb], env)
               /\ CMP_TRUE \in reasons[bb] => Holds(fun.term[bb], env)
    <3>1. bb \in Blocks /\ env \in Envs /\ Guards(fun, TRUE, env)[bb]
      BY <2>3 DEF PathInv, PathTypes, PathHoldsInLoops
    <3>2. Holds(fun.term[bb], env) => Satisfiable(bb, TRUE)
      BY <3>1 DEF Satisfiable
    <3>3. ~ Holds(fun.term[bb], env) => Satisfiable(bb, FALSE)
      BY <3>1 DEF Satisfiable
    <3>4. /\ CMP_FALSE \in reasons[bb] => ~ Satisfiable(bb, TRUE)
          /\ CMP_TRUE \in reasons[bb] => ~ Satisfiable(bb, FALSE)
      <4>1. \/ reasons[bb] = {}
            \/ reasons[bb] = {CMP_FALSE} /\ ~ Satisfiable(bb, TRUE)
            \/ reasons[bb] = {CMP_TRUE} /\ ~ Satisfiable(bb, FALSE)
        BY <3>1 DEF ReportInv
      <4> QED
        BY <2>1, <4>1, Zenon
    <3> QED
      BY <3>2, <3>3, <3>4
  <2> QED
    BY <2>2, <2>3 DEF ReportsHold
<1> QED
  BY <1>1, <1>2, NextReportInv, PathInvariant, EveryTurnKept, PTL DEF Spec

-----------------------------------------------------------------------------
(* The other direction.  Values the solver has chosen for a condition are  *)
(* those the execution starts from; it is on the path as long as it still  *)
(* has them and satisfies the condition of its block.                      *)
OnPath == env = start /\ Guards(fun, FALSE, start)[bb]

Goes(p, b) == b \in Succs(fun.term[p]) /\ TermGuard(fun.term[p], b, start)

(* An execution that has left the path has been to all blocks it leads to; *)
(* one that is on it has followed it from each block it has left.          *)
ExactInv ==
  /\ PathTypes
  /\ bb # 0 => start \in Envs /\ Entry \in visited /\ visited \subseteq Blocks
  /\ bb # 0 /\ Determined =>
       /\ \A order : Ordered(fun, order) => \A c \in visited \ {bb} : order[c] < order[bb]
       /\ OnPath \/ \A b \in Blocks : Guards(fun, FALSE, start)[b] => b \in visited
       /\ OnPath => \A p \in visited \ {bb} : \A b \in Blocks : Goes(p, b) => b \in visited

(* If a block is still to come, the path goes on from here.                *)
LEMMA PathGoesOn ==
  ASSUME ExactInv, bb # 0, Determined,
         NEW b \in Blocks \ visited, Guards(fun, FALSE, start)[b]
  PROVE  \E c \in Blocks \ visited :
           /\ env = start /\ Goes(bb, c)
           /\ PHIGuard(fun, c, bb, start) /\ Guards(fun, FALSE, start)[c]
<1>1. fun \in Functions /\ Entry \in visited /\ visited \subseteq Blocks
  BY DEF ExactInv, PathTypes
<1>2. PICK order : Ordered(fun, order)
  BY <1>1, OrderExists
<1>3. OnPath
  BY DEF ExactInv
<1> DEFINE Missed == { c \in Blocks \ visited : Guards(fun, FALSE, start)[c] }
<1>4. PICK c \in Missed : \A k \in Missed : order[c] <= order[k]
  <2>1. Missed \in SUBSET Blocks /\ Missed # {} /\ order \in [Blocks -> Blocks]
    BY <1>2 DEF Ordered
  <2> HIDE DEF Missed
  <2> QED
    BY <2>1, LowestBlock
<1>5. c \in Blocks \ {Entry}
  BY <1>1
<1>6. Get(fun, FALSE, start, Guards(fun, FALSE, start), c)
  BY <1>1, <1>5, GuardsStep
<1>7. PICK p \in Forward(fun, c) :
        /\ TermGuard(fun.term[p], c, start)
        /\ PHIGuard(fun, c, p, start)
        /\ Guards(fun, FALSE, start)[p]
  BY <1>5, <1>6 DEF Get
<1>8. p \in Blocks /\ c \in Succs(fun.term[p]) /\ order[p] < order[c]
  BY <1>2, <1>5, ForwardBelow
<1>9. p \in visited
  <2>1. order[p] \in Nat /\ order[c] \in Nat
    BY <1>2, <1>5, <1>8, BlockFacts DEF Ordered
  <2>2. p \notin visited => p \in Missed
    BY <1>7, <1>8
  <2> HIDE DEF Missed
  <2> QED
    BY <1>4, <1>8, <2>1, <2>2
<1>10. p = bb
  BY <1>3, <1>5, <1>7, <1>8, <1>9 DEF ExactInv, Goes
<1> QED
  BY <1>3, <1>4, <1>7, <1>8, <1>10 DEF OnPath, Goes

(* There is one way to go on.                                              *)
LEMMA OneTarget ==
  ASSUME NEW t, Terminator(t), t.kind # "any", NEW b \in Targets(t),
         NEW c \in Succs(t), TermGuard(t, c, env)
  PROVE  c = b
<1>1. CASE t.kind = "cond"
  BY <1>1 DEF Targets, TermGuard, BranchGuard, Succs
<1>2. CASE t.kind = "switch"
  <2>1. CASE t.default = c
    BY <1>2, <2>1 DEF Targets, TermGuard, SwitchGuard
  <2>2. CASE t.default # c
    BY <1>2, <2>2 DEF Targets, TermGuard, SwitchGuard
  <2> QED
    BY <2>1, <2>2
<1>3. CASE t.kind \in {"ret", "br"}
  BY <1>3 DEF Targets, Succs
<1> QED
  BY <1>1, <1>2, <1>3 DEF Terminator

LEMMA StepExactInv == ExactInv /\ Step => ExactInv'
<1> SUFFICES ASSUME ExactInv, Step PROVE ExactInv'
  OBVIOUS
<1>1. PathTypes /\ fun \in Functions /\ bb # 0
  BY DEF ExactInv, PathTypes, Step
<1> DEFINE b == bb'
<1>2. /\ bb \in Blocks /\ b \in Blocks \ {Entry} /\ bb \in Preds(fun, b)
      /\ fun' = fun /\ start' = start /\ env' \in Envs
      /\ visited' = visited \cup {b}
      /\ \A v \in Values \ Computed(fun, b) : env'[v] = env[v]
      /\ \A x \in Computed(fun, b) : env'[x] \in Incoming(b, bb, x)
  BY <1>1, StepFacts
<1>3. PathTypes'
  BY <1>1, <1>2 DEF PathTypes
<1>4. start \in Envs /\ Entry \in visited /\ visited \subseteq Blocks
  BY <1>1 DEF ExactInv
<1>5. ASSUME Determined
      PROVE  /\ \A order : Ordered(fun, order) => \A c \in visited' \ {b} : order[c] < order[b]
             /\ OnPath' \/ \A c \in Blocks : Guards(fun, FALSE, start)[c] => c \in visited'
             /\ OnPath' => \A p \in visited' \ {b} : \A c \in Blocks : Goes(p, c) => c \in visited'
  <2>1. bb \in Forward(fun, b) /\ fun.term[bb].kind # "any" /\ Terminator(fun.term[bb])
    BY <1>1, <1>2, <1>5, OrderExists DEF Determined, Forward, WellFormed
  <2>2. ASSUME NEW order, Ordered(fun, order), NEW c \in visited PROVE order[c] < order[b]
    <3>1. c = bb \/ order[c] < order[bb]
      BY <1>1, <1>5, <2>2 DEF ExactInv
    <3>2. order[bb] < order[b]
      BY <1>2, <2>1, <2>2, ForwardBelow
    <3>3. order[c] \in Nat /\ order[bb] \in Nat /\ order[b] \in Nat
      BY <1>2, <1>4, <2>2, BlockFacts DEF Ordered
    <3> QED
      BY <3>1, <3>2, <3>3
  <2>3. b \notin visited
    <3>1. PICK order : Ordered(fun, order)
      BY <1>1, OrderExists
    <3>2. order[b] \in Nat
      BY <1>2, <3>1, BlockFacts DEF Ordered
    <3> QED
      BY <2>2, <3>1, <3>2
  <2>4. ASSUME env = start, NEW c \in Blocks, Goes(bb, c) PROVE c = b
    <3>1. PICK t \in Targets(fun.term[bb]) : b = t
      BY DEF Step
    <3> QED
      BY <2>1, <2>4, <3>1, OneTarget DEF Goes
  <2>5. ASSUME NEW k \in Blocks \ visited, Guards(fun, FALSE, start)[k]
        PROVE  env = start /\ OnPath'
    <3>1. PICK c \in Blocks \ visited :
            /\ env = start /\ Goes(bb, c)
            /\ PHIGuard(fun, c, bb, start) /\ Guards(fun, FALSE, start)[c]
      BY <1>1, <1>5, <2>5, PathGoesOn
    <3>2. c = b
      BY <2>4, <3>1
    <3>3. ASSUME NEW x \in Values PROVE env'[x] = start[x]
      <4>1. CASE x \notin Computed(fun, b)
        BY <1>2, <3>1, <4>1
      <4>2. CASE x \in DOMAIN fun.phis[b] /\ fun.phis[b][x][bb] # Undef
        <5>1. env'[x] = Operand(fun.phis[b][x][bb], env)
          BY <1>1, <4>2, PHIValues
        <5> QED
          BY <3>1, <3>2, <4>2, <5>1 DEF PHIGuard
      <4>3. CASE x \in Computed(fun, b) /\ ~ (x \in DOMAIN fun.phis[b] /\ fun.phis[b][x][bb] # Undef)
        <5>1. Incoming(b, bb, x) = {env[x]}
          BY <2>3, <4>3 DEF Incoming
        <5> QED
          BY <1>2, <3>1, <4>3, <5>1
      <4> QED
        BY <4>1, <4>2, <4>3
    <3>4. env' = start
      BY <1>2, <1>4, <3>3 DEF Envs
    <3> QED
      BY <1>2, <3>1, <3>2, <3>4 DEF OnPath
  <2>6. OnPath' \/ \A c \in Blocks : Guards(fun, FALSE, start)[c] => c \in visited'
    BY <1>2, <2>5
  <2>7. ASSUME OnPath', NEW p \in visited' \ {b}, NEW c \in Blocks, Goes(p, c) PROVE c \in visited'
    <3>1. Guards(fun, FALSE, start)[b]
      BY <1>2, <2>7 DEF OnPath
    <3>2. env = start /\ OnPath
      BY <1>1, <1>2, <1>5, <2>3, <2>5, <3>1 DEF ExactInv
    <3>3. CASE p = bb
      BY <1>2, <2>4, <2>7, <3>2, <3>3
    <3>4. CASE p # bb
      BY <1>1, <1>2, <1>5, <2>7, <3>2, <3>4 DEF ExactInv
    <3> QED
      BY <3>3, <3>4
  <2>8. \A order : Ordered(fun, order) => \A c \in visited' \ {b} : order[c] < order[b]
    BY <1>2, <2>2
  <2> QED
    BY <2>6, <2>7, <2>8
<1>6. Determined' <=> Determined
  BY <1>2 DEF Determined
<1>7. \A p, c : Goes(p, c)' <=> Goes(p, c)
  BY <1>2 DEF Goes
<1> QED
  BY <1>2, <1>3, <1>4, <1>5, <1>6, <1>7 DEF ExactInv

LEMMA NextExactInv == ExactInv /\ [Next]_vars => ExactInv'
<1> SUFFICES ASSUME ExactInv, [Next]_vars PROVE ExactInv'
  OBVIOUS
<1>1. ASSUME UNCHANGED <<fun, bb, start, env, visited>> PROVE ExactInv'
  BY <1>1 DEF ExactInv, PathTypes, Determined, OnPath, Goes
<1>2. CASE Start
  <2>1. /\ bb' = Entry /\ start' \in Envs /\ env' = start' /\ visited' = {Entry}
        /\ fun' = fun /\ fun \in Functions
    BY <1>2 DEF Start, ExactInv, PathTypes
  <2>2. OnPath'
    BY <2>1, EntryHolds DEF OnPath
  <2> QED
    BY <2>1, <2>2, BlockFacts DEF ExactInv, PathTypes
<1>3. CASE Step
  BY <1>3, StepExactInv
<1>4. CASE Check \/ UNCHANGED vars
  BY <1>1, <1>4 DEF Check, execVars, vars
<1> QED
  BY <1>2, <1>3, <1>4 DEF Next, Ended

(* Without loops the condition is sufficient too: if the solver can        *)
(* satisfy it, the execution that starts from its values comes to the      *)
(* block, so that what is reported under the condition does happen         *)
(* (PathGen::get, getTermGuard, getPHIGuard).                              *)
THEOREM PathsTaken == Spec => []PathFeasible
<1>1. Init => ExactInv
  BY DEF Init, ExactInv, PathTypes
<1>2. ExactInv => PathFeasible
  <2> SUFFICES ASSUME ExactInv, Returned, Determined,
                      NEW b \in Blocks, Guards(fun, FALSE, start)[b], b \notin visited
               PROVE  FALSE
    BY DEF PathFeasible
  <2>1. PICK c \in Blocks \ visited : Goes(bb, c)
    BY PathGoesOn DEF Returned
  <2> QED
    BY <2>1 DEF Returned, Goes, Succs
<1> QED
  BY <1>1, <1>2, NextExactInv, PTL DEF Spec

=============================================================================
