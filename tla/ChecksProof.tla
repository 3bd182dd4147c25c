----------------------------- MODULE ChecksProof -----------------------------
(***************************************************************************)
(* Theorems about a check on its way to the solver: where intrewrite puts  *)
(* it, for every control flow graph whose dominators are dominators, every *)
(* set of uses and every execution (IntRewrite); and the calls that build  *)
(* its query, ask and let go of it, and the values of its terms, for every *)
(* program LLVM's verifier accepts and each of the three solvers           *)
(* (ValueGen).                                                             *)
(***************************************************************************)
EXTENDS IntRewrite, ValueGen, SequenceTheorems, FiniteSetTheorems, WellFoundedInduction, TLAPS

NumbersOK ==
  /\ WellFormed(fun)
  /\ bb \in Blocks
  /\ stage \in {"body", "leave", "returned"}
  /\ turns \in Nat
  /\ der \in 0 .. turns
  /\ overflowed \subseteq 1 .. turns
  /\ now \subseteq 0 .. turns
  /\ seen \subseteq 0 .. turns

(* The block b has been executed to its end since control came to it.      *)
Done(b) == stage # "body" \/ bb # b

(* Two blocks that dominate each other are not executed, nor what they     *)
(* dominate.                                                               *)
NoCycle ==
  fun.def # fun.der /\ fun.der \in fun.dom[fun.def] =>
    fun.def \notin fun.dom[bb] /\ fun.der \notin fun.dom[bb]

(* Where the instruction dominates it has been executed, and where the     *)
(* derived value's block does the value is from the last execution.        *)
Executed == fun.def \in fun.dom[bb] /\ Done(fun.def) => turns > 0

UpToDate == fun.der \in fun.dom[bb] /\ Done(fun.der) => der = turns

(* Where checks may be deferred, only the last execution is observed, and  *)
(* only in blocks that have a check.                                       *)
ObservedLast == ~FallBack => now \subseteq {turns} /\ (now # {} => bb \in ObPoints)

EffectsSeen == stage = "leave" => Observed(At("effect", bb), turns, der) \subseteq now

EagerTold == Eager => overflowed \subseteq told

CheckInv ==
  /\ NumbersOK
  /\ NoCycle
  /\ Executed
  /\ UpToDate
  /\ ObservedLast
  /\ EffectsSeen
  /\ EagerTold
  /\ ObservedIsTold

-----------------------------------------------------------------------------
LEMMA FunctionFacts ==
  ASSUME WellFormed(fun), bb \in Blocks
  PROVE  /\ fun.succ[bb] \subseteq Blocks
         /\ \A s \in fun.succ[bb] : fun.dom[s] \subseteq fun.dom[bb] \cup {s}
         /\ fun.dom[Entry] \subseteq {Entry}
         /\ fun.def \in fun.dom[fun.der]
         /\ \A u \in fun.uses : /\ u.kind \in {"effect", "branch", "phi"}
                               /\ u.of \in {"def", "der"}
                               /\ Home(fun, u) \in fun.dom[UsedAt(u)]
BY DEF WellFormed, Dominance, Uses

(* Observers of either value are looked at, so that each has a block where *)
(* the check is wanted.                                                    *)
LEMMA ObserverBlocks ==
  ASSUME NumbersOK, NEW u \in Observers
  PROVE  u.block \in ObPoints
<1>1. u \in fun.uses /\ u.of \in {"def", "der"}
  BY FunctionFacts DEF NumbersOK, Observers
<1>2. u.of \in Visited
  BY <1>1 DEF Visited
<1> QED
  BY <1>2 DEF ObPoints

LEMMA NotInOwnBlock ==
  ASSUME ~FallBack, NEW b \in ObPoints
  PROVE  b # fun.def /\ fun.def \in fun.dom[b]
BY DEF FallBack

LEMMA AtObserved ==
  ASSUME NEW kind, NEW b, NEW last, NEW d, NEW x \in Observed(At(kind, b), last, d)
  PROVE  \E u \in Observers : /\ u.kind = kind /\ u.block = b
                             /\ u \in At(kind, b)
                             /\ x = IF u.of = "def" THEN last ELSE d
BY DEF Observed, At

(* What is observed in a block at its end is the last execution's.         *)
LEMMA LastObserved ==
  ASSUME NumbersOK, UpToDate, stage = "leave",
         NEW u \in Observers, UsedAt(u) = bb
  PROVE  (IF u.of = "def" THEN turns ELSE der) = turns
<1>1. u \in fun.uses /\ u.of \in {"def", "der"} /\ Home(fun, u) \in fun.dom[bb]
  BY FunctionFacts DEF NumbersOK, Observers
<1>2. CASE u.of = "der"
  BY <1>1, <1>2 DEF Home, UpToDate, Done
<1> QED
  BY <1>1, <1>2

-----------------------------------------------------------------------------
LEMMA BodyNumbers ==
  ASSUME NumbersOK, Body
  PROVE  /\ NumbersOK'
         /\ turns' = (IF bb = fun.def THEN turns + 1 ELSE turns)
         /\ der' = (IF bb = fun.der THEN turns' ELSE der)
         /\ UNCHANGED <<fun, bb, seen>> /\ stage = "body" /\ stage' = "leave"
         /\ overflowed \subseteq overflowed' /\ told \subseteq told'
         /\ overflowed' \subseteq overflowed \cup {turns + 1}
<1> USE DEF NumbersOK
<1>1. /\ turns' = (IF bb = fun.def THEN turns + 1 ELSE turns)
      /\ der' = (IF bb = fun.der THEN turns' ELSE der)
      /\ UNCHANGED <<fun, bb, seen>> /\ stage = "body" /\ stage' = "leave"
  BY DEF Body
<1>2. turns' \in Nat /\ turns <= turns' /\ der' \in 0 .. turns'
  BY <1>1
<1>3. PICK o \in IF bb = fun.def THEN SUBSET {turns'} ELSE {{}} :
         /\ overflowed' = overflowed \cup o
         /\ told' = IF Eager THEN told \cup o ELSE told
  BY DEF Body
<1>4. o \subseteq {turns'} /\ (bb # fun.def => o = {})
  BY <1>3
<1>5. overflowed' \subseteq 1 .. turns' /\ overflowed' \subseteq overflowed \cup {turns + 1}
  BY <1>1, <1>2, <1>3, <1>4
<1>6. now' \subseteq 0 .. turns'
  <2>1. now' = now \cup Observed(At("effect", bb), turns', der')
    BY DEF Body
  <2>2. Observed(At("effect", bb), turns', der') \subseteq {turns', der'}
    BY DEF Observed
  <2>3. now \subseteq 0 .. turns' /\ turns' \in 0 .. turns'
    BY <1>2
  <2> QED
    BY <1>2, <2>1, <2>2, <2>3
<1>7. seen' \subseteq 0 .. turns'
  BY <1>1, <1>2
<1> QED
  BY <1>1, <1>2, <1>3, <1>5, <1>6, <1>7

(* ... and a block without the instruction is no other execution.          *)
LEMMA BodyStep == CheckInv /\ Body => CheckInv'
<1> SUFFICES ASSUME CheckInv, Body PROVE CheckInv'
  OBVIOUS
<1>1. /\ NumbersOK /\ NoCycle /\ Executed /\ UpToDate /\ ObservedLast /\ EagerTold /\ ObservedIsTold
      /\ WellFormed(fun) /\ bb \in Blocks /\ turns \in Nat
  BY DEF CheckInv, NumbersOK
<1>2. /\ NumbersOK'
      /\ turns' = (IF bb = fun.def THEN turns + 1 ELSE turns)
      /\ der' = (IF bb = fun.der THEN turns' ELSE der)
      /\ UNCHANGED <<fun, bb, seen>> /\ stage = "body" /\ stage' = "leave"
      /\ overflowed \subseteq overflowed' /\ told \subseteq told'
      /\ overflowed' \subseteq overflowed \cup {turns + 1}
  BY <1>1, BodyNumbers
<1>3. NoCycle'
  BY <1>1, <1>2 DEF NoCycle
<1>4. Executed'
  BY <1>1, <1>2 DEF Executed, Done
<1>5. UpToDate'
  <2> SUFFICES ASSUME fun.der \in fun.dom[bb], bb # fun.der PROVE der' = turns'
    BY <1>2 DEF UpToDate
  <2>1. bb # fun.def
    BY <1>1 DEF NoCycle
  <2> QED
    BY <1>1, <1>2, <2>1 DEF UpToDate, Done
<1>6. FallBack' = FallBack /\ ObPoints' = ObPoints /\ Eager' = Eager /\ Observers' = Observers
  BY <1>2 DEF FallBack, ObPoints, Eager, Observers, Visited, IsObservable
<1>7. now' = now \cup Observed(At("effect", bb), turns', der')
  BY DEF Body
<1>8. ObservedLast'
  <2> SUFFICES ASSUME ~FallBack, NEW x \in now' PROVE x = turns' /\ bb \in ObPoints
    BY <1>2, <1>6 DEF ObservedLast
  <2>1. CASE x \in now
    <3>1. x = turns /\ bb \in ObPoints
      BY <1>1, <2>1 DEF ObservedLast
    <3> QED
      BY <1>2, <3>1, NotInOwnBlock
  <2>2. CASE x \in Observed(At("effect", bb), turns', der')
    <3>1. PICK u \in Observers : /\ u.kind = "effect" /\ u.block = bb
                                 /\ x = IF u.of = "def" THEN turns' ELSE der'
      BY <2>2, AtObserved
    <3>2. bb \in ObPoints
      BY <1>1, <3>1, ObserverBlocks
    <3>3. UsedAt(u)' = bb' /\ u \in Observers'
      BY <1>2, <1>6, <3>1 DEF UsedAt
    <3>4. u \in fun.uses /\ u.of \in {"def", "der"} /\ Home(fun, u) \in fun.dom[bb]
      BY <1>1, <3>1, FunctionFacts DEF Observers, UsedAt
    <3>5. u.of = "der" => der' = turns'
      BY <1>2, <1>5, <3>4 DEF Home, UpToDate, Done
    <3> QED
      BY <3>1, <3>2, <3>4, <3>5
  <2> QED
    BY <1>7, <2>1, <2>2
<1>9. EffectsSeen'
  <2>1. At("effect", bb)' = At("effect", bb)
    BY <1>2, <1>6 DEF At
  <2> QED
    BY <1>2, <1>7, <2>1 DEF EffectsSeen, Observed
<1>10. EagerTold'
  <2> SUFFICES ASSUME Eager PROVE overflowed' \subseteq told'
    BY <1>6 DEF EagerTold
  <2>1. PICK o : overflowed' = overflowed \cup o /\ told' = told \cup o
    BY DEF Body
  <2> QED
    BY <1>1, <2>1 DEF EagerTold
<1>11. ObservedIsTold'
  BY <1>1, <1>2 DEF ObservedIsTold, NumbersOK
<1> QED
  BY <1>2, <1>3, <1>4, <1>5, <1>8, <1>9, <1>10, <1>11 DEF CheckInv

-----------------------------------------------------------------------------
LEMMA LeaveNumbers ==
  ASSUME NumbersOK, Leave
  PROVE  /\ NumbersOK'
         /\ UNCHANGED <<fun, turns, der, overflowed>> /\ stage = "leave" /\ stage' # "leave"
         /\ told' = told \cup Checked /\ seen' = seen \cup now \cup AtBranch
         /\ \/ /\ bb' \in fun.succ[bb] /\ stage' = "body"
               /\ now' = Observed({ u \in At("phi", bb') : u.pred = bb }, turns, der)
            \/ bb' = bb /\ stage' = "returned" /\ now' = {}
<1> USE DEF NumbersOK
<1>1. /\ UNCHANGED <<fun, turns, der, overflowed>> /\ stage = "leave" /\ stage' # "leave"
      /\ stage' \in {"body", "returned"}
      /\ told' = told \cup Checked /\ seen' = seen \cup now \cup AtBranch
      /\ \/ /\ bb' \in fun.succ[bb] /\ stage' = "body"
            /\ now' = Observed({ u \in At("phi", bb') : u.pred = bb }, turns, der)
         \/ bb' = bb /\ stage' = "returned" /\ now' = {}
  BY DEF Leave
<1>2. bb' \in Blocks
  BY <1>1, FunctionFacts
<1>3. turns \in 0 .. turns
  OBVIOUS
<1>4. AtBranch \subseteq 0 .. turns
  BY <1>3 DEF AtBranch, Observed
<1>5. now' \subseteq 0 .. turns
  BY <1>1, <1>3 DEF Observed
<1> QED
  BY <1>1, <1>2, <1>4, <1>5

(* What was observed in the block is told by the check before its end.     *)
LEMMA CheckTells ==
  ASSUME CheckInv, stage = "leave", ~fun.ptrs
  PROVE  (now \cup AtBranch) \cap overflowed \subseteq told \cup Checked
<1>1. NumbersOK /\ UpToDate /\ ObservedLast /\ EagerTold
  BY DEF CheckInv
<1>2. CASE Eager
  BY <1>1, <1>2 DEF EagerTold
<1>3. CASE ~Eager
  <2> SUFFICES ASSUME NEW x \in now \cup AtBranch
               PROVE  x = turns /\ bb \in Deferred
    BY DEF Checked
  <2>1. ~FallBack /\ Deferred = ObPoints
    BY <1>3 DEF Eager, Deferred
  <2>2. CASE x \in now
    BY <1>1, <2>1, <2>2 DEF ObservedLast
  <2>3. CASE x \in AtBranch
    <3>1. PICK u \in Observers : /\ u.kind = "branch" /\ u.block = bb
                                 /\ x = IF u.of = "def" THEN turns ELSE der
      BY <2>3, AtObserved DEF AtBranch
    <3> QED
      BY <1>1, <2>1, <3>1, ObserverBlocks, LastObserved DEF UsedAt
  <2> QED
    BY <2>2, <2>3
<1> QED
  BY <1>2, <1>3

LEMMA LeaveStep == CheckInv /\ Leave => CheckInv'
<1> SUFFICES ASSUME CheckInv, Leave PROVE CheckInv'
  OBVIOUS
<1>1. /\ NumbersOK /\ NoCycle /\ Executed /\ UpToDate /\ ObservedLast /\ EagerTold /\ ObservedIsTold
      /\ WellFormed(fun) /\ bb \in Blocks /\ turns \in Nat
  BY DEF CheckInv, NumbersOK
<1>2. /\ NumbersOK'
      /\ UNCHANGED <<fun, turns, der, overflowed>> /\ stage = "leave" /\ stage' # "leave"
      /\ told' = told \cup Checked /\ seen' = seen \cup now \cup AtBranch
      /\ \/ /\ bb' \in fun.succ[bb] /\ stage' = "body"
            /\ now' = Observed({ u \in At("phi", bb') : u.pred = bb }, turns, der)
         \/ bb' = bb /\ stage' = "returned" /\ now' = {}
  BY <1>1, LeaveNumbers
<1>3. fun.dom[bb'] \subseteq fun.dom[bb] \cup {bb'}
  BY <1>1, <1>2, FunctionFacts
<1>4. bb' # bb => stage' = "body"
  BY <1>2
<1>a. FallBack' = FallBack /\ ObPoints' = ObPoints /\ Eager' = Eager /\ Observers' = Observers
  BY <1>2 DEF FallBack, ObPoints, Eager, Observers, Visited, IsObservable
<1>5. NoCycle'
  <2> SUFFICES ASSUME fun.def # fun.der, fun.der \in fun.dom[fun.def]
               PROVE  fun.def \notin fun.dom[bb'] /\ fun.der \notin fun.dom[bb']
    BY <1>2 DEF NoCycle
  <2>1. fun.def \notin fun.dom[bb] /\ fun.der \notin fun.dom[bb]
    BY <1>1 DEF NoCycle
  <2>2. fun.def \in fun.dom[fun.der]
    BY <1>1, FunctionFacts
  <2> QED
    BY <1>3, <2>1, <2>2
<1>6. Executed'
  BY <1>1, <1>2, <1>3 DEF Executed, Done
<1>7. UpToDate'
  BY <1>1, <1>2, <1>3 DEF UpToDate, Done
<1>8. ObservedLast'
  <2> SUFFICES ASSUME ~FallBack, NEW x \in now' PROVE x = turns /\ bb' \in ObPoints
    BY <1>2, <1>a DEF ObservedLast
  <2>1. PICK u \in Observers : /\ u.kind = "phi" /\ u.block = bb' /\ u.pred = bb
                               /\ x = IF u.of = "def" THEN turns ELSE der
    BY <1>2, <1>a DEF Observed, At
  <2> QED
    BY <1>1, <1>2, <2>1, ObserverBlocks, LastObserved DEF UsedAt
<1>9. EffectsSeen'
  BY <1>2 DEF EffectsSeen
<1>10. EagerTold'
  BY <1>1, <1>2, <1>a DEF EagerTold
<1>11. ObservedIsTold'
  BY <1>1, <1>2, CheckTells DEF ObservedIsTold
<1> QED
  BY <1>2, <1>5, <1>6, <1>7, <1>8, <1>9, <1>10, <1>11 DEF CheckInv

LEMMA CheckInit == Init => CheckInv
<1> SUFFICES ASSUME Init PROVE CheckInv
  OBVIOUS
<1>1. WellFormed(fun) /\ bb \in Blocks /\ bb = Entry
  BY FunctionAssumption DEF Init, Blocks, Entry
<1>2. fun.dom[bb] \subseteq {bb} /\ fun.def \in fun.dom[fun.der]
  BY <1>1, FunctionFacts
<1>3. NumbersOK
  BY <1>1 DEF Init, NumbersOK
<1> QED
  BY <1>1, <1>2, <1>3 DEF Init, CheckInv, NoCycle, Executed, UpToDate, Done, ObservedLast, EffectsSeen,
                          EagerTold, ObservedIsTold

LEMMA CheckInvariant == Spec => []CheckInv
<1>1. CheckInv /\ UNCHANGED vars => CheckInv'
  BY DEF vars, CheckInv, NumbersOK, NoCycle, Executed, UpToDate, Done, ObservedLast, EffectsSeen, EagerTold,
     ObservedIsTold, FallBack, ObPoints, Observers, Visited, IsObservable, Eager, Observed, At
<1>2. CheckInv /\ [Next]_vars => CheckInv'
  BY <1>1, BodyStep, LeaveStep DEF Next, Ended
<1> QED
  BY CheckInit, <1>2, PTL DEF Spec

-----------------------------------------------------------------------------
(* An overflow that an effect, a phi or a branch out of a loop observes is *)
(* reported by the end of its block, in every turn of every loop, whether  *)
(* the check is eager, deferred or fallen back.                            *)
THEOREM ObservedTold == Spec => []ObservedIsTold
BY CheckInvariant, PTL DEF CheckInv

(* A deferred check runs only after its instruction.                       *)
THEOREM ChecksHaveValues == Spec => []CheckHasValue
<1>1. CheckInv => CheckHasValue
  <2> SUFFICES ASSUME CheckInv, stage = "leave", bb \in Deferred PROVE turns > 0
    BY DEF CheckHasValue
  <2>1. ~FallBack /\ bb \in ObPoints
    BY DEF Deferred, Eager
  <2> QED
    BY <2>1, NotInOwnBlock DEF CheckInv, Executed, Done
<1> QED
  BY CheckInvariant, <1>1, PTL

(* A deferred check reports nothing its block has not observed, but for    *)
(* phis.                                                                   *)
THEOREM NoIdleCheck == Spec => []NothingIdle
<1>1. CheckInv => NothingIdle
  <2> SUFFICES ASSUME CheckInv, stage = "leave", At("phi", bb) = {}, NEW x \in Checked
               PROVE  x \in now \cup AtBranch
    BY DEF NothingIdle
  <2>1. NumbersOK /\ UpToDate /\ EffectsSeen
    BY DEF CheckInv
  <2>2. x = turns /\ bb \in ObPoints
    BY DEF Checked, Deferred
  <2>3. PICK u \in Observers : u.block = bb
    BY <2>2 DEF ObPoints
  <2>4. u.kind \in {"effect", "branch"}
    BY <2>1, <2>3, FunctionFacts DEF NumbersOK, Observers, At
  <2>5. (IF u.of = "def" THEN turns ELSE der) = turns
    BY <2>1, <2>3, <2>4, LastObserved DEF UsedAt
  <2>6. CASE u.kind = "effect"
    BY <2>1, <2>2, <2>3, <2>5, <2>6 DEF EffectsSeen, Observed, At
  <2>7. CASE u.kind = "branch"
    BY <2>2, <2>3, <2>5, <2>7 DEF AtBranch, Observed, At
  <2> QED
    BY <2>4, <2>6, <2>7
<1> QED
  BY CheckInvariant, <1>1, PTL

-----------------------------------------------------------------------------
(* A set of natural numbers has a least one.                               *)
LEMMA LeastNumber ==
  ASSUME NEW T \in SUBSET Nat, T # {}
  PROVE  \E n \in T : \A k \in T : n <= k
<1> DEFINE R == OpToRel(<, Nat)
<1>1. IsWellFoundedOn(R, Nat)
  BY NatLessThanWellFounded
<1>2. \A i, k \in Nat : <<k, i>> \in R <=> k < i
  BY DEF OpToRel
<1> HIDE DEF R
<1>3. PICK n \in T : \A k \in T : <<k, n>> \notin R
  BY <1>1, WFMin
<1>4. ASSUME NEW k \in T PROVE n <= k
  <2>1. n \in Nat /\ k \in Nat /\ ~ (k < n)
    BY <1>2, <1>3
  <2> QED
    BY <2>1
<1> QED
  BY <1>4

(* Induction on the natural numbers, for a set.                            *)
LEMMA Counting ==
  ASSUME NEW T \in SUBSET Nat, 0 \in T, \A n \in T : n + 1 \in T
  PROVE  T = Nat
<1> SUFFICES ASSUME Nat \ T # {} PROVE FALSE
  OBVIOUS
<1>1. PICK n \in Nat \ T : \A k \in Nat \ T : n <= k
  BY LeastNumber
<1>2. n - 1 \in Nat /\ n - 1 \notin Nat \ T
  BY <1>1
<1> QED
  BY <1>2

(* The stores of which every call was legal.  Refs(s, i) counts the        *)
(* references held to a term, to none that is not made yet.                *)
Entries(X) == [w : Nat \ {0}, x : X, refs : Int, legal : {TRUE}]

IsStore(s) ==
  /\ \E X : s \in Seq(Entries(X))
  /\ backend = "z3" => \A t \in 1 .. Len(s) : s[t].refs = 1

Refs(s, i) == IF backend # "z3" /\ i \in 1 .. Len(s) THEN s[i].refs ELSE 0

One(i, t) == IF backend # "z3" /\ i = t THEN 1 ELSE 0

Live(s, t) == t \in 1 .. Len(s) /\ (backend # "z3" => Refs(s, t) > 0)

(* A store comes from another by calls that keep widths and values; they   *)
(* gain a reference to a term, give up one, or leave as many as there were.*)
Later(s, r) ==
  /\ IsStore(s) /\ IsStore(r)
  /\ Len(s) <= Len(r)
  /\ \A i \in 1 .. Len(s) : r[i].w = s[i].w /\ r[i].x = s[i].x

Gains(s, r, t) ==
  /\ Later(s, r) /\ t \in 1 .. Len(r)
  /\ \A i \in Nat : Refs(r, i) = Refs(s, i) + One(i, t)

Drops(s, r, t) ==
  /\ Later(s, r)
  /\ \A i \in Nat : Refs(r, i) = Refs(s, i) - One(i, t)

Evens(s, r) ==
  /\ Later(s, r)
  /\ \A i \in Nat : Refs(r, i) = Refs(s, i)

(* A call makes one term, the last, of a width.                          *)
Makes(s, r, w) ==
  /\ Gains(s, r, Len(s) + 1)
  /\ Len(r) = Len(s) + 1
  /\ r[Len(s) + 1].w = w

LEMMA StoreFacts ==
  ASSUME NEW s, IsStore(s)
  PROVE  /\ Len(s) \in Nat /\ DOMAIN s = 1 .. Len(s)
         /\ \A t \in 1 .. Len(s) : s[t].w \in Nat \ {0} /\ s[t].legal = TRUE /\ s[t].refs \in Int
         /\ \A i \in Nat : Refs(s, i) \in Int
         /\ \A i \in Nat : ~(i \in 1 .. Len(s)) => Refs(s, i) = 0
         /\ \A t \in 1 .. Len(s) : Live(s, t) => IsHeld(s, t)
<1>1. PICK X : s \in Seq(Entries(X))
  BY DEF IsStore
<1>2. Len(s) \in Nat /\ DOMAIN s = 1 .. Len(s) /\ \A t \in 1 .. Len(s) : s[t] \in Entries(X)
  BY <1>1, LenProperties, ElementOfSeq
<1>3. \A t \in 1 .. Len(s) : s[t].w \in Nat \ {0} /\ s[t].legal = TRUE /\ s[t].refs \in Int
  BY <1>2 DEF Entries
<1>4. backend = "z3" => \A t \in 1 .. Len(s) : s[t].refs = 1
  BY DEF IsStore
<1> QED
  BY <1>2, <1>3, <1>4 DEF Refs, Live, IsHeld

LEMMA NewMakes ==
  ASSUME NEW s, IsStore(s), NEW w \in Nat \ {0}, NEW x, NEW legal, legal = TRUE
  PROVE  Makes(s, New(s, w, x, legal), w)
<1> DEFINE r == New(s, w, x, legal)
           e == [w |-> w, x |-> x, refs |-> 1, legal |-> legal]
<1>1. PICK X : s \in Seq(Entries(X))
  BY DEF IsStore
<1> DEFINE E == Entries(X \cup {x})
<1>2. e \in E
  BY DEF Entries
<1>3. Entries(X) \subseteq E
  BY DEF Entries
<1>4. s \in Seq(E)
  BY <1>1, <1>3, SeqMonotonic
<1> HIDE DEF E, e
<1>5. /\ r \in Seq(E) /\ Len(r) = Len(s) + 1 /\ Len(s) \in Nat
      /\ \A i \in 1 .. Len(s) : r[i] = s[i]
      /\ r[Len(s) + 1] = e
  BY <1>2, <1>4, AppendProperties, LenProperties DEF New, e
<1>6. e.w = w /\ e.x = x /\ e.refs = 1
  BY DEF e
<1> HIDE DEF r
<1>7. IsStore(r)
  <2>1. \E Y : r \in Seq(Entries(Y))
    BY <1>5 DEF E
  <2> QED
    BY <2>1, <1>5, <1>6 DEF IsStore
<1>8. Later(s, r)
  BY <1>5, <1>7 DEF Later
<1>9. ASSUME NEW i \in Nat PROVE Refs(r, i) = Refs(s, i) + One(i, Len(s) + 1)
  <2>1. \A t \in 1 .. Len(s) : s[t].refs \in Int
    BY StoreFacts
  <2> QED
    BY <1>5, <1>6, <2>1 DEF Refs, One
<1>10. Gains(s, r, Len(s) + 1)
  BY <1>5, <1>8, <1>9 DEF Gains
<1> QED
  BY <1>5, <1>6, <1>10 DEF r, Makes

Recount(s, t, n) == [s EXCEPT ![t] = [s[t] EXCEPT !.refs = n]]

LEMMA CountChanges ==
  ASSUME NEW s, IsStore(s), backend # "z3", NEW t \in 1 .. Len(s), NEW n \in Int
  PROVE  /\ Later(s, Recount(s, t, n)) /\ Len(Recount(s, t, n)) = Len(s)
         /\ \A i \in Nat : Refs(Recount(s, t, n), i) = IF i = t THEN n ELSE Refs(s, i)
<1> DEFINE e == [s[t] EXCEPT !.refs = n]
           r == Recount(s, t, n)
<1>1. PICK X : s \in Seq(Entries(X))
  BY DEF IsStore
<1>2. s[t] \in Entries(X)
  BY <1>1, ElementOfSeq
<1>3. e \in Entries(X) /\ e.w = s[t].w /\ e.x = s[t].x /\ e.refs = n
  BY <1>2 DEF Entries
<1>0. r = [s EXCEPT ![t] = e]
  BY DEF Recount
<1> HIDE DEF e, r
<1>4. /\ r \in Seq(Entries(X)) /\ Len(r) = Len(s)
      /\ \A i \in 1 .. Len(s) : r[i] = IF i = t THEN e ELSE s[i]
  BY <1>0, <1>1, <1>3, ExceptSeq
<1>5. Later(s, r)
  <2>1. IsStore(r)
    BY <1>4 DEF IsStore
  <2> QED
    BY <2>1, <1>3, <1>4, StoreFacts DEF Later
<1>6. ASSUME NEW i \in Nat PROVE Refs(r, i) = IF i = t THEN n ELSE Refs(s, i)
  BY <1>3, <1>4 DEF Refs
<1> QED
  BY <1>4, <1>5, <1>6 DEF r

LEMMA LaterSelf ==
  ASSUME NEW s, IsStore(s)
  PROVE  Evens(s, s)
BY StoreFacts DEF Evens, Later

LEMMA IncrefGains ==
  ASSUME NEW s, IsStore(s), NEW t \in 1 .. Len(s)
  PROVE  Gains(s, incref(s, t), t) /\ Len(incref(s, t)) = Len(s)
<1>0. /\ Len(s) \in Nat /\ s[t].refs \in Int
      /\ \A i \in Nat : Refs(s, i) \in Int
  BY StoreFacts
<1>1. CASE backend = "z3"
  BY <1>0, <1>1, LaterSelf DEF incref, Gains, Evens, One
<1>2. CASE backend # "z3"
  <2>1. s[t].refs + 1 \in Int /\ s[t].refs \in Int /\ Refs(s, t) = s[t].refs
    BY <1>0, <1>2 DEF Refs
  <2>2. incref(s, t) = Recount(s, t, s[t].refs + 1)
    BY <1>2 DEF incref, Recount
  <2> HIDE DEF incref
  <2>3. /\ Later(s, incref(s, t)) /\ Len(incref(s, t)) = Len(s)
        /\ \A i \in Nat : Refs(incref(s, t), i) = IF i = t THEN s[t].refs + 1 ELSE Refs(s, i)
    BY <1>2, <2>1, <2>2, CountChanges
  <2>4. ASSUME NEW i \in Nat PROVE Refs(incref(s, t), i) = Refs(s, i) + One(i, t)
    BY <1>0, <1>2, <2>1, <2>3 DEF One
  <2> QED
    BY <2>3, <2>4 DEF Gains
<1> QED
  BY <1>1, <1>2

LEMMA DecrefDrops ==
  ASSUME NEW s, IsStore(s), NEW t \in 1 .. Len(s)
  PROVE  Drops(s, decref(s, t), t) /\ Len(decref(s, t)) = Len(s)
<1>0. /\ Len(s) \in Nat /\ s[t].refs \in Int
      /\ \A i \in Nat : Refs(s, i) \in Int
  BY StoreFacts
<1>1. CASE backend = "z3"
  BY <1>0, <1>1, LaterSelf DEF decref, Drops, Evens, One
<1>2. CASE backend # "z3"
  <2>1. s[t].refs - 1 \in Int /\ s[t].refs \in Int /\ Refs(s, t) = s[t].refs
    BY <1>0, <1>2 DEF Refs
  <2>2. decref(s, t) = Recount(s, t, s[t].refs - 1)
    BY <1>2 DEF decref, Recount
  <2> HIDE DEF decref
  <2>3. /\ Later(s, decref(s, t)) /\ Len(decref(s, t)) = Len(s)
        /\ \A i \in Nat : Refs(decref(s, t), i) = IF i = t THEN s[t].refs - 1 ELSE Refs(s, i)
    BY <1>2, <2>1, <2>2, CountChanges
  <2>4. ASSUME NEW i \in Nat PROVE Refs(decref(s, t), i) = Refs(s, i) - One(i, t)
    BY <1>0, <1>2, <2>1, <2>3 DEF One
  <2> QED
    BY <2>3, <2>4 DEF Drops
<1> QED
  BY <1>1, <1>2

-----------------------------------------------------------------------------
(* The powers of 2, a function defined by recursion, from its restrictions *)
(* to 0 .. n.                                                              *)
Powers(f, n) == f = [k \in 0 .. n |-> IF k = 0 THEN 1 ELSE 2 * f[k - 1]]

LEMMA PowersExist == \A n \in Nat : \E f : Powers(f, n)
<1> DEFINE T == { n \in Nat : \E f : Powers(f, n) }
<1>1. 0 \in T
  <2> DEFINE f == [k \in 0 .. 0 |-> 1]
  <2>1. f = [k \in 0 .. 0 |-> IF k = 0 THEN 1 ELSE 2 * f[k - 1]]
    OBVIOUS
  <2> QED
    BY <2>1 DEF Powers
<1>2. ASSUME NEW n \in T PROVE n + 1 \in T
  <2>1. PICK f : f = [k \in 0 .. n |-> IF k = 0 THEN 1 ELSE 2 * f[k - 1]]
    BY DEF Powers
  <2> DEFINE g == [k \in 0 .. n + 1 |-> IF k = n + 1 THEN 2 * f[n] ELSE f[k]]
  <2>2. \A k \in 0 .. n + 1 : g[k] = IF k = 0 THEN 1 ELSE 2 * g[k - 1]
    <3> TAKE k \in 0 .. n + 1
    <3>1. CASE k = n + 1
      BY <3>1
    <3>2. CASE k # n + 1
      <4>1. k \in 0 .. n /\ (k # 0 => k - 1 \in 0 .. n /\ k - 1 # n + 1)
        BY <3>2
      <4>2. f[k] = IF k = 0 THEN 1 ELSE 2 * f[k - 1]
        BY <2>1, <4>1
      <4> QED
        BY <3>2, <4>1, <4>2
    <3> QED
      BY <3>1, <3>2
  <2>3. g = [k \in 0 .. n + 1 |-> g[k]]
    OBVIOUS
  <2> HIDE DEF g
  <2>4. Powers(g, n + 1)
    BY <2>2, <2>3 DEF Powers
  <2> QED
    BY <2>4
<1> HIDE DEF T
<1>3. T = Nat
  <2>1. T \in SUBSET Nat
    BY DEF T
  <2> QED
    BY <1>1, <1>2, <2>1, Counting
<1> QED
  BY <1>3 DEF T

LEMMA PowersAgree ==
  \A k \in Nat : \A n, m \in Nat : \A f, g :
    Powers(f, n) /\ Powers(g, m) /\ k <= n /\ k <= m => f[k] = g[k]
<1> DEFINE Agree(k) == \A n, m \in Nat : \A f, g :
             Powers(f, n) /\ Powers(g, m) /\ k <= n /\ k <= m => f[k] = g[k]
           T == { k \in Nat : Agree(k) }
<1>1. 0 \in T
  <2> SUFFICES ASSUME NEW n \in Nat, NEW m \in Nat, NEW f, NEW g, Powers(f, n), Powers(g, m)
               PROVE  f[0] = g[0]
    OBVIOUS
  <2> QED
    BY DEF Powers
<1>2. ASSUME NEW k \in T PROVE k + 1 \in T
  <2> SUFFICES ASSUME NEW n \in Nat, NEW m \in Nat, NEW f, NEW g, Powers(f, n), Powers(g, m),
                      k + 1 <= n, k + 1 <= m
               PROVE  f[k + 1] = g[k + 1]
    OBVIOUS
  <2>1. f[k] = g[k]
    OBVIOUS
  <2>2. f[k + 1] = 2 * f[k] /\ g[k + 1] = 2 * g[k]
    <3>1. k \in Nat /\ k + 1 \in 0 .. n /\ k + 1 \in 0 .. m /\ k + 1 # 0 /\ (k + 1) - 1 = k
      OBVIOUS
    <3> HIDE DEF T
    <3> QED
      BY <3>1 DEF Powers
  <2> QED
    BY <2>1, <2>2
<1> HIDE DEF Agree
<1>3. T \in SUBSET Nat
  OBVIOUS
<1> HIDE DEF T
<1>4. T = Nat
  BY <1>1, <1>2, <1>3, Counting
<1> QED
  BY <1>4 DEF T, Agree

LEMMA Pow2Facts ==
  /\ Pow2[0] = 1
  /\ \A n \in Nat : Pow2[n + 1] = 2 * Pow2[n]
<1> DEFINE A(n) == CHOOSE f : Powers(f, n)
           F == [n \in Nat |-> A(n)[n]]
<1>1. \A n \in Nat : Powers(A(n), n)
  BY PowersExist
<1> HIDE DEF A
<1>2. A(0)[0] = 1
  BY <1>1 DEF Powers
<1>3. ASSUME NEW n \in Nat, n # 0 PROVE A(n)[n] = 2 * A(n - 1)[n - 1]
  <2>1. n - 1 \in Nat /\ n \in 0 .. n
    BY <1>3
  <2>2. A(n)[n] = 2 * A(n)[n - 1]
    BY <1>1, <1>3, <2>1 DEF Powers
  <2>3. Powers(A(n), n) /\ Powers(A(n - 1), n - 1) /\ n - 1 <= n /\ n - 1 <= n - 1
    BY <1>1, <2>1
  <2>4. A(n)[n - 1] = A(n - 1)[n - 1]
    BY <2>1, <2>3, PowersAgree
  <2> QED
    BY <2>2, <2>4
<1>4. F = [n \in Nat |-> IF n = 0 THEN 1 ELSE 2 * F[n - 1]]
  BY <1>2, <1>3
<1> HIDE DEF F
<1>5. \E f : f = [n \in Nat |-> IF n = 0 THEN 1 ELSE 2 * f[n - 1]]
  BY <1>4
<1>6. Pow2 = [n \in Nat |-> IF n = 0 THEN 1 ELSE 2 * Pow2[n - 1]]
  BY <1>5 DEF Pow2
<1>7. Pow2[0] = 1
  BY <1>6
<1>8. ASSUME NEW n \in Nat PROVE Pow2[n + 1] = 2 * Pow2[n]
  <2>1. n + 1 \in Nat /\ n + 1 # 0 /\ (n + 1) - 1 = n
    OBVIOUS
  <2> QED
    BY <1>6, <2>1
<1> QED
  BY <1>7, <1>8

LEMMA Pow2Grows == \A n \in Nat : Pow2[n] \in Nat /\ Pow2[n] > n
<1> DEFINE T == { n \in Nat : Pow2[n] \in Nat /\ Pow2[n] > n }
<1>1. 0 \in T
  BY Pow2Facts
<1>2. ASSUME NEW n \in T PROVE n + 1 \in T
  <2>1. Pow2[n + 1] = 2 * Pow2[n]
    BY Pow2Facts
  <2> QED
    BY <2>1
<1>3. T \in SUBSET Nat
  OBVIOUS
<1> HIDE DEF T
<1>4. T = Nat
  BY <1>1, <1>2, <1>3, Counting
<1> QED
  BY <1>4 DEF T

(* A word of n bits, two at least, is shifted by at least one bit and at   *)
(* most n, and the word it is widened to is not narrower.                  *)
LEMMA Log2UpFacts ==
  ASSUME NEW n \in Nat, n > 1
  PROVE  Log2Up(n) \in 1 .. n /\ Pow2[Log2Up(n)] \in Nat /\ Pow2[Log2Up(n)] >= n
<1> DEFINE T == { k \in 0 .. n : Pow2[k] >= n }
<1>1. n \in T /\ T \in SUBSET Nat
  BY Pow2Grows
<1>2. PICK k \in T : \A j \in T : k <= j
  BY <1>1, LeastNumber
<1>3. \E i \in 0 .. n : Pow2[i] >= n /\ \A j \in 0 .. n : Pow2[j] >= n => i <= j
  BY <1>2
<1>4. Log2Up(n) \in 0 .. n /\ Pow2[Log2Up(n)] >= n
  BY <1>3 DEF Log2Up
<1>5. Log2Up(n) # 0
  BY <1>4, Pow2Facts
<1> QED
  BY <1>4, <1>5, Pow2Grows

-----------------------------------------------------------------------------
LEMMA ConstMakes ==
  ASSUME NEW s, IsStore(s), NEW w \in Nat \ {0}, NEW x
  PROVE  Makes(s, bvconst(s, w, x), w)
<1>1. (\A t \in {} : IsHeld(s, t)) = TRUE
  OBVIOUS
<1> QED
  BY <1>1, NewMakes DEF bvconst, Make

LEMMA CastsMake ==
  ASSUME NEW s, IsStore(s), NEW t, Live(s, t)
  PROVE  /\ \A n \in 1 .. s[t].w : Makes(s, extract(s, n, t), n)
         /\ \A i \in Nat : Makes(s, zero_extend(s, i, t), s[t].w + i)
         /\ \A i \in Nat : Makes(s, sign_extend(s, i, t), s[t].w + i)
         /\ Makes(s, bvnot(s, t), s[t].w)
<1>1. t \in 1 .. Len(s) /\ s[t].w \in Nat \ {0} /\ IsHeld(s, t)
  BY StoreFacts DEF Live
<1>2. (\A a \in {t} : IsHeld(s, a)) = TRUE
  BY <1>1
<1>3. ASSUME NEW n \in 1 .. s[t].w PROVE Makes(s, extract(s, n, t), n)
  <2>1. (IsHeld(s, t) /\ n >= 1 /\ n <= s[t].w) = TRUE
    BY <1>1
  <2>2. n \in Nat \ {0}
    BY <1>1
  <2> QED
    BY <2>1, <2>2, NewMakes DEF extract
<1>4. ASSUME NEW i \in Nat, NEW x PROVE Makes(s, Make(s, s[t].w + i, x, {t}), s[t].w + i)
  <2>1. s[t].w + i \in Nat \ {0}
    BY <1>1
  <2> QED
    BY <1>2, <2>1, NewMakes DEF Make
<1>5. ASSUME NEW x PROVE Makes(s, Make(s, s[t].w, x, {t}), s[t].w)
  BY <1>1, <1>2, NewMakes DEF Make
<1> QED
  BY <1>3, <1>4, <1>5 DEF zero_extend, sign_extend, bvnot

LEMMA PairsMake ==
  ASSUME NEW s, IsStore(s), NEW t, NEW u, Live(s, t), Live(s, u), s[t].w = s[u].w
  PROVE  /\ \A p : Makes(s, compare(s, p, t, u), 1)
         /\ \A o : Makes(s, overflow(s, o, t, u), 1)
         /\ \A x : Makes(s, New(s, s[t].w, x, Pair(s, t, u)), s[t].w)
         /\ \A c : Live(s, c) /\ s[c].w = 1 => Makes(s, ite(s, c, t, u), s[t].w)
<1>1. s[t].w \in Nat \ {0} /\ IsHeld(s, t) /\ IsHeld(s, u)
  BY StoreFacts DEF Live
<1>2. Pair(s, t, u) = TRUE
  BY <1>1 DEF Pair
<1>0. \A x : Makes(s, New(s, 1, x, Pair(s, t, u)), 1)
  <2>1. 1 \in Nat \ {0}
    OBVIOUS
  <2> QED
    BY <1>2, <2>1, NewMakes
<1>3. \A p : Makes(s, compare(s, p, t, u), 1)
  BY <1>0 DEF compare
<1>4. \A o : Makes(s, overflow(s, o, t, u), 1)
  BY <1>0 DEF overflow
<1>5. \A x : Makes(s, New(s, s[t].w, x, Pair(s, t, u)), s[t].w)
  BY <1>1, <1>2, NewMakes
<1>6. ASSUME NEW c, Live(s, c), s[c].w = 1 PROVE Makes(s, ite(s, c, t, u), s[t].w)
  <2>1. IsHeld(s, c)
    BY <1>6, StoreFacts DEF Live
  <2>2. (\A r \in {c, t, u} : IsHeld(s, r) /\ s[c].w = 1 /\ s[t].w = s[u].w) = TRUE
    BY <1>1, <1>6, <2>1
  <2> QED
    BY <1>1, <2>2, NewMakes DEF ite
<1> QED
  BY <1>3, <1>4, <1>5, <1>6

(* Steps one after the other.                                              *)
LEMMA LaterTrans ==
  ASSUME NEW s, NEW r, NEW q, Later(s, r), Later(r, q)
  PROVE  Later(s, q)
<1>1. Len(s) \in Nat /\ Len(r) \in Nat /\ Len(q) \in Nat
  BY StoreFacts DEF Later
<1> QED
  BY <1>1 DEF Later

(* A term held stays held when a reference is gained, and where more are   *)
(* left than given up.                                                     *)
LEMMA StillLive ==
  ASSUME NEW s, NEW r, NEW t, Live(s, t), Later(s, r), Refs(s, t) <= Refs(r, t)
  PROVE  Live(r, t) /\ r[t].w = s[t].w
<1>1. t \in 1 .. Len(s) /\ Len(s) \in Nat /\ Len(r) \in Nat /\ Len(s) <= Len(r)
  BY StoreFacts DEF Live, Later
<1>2. Refs(s, t) \in Int /\ Refs(r, t) \in Int
  <2>1. IsStore(s) /\ IsStore(r) /\ t \in Nat
    BY <1>1 DEF Later
  <2> QED
    BY <2>1, StoreFacts
<1> QED
  BY <1>1, <1>2 DEF Live, Later

LEMMA GainLive ==
  ASSUME NEW s, NEW r, NEW t, Gains(s, r, t)
  PROVE  /\ Refs(s, t) >= 0 => Live(r, t)
         /\ \A u : Live(s, u) => Live(r, u) /\ r[u].w = s[u].w
<1>1. t \in 1 .. Len(r) /\ Len(r) \in Nat /\ IsStore(s)
  BY StoreFacts DEF Gains, Later
<1>2. \A i \in Nat : Refs(s, i) \in Int
  BY <1>1, StoreFacts
<1>3. Refs(s, t) >= 0 => Live(r, t)
  BY <1>1, <1>2 DEF Gains, Live, One
<1>4. ASSUME NEW u, Live(s, u) PROVE Live(r, u) /\ r[u].w = s[u].w
  <2>1. u \in Nat
    BY <1>4, StoreFacts, <1>1 DEF Live
  <2>2. Refs(s, u) <= Refs(r, u)
    BY <1>2, <2>1 DEF Gains, One
  <2> QED
    BY <1>4, <2>2, StillLive DEF Gains
<1> QED
  BY <1>3, <1>4

LEMMA MakesLive ==
  ASSUME NEW s, NEW r, NEW w, Makes(s, r, w)
  PROVE  /\ Live(r, Len(s) + 1) /\ r[Len(s) + 1].w = w /\ Len(r) = Len(s) + 1
         /\ Gains(s, r, Len(s) + 1) /\ IsStore(s) /\ IsStore(r)
         /\ Later(s, r) /\ Len(s) \in Nat
         /\ \A u : Live(s, u) => Live(r, u) /\ r[u].w = s[u].w
<1>1. IsStore(s) /\ IsStore(r)
  BY DEF Makes, Gains, Later
<1>2. Len(s) \in Nat
  BY <1>1, StoreFacts
<1>3. Refs(s, Len(s) + 1) = 0
  <2>1. Len(s) + 1 \in Nat /\ ~(Len(s) + 1 \in 1 .. Len(s))
    BY <1>2
  <2> QED
    BY <1>1, <2>1, StoreFacts
<1>4. Gains(s, r, Len(s) + 1) /\ Later(s, r)
  BY DEF Makes, Gains
<1>5. Live(r, Len(s) + 1) /\ \A u : Live(s, u) => Live(r, u) /\ r[u].w = s[u].w
  BY <1>3, <1>4, GainLive
<1> QED
  BY <1>1, <1>2, <1>4, <1>5 DEF Makes

LEMMA DropLive ==
  ASSUME NEW s, NEW t, IsStore(s), Live(s, t)
  PROVE  /\ Drops(s, decref(s, t), t) /\ IsStore(decref(s, t)) /\ Later(s, decref(s, t))
         /\ Len(decref(s, t)) = Len(s)
         /\ \A u : Live(s, u) /\ u # t => Live(decref(s, t), u) /\ decref(s, t)[u].w = s[u].w
<1>1. t \in 1 .. Len(s) /\ Len(s) \in Nat
  BY StoreFacts DEF Live
<1>2. Drops(s, decref(s, t), t) /\ Len(decref(s, t)) = Len(s)
  BY <1>1, DecrefDrops
<1> DEFINE r == decref(s, t)
<1> HIDE DEF r
<1>3. Drops(s, r, t) /\ Len(r) = Len(s)
  BY <1>2 DEF r
<1>4. IsStore(r) /\ Later(s, r)
  BY <1>3 DEF Drops, Later
<1>5. ASSUME NEW u, Live(s, u), u # t PROVE Live(r, u) /\ r[u].w = s[u].w
  <2>1. u \in Nat
    BY <1>1, <1>5 DEF Live
  <2>2. Refs(s, u) \in Int
    BY <2>1, StoreFacts
  <2>3. Refs(s, u) <= Refs(r, u)
    BY <1>3, <1>5, <2>1, <2>2 DEF Drops, One
  <2> QED
    BY <1>4, <1>5, <2>3, StillLive
<1> QED
  BY <1>3, <1>4, <1>5 DEF r

(* Several steps: the differences in references add up.                    *)
LEMMA Kinds ==
  /\ \A s, r, t : Gains(s, r, t) =>
       Later(s, r) /\ \A i \in Nat : Refs(r, i) = Refs(s, i) + One(i, t) /\ Refs(s, i) \in Int
  /\ \A s, r, t : Drops(s, r, t) =>
       Later(s, r) /\ \A i \in Nat : Refs(r, i) = Refs(s, i) - One(i, t) /\ Refs(s, i) \in Int
  /\ \A s, r : Later(s, r) => IsStore(s) /\ IsStore(r)
  /\ \A i, t : One(i, t) \in Int
<1>1. \A s, r : Later(s, r) => IsStore(s) /\ IsStore(r)
  BY DEF Later
<1>2. ASSUME NEW s, IsStore(s) PROVE \A i \in Nat : Refs(s, i) \in Int
  BY <1>2, StoreFacts
<1> QED
  BY <1>1, <1>2 DEF Gains, Drops, One

(* The second of two terms is gained, the first given up again.            *)
LEMMA GainsThenDrops ==
  ASSUME NEW s, NEW r, NEW q, NEW p, NEW t, NEW u,
         Gains(s, r, t), Gains(r, q, u), Drops(q, p, t), Len(q) = Len(p)
  PROVE  Gains(s, p, u)
<1>1. Later(s, r) /\ Later(r, q) /\ Later(q, p)
  BY DEF Gains, Drops
<1>2. Later(s, p)
  BY <1>1, LaterTrans
<1>3. ASSUME NEW i \in Nat PROVE Refs(p, i) = Refs(s, i) + One(i, u)
  <2>1. /\ Refs(r, i) = Refs(s, i) + One(i, t)
        /\ Refs(q, i) = Refs(r, i) + One(i, u)
        /\ Refs(p, i) = Refs(q, i) - One(i, t)
    BY DEF Gains, Drops
  <2>2. Refs(s, i) \in Int /\ One(i, t) \in Int /\ One(i, u) \in Int
    BY Kinds
  <2> QED
    BY <2>1, <2>2
<1> QED
  BY <1>2, <1>3 DEF Gains

LEMMA ShiftByLastGains ==
  ASSUME NEW s, NEW r, NEW o, NEW e0, Makes(s, r, r[Len(r)].w), Live(s, e0)
  PROVE  LET q == ShiftByLast(r, o, e0)
         IN  Gains(s, q, Len(s) + 2) /\ Len(q) = Len(s) + 2 /\ q[Len(s) + 2].w = s[e0].w
<1> DEFINE x == Shift(o, r[e0].w, r[e0].x, r[Len(r)].x)
           a == Make(r, r[e0].w, x, {e0, Len(r)})
           q == decref(a, Len(r))
<1>1. q = ShiftByLast(r, o, e0)
  BY DEF ShiftByLast
<1> HIDE DEF x
<1>2. /\ Live(r, Len(r)) /\ Len(r) = Len(s) + 1 /\ Len(s) \in Nat /\ IsStore(r)
      /\ Gains(s, r, Len(r)) /\ Live(r, e0) /\ r[e0].w = s[e0].w
  BY MakesLive
<1>3. r[e0].w \in Nat \ {0} /\ IsHeld(r, e0) /\ IsHeld(r, Len(r))
  BY <1>2, StoreFacts DEF Live
<1>4. (\A t \in {e0, Len(r)} : IsHeld(r, t)) = TRUE
  BY <1>3
<1>5. Makes(r, a, s[e0].w)
  BY <1>2, <1>3, <1>4, NewMakes DEF Make
<1> HIDE DEF a
<1>6. /\ Live(a, Len(r)) /\ Live(a, Len(r) + 1) /\ a[Len(r) + 1].w = s[e0].w
      /\ Gains(r, a, Len(r) + 1) /\ IsStore(a) /\ Len(a) = Len(r) + 1
  BY <1>2, <1>5, MakesLive
<1>7. /\ Drops(a, q, Len(r)) /\ Len(q) = Len(a)
      /\ q[Len(r) + 1].w = a[Len(r) + 1].w
  BY <1>2, <1>6, DropLive
<1> HIDE DEF q
<1>8. Gains(s, q, Len(r) + 1)
  BY <1>2, <1>6, <1>7, GainsThenDrops
<1>9. Gains(s, q, Len(s) + 2) /\ Len(q) = Len(s) + 2 /\ q[Len(s) + 2].w = s[e0].w
  BY <1>2, <1>6, <1>7, <1>8
<1> QED
  BY <1>1, <1>9

(* Boolector's shift gains its result only, whatever the width.            *)
LEMMA BoolectorShiftGains ==
  ASSUME NEW s, IsStore(s), NEW o, NEW t, NEW u, Live(s, t), Live(s, u),
         s[t].w = s[u].w, s[t].w > 1
  PROVE  LET r == BoolectorShift(s, o, t, u)
         IN  /\ Gains(s, r.store, r.term)
             /\ r.term \in Nat /\ r.term > Len(s)
             /\ r.store[r.term].w = s[t].w
<1> DEFINE n == s[u].w
           k == Log2Up(n)
           power2 == Pow2[k]
<1>1. /\ n \in Nat \ {0} /\ Len(s) \in Nat
      /\ k \in 1 .. n /\ power2 \in Nat /\ power2 >= n
  <2>1. s[t].w \in Nat /\ s[u].w \in Nat \ {0} /\ Len(s) \in Nat
    BY StoreFacts DEF Live
  <2> QED
    BY <2>1, Log2UpFacts
<1>2. k \in Nat \ {0}
  BY <1>1
<1> HIDE DEF k, power2
<1>3. CASE power2 = n
  <2> DEFINE r == extract(s, k, u)
             q == ShiftByLast(r, o, t)
  <2>1. Makes(s, r, k)
    BY <1>1, CastsMake
  <2> HIDE DEF r
  <2>2. Makes(s, r, r[Len(r)].w)
    BY <2>1 DEF Makes
  <2>3. Gains(s, q, Len(s) + 2) /\ Len(q) = Len(s) + 2 /\ q[Len(s) + 2].w = s[t].w
    BY <2>2, ShiftByLastGains
  <2>4. BoolectorShift(s, o, t, u) = [store |-> q, term |-> Len(q)]
    BY <1>3 DEF BoolectorShift, Result, k, power2, r
  <2> HIDE DEF q
  <2> QED
    BY <1>1, <2>3, <2>4
<1>4. CASE power2 # n
  <2> DEFINE L == Len(s)
             s1 == zero_extend(s, power2 - n, t)
             s2 == extract(s1, k, u)
             s3 == ShiftByLast(s2, o, L + 1)
             s4 == decref(s3, L + 1)
             s5 == extract(s4, n, L + 3)
             s6 == decref(s5, L + 3)
  <2>1. Makes(s, s1, power2)
    <3>1. power2 - n \in Nat /\ s[t].w + (power2 - n) = power2
      BY <1>1
    <3>2. \A i \in Nat : Makes(s, zero_extend(s, i, t), s[t].w + i)
      BY CastsMake
    <3> QED
      BY <3>1, <3>2
  <2> HIDE DEF s1
  <2>2. /\ Live(s1, L + 1) /\ s1[L + 1].w = power2 /\ Len(s1) = L + 1 /\ IsStore(s1)
        /\ Live(s1, u) /\ s1[u].w = n /\ Gains(s, s1, L + 1)
    BY <2>1, MakesLive
  <2>3. Makes(s1, s2, k)
    BY <1>1, <2>2, CastsMake
  <2> HIDE DEF s2
  <2>4. Makes(s1, s2, s2[Len(s2)].w) /\ Len(s2) = L + 2
    BY <1>1, <2>2, <2>3 DEF Makes
  <2>5. Gains(s1, s3, L + 3) /\ Len(s3) = L + 3 /\ s3[L + 3].w = power2
    BY <1>1, <2>2, <2>4, ShiftByLastGains
  <2> HIDE DEF s3
  <2>6. IsStore(s3) /\ Live(s3, L + 1) /\ Live(s3, L + 3)
    <3>1. Refs(s1, L + 3) = 0
      <4>1. L + 3 \in Nat /\ ~(L + 3 \in 1 .. Len(s1))
        BY <1>1, <2>2
      <4> QED
        BY <2>2, <4>1, StoreFacts
    <3>2. IsStore(s3)
      BY <2>5, Kinds
    <3> QED
      BY <2>2, <2>5, <3>1, <3>2, GainLive
  <2>7. /\ Drops(s3, s4, L + 1) /\ Len(s4) = L + 3 /\ IsStore(s4)
        /\ Live(s4, L + 3) /\ s4[L + 3].w = power2
    BY <1>1, <2>5, <2>6, DropLive
  <2> HIDE DEF s4
  <2>8. Gains(s, s4, L + 3)
    BY <2>2, <2>5, <2>7, GainsThenDrops
  <2>9. Makes(s4, s5, n)
    <3>1. n \in 1 .. s4[L + 3].w
      BY <1>1, <2>7
    <3> QED
      BY <2>7, <3>1, CastsMake
  <2> HIDE DEF s5
  <2>10. /\ Live(s5, L + 3) /\ Live(s5, L + 4) /\ s5[L + 4].w = n /\ Len(s5) = L + 4
         /\ Gains(s4, s5, L + 4) /\ IsStore(s5)
    BY <1>1, <2>7, <2>9, MakesLive
  <2>11. Drops(s5, s6, L + 3) /\ Len(s6) = L + 4 /\ s6[L + 4].w = n
    BY <1>1, <2>10, DropLive
  <2> HIDE DEF s6
  <2>12. Gains(s, s6, L + 4)
    BY <2>8, <2>10, <2>11, GainsThenDrops
  <2>13. BoolectorShift(s, o, t, u) = [store |-> s6, term |-> L + 4]
    <3>1. BoolectorShift(s, o, t, u) = ShiftLast(s1, o, n, u)
      BY <1>4 DEF BoolectorShift, k, power2, s1
    <3>2. ShiftLast(s1, o, n, u) = Cut(s3, n, L + 1)
      BY <2>2 DEF ShiftLast, s2, s3, k
    <3>3. Cut(s3, n, L + 1) = Result(decref(extract(decref(s3, L + 1), n, Len(s3)), Len(s3)))
      BY DEF Cut
    <3>4. Cut(s3, n, L + 1) = Result(s6)
      BY <3>3, <2>5 DEF s4, s5, s6
    <3> QED
      BY <3>1, <3>2, <3>4, <2>11 DEF Result
  <2> QED
    BY <1>1, <2>11, <2>12, <2>13
<1> QED
  BY <1>3, <1>4

(* What a visitor returns: a term to which a reference is gained, of a     *)
(* width; the term is as a rule a new one.                                 *)
Returns(s, r, w) ==
  /\ Gains(s, r.store, r.term)
  /\ Live(r.store, r.term)
  /\ r.store[r.term].w = w

LEMMA OneMade ==
  ASSUME NEW s, NEW r, NEW w, Makes(s, r, w)
  PROVE  Returns(s, Result(r), w) /\ Result(r).term = Len(s) + 1 /\ Result(r).store = r
BY MakesLive DEF Returns, Result

LEMMA OperationReturns ==
  ASSUME NEW s, IsStore(s), NEW o, NEW t, NEW u, Live(s, t), Live(s, u),
         s[t].w = s[u].w, o \in Shifts => s[t].w > 1
  PROVE  /\ Returns(s, operation(s, o, t, u), s[t].w)
         /\ o \notin Shifts =>
              /\ Makes(s, operation(s, o, t, u).store, s[t].w)
              /\ operation(s, o, t, u).term = Len(s) + 1
<1>1. CASE backend = "boolector" /\ o \in Shifts
  <2> DEFINE r == BoolectorShift(s, o, t, u)
  <2>1. operation(s, o, t, u) = r
    BY <1>1 DEF operation
  <2>2. Gains(s, r.store, r.term) /\ r.term \in Nat /\ r.term > Len(s) /\ r.store[r.term].w = s[t].w
    BY <1>1, BoolectorShiftGains
  <2> HIDE DEF r
  <2>3. Refs(s, r.term) = 0
    <3>1. ~(r.term \in 1 .. Len(s))
      BY <2>2, StoreFacts
    <3> QED
      BY <2>2, <3>1, StoreFacts
  <2>4. Live(r.store, r.term)
    BY <2>2, <2>3, GainLive
  <2> QED
    BY <1>1, <2>1, <2>2, <2>4 DEF Returns
<1>2. CASE ~(backend = "boolector" /\ o \in Shifts)
  <2> DEFINE r == New(s, s[t].w, Operation(o, s[t].w, s[t].x, s[u].x), Pair(s, t, u))
  <2>1. operation(s, o, t, u) = Result(r)
    BY <1>2 DEF operation
  <2>2. Makes(s, r, s[t].w)
    BY PairsMake
  <2> HIDE DEF r
  <2> QED
    BY <2>1, <2>2, OneMade
<1> QED
  BY <1>1, <1>2

LEMMA SameReturns ==
  ASSUME NEW s, IsStore(s), NEW t, Live(s, t)
  PROVE  Returns(s, Same(s, t), s[t].w)
<1>1. t \in 1 .. Len(s) /\ t \in Nat /\ Refs(s, t) \in Int /\ Refs(s, t) >= 0
  <2>1. t \in 1 .. Len(s) /\ t \in Nat
    BY StoreFacts DEF Live
  <2>2. Refs(s, t) \in Int
    BY <2>1, StoreFacts
  <2> QED
    BY <2>1, <2>2 DEF Live, Refs
<1> DEFINE r == incref(s, t)
<1>2. Gains(s, r, t)
  BY <1>1, IncrefGains
<1> HIDE DEF r
<1>3. Live(r, t) /\ r[t].w = s[t].w
  BY <1>2, GainLive
<1> QED
  BY <1>2, <1>3 DEF Returns, Same, r

LEMMA LenLater ==
  ASSUME NEW s, NEW r, Later(s, r)
  PROVE  Len(s) \in Nat /\ Len(r) \in Nat /\ Len(s) <= Len(r)
<1>1. IsStore(s) /\ IsStore(r) /\ Len(s) <= Len(r)
  BY DEF Later
<1>2. Len(s) \in Nat
  BY <1>1, StoreFacts
<1>3. Len(r) \in Nat
  BY <1>1, StoreFacts
<1> QED
  BY <1>1, <1>2, <1>3

LEMMA GainsThenTwoDrops ==
  ASSUME NEW s, NEW r, NEW q, NEW p, NEW p1, NEW p2, NEW a, NEW b, NEW c,
         Gains(s, r, a), Gains(r, q, b), Gains(q, p, c), Drops(p, p1, a), Drops(p1, p2, b)
  PROVE  Gains(s, p2, c)
<1>1. Later(s, r) /\ Later(r, q) /\ Later(q, p) /\ Later(p, p1) /\ Later(p1, p2) /\ c \in 1 .. Len(p)
  BY DEF Gains, Drops
<1>2. Later(s, q) /\ Later(p, p2)
  BY <1>1, LaterTrans
<1>3. Later(q, p2)
  BY <1>1, <1>2, LaterTrans
<1>4. Later(s, p2)
  BY <1>2, <1>3, LaterTrans
<1>5. c \in 1 .. Len(p2)
  BY <1>1, <1>2, LenLater
<1>6. ASSUME NEW i \in Nat PROVE Refs(p2, i) = Refs(s, i) + One(i, c)
  <2>1. /\ Refs(r, i) = Refs(s, i) + One(i, a)
        /\ Refs(q, i) = Refs(r, i) + One(i, b)
        /\ Refs(p, i) = Refs(q, i) + One(i, c)
        /\ Refs(p1, i) = Refs(p, i) - One(i, a)
        /\ Refs(p2, i) = Refs(p1, i) - One(i, b)
    BY DEF Gains, Drops
  <2>2. Refs(s, i) \in Int /\ One(i, a) \in Int /\ One(i, b) \in Int /\ One(i, c) \in Int
    BY Kinds
  <2> QED
    BY <2>1, <2>2
<1> QED
  BY <1>4, <1>5, <1>6 DEF Gains

-----------------------------------------------------------------------------
(* A bound of a range gains the comparison, and so does the range.         *)
Bounded(s, q) ==
  /\ Gains(s, q, Len(s) + 2) /\ Len(q) = Len(s) + 2
  /\ Live(q, Len(s) + 2) /\ q[Len(s) + 2].w = 1
  /\ \A u : Live(s, u) => Live(q, u) /\ q[u].w = s[u].w

LEMMA BoundGains ==
  ASSUME NEW s, IsStore(s), NEW t, Live(s, t), NEW p, NEW x
  PROVE  Bounded(s, CompareLast(bvconst(s, s[t].w, x), p, t))
<1> DEFINE r == bvconst(s, s[t].w, x)
           c == compare(r, p, t, Len(r))
           q == decref(c, Len(r))
<1>0. t \in 1 .. Len(s) /\ s[t].w \in Nat \ {0}
  BY StoreFacts DEF Live
<1>1. Makes(s, r, s[t].w)
  BY <1>0, ConstMakes
<1>2. CompareLast(r, p, t) = q
  BY DEF CompareLast
<1> HIDE DEF r
<1>3. /\ Live(r, Len(r)) /\ Live(r, t) /\ r[t].w = r[Len(r)].w /\ Len(r) = Len(s) + 1
      /\ IsStore(r) /\ Len(s) \in Nat /\ Gains(s, r, Len(r))
  BY <1>1, MakesLive
<1>4. Makes(r, c, 1)
  BY <1>3, PairsMake
<1> HIDE DEF c
<1>5. /\ Live(c, Len(r)) /\ Live(c, Len(r) + 1) /\ c[Len(r) + 1].w = 1 /\ Len(c) = Len(r) + 1
      /\ Gains(r, c, Len(r) + 1) /\ IsStore(c)
  BY <1>3, <1>4, MakesLive
<1>6. /\ Drops(c, q, Len(r)) /\ Len(q) = Len(c)
      /\ Live(q, Len(r) + 1) /\ q[Len(r) + 1].w = 1
  BY <1>3, <1>5, DropLive
<1> HIDE DEF q
<1>7. Gains(s, q, Len(r) + 1)
  BY <1>3, <1>5, <1>6, GainsThenDrops
<1>8. Len(r) + 1 = Len(s) + 2 /\ Len(q) = Len(s) + 2
  BY <1>3, <1>5, <1>6
<1>9. \A u : Live(s, u) => Live(q, u) /\ q[u].w = s[u].w
  BY <1>7, GainLive
<1>10. Bounded(s, q)
  BY <1>6, <1>7, <1>8, <1>9 DEF Bounded
<1> QED
  BY <1>2, <1>10 DEF r

LEMMA RangeGains ==
  ASSUME NEW s, IsStore(s), NEW t, Live(s, t), NEW lo, NEW hi, lo # hi
  PROVE  LET r == RangeConstraint(s, t, lo, hi)
         IN  Gains(s, r, Len(r)) /\ Live(r, Len(r))
<1> DEFINE L == Len(s)
           low == LowerBound(s, t, lo)
           up == UpperBound(s, t, hi)
           both == UpperBound(low, t, hi)
<1>0. L \in Nat
  BY StoreFacts
<1>1. /\ Gains(s, low, L + 2) /\ Len(low) = L + 2 /\ Live(low, L + 2) /\ low[L + 2].w = 1
      /\ \A u : Live(s, u) => Live(low, u)
  <2>1. Bounded(s, low)
    BY BoundGains DEF LowerBound
  <2> QED
    BY <2>1 DEF Bounded
<1>2. Gains(s, up, L + 2) /\ Len(up) = L + 2 /\ Live(up, L + 2)
  <2>1. Bounded(s, up)
    BY BoundGains DEF UpperBound
  <2> QED
    BY <2>1 DEF Bounded
<1>3. IsStore(low)
  BY <1>1, Kinds
<1> HIDE DEF low, up
<1>4. /\ Gains(low, both, L + 4) /\ Len(both) = L + 4 /\ Live(both, L + 4) /\ both[L + 4].w = 1
      /\ Live(both, L + 2) /\ both[L + 2].w = 1
  <2>1. Live(low, t)
    BY <1>1
  <2>2. /\ Gains(low, both, Len(low) + 2) /\ Len(both) = Len(low) + 2
        /\ Live(both, Len(low) + 2) /\ both[Len(low) + 2].w = 1
        /\ \A u : Live(low, u) => Live(both, u) /\ both[u].w = low[u].w
    <3>1. Bounded(low, both)
      BY <1>3, <2>1, BoundGains DEF UpperBound
    <3> QED
      BY <3>1 DEF Bounded
  <2>3. Len(low) + 2 = L + 4
    BY <1>0, <1>1
  <2> QED
    BY <1>1, <2>2, <2>3
<1>5. IsStore(both)
  BY <1>4, Kinds
<1> HIDE DEF both
<1>6. ASSUME NEW o, o \in {"and", "or"}
      PROVE  LET r == decref(decref(operation(both, o, L + 2, L + 4).store, L + 2), L + 4)
             IN  Gains(s, r, Len(r)) /\ Live(r, Len(r))
  <2> DEFINE c == operation(both, o, L + 2, L + 4).store
             d == decref(c, L + 2)
             r == decref(d, L + 4)
  <2>0. o \notin Shifts
    BY <1>6 DEF Shifts
  <2>1. Makes(both, c, 1)
    BY <1>4, <1>5, <2>0, OperationReturns
  <2> HIDE DEF c
  <2>2. /\ Live(c, L + 2) /\ Live(c, L + 4) /\ Live(c, L + 5) /\ Len(c) = L + 5
        /\ Gains(both, c, L + 5) /\ IsStore(c)
    BY <1>0, <1>4, <2>1, MakesLive
  <2>3. /\ Drops(c, d, L + 2) /\ Len(d) = L + 5 /\ IsStore(d)
        /\ Live(d, L + 4) /\ Live(d, L + 5)
    BY <1>0, <2>2, DropLive
  <2> HIDE DEF d
  <2>4. /\ Drops(d, r, L + 4) /\ Len(r) = L + 5 /\ Live(r, L + 5)
    BY <1>0, <2>3, DropLive
  <2> HIDE DEF r
  <2>5. Gains(s, r, L + 5)
    BY <1>1, <1>4, <2>2, <2>3, <2>4, GainsThenTwoDrops
  <2>6. Gains(s, r, Len(r)) /\ Live(r, Len(r))
    BY <2>4, <2>5
  <2> QED
    BY <2>6 DEF r, d, c
<1>7. CASE lo = 0
  <2>1. RangeConstraint(s, t, lo, hi) = up
    BY <1>7 DEF RangeConstraint, up
  <2> QED
    BY <1>2, <2>1
<1>8. CASE lo # 0 /\ hi = 0
  <2>1. RangeConstraint(s, t, lo, hi) = low
    BY <1>8 DEF RangeConstraint, low
  <2> QED
    BY <1>1, <2>1
<1>9. CASE lo # 0 /\ hi # 0
  <2>1. RangeConstraint(s, t, lo, hi) =
          decref(decref(operation(both, IF lo <= hi THEN "and" ELSE "or", L + 2, L + 4).store, L + 2), L + 4)
    BY <1>9 DEF RangeConstraint, both, low
  <2> QED
    BY <1>6, <2>1
<1> QED
  BY <1>7, <1>8, <1>9

-----------------------------------------------------------------------------
(* Addresses.  The values in the cache have terms of their widths.         *)
CachedIn(s) ==
  /\ IsStore(s)
  /\ \A v \in DOMAIN cache : Live(s, cache[v]) /\ s[cache[v]].w = Val(v).w

LEMMA StillCached ==
  ASSUME NEW s, NEW r, NEW t, CachedIn(s), Gains(s, r, t)
  PROVE  CachedIn(r)
<1>1. IsStore(r)
  BY Kinds
<1>2. ASSUME NEW v \in DOMAIN cache PROVE Live(r, cache[v]) /\ r[cache[v]].w = Val(v).w
  <2>1. Live(s, cache[v]) /\ s[cache[v]].w = Val(v).w
    BY DEF CachedIn
  <2> QED
    BY <2>1, GainLive
<1> QED
  BY <1>1, <1>2 DEF CachedIn

LEMMA PtrIndexReturns ==
  ASSUME NEW s, IsStore(s), NEW t, Live(s, t)
  PROVE  Returns(s, PtrIndex(s, t), PtrSize)
<1>0. PtrSize \in Nat \ {0} /\ s[t].w \in Nat \ {0}
  BY GenAssumption, StoreFacts DEF Live
<1>1. CASE s[t].w < PtrSize
  <2>1. PtrSize - s[t].w \in Nat /\ s[t].w + (PtrSize - s[t].w) = PtrSize
    BY <1>0, <1>1
  <2>2. Makes(s, sign_extend(s, PtrSize - s[t].w, t), s[t].w + (PtrSize - s[t].w))
    BY <2>1, CastsMake
  <2>3. PtrIndex(s, t) = Result(sign_extend(s, PtrSize - s[t].w, t))
    BY <1>0, <1>1 DEF PtrIndex
  <2> QED
    BY <2>1, <2>2, <2>3, OneMade
<1>2. CASE s[t].w > PtrSize
  <2>1. Makes(s, extract(s, PtrSize, t), PtrSize)
    <3>1. PtrSize \in 1 .. s[t].w
      BY <1>0, <1>2
    <3> QED
      BY <3>1, CastsMake
  <2>2. PtrIndex(s, t) = Result(extract(s, PtrSize, t))
    BY <1>0, <1>2 DEF PtrIndex
  <2> QED
    BY <2>1, <2>2, OneMade
<1>3. CASE s[t].w = PtrSize
  <2>1. PtrIndex(s, t) = Same(s, t)
    BY <1>0, <1>3 DEF PtrIndex, Same
  <2> QED
    BY <1>3, <2>1, SameReturns
<1> QED
  BY <1>0, <1>1, <1>2, <1>3

LEMMA DecrefLater ==
  ASSUME NEW s, NEW r, NEW t, Later(s, r), t \in 1 .. Len(r)
  PROVE  /\ Later(s, decref(r, t)) /\ Len(decref(r, t)) = Len(r)
         /\ \A i \in Nat : Refs(decref(r, t), i) = Refs(r, i) - One(i, t)
         /\ IsStore(decref(r, t))
<1>1. IsStore(r)
  BY DEF Later
<1>2. Drops(r, decref(r, t), t) /\ Len(decref(r, t)) = Len(r)
  BY <1>1, DecrefDrops
<1>3. Later(s, decref(r, t))
  BY <1>2, LaterTrans DEF Drops
<1> QED
  BY <1>2, <1>3, Kinds DEF Drops

LEMMA ProductReturns ==
  ASSUME NEW s, NEW offset, Returns(s, offset, PtrSize),
         NEW idx, Returns(offset.store, idx, PtrSize), NEW size
  PROVE  Returns(s, AddProduct(idx, size, offset.term), PtrSize)
<1> DEFINE r1 == idx.store
           n == Len(r1)
           a == offset.term
           b == idx.term
           r2 == bvconst(r1, PtrSize, size)
           r3 == operation(r2, "mul", b, n + 1).store
           r4 == operation(r3, "add", a, n + 2).store
           r5 == decref(r4, b)
           r6 == decref(r5, n + 1)
           r7 == decref(r6, a)
           r8 == decref(r7, n + 2)
<1>0. PtrSize \in Nat \ {0} /\ "mul" \notin Shifts /\ "add" \notin Shifts
  BY GenAssumption DEF Shifts
<1>1. /\ Gains(s, offset.store, a) /\ Gains(offset.store, r1, b)
      /\ Live(r1, b) /\ r1[b].w = PtrSize /\ Live(r1, a) /\ r1[a].w = PtrSize
  BY GainLive DEF Returns
<1>2. IsStore(r1) /\ n \in Nat
  BY <1>1, Kinds, StoreFacts
<1>3. AddProduct(idx, size, a) = [store |-> r8, term |-> n + 3]
  BY DEF AddProduct
<1> HIDE DEF r1, a, b
<1>4. Makes(r1, r2, PtrSize)
  BY <1>0, <1>2, ConstMakes
<1> HIDE DEF r2
<1>5. /\ Live(r2, n + 1) /\ r2[n + 1].w = PtrSize /\ Len(r2) = n + 1 /\ IsStore(r2)
      /\ Gains(r1, r2, n + 1)
      /\ Live(r2, b) /\ r2[b].w = PtrSize /\ Live(r2, a) /\ r2[a].w = PtrSize
  BY <1>1, <1>4, MakesLive
<1>6. Makes(r2, r3, PtrSize)
  BY <1>0, <1>5, OperationReturns
<1> HIDE DEF r3
<1>7. /\ Live(r3, n + 2) /\ r3[n + 2].w = PtrSize /\ Len(r3) = n + 2 /\ IsStore(r3)
      /\ Gains(r2, r3, n + 2) /\ Live(r3, a) /\ r3[a].w = PtrSize
      /\ Live(r3, b) /\ Live(r3, n + 1)
  BY <1>2, <1>5, <1>6, MakesLive
<1>8. Makes(r3, r4, PtrSize)
  BY <1>0, <1>7, OperationReturns
<1> HIDE DEF r4
<1>9. /\ Gains(r3, r4, n + 3) /\ Len(r4) = n + 3 /\ r4[n + 3].w = PtrSize
      /\ Live(r4, a) /\ Live(r4, b) /\ Live(r4, n + 1) /\ Live(r4, n + 2)
  BY <1>2, <1>7, <1>8, MakesLive
<1>10. Later(s, r4)
  <2>1. Later(s, offset.store) /\ Later(offset.store, r1) /\ Later(r1, r2) /\ Later(r2, r3) /\ Later(r3, r4)
    BY <1>1, <1>5, <1>7, <1>9 DEF Gains
  <2>2. Later(s, r1)
    BY <2>1, LaterTrans
  <2>3. Later(s, r2)
    BY <2>1, <2>2, LaterTrans
  <2>4. Later(s, r3)
    BY <2>1, <2>3, LaterTrans
  <2> QED
    BY <2>1, <2>4, LaterTrans
<1>11. a \in 1 .. n + 3 /\ b \in 1 .. n + 3 /\ n + 1 \in 1 .. n + 3 /\ n + 2 \in 1 .. n + 3
  BY <1>9 DEF Live
<1>12. /\ Later(s, r5) /\ Len(r5) = n + 3
       /\ \A i \in Nat : Refs(r5, i) = Refs(r4, i) - One(i, b)
  <2>1. Later(s, r4) /\ Len(r4) = n + 3 /\ b \in 1 .. Len(r4)
    BY <1>9, <1>10, <1>11
  <2> QED
    BY <2>1, DecrefLater
<1> HIDE DEF r5
<1>13. /\ Later(s, r6) /\ Len(r6) = n + 3
       /\ \A i \in Nat : Refs(r6, i) = Refs(r5, i) - One(i, n + 1)
  <2>1. Later(s, r5) /\ Len(r5) = n + 3 /\ n + 1 \in 1 .. Len(r5)
    BY <1>11, <1>12
  <2> QED
    BY <2>1, DecrefLater
<1> HIDE DEF r6
<1>14. /\ Later(s, r7) /\ Len(r7) = n + 3
       /\ \A i \in Nat : Refs(r7, i) = Refs(r6, i) - One(i, a)
  <2>1. Later(s, r6) /\ Len(r6) = n + 3 /\ a \in 1 .. Len(r6)
    BY <1>11, <1>13
  <2> QED
    BY <2>1, DecrefLater
<1> HIDE DEF r7
<1>15. /\ Later(s, r8) /\ Len(r8) = n + 3
       /\ \A i \in Nat : Refs(r8, i) = Refs(r7, i) - One(i, n + 2)
  <2>1. Later(s, r7) /\ Len(r7) = n + 3 /\ n + 2 \in 1 .. Len(r7)
    BY <1>11, <1>14
  <2> QED
    BY <2>1, DecrefLater
<1> HIDE DEF r8
<1>16. ASSUME NEW i \in Nat PROVE Refs(r8, i) = Refs(s, i) + One(i, n + 3)
  <2>1. /\ Refs(offset.store, i) = Refs(s, i) + One(i, a)
        /\ Refs(r1, i) = Refs(offset.store, i) + One(i, b)
        /\ Refs(r2, i) = Refs(r1, i) + One(i, n + 1)
        /\ Refs(r3, i) = Refs(r2, i) + One(i, n + 2)
        /\ Refs(r4, i) = Refs(r3, i) + One(i, n + 3)
    BY <1>1, <1>5, <1>7, <1>9 DEF Gains
  <2>2. /\ Refs(s, i) \in Int /\ One(i, a) \in Int /\ One(i, b) \in Int
        /\ One(i, n + 1) \in Int /\ One(i, n + 2) \in Int /\ One(i, n + 3) \in Int
    BY <1>1, Kinds
  <2>3. Refs(r4, i) = Refs(s, i) + One(i, a) + One(i, b) + One(i, n + 1) + One(i, n + 2) + One(i, n + 3)
    BY <2>1, <2>2
  <2>4. /\ Refs(r5, i) = Refs(r4, i) - One(i, b) /\ Refs(r6, i) = Refs(r5, i) - One(i, n + 1)
        /\ Refs(r7, i) = Refs(r6, i) - One(i, a) /\ Refs(r8, i) = Refs(r7, i) - One(i, n + 2)
    BY <1>12, <1>13, <1>14, <1>15
  <2> QED
    BY <2>2, <2>3, <2>4
<1>17. Gains(s, r8, n + 3)
  BY <1>2, <1>15, <1>16 DEF Gains
<1>18. r8[n + 3].w = PtrSize /\ Live(r8, n + 3)
  <2>1. Refs(s, n + 3) = 0
    <3>1. Len(s) <= n /\ IsStore(s) /\ Len(s) \in Nat
      <4>1. Later(s, offset.store) /\ Later(offset.store, r1)
        BY <1>1 DEF Gains
      <4>2. Later(s, r1)
        BY <4>1, LaterTrans
      <4> QED
        BY <4>2, LenLater DEF Later
    <3>2. n + 3 \in Nat /\ ~(n + 3 \in 1 .. Len(s))
      BY <1>2, <3>1
    <3> QED
      BY <3>1, <3>2, StoreFacts
  <2>2. Live(r8, n + 3)
    BY <1>17, <2>1, GainLive
  <2>3. Later(r4, r8)
    <3>1. Later(r4, r4)
      BY <1>10, LaterSelf, Kinds DEF Evens
    <3>2. Later(r4, r5)
      BY <1>9, <1>11, <3>1, DecrefLater DEF r5
    <3>3. Later(r4, r6)
      BY <1>11, <1>12, <3>2, DecrefLater DEF r6
    <3>4. Later(r4, r7)
      BY <1>11, <1>13, <3>3, DecrefLater DEF r7
    <3> QED
      BY <1>11, <1>14, <3>4, DecrefLater DEF r8
  <2> QED
    BY <1>2, <1>9, <2>2, <2>3 DEF Later
<1> QED
  BY <1>3, <1>17, <1>18 DEF Returns, r8, a

(* A term gained last is live, and keeps its width when others are given   *)
(* up.                                                                     *)
LEMMA NewReturns ==
  ASSUME NEW s, NEW r, NEW t, Gains(s, r, t), t > Len(s), r[t].w \in Nat
  PROVE  Returns(s, [store |-> r, term |-> t], r[t].w)
<1>1. t \in Nat /\ IsStore(s) /\ Len(s) \in Nat
  <2>1. IsStore(s) /\ IsStore(r) /\ t \in 1 .. Len(r)
    BY Kinds DEF Gains
  <2> QED
    BY <2>1, StoreFacts
<1>2. Refs(s, t) = 0
  <2>1. ~(t \in 1 .. Len(s))
    BY <1>1
  <2> QED
    BY <1>1, <2>1, StoreFacts
<1> QED
  BY <1>2, GainLive DEF Returns

LEMMA ConstReturns ==
  ASSUME NEW s, NEW offset, Returns(s, offset, PtrSize), NEW c
  PROVE  Returns(s, AddConst(offset, c), PtrSize)
<1> DEFINE r1 == offset.store
           n == Len(r1)
           a == offset.term
           r2 == bvconst(r1, PtrSize, c)
           r3 == operation(r2, "add", a, n + 1).store
           r4 == decref(r3, a)
           r5 == decref(r4, n + 1)
<1>0. PtrSize \in Nat \ {0} /\ "add" \notin Shifts
  BY GenAssumption DEF Shifts
<1>1. Gains(s, r1, a) /\ Live(r1, a) /\ r1[a].w = PtrSize
  BY DEF Returns
<1>2. IsStore(r1) /\ n \in Nat
  BY <1>1, Kinds, StoreFacts
<1>3. AddConst(offset, c) = IF c = 0 THEN offset ELSE [store |-> r5, term |-> n + 2]
  BY DEF AddConst
<1> HIDE DEF r1, a
<1>4. Makes(r1, r2, PtrSize)
  BY <1>0, <1>2, ConstMakes
<1> HIDE DEF r2
<1>5. /\ Live(r2, n + 1) /\ r2[n + 1].w = PtrSize /\ Len(r2) = n + 1 /\ IsStore(r2)
      /\ Gains(r1, r2, n + 1) /\ Live(r2, a) /\ r2[a].w = PtrSize
  BY <1>1, <1>4, MakesLive
<1>6. Makes(r2, r3, PtrSize)
  BY <1>0, <1>5, OperationReturns
<1> HIDE DEF r3
<1>7. /\ r3[n + 2].w = PtrSize /\ Len(r3) = n + 2 /\ IsStore(r3)
      /\ Gains(r2, r3, n + 2) /\ Live(r3, a) /\ Live(r3, n + 1)
  BY <1>2, <1>5, <1>6, MakesLive
<1>8. a \in 1 .. n + 2 /\ n + 1 \in 1 .. n + 2 /\ n + 2 \in 1 .. n + 2
  BY <1>2, <1>7 DEF Live
<1>9. Drops(r3, r4, a) /\ IsStore(r4) /\ Len(r4) = n + 2
  BY <1>7, <1>8, DecrefDrops, Kinds
<1> HIDE DEF r4
<1>10. Drops(r4, r5, n + 1) /\ Len(r5) = n + 2
  BY <1>8, <1>9, DecrefDrops
<1> HIDE DEF r5
<1>11. Gains(s, r5, n + 2)
  BY <1>1, <1>5, <1>7, <1>9, <1>10, GainsThenTwoDrops
<1>12. r5[n + 2].w = PtrSize
  BY <1>7, <1>8, <1>9, <1>10 DEF Drops, Later
<1>13. n + 2 > Len(s)
  <2>1. Later(s, r1)
    BY <1>1 DEF Gains
  <2> QED
    BY <1>2, <2>1, LenLater
<1>14. Returns(s, [store |-> r5, term |-> n + 2], PtrSize)
  BY <1>0, <1>11, <1>12, <1>13, NewReturns
<1> QED
  BY <1>3, <1>14

LEMMA IndexReturns ==
  ASSUME NEW s, CachedIn(s), NEW offset, Returns(s, offset, PtrSize),
         NEW i, i.by = "value" => i.val \in DOMAIN cache
  PROVE  Returns(s, AddIndex(offset, i), PtrSize)
<1>1. CASE i.by = "value"
  <2>1. CachedIn(offset.store)
    BY StillCached DEF Returns
  <2>2. IsStore(offset.store) /\ Live(offset.store, cache[i.val])
    BY <1>1, <2>1 DEF CachedIn
  <2>3. Returns(offset.store, PtrIndex(offset.store, cache[i.val]), PtrSize)
    BY <2>2, PtrIndexReturns
  <2>4. AddIndex(offset, i) =
          AddProduct(PtrIndex(offset.store, cache[i.val]), i.size, offset.term)
    BY <1>1 DEF AddIndex
  <2> QED
    BY <2>3, <2>4, ProductReturns
<1>2. CASE i.by # "value"
  BY <1>2 DEF AddIndex
<1> QED
  BY <1>1, <1>2

(* The offsets after the first n indices, a function defined by recursion. *)
Offsets(f, s, I, n) ==
  f = [i \in 0 .. n |-> IF i = 0 THEN Same(s, cache[I.a]) ELSE AddIndex(f[i - 1], I.index[i])]

LEMMA OffsetsExist ==
  ASSUME NEW s, NEW I
  PROVE  \A n \in Nat : \E f : Offsets(f, s, I, n)
<1> DEFINE First == Same(s, cache[I.a])
           Step(o, i) == AddIndex(o, I.index[i])
           T == { n \in Nat : \E f : Offsets(f, s, I, n) }
<1>0. \A n \in Nat : \A f : Offsets(f, s, I, n) <=>
        f = [i \in 0 .. n |-> IF i = 0 THEN First ELSE Step(f[i - 1], i)]
  BY DEF Offsets
<1> HIDE DEF First, Step
<1>1. 0 \in T
  <2> DEFINE f == [i \in 0 .. 0 |-> First]
  <2>1. f = [i \in 0 .. 0 |-> IF i = 0 THEN First ELSE Step(f[i - 1], i)]
    OBVIOUS
  <2> HIDE DEF f
  <2>2. Offsets(f, s, I, 0)
    BY <1>0, <2>1
  <2> QED
    BY <2>2
<1>2. ASSUME NEW n \in T PROVE n + 1 \in T
  <2>1. PICK f : f = [i \in 0 .. n |-> IF i = 0 THEN First ELSE Step(f[i - 1], i)]
    BY <1>0
  <2> DEFINE g == [i \in 0 .. n + 1 |-> IF i = n + 1 THEN Step(f[n], n + 1) ELSE f[i]]
  <2>2. \A i \in 0 .. n + 1 : g[i] = IF i = 0 THEN First ELSE Step(g[i - 1], i)
    <3> TAKE i \in 0 .. n + 1
    <3>1. CASE i = n + 1
      <4>1. i # 0 /\ i - 1 = n /\ n \in 0 .. n + 1 /\ n # n + 1
        BY <3>1
      <4> QED
        BY <3>1, <4>1
    <3>2. CASE i # n + 1
      <4>1. i \in 0 .. n /\ (i # 0 => i - 1 \in 0 .. n + 1 /\ i - 1 # n + 1)
        BY <3>2
      <4>2. f[i] = IF i = 0 THEN First ELSE Step(f[i - 1], i)
        BY <2>1, <4>1
      <4> QED
        BY <3>2, <4>1, <4>2
    <3> QED
      BY <3>1, <3>2
  <2>3. g = [i \in 0 .. n + 1 |-> g[i]]
    OBVIOUS
  <2> HIDE DEF g
  <2>4. g = [i \in 0 .. n + 1 |-> IF i = 0 THEN First ELSE Step(g[i - 1], i)]
    BY <2>2, <2>3
  <2>5. Offsets(g, s, I, n + 1)
    BY <1>0, <2>4
  <2> QED
    BY <2>5
<1>3. T \in SUBSET Nat
  OBVIOUS
<1> HIDE DEF T
<1>4. T = Nat
  BY <1>1, <1>2, <1>3, Counting
<1> QED
  BY <1>4 DEF T

LEMMA GEPReturns ==
  ASSUME NEW s, CachedIn(s), NEW I, I.a \in DOMAIN cache, s[cache[I.a]].w = PtrSize,
         Len(I.index) \in Nat,
         \A i \in 1 .. Len(I.index) : I.index[i].by = "value" => I.index[i].val \in DOMAIN cache
  PROVE  Returns(s, visitGEP(s, I), PtrSize)
<1> DEFINE N == Len(I.index)
           F == CHOOSE f : Offsets(f, s, I, N)
           T == { n \in Nat : n <= N => Returns(s, F[n], PtrSize) }
<1>1. visitGEP(s, I) = AddConst(F[N], ConstOffset(I))
  BY DEF visitGEP, Offsets
<1>2. Offsets(F, s, I, N)
  BY OffsetsExist
<1> HIDE DEF F
<1>3. \A i \in 0 .. N : F[i] = IF i = 0 THEN Same(s, cache[I.a]) ELSE AddIndex(F[i - 1], I.index[i])
  BY <1>2 DEF Offsets
<1>4. 0 \in T
  <2>1. IsStore(s) /\ Live(s, cache[I.a])
    BY DEF CachedIn
  <2>2. Returns(s, Same(s, cache[I.a]), PtrSize)
    BY <2>1, SameReturns
  <2>3. F[0] = Same(s, cache[I.a])
    BY <1>3
  <2> QED
    BY <2>2, <2>3
<1>5. ASSUME NEW n \in T PROVE n + 1 \in T
  <2> SUFFICES ASSUME n + 1 <= N PROVE Returns(s, F[n + 1], PtrSize)
    OBVIOUS
  <2>1. n \in Nat /\ n + 1 \in 1 .. N /\ Returns(s, F[n], PtrSize) /\ (n + 1) - 1 = n
    OBVIOUS
  <2>2. F[n + 1] = AddIndex(F[n], I.index[n + 1])
    BY <1>3, <2>1
  <2> HIDE DEF T
  <2>3. Returns(s, AddIndex(F[n], I.index[n + 1]), PtrSize)
    BY <2>1, IndexReturns
  <2> QED
    BY <2>2, <2>3
<1>6. T \in SUBSET Nat
  OBVIOUS
<1>7. Returns(s, F[N], PtrSize)
  <2> HIDE DEF T
  <2>1. T = Nat
    BY <1>4, <1>5, <1>6, Counting
  <2> QED
    BY <2>1 DEF T
<1> QED
  BY <1>1, <1>7, ConstReturns

-----------------------------------------------------------------------------
(* What a visit leaves: the condition of a range is given up at once.      *)
Kept(s, v) ==
  IF Val(v).kind = "fresh" /\ Constrained(Val(v))
  THEN decref(analyze(s, v).store, Len(analyze(s, v).store)) ELSE analyze(s, v).store

LEMMA FreshReturns ==
  ASSUME NEW s, IsStore(s), NEW v, Val(v).kind = "fresh", Val(v).w \in Nat \ {0}
  PROVE  Returns(s, [store |-> Kept(s, v), term |-> analyze(s, v).term], Val(v).w)
<1> DEFINE L == Len(s)
           w == Val(v).w
           s1 == bvconst(s, w, prog.fresh[v])
           r == RangeConstraint(s1, L + 1, Val(v).range[1], Val(v).range[2])
           q == decref(r, Len(r))
<1>1. analyze(s, v) = [store |-> visitFresh(s, v), term |-> L + 1]
  BY DEF analyze
<1>2. visitFresh(s, v) = IF Constrained(Val(v)) THEN r ELSE s1
  BY DEF visitFresh, bvconst
<1>3. Makes(s, s1, w)
  BY ConstMakes
<1> HIDE DEF s1
<1>4. /\ Gains(s, s1, L + 1) /\ Live(s1, L + 1) /\ s1[L + 1].w = w
      /\ IsStore(s1) /\ L \in Nat /\ Len(s1) = L + 1
  BY <1>3, MakesLive
<1>5. CASE Constrained(Val(v))
  <2>1. Val(v).range[1] # Val(v).range[2]
    BY <1>5 DEF Constrained
  <2>2. Gains(s1, r, Len(r)) /\ Live(r, Len(r))
    BY <1>4, <2>1, RangeGains
  <2> HIDE DEF r
  <2>3. IsStore(r) /\ Later(s1, r) /\ Len(r) \in Nat
    BY <2>2, Kinds, StoreFacts DEF Gains
  <2>4. Drops(r, q, Len(r))
    BY <2>2, <2>3, DropLive
  <2> HIDE DEF q
  <2>5. Later(s1, q)
    BY <2>3, <2>4, LaterTrans DEF Drops
  <2>6. Later(s, q)
    BY <1>4, <2>5, LaterTrans DEF Gains
  <2>7. ASSUME NEW i \in Nat PROVE Refs(q, i) = Refs(s, i) + One(i, L + 1)
    <3>1. /\ Refs(s1, i) = Refs(s, i) + One(i, L + 1)
          /\ Refs(r, i) = Refs(s1, i) + One(i, Len(r))
          /\ Refs(q, i) = Refs(r, i) - One(i, Len(r))
      BY <1>4, <2>2, <2>4 DEF Gains, Drops
    <3>2. Refs(s, i) \in Int /\ One(i, L + 1) \in Int /\ One(i, Len(r)) \in Int
      BY <1>4, Kinds
    <3> QED
      BY <3>1, <3>2
  <2>8. L + 1 \in 1 .. Len(q) /\ q[L + 1].w = w
    <3>1. Len(s1) <= Len(q) /\ Len(q) \in Nat
      BY <2>5, LenLater
    <3> QED
      BY <1>4, <2>5, <3>1 DEF Later
  <2>9. Gains(s, q, L + 1)
    BY <2>6, <2>7, <2>8 DEF Gains
  <2>10. Kept(s, v) = q
    BY <1>1, <1>2, <1>5 DEF Kept, q
  <2>11. Returns(s, [store |-> q, term |-> L + 1], w)
    BY <1>4, <2>8, <2>9, NewReturns
  <2> QED
    BY <1>1, <2>10, <2>11
<1>6. CASE ~Constrained(Val(v))
  <2>1. Kept(s, v) = s1
    BY <1>1, <1>2, <1>6 DEF Kept
  <2>2. Returns(s, [store |-> s1, term |-> L + 1], w)
    BY <1>4 DEF Returns
  <2> QED
    BY <1>1, <2>1, <2>2
<1> QED
  BY <1>5, <1>6

LEMMA AnalyzeReturns ==
  ASSUME NEW s, CachedIn(s), prog \in Programs, NEW v \in Places, Operands(v) \subseteq DOMAIN cache
  PROVE  Returns(s, [store |-> Kept(s, v), term |-> analyze(s, v).term], Val(v).w)
<1> DEFINE I == Val(v)
           R == analyze(s, v)
<1>0. Widths(prog, v) /\ I.w \in Nat \ {0} /\ IsStore(s)
  BY GenAssumption DEF IsProgram, Places, CachedIn, Widths, Val
<1>1. \A u \in DOMAIN cache : Live(s, cache[u]) /\ s[cache[u]].w = Val(u).w
  BY DEF CachedIn
<1>2. CASE I.kind = "fresh"
  BY <1>0, <1>2, FreshReturns
<1>3. ASSUME I.kind # "fresh", NEW r, analyze(s, v) = r, Returns(s, r, I.w)
      PROVE  Returns(s, [store |-> Kept(s, v), term |-> analyze(s, v).term], Val(v).w)
  BY <1>3 DEF Kept, Returns
<1>4. CASE I.kind = "const"
  <2>1. R = Result(bvconst(s, I.w, I.num))
    BY <1>4 DEF analyze
  <2>2. Returns(s, Result(bvconst(s, I.w, I.num)), I.w)
    BY <1>0, ConstMakes, OneMade
  <2> QED
    BY <1>3, <1>4, <2>1, <2>2
<1>5. CASE I.kind \in {"binary", "result"}
  <2>1. /\ I.a \in DOMAIN cache /\ I.b \in DOMAIN cache /\ Val(I.a).w = I.w /\ Val(I.b).w = I.w
        /\ I.kind = "binary" /\ I.op \in Shifts => I.w > 1
        /\ I.kind = "result" => I.op \in OverflowOps
    BY <1>0, <1>5 DEF Operands, OperandsOf, Widths, Val
  <2> DEFINE o == IF I.kind = "binary" THEN I.op ELSE Plain(I.op)
  <2>2. R = operation(s, o, cache[I.a], cache[I.b])
    BY <1>5 DEF analyze
  <2>3. o \in Shifts => I.w > 1
    BY <1>5, <2>1 DEF Plain, OverflowOps, SignedOps, Shifts
  <2> HIDE DEF o, R
  <2>4. Returns(s, operation(s, o, cache[I.a], cache[I.b]), I.w)
    BY <1>0, <1>1, <2>1, <2>3, OperationReturns
  <2> QED
    BY <1>3, <1>5, <2>2, <2>4 DEF R
<1>6. CASE I.kind \in {"icmp", "overflow"}
  <2>1. I.a \in DOMAIN cache /\ I.b \in DOMAIN cache /\ Val(I.a).w = Val(I.b).w /\ I.w = 1
    BY <1>0, <1>6 DEF Operands, OperandsOf, Widths, Val
  <2>2. /\ Makes(s, compare(s, I.pred, cache[I.a], cache[I.b]), 1)
        /\ Makes(s, overflow(s, I.op, cache[I.a], cache[I.b]), 1)
    BY <1>0, <1>1, <2>1, PairsMake
  <2>3. R = IF I.kind = "icmp" THEN Result(compare(s, I.pred, cache[I.a], cache[I.b]))
            ELSE Result(overflow(s, I.op, cache[I.a], cache[I.b]))
    BY <1>6 DEF analyze
  <2>4. Returns(s, R, I.w)
    BY <2>1, <2>2, <2>3, OneMade
  <2> QED
    BY <1>3, <1>6, <2>4
<1>7. CASE I.kind = "select"
  <2>1. /\ I.c \in DOMAIN cache /\ I.a \in DOMAIN cache /\ I.b \in DOMAIN cache
        /\ Val(I.c).w = 1 /\ Val(I.a).w = I.w /\ Val(I.b).w = I.w
    BY <1>0, <1>7 DEF Operands, OperandsOf, Widths, Val
  <2>2. Makes(s, ite(s, cache[I.c], cache[I.a], cache[I.b]), I.w)
    <3> DEFINE x == cache[I.a]
               y == cache[I.b]
               z == cache[I.c]
    <3>1. Live(s, x) /\ Live(s, y) /\ Live(s, z) /\ s[x].w = I.w /\ s[y].w = I.w /\ s[z].w = 1
      BY <1>1, <2>1
    <3> HIDE DEF x, y, z
    <3>2. Makes(s, ite(s, z, x, y), s[x].w)
      BY <1>0, <3>1, PairsMake
    <3> QED
      BY <3>1, <3>2 DEF x, y, z
  <2>3. R = Result(ite(s, cache[I.c], cache[I.a], cache[I.b]))
    BY <1>7 DEF analyze
  <2>4. Returns(s, R, I.w)
    BY <2>2, <2>3, OneMade
  <2> QED
    BY <1>3, <1>7, <2>4
<1>8. CASE I.kind = "gep"
  <2>1. /\ I.a \in DOMAIN cache /\ Val(I.a).w = PtrSize /\ I.w = PtrSize
        /\ Len(I.index) \in Nat /\ DOMAIN I.index = 1 .. Len(I.index)
    BY <1>0, <1>8 DEF Operands, OperandsOf, Widths, Val
  <2>2. \A i \in 1 .. Len(I.index) : I.index[i].by = "value" => I.index[i].val \in DOMAIN cache
    BY <1>8, <2>1 DEF Operands, OperandsOf
  <2>3. R = visitGEP(s, I)
    BY <1>8 DEF analyze
  <2>4. Returns(s, visitGEP(s, I), PtrSize)
    BY <1>1, <2>1, <2>2, GEPReturns
  <2> QED
    BY <1>3, <1>8, <2>1, <2>3, <2>4
<1>9. CASE I.kind = "ptrtoint"
  <2>1. I.a \in DOMAIN cache
    BY <1>9 DEF Operands, OperandsOf
  <2> DEFINE t == cache[I.a]
  <2>2. Live(s, t) /\ s[t].w \in Nat \ {0}
    BY <1>0, <1>1, <2>1, StoreFacts DEF Live
  <2>3. R = visitPtrToInt(s, I)
    BY <1>9 DEF analyze
  <2> HIDE DEF t
  <2>4. CASE I.w > s[t].w
    <3>1. I.w - s[t].w \in Nat /\ s[t].w + (I.w - s[t].w) = I.w
      BY <1>0, <2>2, <2>4
    <3>2. Makes(s, zero_extend(s, I.w - s[t].w, t), I.w)
      BY <1>0, <2>2, <3>1, CastsMake
    <3>3. visitPtrToInt(s, I) = Result(zero_extend(s, I.w - s[t].w, t))
      BY <1>0, <2>2, <2>4 DEF visitPtrToInt, t
    <3>4. Returns(s, R, I.w)
      BY <2>3, <3>2, <3>3, OneMade
    <3> QED
      BY <1>3, <1>9, <3>4
  <2>5. CASE I.w < s[t].w
    <3>1. I.w \in 1 .. s[t].w
      BY <1>0, <2>2, <2>5
    <3>2. Makes(s, extract(s, I.w, t), I.w)
      BY <1>0, <2>2, <3>1, CastsMake
    <3>3. visitPtrToInt(s, I) = Result(extract(s, I.w, t))
      BY <1>0, <2>2, <2>5 DEF visitPtrToInt, t
    <3>4. Returns(s, R, I.w)
      BY <2>3, <3>2, <3>3, OneMade
    <3> QED
      BY <1>3, <1>9, <3>4
  <2>6. CASE I.w = s[t].w
    <3>1. visitPtrToInt(s, I) = Same(s, t)
      BY <1>0, <2>2, <2>6 DEF visitPtrToInt, t
    <3>2. Returns(s, R, I.w)
      BY <1>0, <2>2, <2>3, <2>6, <3>1, SameReturns
    <3> QED
      BY <1>3, <1>9, <3>2
  <2> QED
    BY <1>0, <2>2, <2>4, <2>5, <2>6
<1>10. CASE I.kind = "bitcast"
  <2>1. I.a \in DOMAIN cache /\ Val(I.a).w = I.w
    BY <1>0, <1>10 DEF Operands, OperandsOf, Widths, Val
  <2>2. Returns(s, Same(s, cache[I.a]), I.w)
    BY <1>0, <1>1, <2>1, SameReturns
  <2>3. R = Same(s, cache[I.a])
    BY <1>10 DEF analyze
  <2> QED
    BY <1>3, <1>10, <2>2, <2>3
<1>11. CASE I.kind \in {"trunc", "zext", "sext"}
  <2>1. /\ I.a \in DOMAIN cache
        /\ I.kind = "trunc" => I.w <= Val(I.a).w
        /\ I.kind # "trunc" => I.w >= Val(I.a).w
    BY <1>0, <1>11 DEF Operands, OperandsOf, Widths, Val
  <2> DEFINE t == cache[I.a]
  <2>2. Live(s, t) /\ s[t].w \in Nat \ {0} /\ s[t].w = Val(I.a).w
    BY <1>0, <1>1, <2>1, StoreFacts DEF Live
  <2>3. R = Result(visitCast(s, I))
    BY <1>11 DEF analyze
  <2>4. visitCast(s, I) = IF I.kind = "trunc" THEN extract(s, I.w, t)
                          ELSE IF I.kind = "zext" THEN zero_extend(s, I.w - s[t].w, t)
                          ELSE sign_extend(s, I.w - s[t].w, t)
    BY <1>11 DEF visitCast
  <2> HIDE DEF t
  <2>5. CASE I.kind = "trunc"
    <3>1. I.w \in 1 .. s[t].w
      BY <1>0, <2>1, <2>2, <2>5
    <3>2. Makes(s, visitCast(s, I), I.w)
      BY <1>0, <2>2, <2>4, <2>5, <3>1, CastsMake
    <3>3. Returns(s, R, I.w)
      BY <2>3, <3>2, OneMade
    <3> QED
      BY <1>3, <2>5, <3>3
  <2>6. CASE I.kind # "trunc"
    <3>1. I.w - s[t].w \in Nat /\ s[t].w + (I.w - s[t].w) = I.w
      BY <1>0, <2>1, <2>2, <2>6
    <3>2. /\ Makes(s, zero_extend(s, I.w - s[t].w, t), I.w)
          /\ Makes(s, sign_extend(s, I.w - s[t].w, t), I.w)
      BY <1>0, <2>2, <3>1, CastsMake
    <3>3. Makes(s, visitCast(s, I), I.w)
      BY <2>4, <2>6, <3>2
    <3>4. Returns(s, R, I.w)
      BY <2>3, <3>3, OneMade
    <3> QED
      BY <1>3, <1>11, <3>4
  <2> QED
    BY <2>5, <2>6
<1>12. I.kind \in {"binary", "result", "icmp", "overflow", "fresh", "const", "select", "gep",
                   "trunc", "zext", "sext", "bitcast", "ptrtoint"}
  BY <1>0 DEF Widths, Val
<1> QED
  BY <1>2, <1>4, <1>5, <1>6, <1>7, <1>8, <1>9, <1>10, <1>11, <1>12

-----------------------------------------------------------------------------
(* The condition of a block.                                               *)
LEMMA TermGuardReturns ==
  ASSUME NEW s, CachedIn(s), prog.guard.cond \in DOMAIN cache, Val(prog.guard.cond).w = 1
  PROVE  Returns(s, TermGuard(s), 1)
<1> DEFINE e == cache[prog.guard.cond]
           L == Len(s)
           s1 == incref(s, e)
           s2 == bvnot(s1, e)
           s3 == decref(s2, e)
<1>1. IsStore(s) /\ Live(s, e) /\ s[e].w = 1
  BY DEF CachedIn
<1>2. TermGuard(s) = IF prog.guard.way THEN Same(s, e) ELSE [store |-> s3, term |-> L + 1]
  BY DEF TermGuard
<1>3. Returns(s, Same(s, e), 1)
  BY <1>1, SameReturns
<1> HIDE DEF e
<1>4. e \in 1 .. L /\ L \in Nat
  BY <1>1, StoreFacts DEF Live
<1>5. Gains(s, s1, e) /\ Len(s1) = L
  BY <1>1, <1>4, IncrefGains
<1> HIDE DEF s1
<1>6. Live(s1, e) /\ s1[e].w = 1 /\ IsStore(s1)
  BY <1>1, <1>5, GainLive, Kinds
<1>7. Makes(s1, s2, 1)
  BY <1>6, CastsMake
<1> HIDE DEF s2
<1>8. /\ Gains(s1, s2, L + 1) /\ s2[L + 1].w = 1 /\ Len(s2) = L + 1 /\ IsStore(s2)
      /\ Live(s2, e) /\ Live(s2, L + 1)
  BY <1>5, <1>6, <1>7, MakesLive
<1>9. Drops(s2, s3, e) /\ Len(s3) = L + 1 /\ s3[L + 1].w = 1
  BY <1>4, <1>8, DropLive
<1> HIDE DEF s3
<1>10. Gains(s, s3, L + 1)
  BY <1>5, <1>8, <1>9, GainsThenDrops
<1>11. Returns(s, [store |-> s3, term |-> L + 1], 1)
  BY <1>4, <1>9, <1>10, NewReturns
<1> QED
  BY <1>2, <1>3, <1>11

LEMMA PHIReturns ==
  ASSUME NEW s, CachedIn(s), NEW E, Returns(s, E, 1), NEW phi,
         phi.val \in DOMAIN cache, phi.from \in DOMAIN cache, Val(phi.val).w = Val(phi.from).w
  PROVE  Returns(s, AddPHI(E, phi), 1)
<1> DEFINE r1 == E.store
           n == Len(r1)
           a == E.term
           r2 == compare(r1, "eq", cache[phi.val], cache[phi.from])
           r3 == operation(r2, "and", a, n + 1).store
           r4 == decref(r3, a)
           r5 == decref(r4, n + 1)
<1>0. "and" \notin Shifts
  BY DEF Shifts
<1>1. Gains(s, r1, a) /\ Live(r1, a) /\ r1[a].w = 1
  BY DEF Returns
<1>2. IsStore(r1) /\ n \in Nat
  BY <1>1, Kinds, StoreFacts
<1>3. AddPHI(E, phi) = [store |-> r5, term |-> n + 2]
  <2>1. n + 1 + 1 = n + 2
    BY <1>2
  <2> QED
    BY <2>1 DEF AddPHI
<1>4. /\ Live(r1, cache[phi.val]) /\ Live(r1, cache[phi.from])
      /\ r1[cache[phi.val]].w = r1[cache[phi.from]].w
  BY <1>1, StillCached DEF CachedIn
<1> HIDE DEF r1, a
<1>5. Makes(r1, r2, 1)
  BY <1>2, <1>4, PairsMake
<1> HIDE DEF r2
<1>6. /\ Live(r2, n + 1) /\ r2[n + 1].w = 1 /\ Len(r2) = n + 1 /\ IsStore(r2)
      /\ Gains(r1, r2, n + 1) /\ Live(r2, a) /\ r2[a].w = 1
  BY <1>1, <1>5, MakesLive
<1>7. Makes(r2, r3, 1)
  BY <1>0, <1>6, OperationReturns
<1> HIDE DEF r3
<1>8. /\ r3[n + 2].w = 1 /\ Len(r3) = n + 2 /\ IsStore(r3)
      /\ Gains(r2, r3, n + 2) /\ Live(r3, a) /\ Live(r3, n + 1)
  BY <1>2, <1>6, <1>7, MakesLive
<1>9. a \in 1 .. n + 2 /\ n + 1 \in 1 .. n + 2 /\ n + 2 \in 1 .. n + 2
  BY <1>2, <1>8 DEF Live
<1>10. Drops(r3, r4, a) /\ IsStore(r4) /\ Len(r4) = n + 2
  BY <1>8, <1>9, DecrefDrops, Kinds
<1> HIDE DEF r4
<1>11. Drops(r4, r5, n + 1) /\ Len(r5) = n + 2
  BY <1>9, <1>10, DecrefDrops
<1> HIDE DEF r5
<1>12. Gains(s, r5, n + 2)
  BY <1>1, <1>6, <1>8, <1>10, <1>11, GainsThenTwoDrops
<1>13. r5[n + 2].w = 1
  BY <1>8, <1>9, <1>10, <1>11 DEF Drops, Later
<1>14. n + 2 > Len(s)
  <2>1. Later(s, r1)
    BY <1>1 DEF Gains
  <2> QED
    BY <1>2, <2>1, LenLater
<1>15. Returns(s, [store |-> r5, term |-> n + 2], 1)
  BY <1>12, <1>13, <1>14, NewReturns
<1> QED
  BY <1>3, <1>15

(* The conditions of the first n phis, a function defined by recursion.    *)
PHIGuards(f, s, n) ==
  f = [i \in 0 .. n |-> IF i = 0 THEN Result(bvconst(s, 1, 1)) ELSE AddPHI(f[i - 1], prog.phis[i])]

LEMMA PHIGuardsExist ==
  ASSUME NEW s
  PROVE  \A n \in Nat : \E f : PHIGuards(f, s, n)
<1> DEFINE First == Result(bvconst(s, 1, 1))
           Step(o, i) == AddPHI(o, prog.phis[i])
           T == { n \in Nat : \E f : PHIGuards(f, s, n) }
<1>0. \A n \in Nat : \A f : PHIGuards(f, s, n) <=>
        f = [i \in 0 .. n |-> IF i = 0 THEN First ELSE Step(f[i - 1], i)]
  BY DEF PHIGuards
<1> HIDE DEF First, Step
<1>1. 0 \in T
  <2> DEFINE f == [i \in 0 .. 0 |-> First]
  <2>1. f = [i \in 0 .. 0 |-> IF i = 0 THEN First ELSE Step(f[i - 1], i)]
    OBVIOUS
  <2> HIDE DEF f
  <2>2. PHIGuards(f, s, 0)
    BY <1>0, <2>1
  <2> QED
    BY <2>2
<1>2. ASSUME NEW n \in T PROVE n + 1 \in T
  <2>1. PICK f : f = [i \in 0 .. n |-> IF i = 0 THEN First ELSE Step(f[i - 1], i)]
    BY <1>0
  <2> DEFINE g == [i \in 0 .. n + 1 |-> IF i = n + 1 THEN Step(f[n], n + 1) ELSE f[i]]
  <2>2. \A i \in 0 .. n + 1 : g[i] = IF i = 0 THEN First ELSE Step(g[i - 1], i)
    <3> TAKE i \in 0 .. n + 1
    <3>1. CASE i = n + 1
      <4>1. i # 0 /\ i - 1 = n /\ n \in 0 .. n + 1 /\ n # n + 1
        BY <3>1
      <4> QED
        BY <3>1, <4>1
    <3>2. CASE i # n + 1
      <4>1. i \in 0 .. n /\ (i # 0 => i - 1 \in 0 .. n + 1 /\ i - 1 # n + 1)
        BY <3>2
      <4>2. f[i] = IF i = 0 THEN First ELSE Step(f[i - 1], i)
        BY <2>1, <4>1
      <4> QED
        BY <3>2, <4>1, <4>2
    <3> QED
      BY <3>1, <3>2
  <2>3. g = [i \in 0 .. n + 1 |-> g[i]]
    OBVIOUS
  <2> HIDE DEF g
  <2>4. g = [i \in 0 .. n + 1 |-> IF i = 0 THEN First ELSE Step(g[i - 1], i)]
    BY <2>2, <2>3
  <2>5. PHIGuards(g, s, n + 1)
    BY <1>0, <2>4
  <2> QED
    BY <2>5
<1>3. T \in SUBSET Nat
  OBVIOUS
<1> HIDE DEF T
<1>4. T = Nat
  BY <1>1, <1>2, <1>3, Counting
<1> QED
  BY <1>4 DEF T

LEMMA PHIGuardReturns ==
  ASSUME NEW s, CachedIn(s), Len(prog.phis) \in Nat,
         \A i \in 1 .. Len(prog.phis) :
           LET phi == prog.phis[i]
           IN  phi.val \in DOMAIN cache /\ phi.from \in DOMAIN cache /\ Val(phi.val).w = Val(phi.from).w
  PROVE  Returns(s, PHIGuard(s), 1)
<1> DEFINE N == Len(prog.phis)
           F == CHOOSE f : PHIGuards(f, s, N)
           T == { n \in Nat : n <= N => Returns(s, F[n], 1) }
<1>1. PHIGuard(s) = F[N]
  BY DEF PHIGuard, PHIGuards
<1>2. PHIGuards(F, s, N)
  BY PHIGuardsExist
<1> HIDE DEF F
<1>3. \A i \in 0 .. N : F[i] = IF i = 0 THEN Result(bvconst(s, 1, 1)) ELSE AddPHI(F[i - 1], prog.phis[i])
  BY <1>2 DEF PHIGuards
<1>4. 0 \in T
  <2>1. IsStore(s) /\ 1 \in Nat \ {0}
    BY DEF CachedIn
  <2>2. Makes(s, bvconst(s, 1, 1), 1)
    BY <2>1, ConstMakes
  <2>3. F[0] = Result(bvconst(s, 1, 1))
    BY <1>3
  <2> QED
    BY <2>2, <2>3, OneMade
<1>5. ASSUME NEW n \in T PROVE n + 1 \in T
  <2> SUFFICES ASSUME n + 1 <= N PROVE Returns(s, F[n + 1], 1)
    OBVIOUS
  <2>1. n \in Nat /\ n + 1 \in 1 .. N /\ Returns(s, F[n], 1) /\ (n + 1) - 1 = n
    OBVIOUS
  <2>2. F[n + 1] = AddPHI(F[n], prog.phis[n + 1])
    BY <1>3, <2>1
  <2> HIDE DEF T
  <2>3. Returns(s, AddPHI(F[n], prog.phis[n + 1]), 1)
    BY <2>1, PHIReturns
  <2> QED
    BY <2>2, <2>3
<1>6. T \in SUBSET Nat
  OBVIOUS
<1>7. Returns(s, F[N], 1)
  <2> HIDE DEF T
  <2>1. T = Nat
    BY <1>4, <1>5, <1>6, Counting
  <2> QED
    BY <2>1 DEF T
<1> QED
  BY <1>1, <1>7

LEMMA BlockGuardReturns ==
  ASSUME NEW s, CachedIn(s), prog \in Programs, ~InEntry, DOMAIN cache = Places,
         NEW entry, Live(s, entry), s[entry].w = 1
  PROVE  Returns(s, Result(BlockGuard(s, entry)), 1)
<1> DEFINE g == Len(s) + 1
           r0 == bvconst(s, 1, 0)
           term == TermGuard(r0)
           pn == PHIGuard(term.store)
           r1 == term.store
           t == term.term
           r2 == pn.store
           p == pn.term
           n == Len(r2)
           a0 == operation(r2, "and", t, p).store
           a1 == decref(a0, t)
           a2 == decref(a1, p)
           b0 == operation(a2, "and", n + 1, entry).store
           b1 == decref(b0, n + 1)
           c0 == operation(b1, "or", g, n + 2).store
           c1 == decref(c0, g)
           c2 == decref(c1, n + 2)
<1>0. "and" \notin Shifts /\ "or" \notin Shifts /\ 1 \in Nat \ {0}
  BY DEF Shifts
<1>1. /\ prog.guard.cond \in DOMAIN cache /\ Val(prog.guard.cond).w = 1 /\ Len(prog.phis) \in Nat
      /\ \A i \in 1 .. Len(prog.phis) :
           LET phi == prog.phis[i]
           IN  phi.val \in DOMAIN cache /\ phi.from \in DOMAIN cache /\ Val(phi.val).w = Val(phi.from).w
  BY GenAssumption DEF IsProgram, Places, Val, InEntry
<1>2. BlockGuard(s, entry) = c2
  BY DEF BlockGuard, AlongEdge, OrEdge
<1>3. IsStore(s)
  BY DEF CachedIn
<1>4. Makes(s, r0, 1)
  BY <1>0, <1>3, ConstMakes
<1> HIDE DEF r0
<1>5. /\ Gains(s, r0, g) /\ Live(r0, g) /\ r0[g].w = 1 /\ Live(r0, entry) /\ r0[entry].w = 1
      /\ Len(r0) = g /\ Len(s) \in Nat
  BY <1>4, MakesLive
<1>6. CachedIn(r0)
  BY <1>5, StillCached
<1>7. Gains(r0, r1, t) /\ Live(r1, t) /\ r1[t].w = 1
  <2>1. Returns(r0, TermGuard(r0), 1)
    BY <1>1, <1>6, TermGuardReturns
  <2> QED
    BY <2>1 DEF Returns
<1>8. CachedIn(r1)
  BY <1>6, <1>7, StillCached
<1>9. Gains(r1, r2, p) /\ Live(r2, p) /\ r2[p].w = 1
  <2>1. Returns(r1, PHIGuard(r1), 1)
    BY <1>1, <1>8, PHIGuardReturns
  <2> QED
    BY <2>1 DEF Returns
<1> HIDE DEF r1, t, r2, p
<1>10. Live(r2, t) /\ r2[t].w = 1 /\ IsStore(r2)
  BY <1>7, <1>9, GainLive, Kinds
<1>11. g <= n /\ n \in Nat /\ g \in Nat
  <2>1. Later(r0, r1) /\ Later(r1, r2)
    BY <1>7, <1>9 DEF Gains
  <2>2. Later(r0, r2)
    BY <2>1, LaterTrans
  <2> QED
    BY <1>5, <2>2, LenLater
<1>12. Makes(r2, a0, 1)
  BY <1>0, <1>9, <1>10, OperationReturns
<1> HIDE DEF a0
<1>13. /\ Gains(r2, a0, n + 1) /\ Len(a0) = n + 1 /\ a0[n + 1].w = 1 /\ IsStore(a0)
       /\ Live(a0, t) /\ Live(a0, p)
  BY <1>9, <1>10, <1>12, MakesLive
<1>14. t \in 1 .. n + 1 /\ p \in 1 .. n + 1 /\ n + 1 \in 1 .. n + 1
  BY <1>11, <1>13 DEF Live
<1>15. Drops(a0, a1, t) /\ Len(a1) = n + 1 /\ IsStore(a1)
  BY <1>13, <1>14, DecrefDrops, Kinds
<1> HIDE DEF a1
<1>16. Drops(a1, a2, p) /\ Len(a2) = n + 1 /\ IsStore(a2)
  BY <1>14, <1>15, DecrefDrops, Kinds
<1> HIDE DEF a2
<1>17. Gains(r0, a2, n + 1)
  BY <1>7, <1>9, <1>13, <1>15, <1>16, GainsThenTwoDrops
<1>18. a2[n + 1].w = 1 /\ n + 1 > Len(r0)
  BY <1>5, <1>11, <1>13, <1>14, <1>15, <1>16 DEF Drops, Later
<1>19. Returns(r0, [store |-> a2, term |-> n + 1], 1)
  BY <1>0, <1>17, <1>18, NewReturns
<1>20. /\ Live(a2, n + 1) /\ Live(a2, g) /\ a2[g].w = 1 /\ Live(a2, entry) /\ a2[entry].w = 1
  BY <1>5, <1>17, <1>19, GainLive DEF Returns
<1>21. Makes(a2, b0, 1)
  BY <1>0, <1>16, <1>18, <1>20, OperationReturns
<1> HIDE DEF b0
<1>22. /\ Gains(a2, b0, n + 2) /\ Len(b0) = n + 2 /\ b0[n + 2].w = 1 /\ IsStore(b0)
       /\ Live(b0, n + 1) /\ Live(b0, n + 2) /\ Live(b0, g) /\ b0[g].w = 1
  <2>1. Len(a2) + 1 = n + 2
    BY <1>11, <1>16
  <2> QED
    BY <1>20, <1>21, <2>1, MakesLive
<1>23. /\ Drops(b0, b1, n + 1) /\ Len(b1) = n + 2 /\ IsStore(b1)
       /\ Live(b1, n + 2) /\ b1[n + 2].w = 1 /\ Live(b1, g) /\ b1[g].w = 1
  <2>1. g # n + 1 /\ n + 2 # n + 1
    BY <1>11
  <2> QED
    BY <1>22, <2>1, DropLive
<1> HIDE DEF b1
<1>24. Gains(r0, b1, n + 2)
  BY <1>17, <1>22, <1>23, GainsThenDrops
<1>25. Makes(b1, c0, 1)
  BY <1>0, <1>23, OperationReturns
<1> HIDE DEF c0
<1>26. /\ Gains(b1, c0, n + 3) /\ Len(c0) = n + 3 /\ c0[n + 3].w = 1 /\ IsStore(c0)
  <2>1. Len(b1) + 1 = n + 3
    BY <1>11, <1>23
  <2> QED
    BY <1>25, <2>1, MakesLive
<1>27. g \in 1 .. n + 3 /\ n + 2 \in 1 .. n + 3 /\ n + 3 \in 1 .. n + 3
  BY <1>5, <1>11
<1>28. Drops(c0, c1, g) /\ Len(c1) = n + 3 /\ IsStore(c1)
  BY <1>26, <1>27, DecrefDrops, Kinds
<1> HIDE DEF c1
<1>29. Drops(c1, c2, n + 2) /\ Len(c2) = n + 3
  BY <1>27, <1>28, DecrefDrops, Kinds
<1> HIDE DEF c2
<1>30. Gains(s, c2, n + 3)
  BY <1>5, <1>24, <1>26, <1>28, <1>29, GainsThenTwoDrops
<1>31. c2[n + 3].w = 1 /\ n + 3 > Len(s)
  BY <1>5, <1>11, <1>26, <1>27, <1>28, <1>29 DEF Drops, Later
<1>32. Returns(s, [store |-> c2, term |-> n + 3], 1)
  BY <1>0, <1>30, <1>31, NewReturns
<1> QED
  BY <1>2, <1>29, <1>32 DEF Result

(* A query leaves as many references as there were.                        *)
LEMMA MadeAndGivenUp ==
  ASSUME NEW s, NEW r, NEW w, Makes(s, r, w)
  PROVE  Evens(s, decref(r, Len(s) + 1))
<1> DEFINE n == Len(s) + 1
           q == decref(r, n)
<1>1. Gains(s, r, n) /\ IsStore(r) /\ n \in 1 .. Len(r) /\ Later(s, r)
  BY MakesLive DEF Live
<1>2. Drops(r, q, n)
  BY <1>1, DecrefDrops
<1> HIDE DEF q, n
<1>3. Later(s, q)
  BY <1>1, <1>2, LaterTrans DEF Drops
<1>4. ASSUME NEW i \in Nat PROVE Refs(q, i) = Refs(s, i)
  <2>1. Refs(r, i) = Refs(s, i) + One(i, n) /\ Refs(q, i) = Refs(r, i) - One(i, n)
    BY <1>1, <1>2 DEF Gains, Drops
  <2>2. Refs(s, i) \in Int /\ One(i, n) \in Int
    BY <1>1, Kinds
  <2> QED
    BY <2>1, <2>2
<1> QED
  BY <1>3, <1>4 DEF Evens, q, n

LEMMA AskEvens ==
  ASSUME NEW s, IsStore(s), NEW t, Live(s, t), s[t].w = 1, Live(s, PathPred), s[PathPred].w = 1
  PROVE  Evens(s, Ask(s, t))
<1>1. "and" \notin Shifts
  BY DEF Shifts
<1>2. Makes(s, operation(s, "and", t, PathPred).store, 1)
  BY <1>1, OperationReturns
<1> QED
  BY <1>2, MadeAndGivenUp DEF Ask

Negated(s, t) == decref(Ask(bvnot(s, t), Len(s) + 1), Len(s) + 1)

LEMMA NegatedEvens ==
  ASSUME NEW s, IsStore(s), NEW t, Live(s, t), s[t].w = 1, Live(s, PathPred), s[PathPred].w = 1
  PROVE  Evens(s, Negated(s, t))
<1> DEFINE n == Len(s) + 1
           r == bvnot(s, t)
           q == Ask(r, n)
           p == decref(q, n)
<1>1. Makes(s, r, 1)
  BY CastsMake
<1>0. Negated(s, t) = p
  BY DEF Negated
<1> HIDE DEF r
<1>2. /\ Gains(s, r, n) /\ Live(r, n) /\ r[n].w = 1 /\ IsStore(r) /\ Later(s, r)
      /\ Live(r, PathPred) /\ r[PathPred].w = 1 /\ n \in 1 .. Len(r) /\ Len(r) \in Nat
  BY <1>1, MakesLive, StoreFacts DEF Live
<1>3. Evens(r, q)
  BY <1>2, AskEvens
<1> HIDE DEF q
<1>4. Later(r, q) /\ IsStore(q) /\ n \in 1 .. Len(q)
  <2>1. Later(r, q)
    BY <1>3 DEF Evens
  <2> QED
    BY <1>2, <2>1, LenLater, Kinds
<1>5. Drops(q, p, n)
  BY <1>4, DecrefDrops
<1> HIDE DEF n
<1> HIDE DEF p
<1>6. Later(s, p)
  BY <1>2, <1>4, <1>5, LaterTrans DEF Drops
<1>7. ASSUME NEW i \in Nat PROVE Refs(p, i) = Refs(s, i)
  <2>1. /\ Refs(r, i) = Refs(s, i) + One(i, n) /\ Refs(q, i) = Refs(r, i)
        /\ Refs(p, i) = Refs(q, i) - One(i, n)
    BY <1>2, <1>3, <1>5 DEF Gains, Drops, Evens
  <2>2. Refs(s, i) \in Int /\ One(i, n) \in Int
    BY <1>2, Kinds
  <2> QED
    BY <2>1, <2>2
<1> QED
  BY <1>0, <1>6, <1>7 DEF Evens

-----------------------------------------------------------------------------
(* How often terms are held, by values or by blocks.                       *)
Count(held, t) == IF backend = "z3" THEN 0 ELSE Cardinality(Holders(held, t))

LEMMA CountFacts ==
  ASSUME NEW held, IsFiniteSet(DOMAIN held)
  PROVE  /\ \A t : IsFiniteSet(Holders(held, t)) /\ Count(held, t) \in Nat
         /\ \A h \in DOMAIN held : backend # "z3" => Count(held, held[h]) > 0
<1>1. ASSUME NEW t PROVE IsFiniteSet(Holders(held, t)) /\ Cardinality(Holders(held, t)) \in Nat
  <2>1. Holders(held, t) \in SUBSET (DOMAIN held)
    BY DEF Holders
  <2>2. IsFiniteSet(Holders(held, t))
    BY <2>1, FS_Subset
  <2> QED
    BY <2>2, FS_CardinalityType
<1>2. ASSUME NEW h \in DOMAIN held PROVE Cardinality(Holders(held, held[h])) # 0
  <2>1. h \in Holders(held, held[h])
    BY DEF Holders
  <2> QED
    BY <1>1, <2>1, FS_EmptySet
<1> QED
  BY <1>1, <1>2 DEF Count

LEMMA CountNothing == \A t : Count(<< >>, t) = 0
<1>1. \A t : Holders(<< >>, t) = {}
  BY DEF Holders
<1> QED
  BY <1>1, FS_EmptySet DEF Count

(* One more value holds a term.                                            *)
Added(held, v, t) == [u \in DOMAIN held \cup {v} |-> IF u = v THEN t ELSE held[u]]

LEMMA CountAdded ==
  ASSUME NEW held, IsFiniteSet(DOMAIN held), NEW v, v \notin DOMAIN held, NEW t
  PROVE  \A i : Count(Added(held, v, t), i) = Count(held, i) + One(i, t)
<1> SUFFICES ASSUME NEW i PROVE Count(Added(held, v, t), i) = Count(held, i) + One(i, t)
  OBVIOUS
<1> DEFINE S == Holders(held, i)
<1>1. Holders(Added(held, v, t), i) = IF i = t THEN S \cup {v} ELSE S
  BY DEF Holders, Added
<1>2. v \notin S
  BY DEF Holders
<1>3. IsFiniteSet(S)
  BY CountFacts
<1> HIDE DEF S
<1>4. Cardinality(S \cup {v}) = Cardinality(S) + 1 /\ Cardinality(S) \in Nat
  BY <1>2, <1>3, FS_AddElement, FS_CardinalityType
<1> QED
  BY <1>1, <1>4 DEF Count, One, S

(* The references of holders are given up together.                        *)
LEMMA ReleasedFacts ==
  ASSUME NEW s, IsStore(s), NEW held, IsFiniteSet(DOMAIN held)
  PROVE  /\ Later(s, Released(s, held)) /\ Len(Released(s, held)) = Len(s)
         /\ \A i \in 1 .. Len(s) : Refs(Released(s, held), i) = Refs(s, i) - Count(held, i)
<1> DEFINE N(i) == Cardinality(Holders(held, i))
           e(i) == [s[i] EXCEPT !.refs = @ - N(i)]
           r == [i \in DOMAIN s |-> e(i)]
<1>0. \A i : N(i) \in Nat
  BY CountFacts, FS_CardinalityType
<1>1. CASE backend = "z3"
  <2>1. Released(s, held) = s
    BY <1>1 DEF Released
  <2>2. Later(s, s)
    BY LaterSelf DEF Evens
  <2>3. \A i \in 1 .. Len(s) : Refs(s, i) = 0 /\ Count(held, i) = 0
    BY <1>1 DEF Refs, Count
  <2> QED
    BY <2>1, <2>2, <2>3
<1>2. CASE backend # "z3"
  <2>1. Released(s, held) = r
    BY <1>2 DEF Released
  <2>2. PICK X : s \in Seq(Entries(X))
    BY DEF IsStore
  <2>3. /\ Len(s) \in Nat /\ DOMAIN s = 1 .. Len(s)
        /\ \A i \in 1 .. Len(s) : s[i] \in Entries(X)
    BY <2>2, LenProperties, ElementOfSeq
  <2> HIDE DEF N
  <2>4. ASSUME NEW i \in 1 .. Len(s)
        PROVE  /\ e(i) \in Entries(X) /\ e(i).w = s[i].w /\ e(i).x = s[i].x
               /\ e(i).refs = s[i].refs - N(i)
    <3> DEFINE m == s[i].refs - N(i)
    <3>1. s[i] \in Entries(X) /\ m \in Int
      <4>1. s[i].refs \in Int /\ N(i) \in Nat
        BY <1>0, <2>3 DEF Entries
      <4> QED
        BY <2>3, <4>1
    <3>2. e(i) = [s[i] EXCEPT !.refs = m]
      OBVIOUS
    <3> HIDE DEF e, m
    <3>3. e(i) \in Entries(X) /\ e(i).w = s[i].w /\ e(i).x = s[i].x /\ e(i).refs = m
      BY <3>1, <3>2 DEF Entries
    <3> QED
      BY <3>3 DEF m
  <2> HIDE DEF e
  <2>5. r = [i \in 1 .. Len(s) |-> e(i)]
    BY <2>3
  <2> HIDE DEF r
  <2>6. r \in [1 .. Len(s) -> Entries(X)]
    BY <2>4, <2>5
  <2>7. r \in Seq(Entries(X))
    BY <2>3, <2>6, SeqDef
  <2>8. Len(r) = Len(s)
    BY <2>3, <2>6, <2>7, LenProperties
  <2>9. \A i \in 1 .. Len(s) : r[i] = e(i)
    BY <2>5
  <2>10. IsStore(r)
    BY <1>2, <2>7 DEF IsStore
  <2>11. Later(s, r)
    BY <2>3, <2>4, <2>8, <2>9, <2>10 DEF Later
  <2>12. \A i \in 1 .. Len(s) : Refs(r, i) = Refs(s, i) - Count(held, i)
    BY <1>2, <2>4, <2>8, <2>9 DEF Refs, Count, N
  <2> QED
    BY <2>1, <2>8, <2>11, <2>12
<1> QED
  BY <1>1, <1>2

-----------------------------------------------------------------------------
(* The references to a term are those of the values and blocks that hold   *)
(* it: c holds the terms of values, p those of blocks.                     *)
Accounted(s, c, p) ==
  /\ IsStore(s)
  /\ \A v \in DOMAIN c : Live(s, c[v]) /\ s[c[v]].w = Val(v).w
  /\ \A i \in DOMAIN p : Live(s, p[i]) /\ s[p[i]].w = 1
  /\ \A i \in Nat : Refs(s, i) = Count(c, i) + Count(p, i)

LEMMA ValueAccounted ==
  ASSUME NEW s, NEW c, NEW p, Accounted(s, c, p), IsFiniteSet(DOMAIN c), IsFiniteSet(DOMAIN p),
         NEW v, v \notin DOMAIN c, NEW r, Returns(s, r, Val(v).w)
  PROVE  Accounted(r.store, Added(c, v, r.term), p)
<1> DEFINE q == r.store
           t == r.term
           d == Added(c, v, t)
<1>1. Gains(s, q, t) /\ Live(q, t) /\ q[t].w = Val(v).w
  BY DEF Returns
<1> HIDE DEF q, t
<1>2. IsStore(q) /\ \A u : Live(s, u) => Live(q, u) /\ q[u].w = s[u].w
  BY <1>1, GainLive, Kinds
<1>3. ASSUME NEW u \in DOMAIN d PROVE Live(q, d[u]) /\ q[d[u]].w = Val(u).w
  <2>1. CASE u = v
    BY <1>1, <2>1 DEF Added
  <2>2. CASE u # v
    <3>1. u \in DOMAIN c /\ d[u] = c[u]
      BY <2>2 DEF Added
    <3> QED
      BY <1>2, <3>1 DEF Accounted
  <2> QED
    BY <2>1, <2>2
<1>4. \A i \in DOMAIN p : Live(q, p[i]) /\ q[p[i]].w = 1
  BY <1>2 DEF Accounted
<1>5. ASSUME NEW i \in Nat PROVE Refs(q, i) = Count(d, i) + Count(p, i)
  <2>1. Refs(q, i) = Refs(s, i) + One(i, t) /\ Refs(s, i) = Count(c, i) + Count(p, i)
    BY <1>1 DEF Gains, Accounted
  <2>2. Count(d, i) = Count(c, i) + One(i, t)
    BY CountAdded
  <2>3. Count(c, i) \in Nat /\ Count(p, i) \in Nat /\ One(i, t) \in Int
    BY CountFacts, Kinds
  <2> QED
    BY <2>1, <2>2, <2>3
<1> HIDE DEF d
<1>6. Accounted(q, d, p)
  BY <1>2, <1>3, <1>4, <1>5 DEF Accounted
<1> QED
  BY <1>6 DEF d, q, t

LEMMA BlockAccounted ==
  ASSUME NEW s, NEW c, NEW p, Accounted(s, c, p), IsFiniteSet(DOMAIN c), IsFiniteSet(DOMAIN p),
         NEW b, b \notin DOMAIN p, NEW r, Returns(s, r, 1)
  PROVE  Accounted(r.store, c, Added(p, b, r.term))
<1> DEFINE q == r.store
           t == r.term
           d == Added(p, b, t)
<1>1. Gains(s, q, t) /\ Live(q, t) /\ q[t].w = 1
  BY DEF Returns
<1> HIDE DEF q, t
<1>2. IsStore(q) /\ \A u : Live(s, u) => Live(q, u) /\ q[u].w = s[u].w
  BY <1>1, GainLive, Kinds
<1>3. ASSUME NEW u \in DOMAIN d PROVE Live(q, d[u]) /\ q[d[u]].w = 1
  <2>1. CASE u = b
    BY <1>1, <2>1 DEF Added
  <2>2. CASE u # b
    <3>1. u \in DOMAIN p /\ d[u] = p[u]
      BY <2>2 DEF Added
    <3> QED
      BY <1>2, <3>1 DEF Accounted
  <2> QED
    BY <2>1, <2>2
<1>4. \A v \in DOMAIN c : Live(q, c[v]) /\ q[c[v]].w = Val(v).w
  BY <1>2 DEF Accounted
<1>5. ASSUME NEW i \in Nat PROVE Refs(q, i) = Count(c, i) + Count(d, i)
  <2>1. Refs(q, i) = Refs(s, i) + One(i, t) /\ Refs(s, i) = Count(c, i) + Count(p, i)
    BY <1>1 DEF Gains, Accounted
  <2>2. Count(d, i) = Count(p, i) + One(i, t)
    BY CountAdded
  <2>3. Count(c, i) \in Nat /\ Count(p, i) \in Nat /\ One(i, t) \in Int
    BY CountFacts, Kinds
  <2> QED
    BY <2>1, <2>2, <2>3
<1> HIDE DEF d
<1>6. Accounted(q, c, d)
  BY <1>2, <1>3, <1>4, <1>5 DEF Accounted
<1> QED
  BY <1>6 DEF d, q, t

LEMMA EvenAccounted ==
  ASSUME NEW s, NEW c, NEW p, Accounted(s, c, p), NEW r, Evens(s, r)
  PROVE  Accounted(r, c, p)
<1>1. Later(s, r) /\ IsStore(s) /\ IsStore(r)
  BY DEF Evens, Later
<1>2. ASSUME NEW u, Live(s, u) PROVE Live(r, u) /\ r[u].w = s[u].w
  <2>1. u \in Nat
    BY <1>1, <1>2, StoreFacts DEF Live
  <2>2. Refs(s, u) <= Refs(r, u)
    <3>1. Refs(s, u) \in Int
      BY <1>1, <2>1, StoreFacts
    <3> QED
      BY <2>1, <3>1 DEF Evens
  <2> QED
    BY <1>1, <1>2, <2>2, StillLive
<1> QED
  BY <1>1, <1>2 DEF Accounted, Evens

(* When the terms of blocks, or of values, are given up, none is left that *)
(* only they held.                                                         *)
LEMMA ReleaseAccounted ==
  ASSUME NEW s, NEW c, NEW p, Accounted(s, c, p), IsFiniteSet(DOMAIN c), IsFiniteSet(DOMAIN p)
  PROVE  /\ Accounted(Released(s, p), c, << >>)
         /\ p = << >> => Accounted(Released(s, c), << >>, << >>)
<1> DEFINE r == Released(s, p)
           q == Released(s, c)
<1>1. IsStore(s) /\ \A i : Count(c, i) \in Nat /\ Count(p, i) \in Nat /\ Count(<< >>, i) = 0
  BY CountFacts, CountNothing DEF Accounted
<1>2. \A i \in Nat : ~(i \in 1 .. Len(s)) => Count(c, i) = 0 /\ Count(p, i) = 0
  <2> SUFFICES ASSUME NEW i \in Nat, ~(i \in 1 .. Len(s))
               PROVE  Count(c, i) = 0 /\ Count(p, i) = 0
    OBVIOUS
  <2>1. Refs(s, i) = 0
    BY <1>1, StoreFacts
  <2>2. Refs(s, i) = Count(c, i) + Count(p, i)
    BY DEF Accounted
  <2> QED
    BY <1>1, <2>1, <2>2
<1>3. /\ Later(s, r) /\ Len(r) = Len(s)
      /\ \A i \in 1 .. Len(s) : Refs(r, i) = Refs(s, i) - Count(p, i)
  BY <1>1, ReleasedFacts
<1>4. /\ Later(s, q) /\ Len(q) = Len(s)
      /\ \A i \in 1 .. Len(s) : Refs(q, i) = Refs(s, i) - Count(c, i)
  BY <1>1, ReleasedFacts
<1> HIDE DEF r, q
<1>5. IsStore(r) /\ IsStore(q)
  BY <1>3, <1>4 DEF Later
<1>6. ASSUME NEW i \in Nat PROVE Refs(r, i) = Count(c, i) + Count(<< >>, i)
  <2>1. CASE i \in 1 .. Len(s)
    <3>1. Refs(r, i) = Refs(s, i) - Count(p, i) /\ Refs(s, i) = Count(c, i) + Count(p, i)
      BY <1>3, <2>1 DEF Accounted
    <3> QED
      BY <1>1, <3>1
  <2>2. CASE ~(i \in 1 .. Len(s))
    <3>1. Refs(r, i) = 0
      BY <1>3, <1>5, <2>2, StoreFacts
    <3> QED
      BY <1>1, <1>2, <2>2, <3>1
  <2> QED
    BY <2>1, <2>2
<1>7. ASSUME NEW v \in DOMAIN c PROVE Live(r, c[v]) /\ r[c[v]].w = Val(v).w
  <2>1. Live(s, c[v]) /\ s[c[v]].w = Val(v).w
    BY DEF Accounted
  <2>2. c[v] \in 1 .. Len(s) /\ c[v] \in Nat
    BY <1>1, <2>1, StoreFacts DEF Live
  <2>3. r[c[v]].w = s[c[v]].w
    BY <1>3, <2>2 DEF Later
  <2>4. backend # "z3" => Count(c, c[v]) > 0
    BY CountFacts
  <2>5. Refs(r, c[v]) = Count(c, c[v]) + Count(<< >>, c[v])
    BY <1>6, <2>2
  <2> QED
    BY <1>1, <1>3, <2>1, <2>2, <2>3, <2>4, <2>5 DEF Live
<1>8. Accounted(r, c, << >>)
  BY <1>5, <1>6, <1>7 DEF Accounted
<1>9. ASSUME p = << >>, NEW i \in Nat PROVE Refs(q, i) = Count(<< >>, i) + Count(<< >>, i)
  <2>1. CASE i \in 1 .. Len(s)
    <3>1. /\ Refs(q, i) = Refs(s, i) - Count(c, i) /\ Refs(s, i) = Count(c, i) + Count(p, i)
          /\ Count(p, i) = 0
      BY <1>1, <1>4, <1>9, <2>1 DEF Accounted
    <3> QED
      BY <1>1, <3>1
  <2>2. CASE ~(i \in 1 .. Len(s))
    <3>1. Refs(q, i) = 0
      BY <1>4, <1>5, <2>2, StoreFacts
    <3> QED
      BY <1>1, <3>1
  <2> QED
    BY <2>1, <2>2
<1>10. p = << >> => Accounted(q, << >>, << >>)
  BY <1>5, <1>9 DEF Accounted
<1> QED
  BY <1>8, <1>10 DEF r, q

LEMMA PathAdded ==
  /\ \A a : Added(<< >>, 1, a) = <<a>> /\ DOMAIN <<a>> = {1} /\ IsFiniteSet(DOMAIN <<a>>)
  /\ \A a, b : /\ Added(<<a>>, 2, b) = <<a, b>> /\ DOMAIN <<a, b>> = {1, 2}
               /\ IsFiniteSet(DOMAIN <<a, b>>)
<1>1. ASSUME NEW a PROVE Added(<< >>, 1, a) = <<a>> /\ DOMAIN <<a>> = {1}
  <2>1. DOMAIN << >> \cup {1} = {1} /\ DOMAIN <<a>> = {1} /\ <<a>>[1] = a
    OBVIOUS
  <2>2. Added(<< >>, 1, a) = [u \in {1} |-> a]
    BY <2>1 DEF Added
  <2> QED
    BY <2>1, <2>2
<1>2. ASSUME NEW a, NEW b PROVE Added(<<a>>, 2, b) = <<a, b>> /\ DOMAIN <<a, b>> = {1, 2}
  <2>1. DOMAIN <<a>> \cup {2} = {1, 2} /\ DOMAIN <<a, b>> = {1, 2}
    OBVIOUS
  <2>2. <<a>>[1] = a /\ <<a, b>>[1] = a /\ <<a, b>>[2] = b
    OBVIOUS
  <2>3. Added(<<a>>, 2, b) = [u \in {1, 2} |-> IF u = 2 THEN b ELSE a]
    BY <2>1, <2>2 DEF Added
  <2> QED
    BY <2>1, <2>2, <2>3
<1>3. IsFiniteSet({1}) /\ IsFiniteSet({1} \cup {2})
  BY FS_Singleton, FS_AddElement
<1>4. {1} \cup {2} = {1, 2}
  OBVIOUS
<1>5. \A a : IsFiniteSet(DOMAIN <<a>>)
  BY <1>1, <1>3
<1>6. \A a, b : IsFiniteSet(DOMAIN <<a, b>>)
  BY <1>2, <1>3, <1>4
<1> QED
  BY <1>1, <1>2, <1>5, <1>6

(* What holds while a query is made: the values visited and the blocks     *)
(* have live terms of their widths, and there are no other references.     *)
GenInv ==
  /\ prog \in Programs
  /\ DOMAIN cache \subseteq Places
  /\ IsFiniteSet(DOMAIN path)
  /\ phase \in {"ask", "again"} => DOMAIN cache = Places /\ Len(path) \in DOMAIN path
  /\ phase \in {"freeValues", "end"} => path = << >>
  /\ phase = "end" => cache = << >>
  /\ Accounted(terms, cache, path)

LEMMA CacheFinite == GenInv => IsFiniteSet(DOMAIN cache)
<1> SUFFICES ASSUME GenInv PROVE IsFiniteSet(DOMAIN cache)
  OBVIOUS
<1>1. Places = 1 .. Len(prog.vals) /\ Len(prog.vals) \in Nat
  BY GenAssumption DEF GenInv, IsProgram, Places
<1>2. IsFiniteSet(Places)
  BY <1>1, FS_Interval
<1> QED
  BY <1>2, FS_Subset DEF GenInv

LEMMA CacheIn == GenInv => CachedIn(terms)
BY DEF GenInv, Accounted, CachedIn

(* What a solver is does not change.                                       *)
LEMMA AccountedNext ==
  ASSUME backend' = backend, prog' = prog, Accounted(terms', cache', path')
  PROVE  Accounted(terms, cache, path)'
BY DEF Accounted, IsStore, Live, Refs, Count, Holders, Val

LEMMA GenInitially == GenInit => GenInv
<1> SUFFICES ASSUME GenInit PROVE GenInv
  OBVIOUS
<1>1. IsStore(<< >>)
  <2>1. << >> \in Seq(Entries({})) /\ 1 .. Len(<< >>) = {}
    OBVIOUS
  <2> QED
    BY <2>1 DEF IsStore
<1>2. \A i \in Nat : Refs(<< >>, i) = 0 /\ Count(<< >>, i) = 0
  BY CountNothing DEF Refs
<1>3. Accounted(<< >>, << >>, << >>)
  BY <1>1, <1>2 DEF Accounted
<1>4. IsFiniteSet(DOMAIN << >>) /\ DOMAIN << >> = {}
  BY FS_EmptySet
<1> QED
  BY <1>3, <1>4 DEF GenInit, GenInv

LEMMA VisitStep ==
  ASSUME GenInv, NEW v \in Places, Visit(v)
  PROVE  GenInv'
<1> DEFINE q == Kept(terms, v)
           t == analyze(terms, v).term
<1>1. /\ phase = "build" /\ phase' = phase /\ backend' = backend /\ prog' = prog /\ path' = path
      /\ v \notin DOMAIN cache /\ Operands(v) \subseteq DOMAIN cache
  BY DEF Visit, Ready
<1>2. terms' = q /\ cache' = Added(cache, v, t)
  BY DEF Visit, Kept, Added
<1>3. Returns(terms, [store |-> q, term |-> t], Val(v).w)
  BY <1>1, CacheIn, AnalyzeReturns DEF GenInv
<1> HIDE DEF q, t
<1>4. Accounted(q, Added(cache, v, t), path)
  <2> DEFINE r == [store |-> q, term |-> t]
  <2>1. r.store = q /\ r.term = t
    OBVIOUS
  <2>2. Returns(terms, r, Val(v).w)
    BY <1>3
  <2> HIDE DEF r
  <2> QED
    BY <1>1, <2>1, <2>2, CacheFinite, ValueAccounted DEF GenInv
<1>5. Accounted(terms, cache, path)'
  BY <1>1, <1>2, <1>4, AccountedNext
<1>6. DOMAIN cache' \subseteq Places'
  BY <1>1, <1>2 DEF Added, GenInv, Places
<1> QED
  BY <1>1, <1>5, <1>6 DEF GenInv

LEMMA GuardStep ==
  ASSUME GenInv, Guard
  PROVE  GenInv'
<1> DEFINE n == Len(terms) + 1
           s1 == bvconst(terms, 1, 1)
           s2 == BlockGuard(s1, Len(s1))
<1>1. /\ phase' = "ask" /\ backend' = backend /\ prog' = prog /\ cache' = cache
      /\ path = << >> /\ DOMAIN cache = Places
      /\ terms' = IF InEntry THEN s1 ELSE s2
      /\ path' = IF InEntry THEN <<n>> ELSE <<n, Len(terms')>>
  BY DEF Guard
<1>2. Makes(terms, s1, 1)
  <2>1. IsStore(terms) /\ 1 \in Nat \ {0}
    BY DEF GenInv, Accounted
  <2> QED
    BY <2>1, ConstMakes
<1>3. Returns(terms, [store |-> s1, term |-> n], 1) /\ Len(s1) = n
  BY <1>2, OneMade, MakesLive DEF Result
<1> HIDE DEF s1
<1>4. CachedIn(s1) /\ Live(s1, n) /\ s1[n].w = 1
  <2>1. Gains(terms, s1, n) /\ Live(s1, n) /\ s1[n].w = 1
    BY <1>3 DEF Returns
  <2> QED
    BY <2>1, CacheIn, StillCached
<1>5. Accounted(s1, cache, <<n>>)
  <2> DEFINE r == [store |-> s1, term |-> n]
  <2>1. Returns(terms, r, 1) /\ r.store = s1 /\ r.term = n
    BY <1>3
  <2> HIDE DEF r
  <2>2. Accounted(terms, cache, << >>) /\ IsFiniteSet(DOMAIN cache) /\ IsFiniteSet(DOMAIN << >>)
        /\ 1 \notin DOMAIN << >>
    BY <1>1, CacheFinite DEF GenInv
  <2>3. Accounted(s1, cache, Added(<< >>, 1, n))
    BY <2>1, <2>2, BlockAccounted
  <2> QED
    BY <2>3, PathAdded
<1> HIDE DEF n
<1>6. CASE InEntry
  <2>1. Accounted(terms, cache, path)'
    BY <1>1, <1>5, <1>6, AccountedNext
  <2>2. Len(path') \in DOMAIN path' /\ IsFiniteSet(DOMAIN path')
    BY <1>1, <1>6, PathAdded
  <2> QED
    BY <1>1, <2>1, <2>2 DEF GenInv, Places
<1>7. CASE ~InEntry
  <2>1. Returns(s1, Result(s2), 1)
    BY <1>1, <1>3, <1>4, <1>7, BlockGuardReturns DEF GenInv
  <2> DEFINE m == Len(s2)
             r == Result(s2)
  <2>2. r.store = s2 /\ r.term = m
    BY DEF Result
  <2> HIDE DEF r, s2
  <2>3. /\ IsFiniteSet(DOMAIN cache) /\ IsFiniteSet(DOMAIN <<n>>) /\ 2 \notin DOMAIN <<n>>
        /\ Returns(s1, r, 1)
    BY <2>1, CacheFinite, PathAdded DEF r
  <2>4. Accounted(s2, cache, Added(<<n>>, 2, m))
    BY <1>5, <2>2, <2>3, BlockAccounted
  <2>5. Accounted(s2, cache, <<n, m>>)
    BY <2>4, PathAdded
  <2>6. terms' = s2 /\ path' = <<n, m>>
    BY <1>1, <1>7
  <2>7. Accounted(terms, cache, path)'
    BY <1>1, <2>5, <2>6, AccountedNext
  <2>8. Len(path') \in DOMAIN path' /\ IsFiniteSet(DOMAIN path')
    BY <2>6, PathAdded
  <2> QED
    BY <1>1, <2>7, <2>8 DEF GenInv, Places
<1> QED
  BY <1>6, <1>7

LEMMA QuerySteps ==
  ASSUME GenInv, Query \/ QueryNegation
  PROVE  GenInv'
<1> DEFINE t == cache[prog.query]
<1>1. /\ phase \in {"ask", "again"} /\ phase' \in {"again", "freePaths"}
      /\ backend' = backend /\ prog' = prog /\ cache' = cache /\ path' = path
      /\ terms' = Ask(terms, t) \/ terms' = Negated(terms, t)
  BY DEF Query, QueryNegation, Negated
<1>2. prog.query \in Places /\ Val(prog.query).w = 1
  BY GenAssumption DEF GenInv, IsProgram, Places, Val
<1>3. IsStore(terms) /\ Live(terms, t) /\ terms[t].w = 1
  BY <1>1, <1>2 DEF GenInv, Accounted
<1>4. Live(terms, PathPred) /\ terms[PathPred].w = 1
  BY <1>1 DEF GenInv, Accounted, PathPred
<1> HIDE DEF t
<1>5. Evens(terms, terms')
  BY <1>1, <1>3, <1>4, AskEvens, NegatedEvens
<1>6. Accounted(terms', cache, path)
  BY <1>5, EvenAccounted DEF GenInv
<1>7. Accounted(terms, cache, path)'
  BY <1>1, <1>6, AccountedNext
<1> QED
  BY <1>1, <1>7 DEF GenInv, Places

LEMMA FreeSteps ==
  ASSUME GenInv, FreePaths \/ FreeValues
  PROVE  GenInv'
<1>0. /\ Accounted(terms, cache, path) /\ IsFiniteSet(DOMAIN cache) /\ IsFiniteSet(DOMAIN path)
      /\ IsFiniteSet(DOMAIN << >>) /\ DOMAIN << >> = {}
  BY CacheFinite, FS_EmptySet DEF GenInv
<1>1. CASE FreePaths
  <2>1. /\ terms' = Released(terms, path) /\ path' = << >> /\ phase' = "freeValues"
        /\ backend' = backend /\ prog' = prog /\ cache' = cache
    BY <1>1 DEF FreePaths
  <2>2. Accounted(Released(terms, path), cache, << >>)
    BY <1>0, ReleaseAccounted
  <2>3. Accounted(terms, cache, path)'
    BY <2>1, <2>2, AccountedNext
  <2> QED
    BY <1>0, <2>1, <2>3 DEF GenInv, Places
<1>2. CASE FreeValues
  <2>1. /\ terms' = Released(terms, cache) /\ path' = path /\ phase' = "end" /\ phase = "freeValues"
        /\ backend' = backend /\ prog' = prog /\ cache' = << >>
    BY <1>2 DEF FreeValues
  <2>2. path = << >>
    BY <2>1 DEF GenInv
  <2>3. Accounted(Released(terms, cache), << >>, << >>)
    BY <1>0, <2>2, ReleaseAccounted
  <2>4. Accounted(terms, cache, path)'
    BY <2>1, <2>2, <2>3, AccountedNext
  <2> QED
    BY <1>0, <2>1, <2>2, <2>4 DEF GenInv, Places
<1> QED
  BY <1>1, <1>2

LEMMA GenSteps == GenInv /\ [GenNext]_genVars => GenInv'
<1> SUFFICES ASSUME GenInv, [GenNext]_genVars PROVE GenInv'
  OBVIOUS
<1>1. CASE \E v \in Places : Visit(v)
  BY <1>1, VisitStep
<1>2. CASE Guard
  BY <1>2, GuardStep
<1>3. CASE Query \/ QueryNegation
  BY <1>3, QuerySteps
<1>4. CASE FreePaths \/ FreeValues
  BY <1>4, FreeSteps
<1>5. CASE UNCHANGED genVars
  <2>1. /\ backend' = backend /\ prog' = prog /\ cache' = cache /\ path' = path /\ phase' = phase
        /\ terms' = terms
    BY <1>5 DEF genVars
  <2>2. Accounted(terms, cache, path)'
    BY <2>1, AccountedNext DEF GenInv
  <2> QED
    BY <2>1, <2>2 DEF GenInv, Places
<1> QED
  BY <1>1, <1>2, <1>3, <1>4, <1>5 DEF GenNext, GenEnded

LEMMA GenInvariant == GenSpec => []GenInv
BY GenInitially, GenSteps, PTL DEF GenSpec

(* Whatever the program, the solver and the order in which arguments are   *)
(* visited, no call of the solver has a term that was released before, or  *)
(* words of two widths, or takes bits a word does not have: not for        *)
(* addresses, Boolector's shifts, ranges, conditions of blocks or queries. *)
THEOREM CallsAlwaysLegal == GenSpec => []CallsLegal
<1>1. GenInv => CallsLegal
  <2> SUFFICES ASSUME GenInv PROVE CallsLegal
    OBVIOUS
  <2>1. IsStore(terms)
    BY DEF GenInv, Accounted
  <2>2. DOMAIN terms = 1 .. Len(terms) /\ \A t \in 1 .. Len(terms) : terms[t].legal = TRUE
    BY <2>1, StoreFacts
  <2> QED
    BY <2>2 DEF CallsLegal
<1> QED
  BY <1>1, GenInvariant, PTL

(* No reference is given up that is not held, and none is held when the    *)
(* solver is deleted, which asserts it (src/SMTBoolector.cc:41).           *)
THEOREM TermsBalanced == GenSpec => []Balanced
<1>1. GenInv => Balanced
  <2> SUFFICES ASSUME GenInv, backend # "z3", NEW t \in DOMAIN terms
               PROVE  terms[t].refs >= 0 /\ (phase = "end" => terms[t].refs = 0)
    BY DEF Balanced
  <2>1. IsStore(terms)
    BY DEF GenInv, Accounted
  <2>2. t \in 1 .. Len(terms) /\ t \in Nat
    BY <2>1, StoreFacts
  <2>3. terms[t].refs = Count(cache, t) + Count(path, t)
    BY <2>2 DEF GenInv, Accounted, Refs
  <2>4. Count(cache, t) \in Nat /\ Count(path, t) \in Nat
    BY CacheFinite, CountFacts DEF GenInv
  <2>5. phase = "end" => Count(cache, t) = 0 /\ Count(path, t) = 0
    BY CountNothing DEF GenInv
  <2> QED
    BY <2>3, <2>4, <2>5
<1> QED
  BY <1>1, GenInvariant, PTL

-----------------------------------------------------------------------------
(* Arithmetic of words: numbers that differ by a multiple of the modulus   *)
(* wrap to the same word.                                                  *)
LEMMA Division ==
  ASSUME NEW M \in Nat, M > 0, NEW i \in Int
  PROVE  /\ i \div M \in Int
         /\ Wrap(M, i) \in Word(M) /\ Wrap(M, i) \in Int
         /\ i = M * (i \div M) + Wrap(M, i)
BY DEF Word, Wrap

LEMMA UniqueDivision ==
  ASSUME NEW M \in Nat, M > 0, NEW i \in Int, NEW q \in Int, NEW x \in Word(M), i = M * q + x
  PROVE  Wrap(M, i) = x /\ i \div M = q
<1> DEFINE d == i \div M
<1>1. Wrap(M, i) \in 0 .. M - 1 /\ i = M * d + Wrap(M, i) /\ d \in Int
  BY Division DEF Word
<1>0. x \in 0 .. M - 1
  BY DEF Word
<1> HIDE DEF d
<1>2. CASE d <= q - 1
  <2>1. M * d <= M * (q - 1)
    BY <1>1, <1>2
  <2>2. M * (q - 1) = M * q - M
    OBVIOUS
  <2> QED
    BY <1>0, <1>1, <2>1, <2>2
<1>3. CASE d >= q + 1
  <2>1. M * d >= M * (q + 1)
    BY <1>1, <1>3
  <2>2. M * (q + 1) = M * q + M
    OBVIOUS
  <2> QED
    BY <1>0, <1>1, <2>1, <2>2
<1>4. CASE d = q
  <2>1. M * d = M * q /\ M * d \in Int /\ Wrap(M, i) \in Int
    BY <1>1, <1>4
  <2>2. Wrap(M, i) = x
    BY <1>0, <1>1, <2>1
  <2> QED
    BY <1>4, <2>2 DEF d
<1> QED
  BY <1>1, <1>2, <1>3, <1>4

LEMMA WrapInside ==
  ASSUME NEW M \in Nat, M > 0, NEW i \in Word(M)
  PROVE  Wrap(M, i) = i
BY DEF Word, Wrap

Cong(M, a, b) == \E k \in Int : a = b + M * k

LEMMA CongWrap ==
  ASSUME NEW M \in Nat, M > 0, NEW a \in Int, NEW b \in Int, Cong(M, a, b)
  PROVE  Wrap(M, a) = Wrap(M, b)
<1>1. PICK k \in Int : a = b + M * k
  BY DEF Cong
<1> DEFINE d == b \div M
           x == Wrap(M, b)
           q == d + k
<1>2. d \in Int /\ x \in Word(M) /\ x \in Int /\ b = M * d + x
  BY Division
<1> HIDE DEF d, x
<1>3. q \in Int /\ M * q = M * d + M * k
  BY <1>2
<1> HIDE DEF q
<1>4. M * d \in Int /\ M * k \in Int
  BY <1>2
<1>5. a = M * q + x
  BY <1>1, <1>2, <1>3, <1>4
<1>6. Wrap(M, a) = x
  BY <1>2, <1>3, <1>5, UniqueDivision
<1> QED
  BY <1>6 DEF x

LEMMA WrapCong ==
  ASSUME NEW M \in Nat, M > 0, NEW a \in Int
  PROVE  Cong(M, Wrap(M, a), a) /\ Cong(M, a, a)
<1> DEFINE d == a \div M
           e == -d
<1>1. d \in Int /\ Wrap(M, a) \in Int /\ a = M * d + Wrap(M, a)
  BY Division
<1> HIDE DEF d
<1>2. e \in Int /\ M * e = -(M * d) /\ M * d \in Int
  BY <1>1
<1> HIDE DEF e
<1>3. Wrap(M, a) = a + M * e
  BY <1>1, <1>2
<1>4. Cong(M, Wrap(M, a), a)
  BY <1>2, <1>3 DEF Cong
<1>5. a = a + M * 0 /\ 0 \in Int
  OBVIOUS
<1>6. Cong(M, a, a)
  BY <1>5 DEF Cong
<1> QED
  BY <1>4, <1>6

LEMMA CongSums ==
  ASSUME NEW M \in Nat, NEW a \in Int, NEW b \in Int, NEW c \in Int, NEW d \in Int,
         Cong(M, a, b), Cong(M, c, d)
  PROVE  Cong(M, a + c, b + d) /\ Cong(M, a - c, b - d)
<1>1. PICK k \in Int : a = b + M * k
  BY DEF Cong
<1>2. PICK l \in Int : c = d + M * l
  BY DEF Cong
<1> DEFINE p == k + l
           q == k - l
<1>3. p \in Int /\ q \in Int /\ M * p = M * k + M * l /\ M * q = M * k - M * l
  OBVIOUS
<1> HIDE DEF p, q
<1>4. M * k \in Int /\ M * l \in Int
  OBVIOUS
<1>5. a + c = (b + d) + M * p
  BY <1>1, <1>2, <1>3, <1>4
<1>6. a - c = (b - d) + M * q
  BY <1>1, <1>2, <1>3, <1>4
<1> QED
  BY <1>3, <1>5, <1>6 DEF Cong

LEMMA CongTimes ==
  ASSUME NEW M \in Nat, NEW a \in Int, NEW b \in Int, NEW c \in Int, Cong(M, a, b)
  PROVE  Cong(M, a * c, b * c) /\ Cong(M, c * a, c * b)
<1>1. PICK k \in Int : a = b + M * k
  BY DEF Cong
<1> DEFINE p == k * c
<1>2. a * c = (b + M * k) * c
  BY <1>1
<1>3. (b + M * k) * c = b * c + (M * k) * c
  OBVIOUS
<1>4. (M * k) * c = M * (k * c)
  OBVIOUS
<1>5. p \in Int /\ a * c = b * c + M * p /\ c * a = a * c /\ c * b = b * c
  BY <1>2, <1>3, <1>4
<1> HIDE DEF p
<1> QED
  BY <1>5 DEF Cong

LEMMA CongTrans ==
  ASSUME NEW M \in Nat, NEW a \in Int, NEW b \in Int, NEW c \in Int, Cong(M, a, b)
  PROVE  Cong(M, b, c) => Cong(M, a, c)
<1> SUFFICES ASSUME Cong(M, b, c) PROVE Cong(M, a, c)
  OBVIOUS
<1>1. PICK k \in Int : a = b + M * k
  BY DEF Cong
<1>2. PICK l \in Int : b = c + M * l
  BY DEF Cong
<1> DEFINE p == k + l
<1>3. p \in Int /\ M * p = M * k + M * l
  OBVIOUS
<1> HIDE DEF p
<1>4. M * k \in Int /\ M * l \in Int
  OBVIOUS
<1>5. a = c + M * p
  BY <1>1, <1>2, <1>3, <1>4
<1> QED
  BY <1>3, <1>5 DEF Cong

(* The signed reading of a word.                                           *)
LEMMA SignedFacts ==
  ASSUME NEW M \in Nat, M > 0, NEW x \in Word(M)
  PROVE  Signed(M, x) \in Int /\ Cong(M, Signed(M, x), x) /\ Half(M) \in Int
<1>1. x \in Int
  BY DEF Word
<1>2. x = x + M * 0 /\ x - M = x + M * (-1)
  BY <1>1
<1>3. Half(M) \in Int
  BY DEF Half
<1>4. Cong(M, x, x) /\ Cong(M, x - M, x)
  BY <1>2 DEF Cong
<1> QED
  BY <1>1, <1>3, <1>4 DEF Signed

(* A modulus that divides another.                                         *)
LEMMA CongDivides ==
  ASSUME NEW M \in Nat, NEW q \in Nat, NEW a \in Int, NEW b \in Int, Cong(M * q, a, b)
  PROVE  Cong(M, a, b)
<1>1. PICK k \in Int : a = b + (M * q) * k
  BY DEF Cong
<1> DEFINE p == q * k
<1>2. p \in Int /\ (M * q) * k = M * p
  OBVIOUS
<1> HIDE DEF p
<1> QED
  BY <1>1, <1>2 DEF Cong

LEMMA Pow2Adds == \A a, b \in Nat : Pow2[a + b] = Pow2[a] * Pow2[b]
<1> SUFFICES ASSUME NEW a \in Nat PROVE \A b \in Nat : Pow2[a + b] = Pow2[a] * Pow2[b]
  OBVIOUS
<1> DEFINE T == { b \in Nat : Pow2[a + b] = Pow2[a] * Pow2[b] }
<1>0. Pow2[a] \in Nat
  BY Pow2Grows
<1>1. 0 \in T
  BY <1>0, Pow2Facts
<1>2. ASSUME NEW b \in T PROVE b + 1 \in T
  <2>1. /\ Pow2[a + b] \in Nat /\ Pow2[b] \in Nat /\ Pow2[a + b] = Pow2[a] * Pow2[b]
    BY Pow2Grows
  <2>2. Pow2[a + (b + 1)] = 2 * Pow2[a + b]
    <3>1. a + (b + 1) = (a + b) + 1 /\ a + b \in Nat
      OBVIOUS
    <3> QED
      BY <3>1, Pow2Facts
  <2>3. Pow2[b + 1] = 2 * Pow2[b]
    BY Pow2Facts
  <2>4. 2 * (Pow2[a] * Pow2[b]) = Pow2[a] * (2 * Pow2[b])
    BY <1>0, <2>1
  <2> QED
    BY <2>1, <2>2, <2>3, <2>4
<1>3. T \in SUBSET Nat
  OBVIOUS
<1> HIDE DEF T
<1>4. T = Nat
  BY <1>1, <1>2, <1>3, Counting
<1> QED
  BY <1>4 DEF T

(* Of words of a wider width the modulus is a multiple, and at least twice *)
(* as large if wider at all.                                               *)
LEMMA Wider ==
  ASSUME NEW a \in Nat, NEW b \in Nat, a <= b
  PROVE  /\ Pow2[a] \in Nat /\ Pow2[a] > 0 /\ Pow2[b] \in Nat /\ Pow2[a] <= Pow2[b]
         /\ \E q \in Nat : Pow2[b] = Pow2[a] * q
         /\ a < b => 2 * Pow2[a] <= Pow2[b]
<1> DEFINE n == b - a
<1>1. n \in Nat /\ b = a + n
  OBVIOUS
<1> HIDE DEF n
<1>2. Pow2[b] = Pow2[a] * Pow2[n]
  BY <1>1, Pow2Adds
<1>3. /\ Pow2[a] \in Nat /\ Pow2[b] \in Nat /\ Pow2[n] \in Nat /\ Pow2[n] > n /\ Pow2[a] > a
  BY <1>1, Pow2Grows
<1>4. Pow2[n] >= 1 /\ (n >= 1 => Pow2[n] >= 2)
  BY <1>1, <1>3
<1>5. Pow2[a] <= Pow2[b] /\ (n >= 1 => 2 * Pow2[a] <= Pow2[b])
  <2> DEFINE x == Pow2[a]
             y == Pow2[n]
  <2>1. x \in Nat /\ y \in Nat /\ y >= 1
    BY <1>3, <1>4
  <2> HIDE DEF x, y
  <2>2. x * 1 <= x * y /\ (y >= 2 => x * 2 <= x * y)
    BY <2>1
  <2>3. x * 1 = x /\ x * 2 = 2 * x
    BY <2>1
  <2> QED
    BY <1>2, <1>4, <2>2, <2>3 DEF x, y
<1> QED
  BY <1>1, <1>2, <1>3, <1>5

-----------------------------------------------------------------------------
(* The widths and the values of terms: what makes a term adds it at the    *)
(* end, and references to terms change neither.                            *)
Filed(s) == \E W, X, L : s \in Seq([w : W, x : X, refs : Int, legal : L])

Keeps(s, r) ==
  /\ Filed(s) /\ Filed(r)
  /\ Len(s) \in Nat /\ Len(r) \in Nat /\ Len(s) <= Len(r)
  /\ \A i \in 1 .. Len(s) : r[i].w = s[i].w /\ r[i].x = s[i].x

Adds(s, r, w, x) ==
  /\ Keeps(s, r) /\ Len(r) = Len(s) + 1
  /\ r[Len(s) + 1].w = w /\ r[Len(s) + 1].x = x

LEMMA StoreFiled ==
  ASSUME NEW s, IsStore(s)
  PROVE  Filed(s)
<1>1. PICK X : s \in Seq(Entries(X))
  BY DEF IsStore
<1> QED
  BY <1>1 DEF Filed, Entries

LEMMA NewAdds ==
  ASSUME NEW s, Filed(s), NEW w, NEW x, NEW legal
  PROVE  Adds(s, New(s, w, x, legal), w, x)
<1> DEFINE r == New(s, w, x, legal)
           e == [w |-> w, x |-> x, refs |-> 1, legal |-> legal]
<1>1. PICK W, X, L : s \in Seq([w : W, x : X, refs : Int, legal : L])
  BY DEF Filed
<1> DEFINE S == [w : W, x : X, refs : Int, legal : L]
           E == [w : W \cup {w}, x : X \cup {x}, refs : Int, legal : L \cup {legal}]
<1>2. e \in E /\ S \subseteq E
  OBVIOUS
<1>3. s \in Seq(S)
  BY <1>1
<1>4. \A q : q \in Seq(E) => Filed(q)
  BY DEF Filed
<1>5. e.w = w /\ e.x = x
  OBVIOUS
<1>6. r = Append(s, e)
  BY DEF New
<1> HIDE DEF E, e, S, r
<1>7. s \in Seq(E)
  BY <1>2, <1>3, SeqMonotonic
<1>8. /\ r \in Seq(E) /\ Len(r) = Len(s) + 1 /\ Len(s) \in Nat
      /\ \A i \in 1 .. Len(s) : r[i] = s[i]
      /\ r[Len(s) + 1] = e
  BY <1>2, <1>6, <1>7, AppendProperties, LenProperties
<1>9. Filed(r)
  BY <1>4, <1>8
<1> QED
  BY <1>5, <1>8, <1>9 DEF Keeps, Adds, r

LEMMA CountKeeps ==
  ASSUME NEW s, Filed(s), NEW t
  PROVE  /\ Keeps(s, incref(s, t)) /\ Len(incref(s, t)) = Len(s)
         /\ Keeps(s, decref(s, t)) /\ Len(decref(s, t)) = Len(s)
<1>1. PICK W, X, L : s \in Seq([w : W, x : X, refs : Int, legal : L])
  BY DEF Filed
<1> DEFINE S == [w : W, x : X, refs : Int, legal : L]
<1>2. s \in Seq(S) /\ \A q : q \in Seq(S) => Filed(q)
  BY <1>1 DEF Filed
<1>3. Len(s) \in Nat /\ DOMAIN s = 1 .. Len(s) /\ \A i \in 1 .. Len(s) : s[i] \in S
  BY <1>2, LenProperties, ElementOfSeq
<1>4. Keeps(s, s)
  BY <1>3 DEF Keeps
<1>5. ASSUME NEW n, t \in 1 .. Len(s) => n \in Int
      PROVE  Keeps(s, Recount(s, t, n)) /\ Len(Recount(s, t, n)) = Len(s)
  <2> DEFINE e == [s[t] EXCEPT !.refs = n]
             r == Recount(s, t, n)
  <2>0. r = [s EXCEPT ![t] = e]
    BY DEF Recount
  <2>1. CASE t \in 1 .. Len(s)
    <3>1. e \in S /\ e.w = s[t].w /\ e.x = s[t].x
      BY <1>3, <1>5, <2>1
    <3> HIDE DEF e, r, S
    <3>2. /\ r \in Seq(S) /\ Len(r) = Len(s)
          /\ \A i \in 1 .. Len(s) : r[i] = IF i = t THEN e ELSE s[i]
      BY <1>2, <2>0, <2>1, <3>1, ExceptSeq
    <3>3. Filed(r)
      BY <1>2, <3>2
    <3> QED
      BY <1>3, <3>1, <3>2, <3>3 DEF Keeps, r
  <2>2. CASE t \notin 1 .. Len(s)
    <3> HIDE DEF e, r, S
    <3>1. s = [i \in 1 .. Len(s) |-> s[i]]
      BY <1>2, <1>3
    <3>2. r = s
      BY <1>3, <2>0, <2>2, <3>1
    <3> QED
      BY <1>4, <3>2 DEF r
  <2> QED
    BY <2>1, <2>2
<1>6. t \in 1 .. Len(s) => s[t].refs \in Int
  BY <1>3
<1>7. /\ incref(s, t) = IF backend = "z3" THEN s ELSE Recount(s, t, s[t].refs + 1)
      /\ decref(s, t) = IF backend = "z3" THEN s ELSE Recount(s, t, s[t].refs - 1)
  BY DEF incref, decref, Recount
<1> HIDE DEF S
<1>8. t \in 1 .. Len(s) => s[t].refs + 1 \in Int /\ s[t].refs - 1 \in Int
  BY <1>6
<1> QED
  BY <1>4, <1>5, <1>7, <1>8

LEMMA KeepsTrans ==
  ASSUME NEW s, NEW r, NEW q, Keeps(s, r), Keeps(r, q)
  PROVE  Keeps(s, q)
BY DEF Keeps

-----------------------------------------------------------------------------
(* Sums, defined by recursion on the number of summands.                   *)
Sums(f, p, n) == f = [i \in 0 .. n |-> IF i = 0 THEN 0 ELSE f[i - 1] + p[i]]

LEMMA SumsExist ==
  ASSUME NEW p
  PROVE  \A n \in Nat : \E f : Sums(f, p, n)
<1> DEFINE Step(x, i) == x + p[i]
           T == { n \in Nat : \E f : Sums(f, p, n) }
<1>0. \A n \in Nat : \A f : Sums(f, p, n) <=>
        f = [i \in 0 .. n |-> IF i = 0 THEN 0 ELSE Step(f[i - 1], i)]
  BY DEF Sums
<1> HIDE DEF Step
<1>1. 0 \in T
  <2> DEFINE f == [i \in 0 .. 0 |-> 0]
  <2>1. f = [i \in 0 .. 0 |-> IF i = 0 THEN 0 ELSE Step(f[i - 1], i)]
    OBVIOUS
  <2> HIDE DEF f
  <2>2. Sums(f, p, 0)
    BY <1>0, <2>1
  <2> QED
    BY <2>2
<1>2. ASSUME NEW n \in T PROVE n + 1 \in T
  <2>1. PICK f : f = [i \in 0 .. n |-> IF i = 0 THEN 0 ELSE Step(f[i - 1], i)]
    BY <1>0
  <2> DEFINE g == [i \in 0 .. n + 1 |-> IF i = n + 1 THEN Step(f[n], n + 1) ELSE f[i]]
  <2>2. \A i \in 0 .. n + 1 : g[i] = IF i = 0 THEN 0 ELSE Step(g[i - 1], i)
    <3> TAKE i \in 0 .. n + 1
    <3>1. CASE i = n + 1
      <4>1. i # 0 /\ i - 1 = n /\ n \in 0 .. n + 1 /\ n # n + 1
        BY <3>1
      <4> QED
        BY <3>1, <4>1
    <3>2. CASE i # n + 1
      <4>1. i \in 0 .. n /\ (i # 0 => i - 1 \in 0 .. n + 1 /\ i - 1 # n + 1)
        BY <3>2
      <4>2. f[i] = IF i = 0 THEN 0 ELSE Step(f[i - 1], i)
        BY <2>1, <4>1
      <4> QED
        BY <3>2, <4>1, <4>2
    <3> QED
      BY <3>1, <3>2
  <2>3. g = [i \in 0 .. n + 1 |-> g[i]]
    OBVIOUS
  <2> HIDE DEF g
  <2>4. g = [i \in 0 .. n + 1 |-> IF i = 0 THEN 0 ELSE Step(g[i - 1], i)]
    BY <2>2, <2>3
  <2>5. Sums(g, p, n + 1)
    BY <1>0, <2>4
  <2> QED
    BY <2>5
<1>3. T \in SUBSET Nat
  OBVIOUS
<1> HIDE DEF T
<1>4. T = Nat
  BY <1>1, <1>2, <1>3, Counting
<1> QED
  BY <1>4 DEF T

LEMMA TotalSums ==
  ASSUME NEW p, Len(p) \in Nat
  PROVE  \E f : /\ Total(p) = f[Len(p)] /\ f[0] = 0
                /\ \A i \in 1 .. Len(p) : f[i] = f[i - 1] + p[i]
<1> DEFINE N == Len(p)
           F == CHOOSE f : Sums(f, p, N)
<1>1. Total(p) = F[N]
  BY DEF Total, Sums
<1>2. Sums(F, p, N)
  BY SumsExist
<1> HIDE DEF F
<1>3. F[0] = 0 /\ \A i \in 1 .. N : F[i] = F[i - 1] + p[i]
  <2>1. \A i \in 0 .. N : F[i] = IF i = 0 THEN 0 ELSE F[i - 1] + p[i]
    BY <1>2 DEF Sums
  <2>2. 0 \in 0 .. N /\ \A i \in 1 .. N : i \in 0 .. N /\ i # 0
    OBVIOUS
  <2> QED
    BY <2>1, <2>2
<1> QED
  BY <1>1, <1>3

(* A word is the sum of its bits' powers.                                  *)
LEMMA BitSums ==
  ASSUME NEW w \in Nat, NEW bits
  PROVE  \E f : /\ WithBits(w, bits) = f[w] /\ f[0] = 0
                /\ \A i \in 1 .. w : f[i] = f[i - 1] + (IF i - 1 \in bits THEN Pow2[i - 1] ELSE 0)
<1> DEFINE G(f) == f = [i \in 0 .. w |-> IF i = 0 THEN 0
                                         ELSE f[i - 1] + (IF i - 1 \in bits THEN Pow2[i - 1] ELSE 0)]
           F == CHOOSE f : G(f)
           p == [i \in 1 .. w |-> IF i - 1 \in bits THEN Pow2[i - 1] ELSE 0]
<1>1. WithBits(w, bits) = F[w]
  BY DEF WithBits
<1>2. PICK h : Sums(h, p, w)
  BY SumsExist
<1>3. G(h)
  <2>1. \A i \in 0 .. w : i # 0 => i \in 1 .. w
    OBVIOUS
  <2> QED
    BY <1>2, <2>1 DEF Sums
<1>4. G(F)
  BY <1>3
<1> HIDE DEF F
<1>5. F[0] = 0 /\ \A i \in 1 .. w : F[i] = F[i - 1] + (IF i - 1 \in bits THEN Pow2[i - 1] ELSE 0)
  <2>1. \A i \in 0 .. w : F[i] = IF i = 0 THEN 0
                                 ELSE F[i - 1] + (IF i - 1 \in bits THEN Pow2[i - 1] ELSE 0)
    BY <1>4
  <2>2. 0 \in 0 .. w /\ \A i \in 1 .. w : i \in 0 .. w /\ i # 0
    OBVIOUS
  <2> QED
    BY <2>1, <2>2
<1> QED
  BY <1>1, <1>5

LEMMA BitsWord ==
  ASSUME NEW w \in Nat, NEW bits
  PROVE  WithBits(w, bits) \in Word(Mod(w))
<1>1. PICK f : /\ WithBits(w, bits) = f[w] /\ f[0] = 0
               /\ \A i \in 1 .. w : f[i] = f[i - 1] + (IF i - 1 \in bits THEN Pow2[i - 1] ELSE 0)
  BY BitSums
<1> DEFINE T == { n \in Nat : n <= w => f[n] \in 0 .. Pow2[n] - 1 }
<1>2. 0 \in T
  BY <1>1, Pow2Facts
<1>3. ASSUME NEW n \in T PROVE n + 1 \in T
  <2> SUFFICES ASSUME n + 1 <= w PROVE f[n + 1] \in 0 .. Pow2[n + 1] - 1
    OBVIOUS
  <2>1. n \in Nat /\ n + 1 \in 1 .. w /\ (n + 1) - 1 = n /\ f[n] \in 0 .. Pow2[n] - 1
    OBVIOUS
  <2>2. f[n + 1] = f[n] + (IF n \in bits THEN Pow2[n] ELSE 0)
    BY <1>1, <2>1
  <2>3. Pow2[n + 1] = 2 * Pow2[n] /\ Pow2[n] \in Nat
    BY <2>1, Pow2Facts, Pow2Grows
  <2> HIDE DEF T
  <2> QED
    BY <2>1, <2>2, <2>3
<1>4. T \in SUBSET Nat
  OBVIOUS
<1> HIDE DEF T
<1>5. T = Nat
  BY <1>2, <1>3, <1>4, Counting
<1>6. f[w] \in 0 .. Pow2[w] - 1
  BY <1>5 DEF T
<1> QED
  BY <1>1, <1>6 DEF Word, Mod

(* Conjunction and disjunction of Booleans.                                *)
LEMMA OneBit ==
  ASSUME NEW x \in {0, 1}, NEW y \in {0, 1}
  PROVE  /\ Compute("and", 1, x, y) = Bit(x = 1 /\ y = 1)
         /\ Compute("or", 1, x, y) = Bit(x = 1 \/ y = 1)
<1>1. ASSUME NEW z \in {0, 1} PROVE BitsOf(1, z) = IF z = 1 THEN {0} ELSE {}
  <2>1. 0 .. 1 - 1 = {0} /\ Pow2[0] = 1
    BY Pow2Facts
  <2>2. 0 \div 1 = 0 /\ 1 \div 1 = 1 /\ 0 % 2 = 0 /\ 1 % 2 = 1
    OBVIOUS
  <2> QED
    BY <2>1, <2>2 DEF BitsOf
<1>2. ASSUME NEW bits PROVE WithBits(1, bits) = Bit(0 \in bits)
  <2>1. 1 \in Nat
    OBVIOUS
  <2>2. PICK f : /\ WithBits(1, bits) = f[1] /\ f[0] = 0
                 /\ \A i \in 1 .. 1 : f[i] = f[i - 1] + (IF i - 1 \in bits THEN Pow2[i - 1] ELSE 0)
    BY <2>1, BitSums
  <2>3. 1 \in 1 .. 1 /\ 1 - 1 = 0 /\ Pow2[0] = 1
    BY Pow2Facts
  <2>4. f[1] = 0 + (IF 0 \in bits THEN 1 ELSE 0)
    BY <2>2, <2>3
  <2> QED
    BY <2>2, <2>4 DEF Bit
<1>3. /\ Compute("and", 1, x, y) = WithBits(1, BitsOf(1, x) \cap BitsOf(1, y))
      /\ Compute("or", 1, x, y) = WithBits(1, BitsOf(1, x) \cup BitsOf(1, y))
  BY DEF Compute, Shifts
<1>4. /\ 0 \in BitsOf(1, x) \cap BitsOf(1, y) <=> x = 1 /\ y = 1
      /\ 0 \in BitsOf(1, x) \cup BitsOf(1, y) <=> x = 1 \/ y = 1
  BY <1>1
<1> QED
  BY <1>2, <1>3, <1>4 DEF Bit

-----------------------------------------------------------------------------
(* The values of a bound and of a range.                                   *)
LEMMA RelationIs ==
  ASSUME backend \in Backends, NEW p, NEW w, NEW x, NEW y
  PROVE  Relation(p, w, x, y) = Bit(Holds(p, w, x, y))
<1>1. CASE backend = "z3"
  <2>1. Relation(p, w, x, y) = Z3Relation(p, w, x, y)
    BY <1>1 DEF Relation
  <2>2. CASE p = "ne"
    <3>1. Holds(p, w, x, y) <=> x # y
      BY <2>2 DEF Holds
    <3> QED
      BY <2>1, <2>2, <3>1 DEF Z3Relation, Bit
  <2>3. CASE p # "ne"
    BY <2>1, <2>3 DEF Z3Relation
  <2> QED
    BY <2>2, <2>3
<1>2. CASE backend = "boolector"
  BY <1>2 DEF Relation, BoolectorRelation
<1>3. CASE backend = "sonolar"
  BY <1>3 DEF Relation, SonolarRelation
<1> QED
  BY <1>1, <1>2, <1>3 DEF Backends

LEMMA OperationIs ==
  ASSUME backend \in Backends, NEW o, NEW w, NEW x, NEW y
  PROVE  Operation(o, w, x, y) = Compute(o, w, x, y)
BY DEF Operation, Z3Operation, BoolectorOperation, SonolarOperation, Backends

LEMMA OperationAdds ==
  ASSUME NEW s, Filed(s), backend \in Backends, NEW o, o \notin Shifts, NEW t, NEW u
  PROVE  /\ Adds(s, operation(s, o, t, u).store, s[t].w, Compute(o, s[t].w, s[t].x, s[u].x))
         /\ operation(s, o, t, u).term = Len(s) + 1
<1> DEFINE x == Operation(o, s[t].w, s[t].x, s[u].x)
           r == New(s, s[t].w, x, Pair(s, t, u))
<1>1. operation(s, o, t, u) = Result(r)
  BY DEF operation
<1>2. Adds(s, r, s[t].w, x)
  BY NewAdds
<1> HIDE DEF r
<1>3. x = Compute(o, s[t].w, s[t].x, s[u].x)
  BY OperationIs
<1>4. Len(r) = Len(s) + 1
  BY <1>2 DEF Adds
<1> QED
  BY <1>1, <1>2, <1>3, <1>4 DEF Result

LEMMA BoundValue ==
  ASSUME NEW s, Filed(s), backend \in Backends, NEW t \in 1 .. Len(s), NEW p, NEW c
  PROVE  LET q == CompareLast(bvconst(s, s[t].w, c), p, t)
         IN  /\ Keeps(s, q) /\ Len(q) = Len(s) + 2 /\ Len(s) \in Nat
             /\ q[Len(s) + 2].w = 1
             /\ q[Len(s) + 2].x = Bit(Holds(p, s[t].w, s[t].x, c))
<1> DEFINE w == s[t].w
           r == bvconst(s, w, c)
           x == Relation(p, r[t].w, r[t].x, r[Len(r)].x)
           d == compare(r, p, t, Len(r))
           q == decref(d, Len(r))
<1>1. CompareLast(r, p, t) = q
  BY DEF CompareLast
<1>2. Adds(s, r, w, c)
  BY NewAdds DEF bvconst, Make
<1> HIDE DEF r
<1>3. /\ Len(s) \in Nat /\ Len(r) = Len(s) + 1 /\ r[Len(r)].x = c /\ r[t].w = s[t].w /\ r[t].x = s[t].x
      /\ Filed(r) /\ Keeps(s, r)
  BY <1>2 DEF Adds, Keeps
<1>4. Adds(r, d, 1, x)
  BY <1>3, NewAdds DEF compare
<1> HIDE DEF d
<1>5. Filed(d) /\ Len(d) = Len(s) + 2 /\ d[Len(s) + 2].x = x /\ d[Len(s) + 2].w = 1 /\ Keeps(r, d)
  <2>1. Len(r) + 1 = Len(s) + 2
    BY <1>3
  <2> QED
    BY <1>4, <2>1 DEF Adds, Keeps
<1>6. Keeps(d, q) /\ Len(q) = Len(s) + 2
  BY <1>5, CountKeeps
<1> HIDE DEF q
<1>7. q[Len(s) + 2].x = x /\ q[Len(s) + 2].w = 1
  <2>1. Len(s) + 2 \in 1 .. Len(d)
    BY <1>3, <1>5
  <2> QED
    BY <1>5, <1>6, <2>1 DEF Keeps
<1>8. x = Bit(Holds(p, s[t].w, s[t].x, c))
  BY <1>3, RelationIs
<1>9. Keeps(s, q)
  <2>1. Keeps(s, d)
    BY <1>3, <1>5, KeepsTrans
  <2> QED
    BY <1>6, <2>1, KeepsTrans
<1> QED
  BY <1>1, <1>3, <1>6, <1>7, <1>8, <1>9 DEF r

(* What a range says of a word.                                            *)
InRange(x, lo, hi) ==
  CASE lo = 0 -> x < hi
    [] lo # 0 /\ hi = 0 -> x >= lo
    [] lo # 0 /\ hi # 0 /\ lo <= hi -> x >= lo /\ x < hi
    [] OTHER -> x >= lo \/ x < hi

LEMMA RangeValue ==
  ASSUME NEW s, Filed(s), backend \in Backends, NEW t \in 1 .. Len(s),
         NEW lo \in Int, NEW hi \in Int, lo # hi
  PROVE  LET r == RangeConstraint(s, t, lo, hi)
         IN  /\ Keeps(s, r) /\ Len(r) > Len(s)
             /\ r[Len(r)].x = 1 <=> InRange(s[t].x, lo, hi)
<1> DEFINE L == Len(s)
           w == s[t].w
           X == s[t].x
           low == LowerBound(s, t, lo)
           up == UpperBound(s, t, hi)
           both == UpperBound(low, t, hi)
<1>0. /\ \A a, b : Bit(Holds("uge", w, a, b)) = Bit(a >= b)
      /\ \A a, b : Bit(Holds("ult", w, a, b)) = Bit(a < b)
  BY DEF Holds, Bit
<1>1. /\ Keeps(s, low) /\ Len(low) = L + 2 /\ low[L + 2].w = 1 /\ low[L + 2].x = Bit(X >= lo)
      /\ L \in Nat
  <2>1. low[L + 2].x = Bit(Holds("uge", w, X, lo))
    BY BoundValue DEF LowerBound
  <2> QED
    BY <1>0, <2>1, BoundValue DEF LowerBound
<1>2. Keeps(s, up) /\ Len(up) = L + 2 /\ up[L + 2].x = Bit(X < hi)
  <2>1. up[L + 2].x = Bit(Holds("ult", w, X, hi))
    BY BoundValue DEF UpperBound
  <2> QED
    BY <1>0, <2>1, BoundValue DEF UpperBound
<1> HIDE DEF low, up
<1>3. Filed(low) /\ t \in 1 .. Len(low) /\ low[t].w = w /\ low[t].x = X
  BY <1>1 DEF Keeps
<1>4. /\ Keeps(low, both) /\ Len(both) = L + 4 /\ both[L + 4].w = 1 /\ both[L + 4].x = Bit(X < hi)
  <2>1. both[Len(low) + 2].x = Bit(Holds("ult", low[t].w, low[t].x, hi))
    BY <1>3, BoundValue DEF UpperBound
  <2>2. /\ Keeps(low, both) /\ Len(both) = Len(low) + 2 /\ both[Len(low) + 2].w = 1
    BY <1>3, BoundValue DEF UpperBound
  <2>3. Len(low) + 2 = L + 4
    BY <1>1
  <2> QED
    BY <1>0, <1>3, <2>1, <2>2, <2>3
<1> HIDE DEF both
<1>5. both[L + 2].w = 1 /\ both[L + 2].x = Bit(X >= lo) /\ Filed(both) /\ Keeps(s, both)
  <2>1. L + 2 \in 1 .. Len(low)
    BY <1>1
  <2>2. Keeps(s, both)
    BY <1>1, <1>4, KeepsTrans
  <2> QED
    BY <1>1, <1>4, <2>1, <2>2 DEF Keeps
<1>6. ASSUME NEW o, o \in {"and", "or"}
      PROVE  LET r == decref(decref(operation(both, o, L + 2, L + 4).store, L + 2), L + 4)
             IN  /\ Keeps(s, r) /\ Len(r) = L + 5
                 /\ r[Len(r)].x = Compute(o, 1, Bit(X >= lo), Bit(X < hi))
  <2> DEFINE c == operation(both, o, L + 2, L + 4).store
             d == decref(c, L + 2)
             r == decref(d, L + 4)
             x == Compute(o, 1, Bit(X >= lo), Bit(X < hi))
  <2>0. o \notin Shifts
    BY <1>6 DEF Shifts
  <2>1. Adds(both, c, 1, x)
    BY <1>4, <1>5, <2>0, OperationAdds
  <2> HIDE DEF c, x
  <2>2. Keeps(both, c) /\ Len(c) = L + 5 /\ c[L + 5].x = x /\ Filed(c)
    <3>1. Len(both) + 1 = L + 5
      BY <1>1, <1>4
    <3> QED
      BY <2>1, <3>1 DEF Adds, Keeps
  <2>3. Keeps(c, d) /\ Len(d) = L + 5 /\ Filed(d)
    BY <2>2, CountKeeps DEF Keeps
  <2> HIDE DEF d
  <2>4. Keeps(d, r) /\ Len(r) = L + 5
    BY <2>3, CountKeeps
  <2> HIDE DEF r
  <2>5. Keeps(c, r)
    BY <2>3, <2>4, KeepsTrans
  <2>6. r[L + 5].x = x
    <3>1. L + 5 \in 1 .. Len(c)
      BY <1>1, <2>2
    <3> QED
      BY <2>2, <2>5, <3>1 DEF Keeps
  <2>7. Keeps(s, r)
    <3>1. Keeps(s, c)
      BY <1>5, <2>2, KeepsTrans
    <3> QED
      BY <2>5, <3>1, KeepsTrans
  <2> QED
    BY <2>4, <2>6, <2>7 DEF r, d, c, x
<1>7. CASE lo = 0
  <2>1. RangeConstraint(s, t, lo, hi) = up
    BY <1>7 DEF RangeConstraint, up
  <2>2. InRange(X, lo, hi) <=> X < hi
    BY <1>7 DEF InRange
  <2> HIDE DEF X
  <2> QED
    BY <1>1, <1>2, <2>1, <2>2 DEF Bit, X
<1>8. CASE lo # 0 /\ hi = 0
  <2>1. RangeConstraint(s, t, lo, hi) = low
    BY <1>8 DEF RangeConstraint, low
  <2>2. InRange(X, lo, hi) <=> X >= lo
    BY <1>8 DEF InRange
  <2> HIDE DEF X
  <2> QED
    BY <1>1, <2>1, <2>2 DEF Bit, X
<1>9. CASE lo # 0 /\ hi # 0
  <2> DEFINE o == IF lo <= hi THEN "and" ELSE "or"
             r == decref(decref(operation(both, o, L + 2, L + 4).store, L + 2), L + 4)
             a == X >= lo
             b == X < hi
  <2>1. RangeConstraint(s, t, lo, hi) = r
    BY <1>9 DEF RangeConstraint, both, low
  <2>2. o \in {"and", "or"}
    OBVIOUS
  <2>3. Keeps(s, r) /\ Len(r) = L + 5 /\ r[Len(r)].x = Compute(o, 1, Bit(a), Bit(b))
    BY <1>6, <2>2
  <2> HIDE DEF r
  <2>4. InRange(X, lo, hi) <=> IF lo <= hi THEN a /\ b ELSE a \/ b
    BY <1>9 DEF InRange
  <2> HIDE DEF a, b
  <2>5. Bit(a) \in {0, 1} /\ Bit(b) \in {0, 1} /\ (Bit(a) = 1 <=> a) /\ (Bit(b) = 1 <=> b)
    BY DEF Bit
  <2>6. Compute(o, 1, Bit(a), Bit(b)) = IF lo <= hi THEN Bit(a /\ b) ELSE Bit(a \/ b)
    <3>1. /\ Compute("and", 1, Bit(a), Bit(b)) = Bit(Bit(a) = 1 /\ Bit(b) = 1)
          /\ Compute("or", 1, Bit(a), Bit(b)) = Bit(Bit(a) = 1 \/ Bit(b) = 1)
      BY <2>5, OneBit
    <3> QED
      BY <2>5, <3>1
  <2>7. r[Len(r)].x = 1 <=> InRange(X, lo, hi)
    BY <2>3, <2>4, <2>6 DEF Bit
  <2> QED
    BY <1>1, <2>1, <2>3, <2>7
<1> QED
  BY <1>7, <1>8, <1>9

(* A range that wraps contains what is less far from its begin than its    *)
(* end is.                                                                 *)
LEMMA RangeIs ==
  ASSUME NEW M \in Nat, M > 0, NEW x \in Word(M), NEW lo \in Word(M), NEW hi \in Word(M), lo # hi
  PROVE  InRange(x, lo, hi) <=> Wrap(M, x - lo) < Wrap(M, hi - lo)
<1>1. x \in 0 .. M - 1 /\ lo \in 0 .. M - 1 /\ hi \in 0 .. M - 1
  BY DEF Word
<1>2. ASSUME NEW y \in 0 .. M - 1
      PROVE  Wrap(M, y - lo) = IF y >= lo THEN y - lo ELSE y - lo + M
  <2> DEFINE z == IF y >= lo THEN y - lo ELSE y - lo + M
             q == IF y >= lo THEN 0 ELSE -1
  <2>1. z \in 0 .. M - 1 /\ q \in Int
    BY <1>1
  <2>2. y - lo = M * q + z /\ y - lo \in Int
    <3>1. CASE y >= lo
      <4>1. M * 0 = 0
        OBVIOUS
      <4> QED
        BY <1>1, <3>1, <4>1
    <3>2. CASE ~(y >= lo)
      <4>1. M * (-1) = -M
        OBVIOUS
      <4> QED
        BY <1>1, <3>2, <4>1
    <3> QED
      BY <3>1, <3>2
  <2>3. z \in Word(M)
    BY <2>1 DEF Word
  <2> HIDE DEF z, q
  <2>4. Wrap(M, y - lo) = z
    BY <2>1, <2>2, <2>3, UniqueDivision
  <2> QED
    BY <2>4 DEF z
<1>3. /\ Wrap(M, x - lo) = IF x >= lo THEN x - lo ELSE x - lo + M
      /\ Wrap(M, hi - lo) = IF hi >= lo THEN hi - lo ELSE hi - lo + M
  BY <1>1, <1>2
<1>4. InRange(x, lo, hi) <=>
        IF lo = 0 THEN x < hi ELSE IF hi = 0 THEN x >= lo
        ELSE IF lo <= hi THEN x >= lo /\ x < hi ELSE x >= lo \/ x < hi
  BY <1>1 DEF InRange
<1> QED
  BY <1>1, <1>3, <1>4

-----------------------------------------------------------------------------
(* No step changes the width or the value of a term made before.           *)
LEMMA LaterKeeps ==
  ASSUME NEW s, NEW r, Later(s, r)
  PROVE  Keeps(s, r)
BY StoreFiled, LenLater DEF Later, Keeps

LEMMA TermsKept == GenInv /\ [GenNext]_genVars => Keeps(terms, terms')
<1> SUFFICES ASSUME GenInv, [GenNext]_genVars PROVE Later(terms, terms')
  BY LaterKeeps
<1>0. IsStore(terms) /\ Later(terms, terms)
  BY LaterSelf DEF GenInv, Accounted, Evens
<1>1. ASSUME NEW v \in Places, Visit(v) PROVE Later(terms, terms')
  <2>1. terms' = Kept(terms, v) /\ Operands(v) \subseteq DOMAIN cache
    BY <1>1 DEF Visit, Kept, Ready
  <2>2. Returns(terms, [store |-> Kept(terms, v), term |-> analyze(terms, v).term], Val(v).w)
    BY <2>1, CacheIn, AnalyzeReturns DEF GenInv
  <2> QED
    BY <2>1, <2>2 DEF Returns, Gains
<1>2. CASE Guard
  <2> DEFINE s1 == bvconst(terms, 1, 1)
             s2 == BlockGuard(s1, Len(s1))
  <2>1. DOMAIN cache = Places /\ terms' = IF InEntry THEN s1 ELSE s2
    BY <1>2 DEF Guard
  <2>2. Makes(terms, s1, 1)
    <3>1. 1 \in Nat \ {0}
      OBVIOUS
    <3> QED
      BY <1>0, <3>1, ConstMakes
  <2> HIDE DEF s1
  <2>3. /\ Later(terms, s1) /\ Gains(terms, s1, Len(terms) + 1) /\ Len(s1) = Len(terms) + 1
        /\ Live(s1, Len(s1)) /\ s1[Len(s1)].w = 1
    BY <2>2, MakesLive
  <2>4. CachedIn(s1)
    BY <2>3, CacheIn, StillCached
  <2>5. CASE ~InEntry
    <3>1. Returns(s1, Result(s2), 1)
      BY <2>1, <2>3, <2>4, <2>5, BlockGuardReturns DEF GenInv
    <3> HIDE DEF s2
    <3>2. Later(s1, s2)
      BY <3>1 DEF Returns, Gains, Result
    <3> QED
      BY <2>1, <2>3, <2>5, <3>2, LaterTrans
  <2> QED
    BY <2>1, <2>3, <2>5
<1>3. CASE Query \/ QueryNegation
  <2> DEFINE t == cache[prog.query]
  <2>1. /\ phase \in {"ask", "again"}
        /\ terms' = Ask(terms, t) \/ terms' = Negated(terms, t)
    BY <1>3 DEF Query, QueryNegation, Negated
  <2>2. prog.query \in Places /\ Val(prog.query).w = 1
    BY GenAssumption DEF GenInv, IsProgram, Places, Val
  <2>3. Live(terms, t) /\ terms[t].w = 1
    BY <2>1, <2>2 DEF GenInv, Accounted
  <2>4. Live(terms, PathPred) /\ terms[PathPred].w = 1
    BY <2>1 DEF GenInv, Accounted, PathPred
  <2> HIDE DEF t
  <2>5. Evens(terms, terms')
    BY <1>0, <2>1, <2>3, <2>4, AskEvens, NegatedEvens
  <2> QED
    BY <2>5 DEF Evens
<1>4. CASE FreePaths \/ FreeValues
  <2>1. IsFiniteSet(DOMAIN cache) /\ IsFiniteSet(DOMAIN path)
    BY CacheFinite DEF GenInv
  <2>2. terms' = Released(terms, path) \/ terms' = Released(terms, cache)
    BY <1>4 DEF FreePaths, FreeValues
  <2> QED
    BY <1>0, <2>1, <2>2, ReleasedFacts
<1>5. CASE UNCHANGED genVars
  BY <1>0, <1>5 DEF genVars
<1> QED
  BY <1>1, <1>2, <1>3, <1>4, <1>5 DEF GenNext, GenEnded

(* The range assumed of a value is the one that was asked for.             *)
Assumes(s, t, v) ==
  LET I == Val(v)
  IN  /\ v \in Places /\ I.kind = "fresh" /\ Constrained(I)
      /\ t \in 1 .. Len(s)
      /\ s[t].x = 1 <=> InRange(prog.fresh[v], I.range[1], I.range[2])

RangesInv ==
  /\ backend \in Backends
  /\ \A v \in DOMAIN assumed : Assumes(terms, assumed[v], v)

LEMMA AssumesKept ==
  ASSUME NEW s, NEW r, Keeps(s, r), NEW t, NEW v, Assumes(s, t, v)
  PROVE  Assumes(r, t, v)
<1>1. t \in 1 .. Len(r) /\ r[t].x = s[t].x
  BY DEF Keeps, Assumes
<1> QED
  BY <1>1 DEF Assumes

LEMMA RangeVisit ==
  ASSUME NEW s, Filed(s), backend \in Backends, prog \in Programs, NEW v \in Places,
         Val(v).kind = "fresh", Constrained(Val(v))
  PROVE  LET r == visitFresh(s, v)
         IN  Assumes(decref(r, Len(r)), Len(r), v)
<1> DEFINE I == Val(v)
           L == Len(s)
           x == prog.fresh[v]
           s1 == Make(s, I.w, x, {})
           r == RangeConstraint(s1, L + 1, I.range[1], I.range[2])
           q == decref(r, Len(r))
<1>1. visitFresh(s, v) = r
  BY DEF visitFresh
<1>2. Adds(s, s1, I.w, x)
  BY NewAdds DEF Make
<1> HIDE DEF s1
<1>3. Filed(s1) /\ L + 1 \in 1 .. Len(s1) /\ s1[L + 1].x = x
  BY <1>2 DEF Adds, Keeps
<1>4. /\ I.w \in Nat \ {0} /\ I.range[1] \in Word(Mod(I.w)) /\ I.range[2] \in Word(Mod(I.w))
      /\ I.range[1] # I.range[2]
  BY GenAssumption DEF IsProgram, Places, Widths, Val, Constrained
<1>5. I.range[1] \in Int /\ I.range[2] \in Int
  BY <1>4 DEF Word
<1>6. /\ Keeps(s1, r) /\ Len(r) > Len(s1)
      /\ r[Len(r)].x = 1 <=> InRange(x, I.range[1], I.range[2])
  BY <1>3, <1>4, <1>5, RangeValue
<1> HIDE DEF r
<1>7. Filed(r) /\ Len(r) \in 1 .. Len(r)
  BY <1>6 DEF Keeps
<1>8. Assumes(r, Len(r), v)
  BY <1>6, <1>7 DEF Assumes
<1>9. Keeps(r, q)
  BY <1>7, CountKeeps
<1> HIDE DEF q
<1>10. Assumes(q, Len(r), v)
  BY <1>8, <1>9, AssumesKept
<1> QED
  BY <1>1, <1>10 DEF q

LEMMA RangesSteps == GenInv /\ RangesInv /\ [GenNext]_genVars => RangesInv'
<1> SUFFICES ASSUME GenInv, RangesInv, [GenNext]_genVars PROVE RangesInv'
  OBVIOUS
<1>1. backend' = backend /\ prog' = prog
  BY DEF GenNext, Visit, Guard, Query, QueryNegation, FreePaths, FreeValues, GenEnded, genVars
<1>2. Keeps(terms, terms') /\ Filed(terms)
  BY TermsKept DEF Keeps
<1>3. ASSUME NEW v \in DOMAIN assumed PROVE Assumes(terms', assumed[v], v)
  BY <1>2, AssumesKept DEF RangesInv
<1>4. ASSUME NEW v \in DOMAIN assumed' PROVE Assumes(terms', assumed'[v], v)
  <2>1. CASE assumed' = assumed
    BY <1>3, <1>4, <2>1
  <2>2. CASE assumed' # assumed
    <3>1. PICK u \in Places : Visit(u)
      BY <2>2 DEF GenNext, Guard, Query, QueryNegation, FreePaths, FreeValues, GenEnded, genVars
    <3> DEFINE r == visitFresh(terms, u)
    <3>2. /\ Val(u).kind = "fresh" /\ Constrained(Val(u))
          /\ terms' = decref(analyze(terms, u).store, Len(analyze(terms, u).store))
          /\ assumed' = [w \in DOMAIN assumed \cup {u} |->
                           IF w = u THEN Len(analyze(terms, u).store) ELSE assumed[w]]
      BY <2>2, <3>1 DEF Visit
    <3>3. analyze(terms, u).store = r
      BY <3>2 DEF analyze
    <3>4. Assumes(decref(r, Len(r)), Len(r), u)
      BY <1>2, <3>2, RangeVisit DEF GenInv, RangesInv
    <3> HIDE DEF r
    <3>5. CASE v = u
      BY <3>2, <3>3, <3>4, <3>5
    <3>6. CASE v # u
      BY <1>3, <1>4, <3>2, <3>6
    <3> QED
      BY <3>5, <3>6
  <2> QED
    BY <2>1, <2>2
<1>5. ASSUME NEW v \in DOMAIN assumed' PROVE Assumes(terms, assumed[v], v)'
  BY <1>1, <1>4, <1>5 DEF Assumes, Places, Val
<1> QED
  BY <1>1, <1>5 DEF RangesInv, Backends

(* The range of a value the range pass knows one of is assumed exactly,    *)
(* whatever the solver, where it wraps, begins at 0 or ends at 0 too       *)
(* (src/ValueGen.cc:319-358).                                              *)
THEOREM RangesAlwaysExact == GenSpec => []RangesExact
<1>1. GenInit => RangesInv
  BY DEF GenInit, RangesInv
<1>2. GenInv /\ RangesInv => RangesExact
  <2> SUFFICES ASSUME GenInv, RangesInv, NEW v \in DOMAIN assumed
               PROVE  LET I == Val(v)
                          m == Mod(I.w)
                      IN  terms[assumed[v]].x = 1 <=>
                            Wrap(m, prog.fresh[v] - I.range[1]) < Wrap(m, I.range[2] - I.range[1])
    BY DEF RangesExact
  <2> DEFINE I == Val(v)
             m == Mod(I.w)
  <2>1. Assumes(terms, assumed[v], v)
    BY DEF RangesInv
  <2>2. /\ I.w \in Nat \ {0} /\ I.range[1] \in Word(m) /\ I.range[2] \in Word(m)
        /\ prog.fresh[v] \in Word(m) /\ I.range[1] # I.range[2]
    BY <2>1, GenAssumption DEF Assumes, GenInv, IsProgram, Places, Widths, Val, Constrained
  <2>3. m \in Nat /\ m > 0
    BY <2>2, Pow2Grows DEF Mod
  <2> HIDE DEF m
  <2>4. InRange(prog.fresh[v], I.range[1], I.range[2]) <=>
          Wrap(m, prog.fresh[v] - I.range[1]) < Wrap(m, I.range[2] - I.range[1])
    BY <2>2, <2>3, RangeIs
  <2> QED
    BY <2>1, <2>4 DEF Assumes, m
<1> QED
  BY <1>1, <1>2, GenInvariant, RangesSteps, PTL DEF GenSpec

-----------------------------------------------------------------------------
(* What an operation computes is a word, where it has a result.            *)
LEMMA ModFacts ==
  ASSUME NEW w \in Nat
  PROVE  Mod(w) \in Nat /\ Mod(w) > w /\ Mod(w) > 0
BY Pow2Grows DEF Mod

LEMMA Dividing ==
  ASSUME NEW x \in Nat, NEW p \in Nat, p > 0
  PROVE  x \div p \in 0 .. x /\ x % p \in 0 .. p - 1
<1> DEFINE d == x \div p
           r == Wrap(p, x)
<1>0. x \in Int
  OBVIOUS
<1>1. d \in Int /\ r \in 0 .. p - 1 /\ x = p * d + r
  <2>1. d \in Int /\ r \in Word(p) /\ x = p * d + r
    BY <1>0, Division
  <2> HIDE DEF d, r
  <2> QED
    BY <2>1 DEF Word
<1>2. x % p = r
  BY DEF Wrap
<1> HIDE DEF d, r
<1>3. d >= 0
  <2> SUFFICES ASSUME d <= -1 PROVE FALSE
    BY <1>1
  <2>1. p * d <= p * (-1)
    BY <1>1
  <2>2. p * (-1) = -p
    OBVIOUS
  <2> QED
    BY <1>1, <2>1, <2>2
<1>4. d <= x
  <2>1. 1 * d <= p * d
    BY <1>1, <1>3
  <2>2. 1 * d = d /\ p * d \in Int
    BY <1>1
  <2> QED
    BY <1>1, <2>1, <2>2
<1>5. d \in 0 .. x
  BY <1>1, <1>3, <1>4
<1> QED
  BY <1>1, <1>2, <1>5 DEF d

LEMMA ShiftWord ==
  ASSUME NEW w \in Nat, NEW o \in Shifts, NEW x \in Word(Mod(w)), NEW y \in Nat
  PROVE  Shift(o, w, x, y) \in Word(Mod(w))
<1>1. Mod(w) \in Nat /\ Mod(w) > 0 /\ Pow2[y] \in Nat /\ Pow2[y] > 0 /\ x \in 0 .. Mod(w) - 1
  BY ModFacts, Pow2Grows DEF Word
<1>2. CASE o = "shl"
  <2>1. x * Pow2[y] \in Int
    BY <1>1
  <2>2. Wrap(Mod(w), x * Pow2[y]) \in Word(Mod(w))
    BY <1>1, <2>1, Division
  <2> QED
    BY <1>2, <2>2 DEF Shift
<1>3. CASE o = "lshr"
  <2>1. x \div Pow2[y] \in 0 .. x
    BY <1>1, Dividing
  <2>2. x \div Pow2[y] \in Word(Mod(w))
    BY <1>1, <2>1 DEF Word
  <2> QED
    BY <1>3, <2>2 DEF Shift
<1>4. CASE o = "ashr"
  <2>1. Signed(Mod(w), x) \in Int
    BY <1>1, SignedFacts
  <2>2. Signed(Mod(w), x) \div Pow2[y] \in Int
    BY <1>1, <2>1, Division
  <2>3. Wrap(Mod(w), Signed(Mod(w), x) \div Pow2[y]) \in Word(Mod(w))
    BY <1>1, <2>2, Division
  <2> QED
    BY <1>4, <2>3 DEF Shift
<1> QED
  BY <1>2, <1>3, <1>4 DEF Shifts

LEMMA QuotientInt ==
  ASSUME NEW a \in Int, NEW b \in Int, b # 0
  PROVE  Quotient(a, b) \in Int
BY DEF Quotient

LEMMA ComputeWord ==
  ASSUME NEW w \in Nat, NEW o \in BinaryOps, NEW x \in Word(Mod(w)), NEW y \in Word(Mod(w)),
         HasResult(o, w, x, y)
  PROVE  Compute(o, w, x, y) \in Word(Mod(w))
<1> DEFINE m == Mod(w)
           a == Signed(m, x)
           b == Signed(m, y)
<1>0. m \in Nat /\ m > 0
  BY ModFacts
<1>1. a \in Int /\ b \in Int
  BY <1>0, SignedFacts
<1>2. x \in 0 .. m - 1 /\ y \in 0 .. m - 1
  BY DEF Word
<1>3. y # 0 => b # 0
  BY <1>0, <1>2 DEF Signed, Half
<1>4. \A i \in Int : Wrap(m, i) \in Word(m)
  BY <1>0, Division
<1>5. \A bits : WithBits(w, bits) \in Word(m)
  BY BitsWord
<1>6. CASE o \in {"add", "sub", "mul"}
  <2>1. x + y \in Int /\ x - y \in Int /\ x * y \in Int
    BY <1>2
  <2>2. Compute(o, w, x, y) \in {Wrap(m, x + y), Wrap(m, x - y), Wrap(m, x * y)}
    BY <1>6 DEF Compute, Shifts
  <2> QED
    BY <1>4, <2>1, <2>2
<1>7. CASE o \in {"udiv", "urem"}
  <2>1. y # 0
    BY <1>7 DEF HasResult, Shifts
  <2>2. x \div y \in 0 .. x /\ x % y \in 0 .. y - 1
    <3>1. x \in Nat /\ y \in Nat /\ y > 0
      BY <1>2, <2>1
    <3> QED
      BY <3>1, Dividing
  <2>3. Compute(o, w, x, y) \in {x \div y, x % y}
    BY <1>7, <2>1 DEF Compute, Shifts
  <2>4. x \div y \in 0 .. m - 1 /\ x % y \in 0 .. m - 1
    <3> HIDE DEF m
    <3> QED
      BY <1>0, <1>2, <2>2
  <2> QED
    BY <2>3, <2>4 DEF Word
<1>8. CASE o \in {"sdiv", "srem"}
  <2>1. y # 0
    BY <1>8 DEF HasResult, Shifts
  <2>2. Quotient(a, b) \in Int
    BY <1>1, <1>3, <2>1, QuotientInt
  <2>3. a - b * Quotient(a, b) \in Int
    BY <1>1, <2>2
  <2>4. Compute(o, w, x, y) \in {Wrap(m, Quotient(a, b)), Wrap(m, a - b * Quotient(a, b))}
    BY <1>8, <2>1 DEF Compute, Shifts, SDiv
  <2> QED
    BY <1>4, <2>2, <2>3, <2>4
<1>9. CASE o \in {"and", "or", "xor"}
  <2>1. \E bits : Compute(o, w, x, y) = WithBits(w, bits)
    <3>1. CASE o = "and"
      BY <3>1 DEF Compute, Shifts
    <3>2. CASE o = "or"
      BY <3>2 DEF Compute, Shifts
    <3>3. CASE o = "xor"
      BY <3>3 DEF Compute, Shifts
    <3> QED
      BY <1>9, <3>1, <3>2, <3>3
  <2> QED
    BY <1>5, <2>1
<1>10. CASE o \in Shifts
  <2>1. Compute(o, w, x, y) = Shift(o, w, x, y)
    BY <1>10 DEF Compute, Shifts
  <2>2. y \in Nat
    BY <1>2
  <2> QED
    BY <1>10, <2>1, <2>2, ShiftWord
<1> QED
  BY <1>6, <1>7, <1>8, <1>9, <1>10 DEF BinaryOps

(* The meaning of a value, by its kind.                                    *)
Spoiled(v, val) == \E u \in Operands(v) : val[u] = Poison

Simple == {"trunc", "zext", "bitcast", "ptrtoint"}

Derived == {"binary", "icmp", "result", "overflow", "gep", "sext"} \cup Simple

LEMMA MeaningCases ==
  ASSUME NEW v, NEW val
  PROVE  LET I == Val(v)
             w == Val(I.a).w
             x == val[I.a]
             y == val[I.b]
         IN  /\ I.kind = "fresh" => MeaningOf(v, val) = prog.fresh[v]
             /\ I.kind = "const" => MeaningOf(v, val) = I.num
             /\ I.kind = "select" =>
                  MeaningOf(v, val) = IF val[I.c] = 1 THEN x ELSE IF val[I.c] = 0 THEN y ELSE Poison
             /\ I.kind \in Derived /\ Spoiled(v, val) => MeaningOf(v, val) = Poison
             /\ ~Spoiled(v, val) =>
                  /\ I.kind = "binary" =>
                       MeaningOf(v, val) = IF HasResult(I.op, I.w, x, y) THEN Compute(I.op, I.w, x, y) ELSE Poison
                  /\ I.kind = "icmp" => MeaningOf(v, val) = Bit(Holds(I.pred, w, x, y))
                  /\ I.kind = "result" => MeaningOf(v, val) = Wrap(Mod(I.w), Exact(I.op, I.w, x, y))
                  /\ I.kind = "overflow" =>
                       MeaningOf(v, val) = Bit(~(NoOverflow(I.op, w, x, y) /\ NoUnderflow(I.op, w, x, y)))
                  /\ I.kind = "gep" => MeaningOf(v, val) = Address(I, val)
                  /\ I.kind = "sext" => MeaningOf(v, val) = Wrap(Mod(I.w), Signed(Mod(w), x))
                  /\ I.kind \in Simple => MeaningOf(v, val) = Wrap(Mod(I.w), x)
<1> DEFINE I == Val(v)
           w == Val(I.a).w
           x == val[I.a]
           y == val[I.b]
           b == IF HasResult(I.op, I.w, x, y) THEN Compute(I.op, I.w, x, y) ELSE Poison
           p == Bit(Holds(I.pred, w, x, y))
           r == Wrap(Mod(I.w), Exact(I.op, I.w, x, y))
           o == Bit(~(NoOverflow(I.op, w, x, y) /\ NoUnderflow(I.op, w, x, y)))
           g == Address(I, val)
           e == Wrap(Mod(I.w), Signed(Mod(w), x))
           z == Wrap(Mod(I.w), x)
           c == IF val[I.c] = 1 THEN x ELSE IF val[I.c] = 0 THEN y ELSE Poison
           M == MeaningOf(v, val)
<1>1. M = CASE I.kind = "fresh" -> prog.fresh[v]
            [] I.kind = "const" -> I.num
            [] I.kind = "select" -> c
            [] I.kind # "select" /\ Spoiled(v, val) -> Poison
            [] OTHER ->
                 CASE I.kind = "binary" -> b
                   [] I.kind = "icmp" -> p
                   [] I.kind = "result" -> r
                   [] I.kind = "overflow" -> o
                   [] I.kind = "gep" -> g
                   [] I.kind = "sext" -> e
                   [] OTHER -> z
  BY DEF MeaningOf, Spoiled
<1>2. I.kind \in {"fresh", "const"} => ~Spoiled(v, val)
  BY DEF Spoiled, Operands, OperandsOf
<1> HIDE DEF b, p, r, o, g, e, z, c, M
<1>3. /\ I.kind = "fresh" => M = prog.fresh[v]
      /\ I.kind = "const" => M = I.num
  BY <1>1, <1>2
<1>4. I.kind = "select" => M = c
  BY <1>1
<1>5. I.kind \in Derived /\ Spoiled(v, val) => M = Poison
  BY <1>1 DEF Derived, Simple
<1>6. ASSUME ~Spoiled(v, val)
      PROVE  /\ I.kind = "binary" => M = b
             /\ I.kind = "icmp" => M = p
             /\ I.kind = "result" => M = r
             /\ I.kind = "overflow" => M = o
             /\ I.kind = "gep" => M = g
             /\ I.kind = "sext" => M = e
             /\ I.kind \in Simple => M = z
  BY <1>1, <1>6 DEF Simple
<1> QED
  BY <1>3, <1>4, <1>5, <1>6 DEF b, p, r, o, g, e, z, c, M

LEMMA KindFacts ==
  ASSUME prog \in Programs, NEW v \in Places
  PROVE  /\ Widths(prog, v) /\ Val(v).w \in Nat \ {0}
         /\ Val(v).kind \in {"fresh", "const", "select"} \cup Derived
         /\ Operands(v) \subseteq 1 .. v - 1 /\ Operands(v) \subseteq Places
         /\ v \in Nat \ {0} /\ Places = 1 .. Len(prog.vals) /\ Len(prog.vals) \in Nat
<1>1. IsProgram(prog)
  BY GenAssumption
<1>2. Places = 1 .. Len(prog.vals) /\ Len(prog.vals) \in Nat /\ Widths(prog, v)
  BY <1>1 DEF IsProgram, Places
<1>3. /\ Val(v).w \in Nat \ {0} /\ OperandsOf(Val(v)) \subseteq 1 .. v - 1
      /\ Val(v).kind \in {"binary", "result", "icmp", "overflow", "fresh", "const", "select", "gep",
                          "trunc", "zext", "sext", "bitcast", "ptrtoint"}
  BY <1>2 DEF Widths, Val
<1>4. Val(v).kind \in {"fresh", "const", "select"} \cup Derived
  BY <1>3 DEF Derived, Simple
<1>5. v \in 1 .. Len(prog.vals)
  BY <1>2
<1>6. 1 .. v - 1 \subseteq Places
  BY <1>2, <1>5
<1> QED
  BY <1>2, <1>3, <1>4, <1>5, <1>6 DEF Operands

LEMMA OperandFacts ==
  ASSUME NEW v
  PROVE  LET I == Val(v)
         IN  /\ I.kind \in {"select"} \cup Derived => I.a \in Operands(v)
             /\ I.kind \in {"select", "binary", "icmp", "result", "overflow"} => I.b \in Operands(v)
             /\ I.kind = "select" => I.c \in Operands(v)
             /\ I.kind = "gep" => \A i \in DOMAIN I.index : I.index[i].by = "value" => I.index[i].val \in Operands(v)
<1> DEFINE I == Val(v)
<1>1. I.kind = "select" => Operands(v) = {I.c, I.a, I.b}
  BY DEF Operands, OperandsOf
<1>2. I.kind = "gep" =>
        /\ I.a \in Operands(v)
        /\ \A i \in DOMAIN I.index : I.index[i].by = "value" => I.index[i].val \in Operands(v)
  BY DEF Operands, OperandsOf
<1>3. I.kind \in {"trunc", "zext", "sext", "bitcast", "ptrtoint"} => Operands(v) = {I.a}
  BY DEF Operands, OperandsOf
<1>4. I.kind \in {"binary", "icmp", "result", "overflow"} => Operands(v) = {I.a, I.b}
  BY DEF Operands, OperandsOf
<1> QED
  BY <1>1, <1>2, <1>3, <1>4 DEF Derived, Simple

LEMMA MeaningLocal ==
  ASSUME prog \in Programs, NEW v \in Places, NEW f, NEW g, \A u \in Operands(v) : f[u] = g[u]
  PROVE  MeaningOf(v, f) = MeaningOf(v, g)
<1> DEFINE I == Val(v)
<1>1. Spoiled(v, f) <=> Spoiled(v, g)
  BY DEF Spoiled
<1>2. CASE I.kind \in {"fresh", "const"}
  BY <1>2, MeaningCases
<1>3. CASE I.kind = "select"
  <2>1. f[I.a] = g[I.a] /\ f[I.b] = g[I.b] /\ f[I.c] = g[I.c]
    BY <1>3, OperandFacts
  <2> QED
    BY <1>3, <2>1, MeaningCases
<1>4. CASE I.kind \in Derived /\ Spoiled(v, f)
  BY <1>1, <1>4, MeaningCases
<1>5. CASE I.kind \in {"binary", "icmp", "result", "overflow"} /\ ~Spoiled(v, f)
  <2>1. f[I.a] = g[I.a] /\ f[I.b] = g[I.b]
    BY <1>5, OperandFacts DEF Derived
  <2>2. CASE I.kind = "binary"
    BY <1>1, <1>5, <2>1, <2>2, MeaningCases
  <2>3. CASE I.kind = "icmp"
    BY <1>1, <1>5, <2>1, <2>3, MeaningCases
  <2>4. CASE I.kind = "result"
    BY <1>1, <1>5, <2>1, <2>4, MeaningCases
  <2>5. CASE I.kind = "overflow"
    BY <1>1, <1>5, <2>1, <2>5, MeaningCases
  <2> QED
    BY <1>5, <2>2, <2>3, <2>4, <2>5
<1>6. CASE I.kind \in {"sext"} \cup Simple /\ ~Spoiled(v, f)
  <2>1. f[I.a] = g[I.a]
    BY <1>6, OperandFacts DEF Derived
  <2> QED
    BY <1>1, <1>6, <2>1, MeaningCases
<1>7. CASE I.kind = "gep" /\ ~Spoiled(v, f)
  <2> DEFINE n == Len(I.index)
             F == [i \in 1 .. n |-> Part(I.index[i], f)]
             G == [i \in 1 .. n |-> Part(I.index[i], g)]
  <2>1. f[I.a] = g[I.a]
    BY <1>7, OperandFacts DEF Derived
  <2>2. DOMAIN I.index = 1 .. n /\ \A i \in 1 .. n : IsIndex(I.index[i])
    BY <1>7, KindFacts DEF Widths, Val
  <2>3. ASSUME NEW i \in 1 .. n PROVE Part(I.index[i], f) = Part(I.index[i], g)
    <3> DEFINE j == I.index[i]
    <3>1. j.by \in {"field", "const", "value"}
      BY <2>2 DEF IsIndex
    <3>2. j.by = "value" => f[j.val] = g[j.val]
      BY <1>7, <2>2, OperandFacts
    <3> HIDE DEF j
    <3>3. Part(j, f) = Part(j, g)
      BY <3>1, <3>2 DEF Part
    <3> QED
      BY <3>3 DEF j
  <2>4. F = G
    BY <2>3
  <2>5. Address(I, f) = Wrap(Mod(PtrSize), f[I.a] + Total(F)) /\ Address(I, g) = Wrap(Mod(PtrSize), g[I.a] + Total(G))
    BY DEF Address
  <2> HIDE DEF F, G
  <2>6. Address(I, f) = Address(I, g)
    BY <2>1, <2>4, <2>5
  <2> QED
    BY <1>1, <1>7, <2>6, MeaningCases
<1>8. I.kind \in {"fresh", "const", "select"} \cup Derived
  BY KindFacts
<1> QED
  BY <1>2, <1>3, <1>4, <1>5, <1>6, <1>7, <1>8 DEF Derived

(* The meanings of the first n values, a function defined by recursion.    *)
Meanings(f, n) == f = [v \in 1 .. n |-> MeaningOf(v, f)]

LEMMA MeaningsExist ==
  ASSUME prog \in Programs
  PROVE  \A n \in Nat : n <= Len(prog.vals) => \E f : Meanings(f, n)
<1> DEFINE N == Len(prog.vals)
           T == { n \in Nat : n <= N => \E f : Meanings(f, n) }
<1>0. N \in Nat /\ Places = 1 .. N
  BY GenAssumption DEF IsProgram, Places
<1>1. 0 \in T
  <2> DEFINE f == [v \in 1 .. 0 |-> 0]
  <2>1. f = [v \in 1 .. 0 |-> MeaningOf(v, f)]
    OBVIOUS
  <2> HIDE DEF f
  <2>2. Meanings(f, 0)
    BY <2>1 DEF Meanings
  <2> QED
    BY <2>2
<1>2. ASSUME NEW n \in T PROVE n + 1 \in T
  <2> SUFFICES ASSUME n + 1 <= N PROVE \E f : Meanings(f, n + 1)
    OBVIOUS
  <2>0. n \in Nat /\ n <= N
    BY <1>0
  <2>1. PICK f : f = [v \in 1 .. n |-> MeaningOf(v, f)]
    BY <2>0 DEF Meanings
  <2> HIDE DEF T
  <2> DEFINE m == MeaningOf(n + 1, f)
             g == [v \in 1 .. n + 1 |-> IF v = n + 1 THEN m ELSE f[v]]
  <2>2. ASSUME NEW v \in 1 .. n + 1 PROVE g[v] = MeaningOf(v, g)
    <3>1. v \in Places /\ v - 1 <= n /\ v \in Nat
      BY <1>0, <2>0
    <3>2. Operands(v) \subseteq 1 .. v - 1
      BY <3>1, KindFacts
    <3>3. \A u \in Operands(v) : f[u] = g[u]
      <4> SUFFICES ASSUME NEW u \in Operands(v) PROVE f[u] = g[u]
        OBVIOUS
      <4>1. u \in 1 .. n + 1 /\ u # n + 1
        BY <2>0, <3>1, <3>2
      <4> QED
        BY <4>1
    <3>4. MeaningOf(v, f) = MeaningOf(v, g)
      BY <3>1, <3>3, MeaningLocal
    <3>5. g[v] = MeaningOf(v, f)
      <4>1. CASE v = n + 1
        BY <4>1
      <4>2. CASE v # n + 1
        <5>1. v \in 1 .. n
          BY <2>0, <4>2
        <5> QED
          BY <2>1, <4>2, <5>1
      <4> QED
        BY <4>1, <4>2
    <3> QED
      BY <3>4, <3>5
  <2>3. g = [v \in 1 .. n + 1 |-> g[v]]
    OBVIOUS
  <2> HIDE DEF g
  <2>4. g = [v \in 1 .. n + 1 |-> MeaningOf(v, g)]
    BY <2>2, <2>3
  <2>5. Meanings(g, n + 1)
    BY <2>4 DEF Meanings
  <2> QED
    BY <2>5
<1>3. T \in SUBSET Nat
  OBVIOUS
<1> HIDE DEF T
<1>4. T = Nat
  BY <1>1, <1>2, <1>3, Counting
<1> QED
  BY <1>4 DEF T

LEMMA MeaningIs ==
  ASSUME prog \in Programs, NEW v \in Places
  PROVE  Meaning[v] = MeaningOf(v, Meaning)
<1> DEFINE N == Len(prog.vals)
           F == CHOOSE f : f = [u \in Places |-> MeaningOf(u, f)]
<1>0. N \in Nat /\ Places = 1 .. N
  BY GenAssumption DEF IsProgram, Places
<1>1. Meaning = F
  BY DEF Meaning
<1>2. PICK f : Meanings(f, N)
  BY <1>0, MeaningsExist
<1>3. f = [u \in Places |-> MeaningOf(u, f)]
  BY <1>0, <1>2 DEF Meanings
<1>4. F = [u \in Places |-> MeaningOf(u, F)]
  BY <1>3
<1> HIDE DEF F
<1> QED
  BY <1>1, <1>4

(* It is a word of the value's width, if there is one.                     *)
Sound(v) == Meaning[v] = Poison \/ Meaning[v] \in Word(Mod(Val(v).w))

LEMMA ExactInt ==
  ASSUME NEW w \in Nat \ {0}, NEW o \in OverflowOps, NEW x \in Word(Mod(w)), NEW y \in Word(Mod(w))
  PROVE  Exact(o, w, x, y) \in Int
<1>1. Mod(w) \in Nat /\ Mod(w) > 0
  BY ModFacts
<1>2. Signed(Mod(w), x) \in Int /\ Signed(Mod(w), y) \in Int
  BY <1>1, SignedFacts
<1>3. x \in Int /\ y \in Int
  BY DEF Word
<1> DEFINE a == IF o \in SignedOps THEN Signed(Mod(w), x) ELSE x
           b == IF o \in SignedOps THEN Signed(Mod(w), y) ELSE y
<1>4. a \in Int /\ b \in Int
  BY <1>2, <1>3
<1>5. Exact(o, w, x, y) = CASE o \in {"sadd", "uadd"} -> a + b
                            [] o \in {"ssub", "usub"} -> a - b
                            [] o \in {"smul", "umul"} -> a * b
  BY DEF Exact
<1> HIDE DEF a, b
<1>6. a + b \in Int /\ a - b \in Int /\ a * b \in Int
  BY <1>4
<1> QED
  BY <1>5, <1>6 DEF OverflowOps, SignedOps

LEMMA FunctionLen ==
  ASSUME NEW n \in Nat, NEW p, DOMAIN p = 1 .. n, p \in [1 .. n -> Int]
  PROVE  Len(p) = n
<1>1. p \in Seq(Int)
  BY SeqDef
<1> QED
  BY <1>1, LenProperties

LEMMA TotalInts ==
  ASSUME NEW p, Len(p) \in Nat, \A i \in 1 .. Len(p) : p[i] \in Int
  PROVE  \E f : /\ Total(p) = f[Len(p)] /\ f[0] = 0
                /\ \A i \in 1 .. Len(p) : f[i] = f[i - 1] + p[i]
                /\ \A i \in 0 .. Len(p) : f[i] \in Int
<1> DEFINE N == Len(p)
<1>1. PICK f : /\ Total(p) = f[N] /\ f[0] = 0
               /\ \A i \in 1 .. N : f[i] = f[i - 1] + p[i]
  BY TotalSums
<1> DEFINE T == { n \in Nat : n <= N => f[n] \in Int }
<1>2. 0 \in T
  BY <1>1
<1>3. ASSUME NEW n \in T PROVE n + 1 \in T
  <2> SUFFICES ASSUME n + 1 <= N PROVE f[n + 1] \in Int
    OBVIOUS
  <2>1. n \in Nat /\ n + 1 \in 1 .. N /\ (n + 1) - 1 = n /\ f[n] \in Int
    OBVIOUS
  <2> HIDE DEF T
  <2>2. f[n + 1] = f[n] + p[n + 1]
    BY <1>1, <2>1
  <2> QED
    BY <2>1, <2>2
<1>4. T \in SUBSET Nat
  OBVIOUS
<1> HIDE DEF T
<1>5. T = Nat
  BY <1>2, <1>3, <1>4, Counting
<1>6. \A i \in 0 .. N : f[i] \in Int
  BY <1>5 DEF T
<1> QED
  BY <1>1, <1>6

LEMMA PartFacts ==
  ASSUME NEW i, IsIndex(i), NEW val,
         i.by = "value" => Val(i.val).w \in Nat \ {0} /\ val[i.val] \in Word(Mod(Val(i.val).w))
  PROVE  /\ Part(i, val) \in Int /\ ConstPart(i) \in Int
         /\ i.by = "value" => ConstPart(i) = 0
         /\ i.by # "value" => Cong(Mod(PtrSize), ConstPart(i), Part(i, val))
<1> DEFINE m == Mod(PtrSize)
<1>0. m \in Nat /\ m > 0
  BY GenAssumption, ModFacts
<1>1. CASE i.by = "field"
  <2>1. Part(i, val) = i.offset /\ ConstPart(i) = i.offset /\ i.offset \in Int
    BY <1>1 DEF Part, ConstPart, IsIndex
  <2> HIDE DEF m
  <2>2. Cong(m, i.offset, i.offset)
    BY <1>0, <2>1, WrapCong
  <2> QED
    BY <1>1, <2>1, <2>2 DEF m
<1>2. CASE i.by = "const"
  <2> DEFINE a == Signed(Mod(i.w), i.num)
  <2>1. /\ Part(i, val) = i.size * a /\ ConstPart(i) = i.size * Wrap(m, a)
        /\ i.size \in Int /\ i.w \in Nat \ {0} /\ i.num \in Word(Mod(i.w))
    BY <1>2 DEF Part, ConstPart, IsIndex
  <2>2. a \in Int
    <3>1. Mod(i.w) \in Nat /\ Mod(i.w) > 0
      BY <2>1, ModFacts
    <3> QED
      BY <2>1, <3>1, SignedFacts
  <2> HIDE DEF a, m
  <2>3. Wrap(m, a) \in Int /\ Cong(m, Wrap(m, a), a)
    BY <1>0, <2>2, Division, WrapCong
  <2>4. Cong(m, i.size * Wrap(m, a), i.size * a)
    BY <1>0, <2>1, <2>2, <2>3, CongTimes
  <2>5. i.size * a \in Int /\ i.size * Wrap(m, a) \in Int
    BY <2>1, <2>2, <2>3
  <2> QED
    BY <1>2, <2>1, <2>4, <2>5 DEF m
<1>3. CASE i.by = "value"
  <2> DEFINE a == Signed(Mod(Val(i.val).w), val[i.val])
  <2>1. Part(i, val) = i.size * a /\ ConstPart(i) = 0 /\ i.size \in Int
    BY <1>3 DEF Part, ConstPart, IsIndex
  <2>2. a \in Int
    <3>1. Mod(Val(i.val).w) \in Nat /\ Mod(Val(i.val).w) > 0
      BY <1>3, ModFacts
    <3> QED
      BY <1>3, <3>1, SignedFacts
  <2> HIDE DEF a
  <2>3. i.size * a \in Int
    BY <2>1, <2>2
  <2> QED
    BY <1>3, <2>1, <2>3
<1> QED
  BY <1>1, <1>2, <1>3 DEF IsIndex

(* The sums of an address and of its constant part.                        *)
LEMMA AddressSums ==
  ASSUME NEW I, Len(I.index) \in Nat,
         NEW val, val[I.a] \in Int,
         \A i \in 1 .. Len(I.index) : Part(I.index[i], val) \in Int /\ ConstPart(I.index[i]) \in Int
  PROVE  \E P, C :
           /\ Address(I, val) = Wrap(Mod(PtrSize), val[I.a] + P[Len(I.index)])
           /\ ConstOffset(I) = Wrap(Mod(PtrSize), C[Len(I.index)])
           /\ P[0] = 0 /\ C[0] = 0
           /\ \A i \in 1 .. Len(I.index) : /\ P[i] = P[i - 1] + Part(I.index[i], val)
                                           /\ C[i] = C[i - 1] + ConstPart(I.index[i])
           /\ \A i \in 0 .. Len(I.index) : P[i] \in Int /\ C[i] \in Int
<1> DEFINE n == Len(I.index)
           p == [i \in 1 .. n |-> Part(I.index[i], val)]
           c == [i \in 1 .. n |-> ConstPart(I.index[i])]
<1>1. /\ DOMAIN p = 1 .. n /\ DOMAIN c = 1 .. n
      /\ \A i \in 1 .. n : p[i] = Part(I.index[i], val) /\ c[i] = ConstPart(I.index[i])
  OBVIOUS
<1>2. p \in [1 .. n -> Int] /\ c \in [1 .. n -> Int]
  OBVIOUS
<1>3. /\ Address(I, val) = Wrap(Mod(PtrSize), val[I.a] + Total(p))
      /\ ConstOffset(I) = Wrap(Mod(PtrSize), Total(c))
  BY DEF Address, ConstOffset
<1> HIDE DEF p, c
<1>4. Len(p) = n /\ Len(c) = n
  BY <1>1, <1>2, FunctionLen
<1>5. PICK P : /\ Total(p) = P[n] /\ P[0] = 0
               /\ \A i \in 1 .. n : P[i] = P[i - 1] + p[i]
               /\ \A i \in 0 .. n : P[i] \in Int
  <2>1. Len(p) \in Nat /\ \A i \in 1 .. Len(p) : p[i] \in Int
    BY <1>1, <1>4
  <2> HIDE DEF n
  <2>2. \E f : /\ Total(p) = f[Len(p)] /\ f[0] = 0
               /\ \A i \in 1 .. Len(p) : f[i] = f[i - 1] + p[i]
               /\ \A i \in 0 .. Len(p) : f[i] \in Int
    BY <2>1, TotalInts
  <2> QED
    BY <1>4, <2>2
<1>6. PICK C : /\ Total(c) = C[n] /\ C[0] = 0
               /\ \A i \in 1 .. n : C[i] = C[i - 1] + c[i]
               /\ \A i \in 0 .. n : C[i] \in Int
  <2>1. Len(c) \in Nat /\ \A i \in 1 .. Len(c) : c[i] \in Int
    BY <1>1, <1>4
  <2> HIDE DEF n
  <2>2. \E f : /\ Total(c) = f[Len(c)] /\ f[0] = 0
               /\ \A i \in 1 .. Len(c) : f[i] = f[i - 1] + c[i]
               /\ \A i \in 0 .. Len(c) : f[i] \in Int
    BY <2>1, TotalInts
  <2> QED
    BY <1>4, <2>2
<1> QED
  BY <1>1, <1>3, <1>5, <1>6

LEMMA BitWord ==
  ASSUME NEW b \in BOOLEAN
  PROVE  Bit(b) \in Word(Mod(1)) /\ Word(Mod(1)) = {0, 1}
<1>1. Mod(1) = 2
  <2>1. 0 + 1 = 1 /\ 0 \in Nat
    OBVIOUS
  <2> QED
    BY <2>1, Pow2Facts DEF Mod
<1>2. Word(Mod(1)) = {0, 1}
  BY <1>1 DEF Word
<1> QED
  BY <1>2 DEF Bit

LEMMA AddressWord ==
  ASSUME prog \in Programs, NEW v \in Places, Val(v).kind = "gep", ~Spoiled(v, Meaning),
         \A u \in Operands(v) : Sound(u)
  PROVE  /\ Address(Val(v), Meaning) \in Word(Mod(PtrSize))
         /\ \A i \in 1 .. Len(Val(v).index) :
              LET j == Val(v).index[i]
              IN  /\ IsIndex(j)
                  /\ j.by = "value" => /\ j.val \in Operands(v) /\ Val(j.val).w \in Nat \ {0}
                                       /\ Meaning[j.val] \in Word(Mod(Val(j.val).w))
         /\ Meaning[Val(v).a] \in Word(Mod(PtrSize)) /\ Val(v).a \in Operands(v)
<1> DEFINE I == Val(v)
           n == Len(I.index)
           m == Mod(PtrSize)
<1>0. m \in Nat /\ m > 0
  BY GenAssumption, ModFacts
<1>1. /\ n \in Nat /\ DOMAIN I.index = 1 .. n /\ \A i \in 1 .. n : IsIndex(I.index[i])
      /\ Val(I.a).w = PtrSize
  BY KindFacts DEF Widths, Val
<1>2. ASSUME NEW u \in Operands(v) PROVE Meaning[u] \in Word(Mod(Val(u).w)) /\ Val(u).w \in Nat \ {0}
  <2>1. u \in Places
    BY <1>2, KindFacts
  <2> QED
    BY <1>2, <2>1, KindFacts DEF Sound, Spoiled
<1>3. I.a \in Operands(v) /\ Meaning[I.a] \in Word(m)
  <2>1. I.a \in Operands(v)
    BY OperandFacts DEF Derived
  <2> QED
    BY <1>1, <1>2, <2>1
<1>4. \A i \in 1 .. n :
        /\ IsIndex(I.index[i])
        /\ I.index[i].by = "value" => /\ I.index[i].val \in Operands(v)
                                      /\ Val(I.index[i].val).w \in Nat \ {0}
                                      /\ Meaning[I.index[i].val] \in Word(Mod(Val(I.index[i].val).w))
  <2>1. \A i \in 1 .. n : I.index[i].by = "value" => I.index[i].val \in Operands(v)
    BY <1>1, OperandFacts
  <2> QED
    BY <1>1, <1>2, <2>1
<1>5. \A i \in 1 .. n : Part(I.index[i], Meaning) \in Int /\ ConstPart(I.index[i]) \in Int
  BY <1>4, PartFacts
<1>6. Meaning[I.a] \in Int
  BY <1>3 DEF Word
<1>7. PICK P : Address(I, Meaning) = Wrap(m, Meaning[I.a] + P[n]) /\ P[n] \in Int
  <2>1. n \in 0 .. n
    BY <1>1
  <2> QED
    BY <1>1, <1>5, <1>6, <2>1, AddressSums
<1>8. Meaning[I.a] + P[n] \in Int
  BY <1>6, <1>7
<1>9. Address(I, Meaning) \in Word(m)
  BY <1>0, <1>7, <1>8, Division
<1> QED
  BY <1>3, <1>4, <1>9

LEMMA MeaningSound ==
  ASSUME prog \in Programs, NEW v \in Places, \A u \in Operands(v) : Sound(u)
  PROVE  Sound(v)
<1> DEFINE I == Val(v)
           w == Val(I.a).w
           x == Meaning[I.a]
           y == Meaning[I.b]
           m == Mod(I.w)
<1>0. Meaning[v] = MeaningOf(v, Meaning) /\ Widths(prog, v) /\ I.w \in Nat \ {0}
  BY KindFacts, MeaningIs
<1>1. m \in Nat /\ m > 0 /\ \A i \in Int : Wrap(m, i) \in Word(m)
  <2>1. m \in Nat /\ m > 0
    BY <1>0, ModFacts
  <2> HIDE DEF m
  <2> QED
    BY <2>1, Division
<1>2. CASE I.kind \in {"fresh", "const"}
  <2>1. I.kind = "fresh" => prog.fresh[v] \in Word(m)
    BY <1>0 DEF Widths, Val
  <2>2. I.kind = "const" => I.num \in Word(m)
    BY <1>0 DEF Widths, Val
  <2> QED
    BY <1>0, <1>2, <2>1, <2>2, MeaningCases DEF Sound
<1>3. CASE I.kind = "select"
  <2>1. Sound(I.a) /\ Sound(I.b) /\ Val(I.a).w = I.w /\ Val(I.b).w = I.w
    BY <1>0, <1>3, OperandFacts DEF Widths, Val
  <2>2. MeaningOf(v, Meaning) \in {x, y, Poison}
    BY <1>3, MeaningCases
  <2> QED
    BY <1>0, <2>1, <2>2 DEF Sound
<1>4. CASE I.kind \in Derived /\ Spoiled(v, Meaning)
  BY <1>0, <1>4, MeaningCases DEF Sound
<1>5. ASSUME ~Spoiled(v, Meaning), NEW u \in Operands(v)
      PROVE  /\ Meaning[u] \in Word(Mod(Val(u).w)) /\ Val(u).w \in Nat \ {0}
             /\ Mod(Val(u).w) \in Nat /\ Mod(Val(u).w) > 0 /\ Meaning[u] \in Int
  <2>1. u \in Places
    BY <1>5, KindFacts
  <2>2. Meaning[u] \in Word(Mod(Val(u).w)) /\ Val(u).w \in Nat \ {0}
    BY <1>5, <2>1, KindFacts DEF Sound, Spoiled
  <2> QED
    BY <2>2, ModFacts DEF Word
<1>6. CASE I.kind = "binary" /\ ~Spoiled(v, Meaning)
  <2>1. /\ x \in Word(m) /\ y \in Word(m) /\ I.op \in BinaryOps
    <3>1. I.a \in Operands(v) /\ I.b \in Operands(v)
      BY <1>6, OperandFacts DEF Derived
    <3>2. Val(I.a).w = I.w /\ Val(I.b).w = I.w /\ I.op \in BinaryOps
      BY <1>0, <1>6 DEF Widths, Val
    <3> QED
      BY <1>5, <1>6, <3>1, <3>2
  <2>2. HasResult(I.op, I.w, x, y) => Compute(I.op, I.w, x, y) \in Word(m)
    BY <1>0, <2>1, ComputeWord
  <2>3. MeaningOf(v, Meaning) = IF HasResult(I.op, I.w, x, y) THEN Compute(I.op, I.w, x, y) ELSE Poison
    BY <1>6, MeaningCases
  <2> QED
    BY <1>0, <2>2, <2>3 DEF Sound
<1>7. CASE I.kind \in {"icmp", "overflow"} /\ ~Spoiled(v, Meaning)
  <2>1. I.w = 1
    BY <1>0, <1>7 DEF Widths, Val
  <2>2. \E b : MeaningOf(v, Meaning) = Bit(b)
    BY <1>7, MeaningCases
  <2>3. \A b : Bit(b) \in {0, 1}
    BY DEF Bit
  <2>4. Word(Mod(1)) = {0, 1}
    BY BitWord
  <2> QED
    BY <1>0, <2>1, <2>2, <2>3, <2>4 DEF Sound
<1>8. CASE I.kind = "result" /\ ~Spoiled(v, Meaning)
  <2>1. x \in Word(m) /\ y \in Word(m) /\ I.op \in OverflowOps
    <3>1. I.a \in Operands(v) /\ I.b \in Operands(v)
      BY <1>8, OperandFacts DEF Derived
    <3>2. Val(I.a).w = I.w /\ Val(I.b).w = I.w /\ I.op \in OverflowOps
      BY <1>0, <1>8 DEF Widths, Val
    <3> QED
      BY <1>5, <1>8, <3>1, <3>2
  <2>2. Exact(I.op, I.w, x, y) \in Int
    BY <1>0, <2>1, ExactInt
  <2>3. MeaningOf(v, Meaning) = Wrap(m, Exact(I.op, I.w, x, y))
    BY <1>8, MeaningCases
  <2> QED
    BY <1>0, <1>1, <2>2, <2>3 DEF Sound
<1>9. CASE I.kind = "gep" /\ ~Spoiled(v, Meaning)
  <2>1. Address(I, Meaning) \in Word(Mod(PtrSize)) /\ I.w = PtrSize
    BY <1>0, <1>9, AddressWord DEF Widths, Val
  <2>2. MeaningOf(v, Meaning) = Address(I, Meaning)
    BY <1>9, MeaningCases
  <2> QED
    BY <1>0, <2>1, <2>2 DEF Sound
<1>10. CASE I.kind \in {"sext"} \cup Simple /\ ~Spoiled(v, Meaning)
  <2>1. I.a \in Operands(v)
    BY <1>10, OperandFacts DEF Derived
  <2>2. x \in Word(Mod(w)) /\ Mod(w) \in Nat /\ Mod(w) > 0 /\ x \in Int
    BY <1>5, <1>10, <2>1
  <2>3. Signed(Mod(w), x) \in Int
    BY <2>2, SignedFacts
  <2>4. MeaningOf(v, Meaning) \in {Wrap(m, x), Wrap(m, Signed(Mod(w), x))}
    BY <1>10, MeaningCases
  <2> QED
    BY <1>0, <1>1, <2>2, <2>3, <2>4 DEF Sound
<1>11. I.kind \in {"fresh", "const", "select"} \cup Derived
  BY KindFacts
<1> QED
  BY <1>2, <1>3, <1>4, <1>6, <1>7, <1>8, <1>9, <1>10, <1>11 DEF Derived

LEMMA MeaningsSound ==
  ASSUME prog \in Programs
  PROVE  \A v \in Places : Sound(v)
<1> DEFINE T == { n \in Nat : \A v \in Places : v <= n => Sound(v) }
<1>0. \A v \in Places : v \in Nat \ {0} /\ Operands(v) \subseteq 1 .. v - 1 /\ Operands(v) \subseteq Places
  BY KindFacts
<1>1. 0 \in T
  BY <1>0
<1>2. ASSUME NEW n \in T PROVE n + 1 \in T
  <2>0. n \in Nat /\ \A v \in Places : v <= n => Sound(v)
    OBVIOUS
  <2> SUFFICES ASSUME NEW v \in Places, v <= n + 1 PROVE Sound(v)
    BY <2>0
  <2> HIDE DEF T
  <2>1. \A u \in Operands(v) : Sound(u)
    <3> SUFFICES ASSUME NEW u \in Operands(v) PROVE Sound(u)
      OBVIOUS
    <3>1. u \in Places /\ u <= n
      BY <1>0, <2>0
    <3> QED
      BY <2>0, <3>1
  <2> QED
    BY <2>1, MeaningSound
<1>3. T \in SUBSET Nat
  OBVIOUS
<1> HIDE DEF T
<1>4. T = Nat
  BY <1>1, <1>2, <1>3, Counting
<1>5. ASSUME NEW v \in Places PROVE Sound(v)
  <2>1. v \in T /\ v <= v
    BY <1>0, <1>4
  <2> QED
    BY <2>1 DEF T
<1> QED
  BY <1>5

-----------------------------------------------------------------------------
(* What the solvers compute is what is meant, by the kind of the value.    *)
LEMMA OverflowIs ==
  ASSUME backend \in Backends, NEW w \in Nat \ {0}, NEW o \in OverflowOps,
         NEW x \in Word(Mod(w)), NEW y \in Word(Mod(w))
  PROVE  Overflow(o, w, x, y) = Bit(~(NoOverflow(o, w, x, y) /\ NoUnderflow(o, w, x, y)))
<1> DEFINE no == NoOverflow(o, w, x, y)
           nu == NoUnderflow(o, w, x, y)
           m == Mod(w)
<1>1. CASE backend = "boolector"
  BY <1>1 DEF Overflow, BoolectorOverflow
<1>2. CASE backend = "sonolar"
  BY <1>2 DEF Overflow, SonolarOverflow
<1>3. CASE backend = "z3"
  <2>1. Overflow(o, w, x, y) = Z3Overflow(o, w, x, y)
    BY <1>3 DEF Overflow
  <2>2. CASE o \in SignedOps
    <3>1. Z3Overflow(o, w, x, y) = Bit(~no \/ ~nu)
      BY <2>2 DEF Z3Overflow, SignedOps
    <3> HIDE DEF no, nu
    <3> QED
      BY <2>1, <3>1 DEF Bit, no, nu
  <2>0. m \in Nat /\ m > 0 /\ x \in 0 .. m - 1 /\ y \in 0 .. m - 1
    BY ModFacts DEF Word
  <2> HIDE DEF m
  <2>3. CASE o \in {"uadd", "umul"}
    <3>1. Z3Overflow(o, w, x, y) = Bit(~no)
      BY <2>3 DEF Z3Overflow, SignedOps
    <3>2. Exact(o, w, x, y) \in {x + y, x * y} /\ o \notin SignedOps
      BY <2>3 DEF Exact, SignedOps
    <3>3. x + y >= 0 /\ x * y >= 0
      <4>1. x \in Nat /\ y \in Nat
        BY <2>0
      <4>2. x * y \in Nat /\ x + y \in Nat
        BY <4>1
      <4> QED
        BY <4>2
    <3>4. nu
      BY <3>2, <3>3 DEF NoUnderflow
    <3> HIDE DEF no, nu
    <3> QED
      BY <2>1, <3>1, <3>4 DEF Bit, no, nu
  <2>4. CASE o = "usub"
    <3>1. Z3Overflow(o, w, x, y) = Bit(~nu)
      BY <2>4 DEF Z3Overflow, SignedOps
    <3>2. Exact(o, w, x, y) = x - y /\ o \notin SignedOps
      BY <2>4 DEF Exact, SignedOps
    <3>3. x - y <= m - 1
      BY <2>0
    <3>4. no
      BY <3>2, <3>3 DEF NoOverflow, UMax, m
    <3> HIDE DEF no, nu
    <3> QED
      BY <2>1, <3>1, <3>4 DEF Bit, no, nu
  <2> QED
    BY <2>2, <2>3, <2>4 DEF OverflowOps
<1> QED
  BY <1>1, <1>2, <1>3 DEF Backends

LEMMA CongSym ==
  ASSUME NEW M \in Nat, NEW a \in Int, NEW b \in Int, Cong(M, a, b)
  PROVE  Cong(M, b, a)
<1>1. PICK k \in Int : a = b + M * k
  BY DEF Cong
<1> DEFINE p == -k
<1>2. p \in Int /\ M * p = -(M * k) /\ M * k \in Int
  OBVIOUS
<1> HIDE DEF p
<1>3. b = a + M * p
  BY <1>1, <1>2
<1> QED
  BY <1>2, <1>3 DEF Cong

LEMMA ResultIs ==
  ASSUME NEW w \in Nat \ {0}, NEW o \in OverflowOps, NEW x \in Word(Mod(w)), NEW y \in Word(Mod(w))
  PROVE  /\ Compute(Plain(o), w, x, y) = Wrap(Mod(w), Exact(o, w, x, y))
         /\ Plain(o) \notin Shifts
<1> DEFINE m == Mod(w)
           a == IF o \in SignedOps THEN Signed(m, x) ELSE x
           b == IF o \in SignedOps THEN Signed(m, y) ELSE y
<1>0. m \in Nat /\ m > 0
  BY ModFacts
<1>1. x \in Int /\ y \in Int
  BY DEF Word
<1>2. Exact(o, w, x, y) = CASE o \in {"sadd", "uadd"} -> a + b
                            [] o \in {"ssub", "usub"} -> a - b
                            [] o \in {"smul", "umul"} -> a * b
  BY DEF Exact
<1>3. a \in Int /\ b \in Int /\ Cong(m, a, x) /\ Cong(m, b, y)
  <2> HIDE DEF m
  <2>1. Cong(m, x, x) /\ Cong(m, y, y)
    BY <1>0, <1>1, WrapCong
  <2>2. /\ Signed(m, x) \in Int /\ Signed(m, y) \in Int
        /\ Cong(m, Signed(m, x), x) /\ Cong(m, Signed(m, y), y)
    BY <1>0, SignedFacts DEF m
  <2> QED
    BY <1>1, <2>1, <2>2
<1>4. Compute("add", w, x, y) = Wrap(m, x + y) /\ Compute("sub", w, x, y) = Wrap(m, x - y)
      /\ Compute("mul", w, x, y) = Wrap(m, x * y)
  BY DEF Compute, Shifts
<1> HIDE DEF a, b, m
<1>5. Cong(m, a + b, x + y) /\ Cong(m, a - b, x - y)
  BY <1>0, <1>1, <1>3, CongSums
<1>6. Cong(m, a * b, x * y)
  <2>1. Cong(m, a * b, x * b) /\ Cong(m, x * b, x * y)
    BY <1>0, <1>1, <1>3, CongTimes
  <2>2. a * b \in Int /\ x * b \in Int /\ x * y \in Int
    BY <1>1, <1>3
  <2> QED
    BY <1>0, <2>1, <2>2, CongTrans
<1>7. /\ a + b \in Int /\ a - b \in Int /\ a * b \in Int
      /\ x + y \in Int /\ x - y \in Int /\ x * y \in Int
  BY <1>1, <1>3
<1>8. Wrap(m, a + b) = Wrap(m, x + y) /\ Wrap(m, a - b) = Wrap(m, x - y) /\ Wrap(m, a * b) = Wrap(m, x * y)
  BY <1>0, <1>5, <1>6, <1>7, CongWrap
<1>9. CASE o \in {"sadd", "uadd"}
  <2>1. Plain(o) = "add" /\ Exact(o, w, x, y) = a + b
    BY <1>2, <1>9 DEF Plain
  <2> QED
    BY <1>4, <1>8, <2>1 DEF m, Shifts
<1>10. CASE o \in {"ssub", "usub"}
  <2>1. Plain(o) = "sub" /\ Exact(o, w, x, y) = a - b
    BY <1>2, <1>10 DEF Plain
  <2> QED
    BY <1>4, <1>8, <2>1 DEF m, Shifts
<1>11. CASE o \in {"smul", "umul"}
  <2>1. Plain(o) = "mul" /\ Exact(o, w, x, y) = a * b
    BY <1>2, <1>11 DEF Plain
  <2> QED
    BY <1>4, <1>8, <2>1 DEF m, Shifts
<1> QED
  BY <1>9, <1>10, <1>11 DEF OverflowOps, SignedOps

(* A shift in a wider word, cut to the word's width.                       *)
LEMMA WideShift ==
  ASSUME NEW n \in Nat, NEW p \in Nat, n < p, NEW o \in Shifts, NEW x \in Word(Mod(n)), NEW y \in Nat,
         o = "ashr" => ~IsNegative(Mod(n), x)
  PROVE  Shift(o, p, x, y) % Mod(n) = Shift(o, n, x, y)
<1> DEFINE m == Mod(n)
           M == Mod(p)
           d == Pow2[y]
<1>1. m \in Nat /\ m > 0 /\ M \in Nat /\ M > 0 /\ d \in Nat /\ d > 0 /\ 2 * m <= M
      /\ \E q \in Nat : M = m * q
  <2>1. n <= p
    OBVIOUS
  <2>2. /\ Pow2[n] \in Nat /\ Pow2[n] > 0 /\ Pow2[p] \in Nat /\ Pow2[n] <= Pow2[p]
        /\ \E q \in Nat : Pow2[p] = Pow2[n] * q
        /\ 2 * Pow2[n] <= Pow2[p]
    BY <2>1, Wider
  <2>3. d \in Nat /\ d > y
    BY Pow2Grows
  <2>4. m = Pow2[n] /\ M = Pow2[p]
    BY DEF Mod
  <2> HIDE DEF m, M, d
  <2> QED
    BY <2>2, <2>3, <2>4
<1>2. x \in 0 .. m - 1 /\ x \in Nat
  BY <1>1 DEF Word
<1>3. Shift(o, n, x, y) \in Word(m)
  BY ShiftWord
<1>4. /\ o = "shl" => Shift(o, p, x, y) = Wrap(M, x * d) /\ Shift(o, n, x, y) = Wrap(m, x * d)
      /\ o = "lshr" => Shift(o, p, x, y) = x \div d /\ Shift(o, n, x, y) = x \div d
      /\ o = "ashr" => /\ Shift(o, p, x, y) = Wrap(M, Signed(M, x) \div d)
                       /\ Shift(o, n, x, y) = Wrap(m, Signed(m, x) \div d)
  BY DEF Shift
<1>5. o = "ashr" => x < Half(m)
  BY <1>1, <1>2 DEF IsNegative, Half
<1> HIDE DEF m, M, d
<1>6. x \div d \in 0 .. x
  BY <1>1, <1>2, Dividing
<1>7. x \div d \in Word(m) /\ x \div d \in Word(M)
  BY <1>1, <1>2, <1>6 DEF Word
<1>8. Wrap(m, x \div d) = x \div d /\ Wrap(M, x \div d) = x \div d
  BY <1>1, <1>7, WrapInside
<1>9. CASE o = "shl"
  <2> DEFINE i == x * d
             j == Wrap(M, i)
  <2>1. i \in Int
    BY <1>1, <1>2
  <2> HIDE DEF i
  <2>2. j \in Int /\ Cong(M, j, i)
    BY <1>1, <2>1, Division, WrapCong
  <2> HIDE DEF j
  <2>3. Cong(m, j, i)
    BY <1>1, <2>1, <2>2, CongDivides
  <2>4. Wrap(m, j) = Wrap(m, i)
    BY <1>1, <2>1, <2>2, <2>3, CongWrap
  <2> QED
    BY <1>4, <1>9, <2>4 DEF i, j, Wrap, m
<1>10. CASE o = "lshr"
  BY <1>4, <1>8, <1>10 DEF Wrap, m
<1>11. CASE o = "ashr"
  <2>1. Signed(m, x) = x
    BY <1>5, <1>11 DEF Signed
  <2>2. Signed(M, x) = x
    <3>1. m <= Half(M)
      BY <1>1 DEF Half
    <3>2. x < Half(M)
      BY <1>1, <1>2, <3>1 DEF Half
    <3> QED
      BY <3>2 DEF Signed
  <2> QED
    BY <1>4, <1>8, <1>11, <2>1, <2>2 DEF Wrap, m
<1> QED
  BY <1>9, <1>10, <1>11 DEF Shifts

(* A step of the solver yields a term of a width and a value, and keeps    *)
(* the terms made before.                                                  *)
Yields(s, r, w, x) ==
  /\ Keeps(s, r.store)
  /\ r.term \in 1 .. Len(r.store)
  /\ r.store[r.term].w = w /\ r.store[r.term].x = x

LEMMA AddsYield ==
  ASSUME NEW s, NEW q, NEW w, NEW x, Adds(s, q, w, x)
  PROVE  /\ Yields(s, Result(q), w, x) /\ Yields(s, [store |-> q, term |-> Len(s) + 1], w, x)
         /\ Filed(q) /\ Len(q) = Len(s) + 1 /\ Len(s) \in Nat
<1>1. Len(s) + 1 \in 1 .. Len(q) /\ Len(q) = Len(s) + 1 /\ Keeps(s, q)
  BY DEF Adds, Keeps
<1> QED
  BY <1>1 DEF Adds, Yields, Result, Keeps

LEMMA SameYields ==
  ASSUME NEW s, Filed(s), NEW t \in 1 .. Len(s)
  PROVE  Yields(s, Same(s, t), s[t].w, s[t].x)
<1> DEFINE q == incref(s, t)
<1>1. Keeps(s, q) /\ Len(q) = Len(s)
  BY CountKeeps
<1>2. Same(s, t) = [store |-> q, term |-> t]
  BY DEF Same
<1> HIDE DEF q
<1> QED
  BY <1>1, <1>2 DEF Keeps, Yields

LEMMA YieldsKept ==
  ASSUME NEW s, NEW q, NEW t, NEW w, NEW x, Yields(s, [store |-> q, term |-> t], w, x), NEW r, Keeps(q, r)
  PROVE  Yields(s, [store |-> r, term |-> t], w, x)
<1>1. Keeps(s, q) /\ t \in 1 .. Len(q) /\ q[t].w = w /\ q[t].x = x
  BY DEF Yields
<1>2. Keeps(s, r)
  BY <1>1, KeepsTrans
<1>3. t \in 1 .. Len(r) /\ r[t].w = w /\ r[t].x = x
  BY <1>1 DEF Keeps
<1> QED
  BY <1>2, <1>3 DEF Yields

LEMMA YieldsDecref ==
  ASSUME NEW s, NEW q, NEW t, NEW w, NEW x, Yields(s, [store |-> q, term |-> t], w, x), NEW u
  PROVE  Yields(s, [store |-> decref(q, u), term |-> t], w, x) /\ Len(decref(q, u)) = Len(q)
<1>1. Filed(q)
  BY DEF Yields, Keeps
<1>2. Keeps(q, decref(q, u)) /\ Len(decref(q, u)) = Len(q)
  BY <1>1, CountKeeps
<1> QED
  BY <1>2, YieldsKept

LEMMA KeepsYield ==
  ASSUME NEW s, NEW q, Keeps(s, q), NEW r, NEW w, NEW x, Yields(q, r, w, x)
  PROVE  Yields(s, r, w, x)
BY KeepsTrans DEF Yields

(* Boolector's shift, which widens a word of no power of two.              *)
LEMMA AmountIs ==
  ASSUME NEW n \in Nat, n > 1, NEW y \in Nat, y < n
  PROVE  y % Mod(Log2Up(n)) = y /\ Log2Up(n) \in Nat
<1> DEFINE M == Pow2[Log2Up(n)]
<1>1. M \in Nat /\ M >= n /\ Log2Up(n) \in 1 .. n
  BY Log2UpFacts
<1>2. y \in Word(M) /\ M > 0 /\ Mod(Log2Up(n)) = M
  BY <1>1 DEF Word, Mod
<1> HIDE DEF M
<1>3. Wrap(M, y) = y
  BY <1>1, <1>2, WrapInside
<1> QED
  BY <1>1, <1>2, <1>3 DEF Wrap

LEMMA ByLastYields ==
  ASSUME NEW s, Filed(s), NEW o, NEW e \in 1 .. Len(s), NEW y, s[Len(s)].x = y
  PROVE  Adds(s, ShiftByLast(s, o, e), s[e].w, Shift(o, s[e].w, s[e].x, y))
<1> DEFINE w == s[e].w
           x == Shift(o, w, s[e].x, s[Len(s)].x)
           q == Make(s, w, x, {e, Len(s)})
           r == decref(q, Len(s))
<1>1. ShiftByLast(s, o, e) = r
  BY DEF ShiftByLast
<1>2. Adds(s, q, w, x)
  BY NewAdds DEF Make
<1>3. x = Shift(o, w, s[e].x, y)
  OBVIOUS
<1> HIDE DEF q, x, w
<1>4. /\ Yields(s, [store |-> q, term |-> Len(s) + 1], w, x) /\ Len(q) = Len(s) + 1 /\ Len(s) \in Nat
      /\ Filed(q)
  BY <1>2, AddsYield
<1>5. Yields(s, [store |-> r, term |-> Len(s) + 1], w, x) /\ Len(r) = Len(q)
  BY <1>4, YieldsDecref
<1> HIDE DEF r
<1>6. Adds(s, r, w, x)
  BY <1>4, <1>5 DEF Yields, Adds
<1> QED
  BY <1>1, <1>3, <1>6 DEF w

LEMMA CutYields ==
  ASSUME NEW s, Filed(s), Len(s) \in Nat \ {0}, NEW n, NEW e
  PROVE  Yields(s, Cut(s, n, e), n, s[Len(s)].x % Mod(n))
<1> DEFINE L == Len(s)
           q == decref(s, e)
           d == extract(q, n, Len(s))
           x == q[L].x % Mod(n)
           r == decref(d, Len(s))
<1>1. Cut(s, n, e) = Result(r)
  BY DEF Cut
<1>2. Keeps(s, q) /\ Len(q) = L
  BY CountKeeps
<1> HIDE DEF q
<1>3. L \in 1 .. L /\ Filed(q) /\ q[L].x = s[L].x
  BY <1>2 DEF Keeps
<1>4. Adds(q, d, n, x)
  BY <1>3, NewAdds DEF extract
<1> HIDE DEF d
<1>5. Yields(q, [store |-> d, term |-> L + 1], n, x) /\ Len(d) = L + 1
  BY <1>2, <1>4, AddsYield
<1>6. Yields(q, [store |-> r, term |-> L + 1], n, x) /\ Len(r) = L + 1
  BY <1>5, YieldsDecref
<1> HIDE DEF r
<1>7. Yields(s, [store |-> r, term |-> L + 1], n, x)
  BY <1>2, <1>6, KeepsYield
<1>8. Result(r) = [store |-> r, term |-> L + 1]
  BY <1>6 DEF Result
<1> QED
  BY <1>1, <1>3, <1>7, <1>8

LEMMA ShiftYields ==
  ASSUME NEW s, Filed(s), NEW o \in Shifts, NEW n \in Nat, n > 1,
         NEW t \in 1 .. Len(s), NEW u \in 1 .. Len(s), s[t].w = n, s[u].w = n,
         s[t].x \in Word(Mod(n)), s[u].x \in Nat, s[u].x < n,
         o = "ashr" /\ Pow2[Log2Up(n)] # n => ~IsNegative(Mod(n), s[t].x)
  PROVE  Yields(s, BoolectorShift(s, o, t, u), n, Shift(o, n, s[t].x, s[u].x))
<1> DEFINE L == Len(s)
           X == s[t].x
           Y == s[u].x
           k == Log2Up(n)
           p == Pow2[k]
<1>0. /\ k \in Nat /\ p \in Nat /\ p >= n /\ Y % Mod(k) = Y /\ L \in Nat
      /\ BoolectorShift(s, o, t, u) =
           IF p = n THEN Result(ShiftByLast(extract(s, k, u), o, t))
           ELSE ShiftLast(zero_extend(s, p - n, t), o, n, u)
  <2>1. L \in Nat
    BY LenProperties DEF Filed
  <2>2. p \in Nat /\ p >= n
    BY Log2UpFacts
  <2>3. BoolectorShift(s, o, t, u) =
           IF p = n THEN Result(ShiftByLast(extract(s, k, u), o, t))
           ELSE ShiftLast(zero_extend(s, p - n, t), o, n, u)
    BY DEF BoolectorShift
  <2> QED
    BY <2>1, <2>2, <2>3, AmountIs
<1>1. ASSUME NEW r, Keeps(s, r), NEW e \in 1 .. Len(r)
      PROVE  LET q == ShiftByLast(extract(r, k, u), o, e)
             IN  /\ Keeps(r, q) /\ Len(q) = Len(r) + 2 /\ Len(r) \in Nat /\ Filed(q)
                 /\ q[Len(r) + 2].w = r[e].w
                 /\ q[Len(r) + 2].x = Shift(o, r[e].w, r[e].x, Y)
  <2> DEFINE d == extract(r, k, u)
             q == ShiftByLast(d, o, e)
             z == r[u].x % Mod(k)
  <2>1. Filed(r) /\ r[u].x = Y /\ u \in 1 .. Len(r)
    BY <1>1 DEF Keeps
  <2>2. Adds(r, d, k, z)
    BY <2>1, NewAdds DEF extract
  <2>3. z = Y
    BY <1>0, <2>1
  <2> HIDE DEF d, z
  <2>4. /\ Filed(d) /\ Len(d) = Len(r) + 1 /\ d[Len(d)].x = Y /\ e \in 1 .. Len(d) /\ Len(r) \in Nat
        /\ d[e].w = r[e].w /\ d[e].x = r[e].x /\ Keeps(r, d)
    BY <2>2, <2>3 DEF Adds, Keeps
  <2>5. Adds(d, q, d[e].w, Shift(o, d[e].w, d[e].x, Y))
    BY <2>4, ByLastYields
  <2> HIDE DEF q
  <2>6. Len(d) + 1 = Len(r) + 2
    BY <2>4
  <2>7. Keeps(d, q) /\ Len(q) = Len(r) + 2 /\ Filed(q) /\ q[Len(r) + 2].w = d[e].w
        /\ q[Len(r) + 2].x = Shift(o, d[e].w, d[e].x, Y)
    BY <2>5, <2>6 DEF Adds, Keeps
  <2>8. Keeps(r, q)
    BY <2>4, <2>7, KeepsTrans
  <2> QED
    BY <2>4, <2>7, <2>8 DEF q, d
<1> HIDE DEF k, p
<1>2. CASE p = n
  <2> DEFINE q == ShiftByLast(extract(s, k, u), o, t)
  <2>1. Keeps(s, s)
    BY <1>0 DEF Keeps
  <2>2. Keeps(s, q) /\ Len(q) = L + 2 /\ q[L + 2].w = n /\ q[L + 2].x = Shift(o, n, X, Y)
    BY <1>1, <2>1
  <2> HIDE DEF q
  <2>3. Yields(s, Result(q), n, Shift(o, n, X, Y))
    <3>1. L + 2 \in 1 .. Len(q)
      BY <1>0, <2>2
    <3> QED
      BY <2>2, <3>1 DEF Yields, Result
  <2> QED
    BY <1>0, <1>2, <2>3 DEF q
<1>3. CASE p # n
  <2> DEFINE r == zero_extend(s, p - n, t)
             e == Len(r)
             q == ShiftByLast(extract(r, k, u), o, e)
             c == Cut(q, n, e)
  <2>1. BoolectorShift(s, o, t, u) = c
    BY <1>0, <1>3 DEF ShiftLast, k
  <2>2. Adds(s, r, n + (p - n), X)
    BY NewAdds DEF zero_extend, Make
  <2> HIDE DEF r
  <2>3. n + (p - n) = p /\ n < p
    BY <1>0, <1>3
  <2>4. Keeps(s, r) /\ e = L + 1 /\ e \in 1 .. Len(r) /\ r[e].w = p /\ r[e].x = X
    BY <1>0, <2>2, <2>3 DEF Adds
  <2>5. /\ Keeps(r, q) /\ Len(q) = e + 2 /\ e \in Nat /\ Filed(q)
        /\ q[e + 2].x = Shift(o, p, X, Y)
    BY <1>1, <2>4
  <2> HIDE DEF q, e
  <2>6. Len(q) \in Nat \ {0}
    BY <2>5
  <2>7. Yields(q, c, n, q[e + 2].x % Mod(n))
    BY <2>5, <2>6, CutYields
  <2>8. Keeps(s, q)
    BY <2>4, <2>5, KeepsTrans
  <2> HIDE DEF c
  <2>9. Yields(s, c, n, Shift(o, p, X, Y) % Mod(n))
    BY <2>5, <2>7, <2>8, KeepsYield
  <2>10. Shift(o, p, X, Y) % Mod(n) = Shift(o, n, X, Y)
    <3>1. o = "ashr" => ~IsNegative(Mod(n), X)
      BY <1>3 DEF p, k
    <3> QED
      BY <1>0, <2>3, <3>1, WideShift
  <2> QED
    BY <2>1, <2>9, <2>10
<1> QED
  BY <1>2, <1>3

(* The address of an element: the offset so far is, but for a multiple of  *)
(* the modulus and for the constants to come, the address so far.          *)
LEMMA IndexValue ==
  ASSUME NEW s, Filed(s), NEW t \in 1 .. Len(s), NEW w \in Nat \ {0}, s[t].w = w, NEW y \in Word(Mod(w)),
         s[t].x = y
  PROVE  \E b \in Int : Yields(s, PtrIndex(s, t), PtrSize, b) /\ Cong(Mod(PtrSize), b, Signed(Mod(w), y))
<1> DEFINE M == Mod(PtrSize)
           m == Mod(w)
           a == Signed(m, y)
           i == PtrSize - w
           r == PtrIndex(s, t)
<1>0. /\ PtrSize \in Nat \ {0} /\ M \in Nat /\ M > 0 /\ m \in Nat /\ m > 0
      /\ M = Pow2[PtrSize] /\ m = Pow2[w]
  BY GenAssumption, ModFacts DEF Mod
<1>1. a \in Int /\ Cong(m, a, y) /\ y \in Int
  <2>1. a \in Int /\ Cong(m, a, y)
    BY <1>0, SignedFacts
  <2> QED
    BY <2>1 DEF Word
<1>2. CASE w < PtrSize
  <2> DEFINE b == Wrap(Mod(w + i), a)
             q == sign_extend(s, i, t)
  <2>1. w + i = PtrSize
    BY <1>0
  <2>2. r = Result(q)
    BY <1>0, <1>2 DEF PtrIndex
  <2>3. Adds(s, q, w + i, b)
    BY NewAdds DEF sign_extend, Make
  <2> HIDE DEF q, i
  <2>4. Adds(s, q, PtrSize, Wrap(M, a))
    BY <2>1, <2>3
  <2>5. Wrap(M, a) \in Int /\ Cong(M, Wrap(M, a), a)
    <3> HIDE DEF M, a
    <3> QED
      BY <1>0, <1>1, Division, WrapCong
  <2>6. Yields(s, r, PtrSize, Wrap(M, a))
    BY <2>2, <2>4, AddsYield
  <2> HIDE DEF r
  <2> QED
    BY <2>5, <2>6 DEF r
<1>3. CASE w > PtrSize
  <2> DEFINE b == Wrap(M, y)
             q == extract(s, PtrSize, t)
  <2>1. r = Result(q)
    BY <1>0, <1>3 DEF PtrIndex
  <2>2. Adds(s, q, PtrSize, y % M)
    BY NewAdds DEF extract
  <2> HIDE DEF q
  <2>3. Yields(s, r, PtrSize, b)
    BY <2>1, <2>2, AddsYield DEF Wrap
  <2>4. b \in Int /\ Cong(M, b, y)
    BY <1>0, <1>1, Division, WrapCong
  <2>5. PICK q1 \in Nat : m = M * q1
    <3>1. PtrSize \in Nat /\ w \in Nat /\ PtrSize <= w
      BY <1>0, <1>3
    <3>2. \E q1 \in Nat : Pow2[w] = Pow2[PtrSize] * q1
      BY <3>1, Wider
    <3> QED
      BY <1>0, <3>2
  <2> HIDE DEF b, M, m, a, r
  <2>6. Cong(M * q1, a, y)
    BY <1>1, <2>5
  <2>7. Cong(M, a, y)
    BY <1>0, <1>1, <2>6, CongDivides
  <2>8. Cong(M, y, a)
    BY <1>0, <1>1, <2>7, CongSym
  <2>9. Cong(M, b, a)
    BY <1>0, <1>1, <2>4, <2>8, CongTrans
  <2> QED
    BY <2>3, <2>4, <2>9 DEF M, m, a, r
<1>4. CASE w = PtrSize
  <2>1. r = Same(s, t)
    BY <1>0, <1>4 DEF PtrIndex, Same
  <2>2. Yields(s, r, PtrSize, y)
    BY <1>4, <2>1, SameYields
  <2>3. Cong(M, y, a)
    <3>1. M = m
      BY <1>4
    <3> HIDE DEF M, m, a
    <3> QED
      BY <1>0, <1>1, <3>1, CongSym
  <2> QED
    BY <1>1, <2>2, <2>3
<1> QED
  BY <1>0, <1>2, <1>3, <1>4

LEMMA ProductYields ==
  ASSUME NEW s, backend \in Backends, NEW offset, NEW z \in Int, Yields(s, offset, PtrSize, z),
         NEW idx, NEW b \in Int, Yields(offset.store, idx, PtrSize, b), NEW size \in Int
  PROVE  \E x \in Word(Mod(PtrSize)) :
           /\ Yields(s, AddProduct(idx, size, offset.term), PtrSize, x)
           /\ Cong(Mod(PtrSize), x, z + b * size)
<1> DEFINE M == Mod(PtrSize)
           r1 == idx.store
           n == Len(r1)
           t == offset.term
           e == idx.term
           r2 == bvconst(r1, PtrSize, size)
           r3 == operation(r2, "mul", e, n + 1).store
           r4 == operation(r3, "add", t, n + 2).store
           d1 == decref(r4, e)
           d2 == decref(d1, n + 1)
           d3 == decref(d2, t)
           d4 == decref(d3, n + 2)
           c == Wrap(M, b * size)
           x == Wrap(M, z + c)
<1>0. M \in Nat /\ M > 0
  BY GenAssumption, ModFacts
<1>1. AddProduct(idx, size, t) = [store |-> d4, term |-> n + 3]
  BY DEF AddProduct
<1>2. /\ Keeps(s, r1) /\ n \in Nat /\ Filed(r1)
      /\ t \in 1 .. n /\ r1[t].w = PtrSize /\ r1[t].x = z
      /\ e \in 1 .. n /\ r1[e].w = PtrSize /\ r1[e].x = b
  <2>1. Keeps(offset.store, r1) /\ Keeps(s, offset.store) /\ t \in 1 .. Len(offset.store)
        /\ offset.store[t].w = PtrSize /\ offset.store[t].x = z
        /\ e \in 1 .. n /\ r1[e].w = PtrSize /\ r1[e].x = b
    BY DEF Yields
  <2>2. Keeps(s, r1)
    BY <2>1, KeepsTrans
  <2>3. n \in Nat /\ Filed(r1) /\ t \in 1 .. n /\ r1[t].w = PtrSize /\ r1[t].x = z
    <3> HIDE DEF r1, t, e
    <3> QED
      BY <2>1 DEF Keeps
  <2> HIDE DEF n, r1, t, e
  <2> QED
    BY <2>1, <2>2, <2>3
<1>3. Adds(r1, r2, PtrSize, size)
  BY NewAdds, <1>2 DEF bvconst, Make
<1> HIDE DEF r1, t, e, r2, n
<1>4. /\ Keeps(r1, r2) /\ Len(r2) = n + 1 /\ Filed(r2) /\ r2[n + 1].x = size
      /\ r2[e].w = PtrSize /\ r2[e].x = b
  BY <1>2, <1>3 DEF Adds, Keeps, n
<1>5. "mul" \notin Shifts /\ "add" \notin Shifts
  BY DEF Shifts
<1>6. /\ \A i, j : Compute("mul", PtrSize, i, j) = Wrap(M, i * j)
      /\ \A i, j : Compute("add", PtrSize, i, j) = Wrap(M, i + j)
  BY DEF Compute, Shifts
<1>7. Adds(r2, r3, PtrSize, c)
  BY <1>4, <1>5, <1>6, OperationAdds
<1> HIDE DEF r3, c
<1>8. /\ Keeps(r1, r3) /\ Len(r3) = n + 2 /\ Filed(r3) /\ r3[n + 2].x = c
      /\ r3[t].w = PtrSize /\ r3[t].x = z
  <2>1. Keeps(r2, r3) /\ Len(r3) = (n + 1) + 1 /\ r3[(n + 1) + 1].x = c
    BY <1>4, <1>7 DEF Adds
  <2>2. (n + 1) + 1 = n + 2
    BY <1>2
  <2>3. Keeps(r1, r3)
    BY <1>4, <2>1, KeepsTrans
  <2> QED
    BY <1>2, <2>1, <2>2, <2>3 DEF Keeps, n
<1>9. Adds(r3, r4, PtrSize, x)
  BY <1>5, <1>6, <1>8, OperationAdds
<1> HIDE DEF r4, x
<1>10. Yields(r3, [store |-> r4, term |-> n + 3], PtrSize, x)
  <2>1. Yields(r3, [store |-> r4, term |-> (n + 2) + 1], PtrSize, x)
    BY <1>8, <1>9, AddsYield
  <2>2. (n + 2) + 1 = n + 3
    BY <1>2
  <2> QED
    BY <2>1, <2>2
<1>11. Yields(r3, [store |-> d1, term |-> n + 3], PtrSize, x)
  BY <1>10, YieldsDecref
<1> HIDE DEF d1
<1>12. Yields(r3, [store |-> d2, term |-> n + 3], PtrSize, x)
  BY <1>11, YieldsDecref
<1> HIDE DEF d2
<1>13. Yields(r3, [store |-> d3, term |-> n + 3], PtrSize, x)
  BY <1>12, YieldsDecref
<1> HIDE DEF d3
<1>14. Yields(r3, [store |-> d4, term |-> n + 3], PtrSize, x)
  BY <1>13, YieldsDecref
<1> HIDE DEF d4
<1>15. Yields(s, [store |-> d4, term |-> n + 3], PtrSize, x)
  <2>1. Keeps(s, r3)
    BY <1>2, <1>8, KeepsTrans
  <2> QED
    BY <1>14, <2>1, KeepsYield
<1> HIDE DEF M
<1>16. b * size \in Int
  OBVIOUS
<1>17. c \in Int /\ Cong(M, c, b * size)
  BY <1>0, <1>16, Division, WrapCong DEF c
<1>18. Cong(M, z, z)
  BY <1>0, WrapCong
<1>19. Cong(M, z + c, z + b * size) /\ z + c \in Int /\ z + b * size \in Int
  BY <1>0, <1>16, <1>17, <1>18, CongSums
<1>20. x \in Word(M) /\ x \in Int /\ Cong(M, x, z + c)
  BY <1>0, <1>19, Division, WrapCong DEF x
<1>21. Cong(M, x, z + b * size)
  BY <1>0, <1>19, <1>20, CongTrans
<1>22. AddProduct(idx, size, t) = [store |-> d4, term |-> n + 3]
  BY <1>1 DEF d4, d3, d2, d1, r4, r3, r2, n, e, r1, t
<1> QED
  BY <1>15, <1>20, <1>21, <1>22 DEF M, t

(* One index more.                                                         *)
Towards(s, r, c, a) ==
  \E z \in Word(Mod(PtrSize)) : Yields(s, r, PtrSize, z) /\ Cong(Mod(PtrSize), z + c, a)

LEMMA IndexTowards ==
  ASSUME NEW s, CachedIn(s), backend \in Backends, NEW r, NEW c \in Int, NEW a \in Int, Towards(s, r, c, a),
         NEW i, IsIndex(i),
         i.by = "value" => /\ i.val \in DOMAIN cache /\ Val(i.val).w \in Nat \ {0}
                           /\ Meaning[i.val] \in Word(Mod(Val(i.val).w))
                           /\ s[cache[i.val]].x = Meaning[i.val]
  PROVE  Towards(s, AddIndex(r, i), c + ConstPart(i), a + Part(i, Meaning))
<1> DEFINE M == Mod(PtrSize)
           p == Part(i, Meaning)
           k == ConstPart(i)
           q == AddIndex(r, i)
<1>0. M \in Nat /\ M > 0
  BY GenAssumption, ModFacts
<1>1. PICK z \in Word(M) : Yields(s, r, PtrSize, z) /\ Cong(M, z + c, a)
  BY DEF Towards
<1>2. p \in Int /\ k \in Int /\ (i.by = "value" => k = 0) /\ (i.by # "value" => Cong(M, k, p))
  BY PartFacts
<1>3. z \in Int
  BY DEF Word
<1>4. CASE i.by = "value"
  <2> DEFINE u == i.val
             y == Meaning[u]
             w == Val(u).w
             t == cache[u]
             g == Signed(Mod(w), y)
             size == i.size
  <2>1. Live(s, t) /\ s[t].w = w /\ s[t].x = y /\ Keeps(s, r.store)
    BY <1>1, <1>4 DEF CachedIn, Yields
  <2>2. t \in 1 .. Len(r.store) /\ r.store[t].w = w /\ r.store[t].x = y /\ Filed(r.store)
    BY <2>1 DEF Keeps, Live
  <2>3. PICK b \in Int : Yields(r.store, PtrIndex(r.store, t), PtrSize, b) /\ Cong(M, b, g)
    BY <1>4, <2>2, IndexValue
  <2>4. size \in Int
    BY <1>4 DEF IsIndex
  <2>5. PICK x \in Word(M) : /\ Yields(s, AddProduct(PtrIndex(r.store, t), size, r.term), PtrSize, x)
                             /\ Cong(M, x, z + b * size)
    BY <1>1, <1>3, <2>3, <2>4, ProductYields
  <2>6. q = AddProduct(PtrIndex(r.store, t), size, r.term)
    BY <1>4 DEF AddIndex
  <2>7. p = size * g /\ k = 0 /\ g \in Int
    <3>1. Mod(w) \in Nat /\ Mod(w) > 0
      BY <1>4, ModFacts
    <3>2. g \in Int
      BY <1>4, <3>1, SignedFacts
    <3> QED
      BY <1>4, <3>2 DEF Part, ConstPart, IsIndex
  <2>8. x \in Int
    BY DEF Word
  <2> HIDE DEF M, p, k, q, g, size, t, w, y
  <2>9. b * size \in Int /\ g * size \in Int /\ g * size = size * g
    BY <2>3, <2>4, <2>7
  <2>10. Cong(M, b * size, g * size)
    BY <1>0, <2>3, <2>4, <2>7, CongTimes
  <2>11. Cong(M, (z + c) + b * size, a + g * size)
    <3>1. z + c \in Int
      BY <1>3
    <3> QED
      BY <1>0, <1>1, <2>9, <2>10, <3>1, CongSums
  <2>12. Cong(M, x + c, (z + b * size) + c)
    <3>1. z + b * size \in Int /\ Cong(M, c, c)
      BY <1>0, <1>3, <2>9, WrapCong
    <3> QED
      BY <1>0, <2>5, <2>8, <3>1, CongSums
  <2>13. (z + b * size) + c = (z + c) + b * size
    BY <1>3, <2>9
  <2>14. Cong(M, x + c, a + g * size)
    <3>1. x + c \in Int /\ (z + c) + b * size \in Int /\ a + g * size \in Int
      BY <1>3, <2>8, <2>9
    <3> QED
      BY <1>0, <2>11, <2>12, <2>13, <3>1, CongTrans
  <2>15. c + k = c /\ a + p = a + g * size
    BY <2>7, <2>9
  <2>16. Cong(M, x + (c + k), a + p)
    BY <2>14, <2>15
  <2> QED
    BY <2>5, <2>6, <2>16 DEF Towards, M, p, k, q
<1>5. CASE i.by # "value"
  <2>1. q = r /\ Cong(M, k, p)
    BY <1>2, <1>5 DEF AddIndex
  <2> HIDE DEF M, p, k, q
  <2>2. Cong(M, (z + c) + k, a + p)
    <3>1. z + c \in Int
      BY <1>3
    <3> QED
      BY <1>0, <1>1, <1>2, <2>1, <3>1, CongSums
  <2>3. (z + c) + k = z + (c + k)
    BY <1>2, <1>3
  <2> QED
    BY <1>1, <2>1, <2>2, <2>3 DEF Towards, M, p, k, q
<1> QED
  BY <1>4, <1>5

(* The constant part of the offset, added at the end.                      *)
LEMMA ConstYields ==
  ASSUME NEW s, backend \in Backends, NEW r, NEW c \in Int, NEW a \in Int, Towards(s, r, c, a)
  PROVE  Yields(s, AddConst(r, Wrap(Mod(PtrSize), c)), PtrSize, Wrap(Mod(PtrSize), a))
<1> DEFINE M == Mod(PtrSize)
           d == Wrap(M, c)
           r1 == r.store
           n == Len(r1)
           t == r.term
           r2 == bvconst(r1, PtrSize, d)
           r3 == operation(r2, "add", t, n + 1).store
           d1 == decref(r3, t)
           d2 == decref(d1, n + 1)
<1>0. M \in Nat /\ M > 0
  BY GenAssumption, ModFacts
<1>1. PICK z \in Word(M) : Yields(s, r, PtrSize, z) /\ Cong(M, z + c, a)
  BY DEF Towards
<1> DEFINE x == Wrap(M, z + d)
<1>2. z \in Int
  BY DEF Word
<1>3. x = Wrap(M, a) /\ (d = 0 => x = z)
  <2> HIDE DEF M
  <2>1. d \in Int /\ Cong(M, d, c) /\ Cong(M, z, z)
    BY <1>0, <1>2, Division, WrapCong
  <2> HIDE DEF d
  <2>2. Cong(M, z + d, z + c) /\ z + d \in Int /\ z + c \in Int
    BY <1>0, <1>2, <2>1, CongSums
  <2>3. Cong(M, z + d, a)
    BY <1>0, <1>1, <2>2, CongTrans
  <2>4. x = Wrap(M, a)
    BY <1>0, <2>2, <2>3, CongWrap
  <2>5. d = 0 => z + d = z
    BY <1>2
  <2>6. Wrap(M, z) = z
    BY <1>0, WrapInside
  <2> QED
    BY <2>4, <2>5, <2>6
<1>4. AddConst(r, d) = IF d = 0 THEN r ELSE [store |-> d2, term |-> n + 2]
  BY DEF AddConst
<1>5. CASE d = 0
  BY <1>1, <1>3, <1>4, <1>5
<1>6. CASE d # 0
  <2>1. /\ Keeps(s, r1) /\ Filed(r1) /\ n \in Nat /\ t \in 1 .. n /\ r1[t].w = PtrSize /\ r1[t].x = z
    <3>1. Keeps(s, r1) /\ t \in 1 .. Len(r1) /\ r1[t].w = PtrSize /\ r1[t].x = z
      BY <1>1 DEF Yields
    <3> HIDE DEF r1, t
    <3> QED
      BY <3>1 DEF Keeps
  <2>2. Adds(r1, r2, PtrSize, d)
    BY <2>1, NewAdds DEF bvconst, Make
  <2> HIDE DEF r2, r1, t, d
  <2>3. Filed(r2) /\ Len(r2) = n + 1 /\ Keeps(r1, r2) /\ r2[n + 1].x = d
    BY <2>2 DEF Adds, Keeps
  <2>4. r2[t].w = PtrSize /\ r2[t].x = z
    BY <2>1, <2>3 DEF Keeps
  <2> HIDE DEF n
  <2>5. "add" \notin Shifts /\ Compute("add", PtrSize, z, d) = x
    BY DEF Shifts, Compute
  <2>6. Adds(r2, r3, PtrSize, x)
    BY <2>3, <2>4, <2>5, OperationAdds
  <2> HIDE DEF r3, x
  <2>7. Yields(r2, [store |-> r3, term |-> n + 2], PtrSize, x)
    <3>1. Yields(r2, [store |-> r3, term |-> (n + 1) + 1], PtrSize, x)
      BY <2>3, <2>6, AddsYield
    <3>2. (n + 1) + 1 = n + 2
      BY <2>1
    <3> QED
      BY <3>1, <3>2
  <2>8. Yields(r2, [store |-> d1, term |-> n + 2], PtrSize, x)
    BY <2>7, YieldsDecref
  <2> HIDE DEF d1
  <2>9. Yields(r2, [store |-> d2, term |-> n + 2], PtrSize, x)
    BY <2>8, YieldsDecref
  <2> HIDE DEF d2
  <2>10. Yields(s, [store |-> d2, term |-> n + 2], PtrSize, x)
    <3>1. Keeps(s, r2)
      BY <2>1, <2>3, KeepsTrans
    <3> QED
      BY <2>9, <3>1, KeepsYield
  <2> QED
    BY <1>3, <1>4, <1>6, <2>10 DEF d, d2, d1, r3, r2, r1, t, n
<1> QED
  BY <1>5, <1>6

LEMMA GEPYields ==
  ASSUME NEW s, CachedIn(s), backend \in Backends, prog \in Programs, NEW v \in Places, Val(v).kind = "gep",
         Operands(v) \subseteq DOMAIN cache, ~Spoiled(v, Meaning),
         \A u \in Operands(v) : s[cache[u]].x = Meaning[u]
  PROVE  Yields(s, visitGEP(s, Val(v)), PtrSize, Address(Val(v), Meaning))
<1> DEFINE I == Val(v)
           n == Len(I.index)
           M == Mod(PtrSize)
           base == Meaning[I.a]
           F == CHOOSE f : Offsets(f, s, I, n)
<1>0. /\ n \in Nat /\ M \in Nat /\ M > 0 /\ Val(I.a).w = PtrSize
  <2>1. n \in Nat /\ Val(I.a).w = PtrSize
    BY KindFacts DEF Widths, Val
  <2> QED
    BY <2>1, GenAssumption, ModFacts
<1>1. /\ \A i \in 1 .. n :
           LET j == I.index[i]
           IN  /\ IsIndex(j)
               /\ j.by = "value" => /\ j.val \in Operands(v) /\ Val(j.val).w \in Nat \ {0}
                                    /\ Meaning[j.val] \in Word(Mod(Val(j.val).w))
      /\ base \in Word(M) /\ I.a \in Operands(v)
  BY MeaningsSound, KindFacts, AddressWord
<1>2. visitGEP(s, I) = AddConst(F[n], ConstOffset(I))
  BY DEF visitGEP, Offsets
<1>3. Offsets(F, s, I, n)
  BY <1>0, OffsetsExist
<1> HIDE DEF F
<1>4. \A i \in 0 .. n : F[i] = IF i = 0 THEN Same(s, cache[I.a]) ELSE AddIndex(F[i - 1], I.index[i])
  BY <1>3 DEF Offsets
<1>5. \A i \in 1 .. n : Part(I.index[i], Meaning) \in Int /\ ConstPart(I.index[i]) \in Int
  BY <1>1, PartFacts
<1>6. base \in Int
  BY <1>1 DEF Word
<1>7. PICK P, C : /\ Address(I, Meaning) = Wrap(M, base + P[n])
                  /\ ConstOffset(I) = Wrap(M, C[n])
                  /\ P[0] = 0 /\ C[0] = 0
                  /\ \A i \in 1 .. n : /\ P[i] = P[i - 1] + Part(I.index[i], Meaning)
                                       /\ C[i] = C[i - 1] + ConstPart(I.index[i])
                  /\ \A i \in 0 .. n : P[i] \in Int /\ C[i] \in Int
  BY <1>0, <1>5, <1>6, AddressSums
<1> DEFINE T == { i \in Nat : i <= n => Towards(s, F[i], C[i], base + P[i]) }
<1>8. 0 \in T
  <2>1. F[0] = Same(s, cache[I.a])
    BY <1>0, <1>4
  <2>2. Filed(s) /\ cache[I.a] \in 1 .. Len(s) /\ s[cache[I.a]].w = PtrSize /\ s[cache[I.a]].x = base
    BY <1>0, <1>1, StoreFiled DEF CachedIn, Live
  <2>3. Yields(s, F[0], PtrSize, base)
    BY <2>1, <2>2, SameYields
  <2> HIDE DEF M, base
  <2>4. base + C[0] = base /\ base + P[0] = base
    BY <1>6, <1>7
  <2>5. Cong(M, base, base)
    BY <1>0, <1>6, WrapCong
  <2>6. Towards(s, F[0], C[0], base + P[0])
    BY <1>1, <2>3, <2>4, <2>5 DEF Towards, M
  <2> QED
    BY <2>6
<1>9. ASSUME NEW i \in T PROVE i + 1 \in T
  <2> SUFFICES ASSUME i + 1 <= n PROVE Towards(s, F[i + 1], C[i + 1], base + P[i + 1])
    OBVIOUS
  <2> DEFINE j == I.index[i + 1]
             p == Part(j, Meaning)
             k == ConstPart(j)
  <2>1. i \in Nat /\ i + 1 \in 1 .. n /\ i \in 0 .. n /\ (i + 1) - 1 = i /\ i + 1 \in 0 .. n
        /\ Towards(s, F[i], C[i], base + P[i])
    BY <1>0
  <2> HIDE DEF T
  <2>2. F[i + 1] = AddIndex(F[i], j)
    BY <1>4, <2>1
  <2>3. P[i + 1] = P[i] + p /\ C[i + 1] = C[i] + k /\ p \in Int /\ k \in Int
        /\ P[i] \in Int /\ C[i] \in Int
    BY <1>5, <1>7, <2>1
  <2>4. /\ IsIndex(j)
        /\ j.by = "value" => /\ j.val \in DOMAIN cache /\ Val(j.val).w \in Nat \ {0}
                             /\ Meaning[j.val] \in Word(Mod(Val(j.val).w))
                             /\ s[cache[j.val]].x = Meaning[j.val]
    BY <1>1, <2>1
  <2>5. base + P[i] \in Int
    BY <1>6, <2>3
  <2> HIDE DEF j
  <2>6. Towards(s, AddIndex(F[i], j), C[i] + k, (base + P[i]) + p)
    BY <2>1, <2>3, <2>4, <2>5, IndexTowards
  <2> HIDE DEF p, k, base
  <2>7. (base + P[i]) + p = base + P[i + 1]
    BY <1>6, <2>3
  <2> QED
    BY <2>2, <2>3, <2>6, <2>7
<1>10. T \in SUBSET Nat
  OBVIOUS
<1>11. Towards(s, F[n], C[n], base + P[n])
  <2> HIDE DEF T
  <2>1. T = Nat
    BY <1>8, <1>9, <1>10, Counting
  <2> QED
    BY <1>0, <2>1 DEF T
<1>12. C[n] \in Int /\ base + P[n] \in Int
  <2>1. n \in 0 .. n
    BY <1>0
  <2> HIDE DEF base
  <2> QED
    BY <1>6, <1>7, <2>1
<1>13. Yields(s, AddConst(F[n], Wrap(M, C[n])), PtrSize, Wrap(M, base + P[n]))
  BY <1>11, <1>12, ConstYields
<1> QED
  BY <1>2, <1>7, <1>13

-----------------------------------------------------------------------------
(* A visit leaves a term with the value's meaning, if its operands' terms  *)
(* have theirs.                                                            *)
Exactly(s, c, u) == Meaning[u] # Poison => s[c[u]].x = Meaning[u]

LEMMA FreshExact ==
  ASSUME NEW s, Filed(s), backend \in Backends, prog \in Programs, NEW v \in Places, Val(v).kind = "fresh"
  PROVE  Kept(s, v)[analyze(s, v).term].x = prog.fresh[v]
<1> DEFINE I == Val(v)
           L == Len(s)
           x == prog.fresh[v]
           s1 == Make(s, I.w, x, {})
           r == RangeConstraint(s1, L + 1, I.range[1], I.range[2])
           q == decref(r, Len(r))
<1>1. analyze(s, v) = [store |-> visitFresh(s, v), term |-> L + 1]
  BY DEF analyze
<1>2. visitFresh(s, v) = IF Constrained(I) THEN r ELSE s1
  BY DEF visitFresh
<1>3. Adds(s, s1, I.w, x)
  BY NewAdds DEF Make
<1> HIDE DEF s1
<1>4. Filed(s1) /\ L + 1 \in 1 .. Len(s1) /\ s1[L + 1].x = x
  BY <1>3 DEF Adds, Keeps
<1>5. CASE ~Constrained(I)
  BY <1>1, <1>2, <1>4, <1>5 DEF Kept
<1>6. CASE Constrained(I)
  <2>1. /\ I.w \in Nat \ {0} /\ I.range[1] \in Word(Mod(I.w)) /\ I.range[2] \in Word(Mod(I.w))
        /\ I.range[1] # I.range[2]
    BY <1>6, KindFacts DEF Widths, Val, Constrained
  <2>2. I.range[1] \in Int /\ I.range[2] \in Int
    BY <2>1 DEF Word
  <2>3. Keeps(s1, r)
    BY <1>4, <2>1, <2>2, RangeValue
  <2> HIDE DEF r
  <2>4. Keeps(r, q)
    BY <2>3, CountKeeps DEF Keeps
  <2> HIDE DEF q
  <2>5. Keeps(s1, q)
    BY <2>3, <2>4, KeepsTrans
  <2>6. q[L + 1].x = x
    BY <1>4, <2>5 DEF Keeps
  <2>7. Kept(s, v) = q
    BY <1>1, <1>2, <1>6 DEF Kept, q
  <2> QED
    BY <1>1, <2>6, <2>7
<1> QED
  BY <1>5, <1>6

LEMMA BinaryExact ==
  ASSUME NEW s, Filed(s), backend \in Backends, NEW o \in BinaryOps, NEW n \in Nat \ {0},
         o \in Shifts => n > 1,
         NEW t \in 1 .. Len(s), NEW u \in 1 .. Len(s), s[t].w = n, s[u].w = n,
         s[t].x \in Word(Mod(n)), s[u].x \in Word(Mod(n)), HasResult(o, n, s[t].x, s[u].x),
         backend = "boolector" /\ o = "ashr" /\ Pow2[Log2Up(n)] # n => ~IsNegative(Mod(n), s[t].x)
  PROVE  Yields(s, operation(s, o, t, u), n, Compute(o, n, s[t].x, s[u].x))
<1> DEFINE X == s[t].x
           Y == s[u].x
<1>1. CASE backend = "boolector" /\ o \in Shifts
  <2>1. operation(s, o, t, u) = BoolectorShift(s, o, t, u)
    BY <1>1 DEF operation
  <2>2. Compute(o, n, X, Y) = Shift(o, n, X, Y)
    BY <1>1 DEF Compute, Shifts
  <2>3. Y < n
    BY <1>1 DEF HasResult, Shifts
  <2>4. Y \in Nat
    BY ModFacts DEF Word
  <2>5. Yields(s, BoolectorShift(s, o, t, u), n, Shift(o, n, X, Y))
    BY <1>1, <2>3, <2>4, ShiftYields
  <2> QED
    BY <2>1, <2>2, <2>5
<1>2. CASE ~(backend = "boolector" /\ o \in Shifts)
  <2> DEFINE z == Operation(o, s[t].w, X, Y)
             r == New(s, s[t].w, z, Pair(s, t, u))
  <2>1. operation(s, o, t, u) = Result(r)
    BY <1>2 DEF operation
  <2>2. Adds(s, r, s[t].w, z)
    BY NewAdds
  <2> HIDE DEF r
  <2>3. z = Compute(o, n, X, Y)
    BY OperationIs
  <2>4. Yields(s, Result(r), n, Compute(o, n, X, Y))
    BY <2>2, <2>3, AddsYield
  <2> QED
    BY <2>1, <2>4
<1> QED
  BY <1>1, <1>2

(* Casts: the term's value is the operand's, cut to the width or not.      *)
LEMMA CastExact ==
  ASSUME NEW s, Filed(s), NEW v, NEW n \in Nat \ {0}, Val(v).w = n,
         NEW t, t = cache[Val(v).a], t \in 1 .. Len(s),
         NEW w \in Nat \ {0}, s[t].w = w, NEW x \in Word(Mod(w)), s[t].x = x,
         Val(v).kind \in {"sext"} \cup Simple,
         Val(v).kind = "trunc" => n <= w,
         Val(v).kind \in {"zext", "sext"} => n >= w,
         Val(v).kind = "bitcast" => n = w
  PROVE  Yields(s, analyze(s, v), n, IF Val(v).kind = "sext" THEN Wrap(Mod(n), Signed(Mod(w), x))
                                     ELSE Wrap(Mod(n), x))
<1> DEFINE I == Val(v)
           d == n - w
<1>1. Mod(w) \in Nat /\ Mod(w) > 0 /\ Mod(n) \in Nat /\ Mod(n) > 0 /\ w + d = n
  <2>1. Mod(w) \in Nat /\ Mod(w) > 0 /\ Mod(n) \in Nat /\ Mod(n) > 0
    BY ModFacts
  <2>2. w + d = n
    OBVIOUS
  <2> QED
    BY <2>1, <2>2
<1>2. n >= w => Wrap(Mod(n), x) = x
  <2> SUFFICES ASSUME n >= w PROVE Wrap(Mod(n), x) = x
    OBVIOUS
  <2>1. w \in Nat /\ n \in Nat /\ w <= n
    OBVIOUS
  <2>2. Pow2[w] <= Pow2[n]
    BY <2>1, Wider
  <2>3. x \in Word(Mod(n))
    BY <1>1, <2>2 DEF Word, Mod
  <2> QED
    BY <1>1, <2>3, WrapInside
<1> DEFINE cut == extract(s, n, t)
           zero == zero_extend(s, d, t)
           sign == sign_extend(s, d, t)
<1>3. Yields(s, Result(cut), n, Wrap(Mod(n), x))
  <2>1. Adds(s, cut, n, x % Mod(n))
    BY NewAdds DEF extract
  <2> HIDE DEF cut
  <2> QED
    BY <2>1, AddsYield DEF Wrap
<1>4. n >= w => Yields(s, Result(zero), n, Wrap(Mod(n), x))
  <2>1. Adds(s, zero, w + d, x)
    BY NewAdds DEF zero_extend, Make
  <2> HIDE DEF zero
  <2>2. Yields(s, Result(zero), n, x)
    BY <1>1, <2>1, AddsYield
  <2> QED
    BY <1>2, <2>2
<1>5. Yields(s, Result(sign), n, Wrap(Mod(n), Signed(Mod(w), x)))
  <2> DEFINE z == Wrap(Mod(w + d), Signed(Mod(w), x))
  <2>1. Adds(s, sign, w + d, z)
    BY NewAdds DEF sign_extend, Make
  <2> HIDE DEF sign, d
  <2>2. Adds(s, sign, n, Wrap(Mod(n), Signed(Mod(w), x)))
    BY <1>1, <2>1
  <2> QED
    BY <2>2, AddsYield
<1>6. n = w => Yields(s, Same(s, t), n, Wrap(Mod(n), x))
  BY <1>2, SameYields
<1>7. CASE I.kind = "trunc"
  <2>1. analyze(s, v) = Result(visitCast(s, I)) /\ visitCast(s, I) = cut
    BY <1>7 DEF analyze, visitCast
  <2> QED
    BY <1>3, <1>7, <2>1
<1>8. CASE I.kind = "zext"
  <2>1. analyze(s, v) = Result(visitCast(s, I)) /\ visitCast(s, I) = zero
    BY <1>8 DEF analyze, visitCast
  <2> QED
    BY <1>4, <1>8, <2>1
<1>9. CASE I.kind = "sext"
  <2>1. analyze(s, v) = Result(visitCast(s, I)) /\ visitCast(s, I) = sign
    BY <1>9 DEF analyze, visitCast
  <2> QED
    BY <1>5, <1>9, <2>1
<1>10. CASE I.kind = "bitcast"
  <2>1. analyze(s, v) = Same(s, t)
    BY <1>10 DEF analyze
  <2> QED
    BY <1>6, <1>10, <2>1
<1>11. CASE I.kind = "ptrtoint"
  <2>1. analyze(s, v) = visitPtrToInt(s, I)
    BY <1>11 DEF analyze
  <2>2. n > w => visitPtrToInt(s, I) = Result(zero)
    BY DEF visitPtrToInt
  <2>3. n < w => visitPtrToInt(s, I) = Result(cut)
    BY DEF visitPtrToInt
  <2>4. n = w => visitPtrToInt(s, I) = Same(s, t)
    BY DEF visitPtrToInt
  <2>5. CASE n > w
    BY <1>4, <1>11, <2>1, <2>2, <2>5
  <2>6. CASE n < w
    BY <1>3, <1>11, <2>1, <2>3, <2>6
  <2>7. CASE n = w
    BY <1>6, <1>11, <2>1, <2>4, <2>7
  <2> QED
    BY <2>5, <2>6, <2>7
<1> QED
  BY <1>7, <1>8, <1>9, <1>10, <1>11 DEF Simple

LEMMA AnalyzeExact ==
  ASSUME NEW s, CachedIn(s), backend \in Backends, prog \in Programs, NEW v \in Places, ~LosesSign(v),
         Operands(v) \subseteq DOMAIN cache, \A u \in Operands(v) : Exactly(s, cache, u),
         Meaning[v] # Poison
  PROVE  Kept(s, v)[analyze(s, v).term].x = Meaning[v]
<1> DEFINE I == Val(v)
           n == I.w
           w == Val(I.a).w
           x == Meaning[I.a]
           y == Meaning[I.b]
           ta == cache[I.a]
           tb == cache[I.b]
<1>0. /\ Filed(s) /\ Meaning[v] = MeaningOf(v, Meaning) /\ Widths(prog, v) /\ n \in Nat \ {0}
      /\ I.kind \in {"fresh", "const", "select"} \cup Derived
  BY StoreFiled, MeaningIs, KindFacts DEF CachedIn
<1>1. ASSUME NEW u \in Operands(v), Meaning[u] # Poison
      PROVE  /\ cache[u] \in 1 .. Len(s) /\ s[cache[u]].w = Val(u).w /\ s[cache[u]].x = Meaning[u]
             /\ Meaning[u] \in Word(Mod(Val(u).w)) /\ Val(u).w \in Nat \ {0}
  <2>1. u \in Places /\ u \in DOMAIN cache
    BY KindFacts
  <2>2. Sound(u) /\ Val(u).w \in Nat \ {0}
    BY <2>1, MeaningsSound, KindFacts
  <2> QED
    BY <1>1, <2>1, <2>2 DEF CachedIn, Live, Exactly, Sound
<1>2. I.kind # "fresh" => Kept(s, v) = analyze(s, v).store
  BY DEF Kept
<1>3. ASSUME I.kind # "fresh", NEW r, NEW z, NEW x0, analyze(s, v) = r, Yields(s, r, z, x0)
      PROVE  Kept(s, v)[analyze(s, v).term].x = x0
  BY <1>2, <1>3 DEF Yields
<1>4. I.kind \in Derived => ~Spoiled(v, Meaning)
  BY <1>0, MeaningCases
<1>5. ASSUME I.kind \in Derived, NEW u \in Operands(v) PROVE Meaning[u] # Poison
  BY <1>4, <1>5 DEF Spoiled
<1>6. CASE I.kind = "fresh"
  <2>1. MeaningOf(v, Meaning) = prog.fresh[v]
    BY <1>6, MeaningCases
  <2> QED
    BY <1>0, <1>6, <2>1, FreshExact
<1>7. CASE I.kind = "const"
  <2>1. MeaningOf(v, Meaning) = I.num
    BY <1>7, MeaningCases
  <2> DEFINE r == bvconst(s, n, I.num)
  <2>2. analyze(s, v) = Result(r)
    BY <1>7 DEF analyze
  <2>3. Adds(s, r, n, I.num)
    BY <1>0, NewAdds DEF bvconst, Make
  <2> HIDE DEF r
  <2>4. Yields(s, Result(r), n, I.num)
    BY <2>3, AddsYield
  <2>5. Kept(s, v)[analyze(s, v).term].x = I.num
    BY <1>3, <1>7, <2>2, <2>4
  <2> QED
    BY <1>0, <2>1, <2>5
<1>8. CASE I.kind = "select"
  <2> DEFINE c == Meaning[I.c]
             tc == cache[I.c]
             r == ite(s, tc, ta, tb)
             z == IF s[tc].x = 1 THEN s[ta].x ELSE s[tb].x
  <2>1. Meaning[v] = IF c = 1 THEN x ELSE IF c = 0 THEN y ELSE Poison
    BY <1>0, <1>8, MeaningCases
  <2>2. I.a \in Operands(v) /\ I.b \in Operands(v) /\ I.c \in Operands(v)
    BY <1>8, OperandFacts
  <2>3. c \in {0, 1} /\ c # Poison
    BY <2>1 DEF Poison
  <2>4. s[tc].x = c
    BY <1>1, <2>2, <2>3
  <2>5. z = Meaning[v]
    <3>1. CASE c = 1
      <4>1. x # Poison
        BY <2>1, <3>1
      <4>2. s[ta].x = x
        BY <1>1, <2>2, <4>1
      <4> QED
        BY <2>1, <2>4, <3>1, <4>2
    <3>2. CASE c = 0
      <4>1. y # Poison
        BY <2>1, <3>2
      <4>2. s[tb].x = y
        BY <1>1, <2>2, <4>1
      <4> QED
        BY <2>1, <2>4, <3>2, <4>2
    <3> QED
      BY <2>3, <3>1, <3>2
  <2>6. analyze(s, v) = Result(r)
    BY <1>8 DEF analyze
  <2>7. Adds(s, r, s[ta].w, z)
    BY <1>0, NewAdds DEF ite
  <2> HIDE DEF r, z
  <2>8. Yields(s, Result(r), s[ta].w, z)
    BY <2>7, AddsYield
  <2>9. Kept(s, v)[analyze(s, v).term].x = z
    BY <1>3, <1>8, <2>6, <2>8
  <2> QED
    BY <2>5, <2>9
<1>9. ASSUME I.kind \in {"binary", "icmp", "result", "overflow"}
      PROVE  /\ ta \in 1 .. Len(s) /\ tb \in 1 .. Len(s) /\ s[ta].w = w /\ s[tb].w = Val(I.b).w
             /\ s[ta].x = x /\ s[tb].x = y /\ x \in Word(Mod(w)) /\ y \in Word(Mod(Val(I.b).w))
             /\ Val(I.b).w = w /\ w \in Nat \ {0} /\ ~Spoiled(v, Meaning)
             /\ I.kind \in {"binary", "result"} => w = n
             /\ I.kind \in {"result", "overflow"} => I.op \in OverflowOps
             /\ I.kind = "binary" => I.op \in BinaryOps /\ (I.op \in Shifts => n > 1)
  <2>1. I.kind \in Derived
    BY <1>9 DEF Derived
  <2>2. I.a \in Operands(v) /\ I.b \in Operands(v)
    BY <1>9, <2>1, OperandFacts
  <2>3. Meaning[I.a] # Poison /\ Meaning[I.b] # Poison
    BY <1>5, <2>1, <2>2
  <2>4. /\ Val(I.b).w = w
        /\ I.kind \in {"binary", "result"} => w = n
        /\ I.kind \in {"result", "overflow"} => I.op \in OverflowOps
        /\ I.kind = "binary" => I.op \in BinaryOps /\ (I.op \in Shifts => n > 1)
    BY <1>0, <1>9 DEF Widths, Val
  <2>5. ta \in 1 .. Len(s) /\ s[ta].w = w /\ s[ta].x = x /\ x \in Word(Mod(w)) /\ w \in Nat \ {0}
    BY <1>1, <2>2, <2>3
  <2>6. tb \in 1 .. Len(s) /\ s[tb].w = Val(I.b).w /\ s[tb].x = y /\ y \in Word(Mod(Val(I.b).w))
    BY <1>1, <2>2, <2>3
  <2> QED
    BY <1>4, <2>1, <2>4, <2>5, <2>6
<1>10. CASE I.kind = "binary"
  <2> DEFINE o == I.op
             z == Compute(o, n, x, y)
  <2>0. I.kind \in {"binary", "icmp", "result", "overflow"}
    BY <1>10
  <2>1. Meaning[v] = IF HasResult(o, n, x, y) THEN z ELSE Poison
    BY <1>0, <1>9, <1>10, <2>0, MeaningCases
  <2>2. HasResult(o, n, x, y) /\ Meaning[v] = z
    BY <2>1
  <2>3. backend = "boolector" /\ o = "ashr" /\ Pow2[Log2Up(n)] # n => ~IsNegative(Mod(n), x)
    BY <1>10 DEF LosesSign
  <2>4. /\ ta \in 1 .. Len(s) /\ tb \in 1 .. Len(s) /\ s[ta].w = n /\ s[tb].w = n /\ s[ta].x = x /\ s[tb].x = y
        /\ x \in Word(Mod(n)) /\ y \in Word(Mod(n)) /\ o \in BinaryOps /\ (o \in Shifts => n > 1)
    BY <1>9, <1>10, <2>0
  <2> HIDE DEF o, ta, tb, x, y, n
  <2>5. Yields(s, operation(s, o, ta, tb), n, Compute(o, n, s[ta].x, s[tb].x))
    BY <1>0, <2>2, <2>3, <2>4, BinaryExact
  <2>6. Yields(s, operation(s, o, ta, tb), n, z)
    BY <2>4, <2>5
  <2>7. analyze(s, v) = operation(s, o, ta, tb)
    BY <1>10 DEF analyze, o, ta, tb
  <2> HIDE DEF z
  <2>8. Kept(s, v)[analyze(s, v).term].x = z
    BY <1>3, <1>10, <2>6, <2>7
  <2> QED
    BY <2>2, <2>8
<1>11. CASE I.kind = "icmp"
  <2> DEFINE z == Bit(Holds(I.pred, w, x, y))
             r == compare(s, I.pred, ta, tb)
             z0 == Relation(I.pred, s[ta].w, s[ta].x, s[tb].x)
  <2>0. I.kind \in {"binary", "icmp", "result", "overflow"}
    BY <1>11
  <2>1. Meaning[v] = z
    BY <1>0, <1>9, <1>11, <2>0, MeaningCases
  <2>2. analyze(s, v) = Result(r)
    BY <1>11 DEF analyze
  <2>3. Adds(s, r, 1, z0)
    BY <1>0, NewAdds DEF compare
  <2> HIDE DEF r
  <2>4. z0 = z
    BY <1>9, <2>0, RelationIs
  <2> HIDE DEF z0, z
  <2>5. Yields(s, Result(r), 1, z)
    BY <2>3, <2>4, AddsYield
  <2>6. Kept(s, v)[analyze(s, v).term].x = z
    BY <1>3, <1>11, <2>2, <2>5
  <2> QED
    BY <2>1, <2>6
<1>12. CASE I.kind = "result"
  <2> DEFINE o == I.op
             z == Wrap(Mod(n), Exact(o, n, x, y))
             c == Compute(Plain(o), n, x, y)
             r == operation(s, Plain(o), ta, tb)
  <2>0. I.kind \in {"binary", "icmp", "result", "overflow"}
    BY <1>12
  <2>1. Meaning[v] = z
    BY <1>0, <1>9, <1>12, <2>0, MeaningCases
  <2>2. analyze(s, v) = r
    BY <1>12 DEF analyze
  <2>3. o \in OverflowOps /\ s[ta].w = n /\ s[ta].x = x /\ s[tb].x = y /\ x \in Word(Mod(n)) /\ y \in Word(Mod(n))
    BY <1>9, <1>12, <2>0
  <2>4. c = z /\ Plain(o) \notin Shifts
    BY <1>0, <2>3, ResultIs
  <2>5. /\ Adds(s, r.store, s[ta].w, Compute(Plain(o), s[ta].w, s[ta].x, s[tb].x))
        /\ r.term = Len(s) + 1
    BY <1>0, <2>4, OperationAdds
  <2> HIDE DEF r, z
  <2>6. Adds(s, r.store, n, z)
    BY <2>3, <2>4, <2>5
  <2>7. Yields(s, r, n, z)
    BY <2>5, <2>6, AddsYield DEF Yields
  <2>8. Kept(s, v)[analyze(s, v).term].x = z
    BY <1>3, <1>12, <2>2, <2>7
  <2> QED
    BY <2>1, <2>8
<1>13. CASE I.kind = "overflow"
  <2> DEFINE o == I.op
             z == Bit(~(NoOverflow(o, w, x, y) /\ NoUnderflow(o, w, x, y)))
             r == overflow(s, o, ta, tb)
             z0 == Overflow(o, s[ta].w, s[ta].x, s[tb].x)
  <2>0. I.kind \in {"binary", "icmp", "result", "overflow"}
    BY <1>13
  <2>1. Meaning[v] = z
    BY <1>0, <1>9, <1>13, <2>0, MeaningCases
  <2>2. analyze(s, v) = Result(r)
    BY <1>13 DEF analyze
  <2>3. Adds(s, r, 1, z0)
    BY <1>0, NewAdds DEF overflow
  <2> HIDE DEF r
  <2>4. /\ o \in OverflowOps /\ s[ta].w = w /\ s[ta].x = x /\ s[tb].x = y
        /\ x \in Word(Mod(w)) /\ y \in Word(Mod(w)) /\ w \in Nat \ {0}
    BY <1>9, <1>13, <2>0
  <2>5. z0 = z
    <3> HIDE DEF o, ta, tb, x, y, w
    <3> QED
      BY <2>4, OverflowIs
  <2> HIDE DEF z0, z
  <2>6. Yields(s, Result(r), 1, z)
    BY <2>3, <2>5, AddsYield
  <2>7. Kept(s, v)[analyze(s, v).term].x = z
    BY <1>3, <1>13, <2>2, <2>6
  <2> QED
    BY <2>1, <2>7
<1>14. CASE I.kind = "gep"
  <2> DEFINE z == Address(I, Meaning)
             r == visitGEP(s, I)
  <2>0. I.kind \in Derived
    BY <1>14 DEF Derived
  <2>1. Meaning[v] = z
    BY <1>0, <1>4, <1>14, <2>0, MeaningCases
  <2>2. analyze(s, v) = r
    BY <1>14 DEF analyze
  <2>3. \A u \in Operands(v) : s[cache[u]].x = Meaning[u]
    BY <1>1, <1>5, <2>0
  <2>4. Yields(s, r, PtrSize, z)
    BY <1>4, <1>14, <2>0, <2>3, GEPYields
  <2> HIDE DEF r, z
  <2>5. Kept(s, v)[analyze(s, v).term].x = z
    BY <1>3, <1>14, <2>2, <2>4
  <2> QED
    BY <2>1, <2>5
<1>15. CASE I.kind \in {"sext"} \cup Simple
  <2> DEFINE z == IF I.kind = "sext" THEN Wrap(Mod(n), Signed(Mod(w), x)) ELSE Wrap(Mod(n), x)
  <2>0. I.kind \in Derived /\ I.kind # "fresh"
    BY <1>15 DEF Derived, Simple
  <2>1. Meaning[v] = z
    <3>1. CASE I.kind = "sext"
      BY <1>0, <1>4, <2>0, <3>1, MeaningCases
    <3>2. CASE I.kind \in Simple
      <4>1. I.kind # "sext"
        BY <3>2 DEF Simple
      <4>2. MeaningOf(v, Meaning) = Wrap(Mod(n), x)
        BY <1>4, <2>0, <3>2, MeaningCases
      <4> QED
        BY <1>0, <4>1, <4>2
    <3> QED
      BY <1>15, <3>1, <3>2
  <2>2. I.a \in Operands(v) /\ x # Poison
    BY <1>5, <2>0, OperandFacts
  <2>3. ta \in 1 .. Len(s) /\ s[ta].w = w /\ s[ta].x = x /\ x \in Word(Mod(w)) /\ w \in Nat \ {0}
    BY <1>1, <2>2
  <2>4. /\ I.kind = "trunc" => n <= w
        /\ I.kind \in {"zext", "sext"} => n >= w
        /\ I.kind = "bitcast" => n = w
    BY <1>0 DEF Widths, Val
  <2>5. Yields(s, analyze(s, v), n, z)
    BY <1>0, <1>15, <2>3, <2>4, CastExact
  <2> HIDE DEF z
  <2>6. Kept(s, v)[analyze(s, v).term].x = z
    BY <1>3, <2>0, <2>5
  <2> QED
    BY <2>1, <2>6
<1> QED
  BY <1>0, <1>6, <1>7, <1>8, <1>10, <1>11, <1>12, <1>13, <1>14, <1>15 DEF Derived

-----------------------------------------------------------------------------
(* The terms in the cache have the meanings of their values.               *)
NoSignLost == ~(\E v \in Places : LosesSign(v))

ValuesInv == NoSignLost => \A v \in DOMAIN cache : Exactly(terms, cache, v)

LEMMA ValuesSteps == GenInv /\ RangesInv /\ ValuesInv /\ [GenNext]_genVars => ValuesInv'
<1> SUFFICES ASSUME GenInv, RangesInv, ValuesInv, [GenNext]_genVars PROVE ValuesInv'
  OBVIOUS
<1>1. backend' = backend /\ prog' = prog
  BY DEF GenNext, Visit, Guard, Query, QueryNegation, FreePaths, FreeValues, GenEnded, genVars
<1>2. /\ Meaning' = Meaning /\ (NoSignLost' <=> NoSignLost)
  <2>1. Meaning' = Meaning
    BY <1>1 DEF Meaning, MeaningOf, Operands, Places, Val, Address, Part
  <2> QED
    BY <1>1, <2>1 DEF NoSignLost, LosesSign, Places, Val
<1> SUFFICES ASSUME NoSignLost, NEW v \in DOMAIN cache' PROVE Exactly(terms', cache', v)
  BY <1>2 DEF ValuesInv, Exactly
<1>3. Keeps(terms, terms')
  BY TermsKept
<1>4. ASSUME NEW u \in DOMAIN cache PROVE Exactly(terms', cache, u)
  <2>1. cache[u] \in 1 .. Len(terms) /\ Exactly(terms, cache, u)
    BY CacheIn DEF CachedIn, Live, ValuesInv
  <2> QED
    BY <1>3, <2>1 DEF Exactly, Keeps
<1>5. CASE cache' = cache
  BY <1>4, <1>5
<1>6. CASE cache' # cache /\ cache' # << >>
  <2>1. PICK u \in Places : Visit(u)
    BY <1>6 DEF GenNext, Guard, Query, QueryNegation, FreePaths, FreeValues, GenEnded, genVars
  <2>2. /\ Operands(u) \subseteq DOMAIN cache /\ terms' = Kept(terms, u)
        /\ cache' = Added(cache, u, analyze(terms, u).term)
    BY <2>1 DEF Visit, Ready, Kept, Added
  <2>3. CASE v = u
    <3>1. cache'[v] = analyze(terms, u).term
      BY <2>2, <2>3 DEF Added
    <3>2. \A t \in Operands(u) : Exactly(terms, cache, t)
      BY <2>2 DEF ValuesInv
    <3>3. ~LosesSign(u)
      BY DEF NoSignLost
    <3>4. Meaning[u] # Poison => Kept(terms, u)[analyze(terms, u).term].x = Meaning[u]
      BY <2>2, <3>2, <3>3, CacheIn, AnalyzeExact DEF GenInv, RangesInv
    <3> QED
      BY <2>2, <2>3, <3>1, <3>4 DEF Exactly
  <2>4. CASE v # u
    <3>1. v \in DOMAIN cache /\ cache'[v] = cache[v]
      BY <2>2, <2>4 DEF Added
    <3>2. Exactly(terms', cache, v)
      BY <1>4, <3>1
    <3> QED
      BY <3>1, <3>2 DEF Exactly
  <2> QED
    BY <2>3, <2>4
<1>7. CASE cache' = << >>
  BY <1>7
<1> QED
  BY <1>5, <1>6, <1>7

(* kint asks about the values the program has, whatever the solver: when   *)
(* the query is put every term has its value's width and, where LLVM says  *)
(* what the value is, its value (src/ValueGen.cc, src/SMTZ3.cc,            *)
(* src/SMTBoolector.cc, src/SMTSonolar.cc), but for Boolector's arithmetic *)
(* shift of a negative word of no power of two bits.                       *)
THEOREM TermsAlwaysExact == GenSpec => []TermsExact
<1>1. GenInit => ValuesInv
  BY DEF GenInit, ValuesInv
<1>2. GenInv /\ ValuesInv => TermsExact
  <2> SUFFICES ASSUME GenInv, ValuesInv, phase = "ask", ~(\E v \in Places : LosesSign(v)), NEW v \in Places
               PROVE  /\ terms[cache[v]].w = Val(v).w
                      /\ Meaning[v] # Poison => terms[cache[v]].x = Meaning[v]
    BY DEF TermsExact
  <2>1. v \in DOMAIN cache
    BY DEF GenInv
  <2>2. terms[cache[v]].w = Val(v).w
    BY <2>1, CacheIn DEF CachedIn
  <2>3. Exactly(terms, cache, v)
    BY <2>1 DEF ValuesInv, NoSignLost
  <2> QED
    BY <2>2, <2>3 DEF Exactly
<1>3. GenInit => RangesInv
  BY DEF GenInit, RangesInv
<1> QED
  BY <1>1, <1>2, <1>3, GenInvariant, RangesSteps, ValuesSteps, PTL DEF GenSpec

-----------------------------------------------------------------------------
(* What sequences written out or put together hold, entry by entry.        *)
LEMMA AppendTwo ==
  ASSUME NEW S, NEW s \in Seq(S), NEW a \in S, NEW b \in S
  PROVE  LET r == Append(Append(s, a), b)
         IN  /\ r \in Seq(S) /\ Len(r) = Len(s) + 2
             /\ \A i \in 1 .. Len(s) : r[i] = s[i]
             /\ r[Len(s) + 1] = a /\ r[Len(s) + 2] = b
OBVIOUS

LEMMA Joined ==
  ASSUME NEW S, NEW s \in Seq(S), NEW t \in Seq(S)
  PROVE  LET r == s \o t
         IN  /\ r \in Seq(S) /\ Len(r) = Len(s) + Len(t)
             /\ \A i \in 1 .. Len(s) : r[i] = s[i]
             /\ \A i \in 1 .. Len(t) : r[Len(s) + i] = t[i]
OBVIOUS

LEMMA Two ==
  ASSUME NEW S, NEW a \in S, NEW b \in S
  PROVE  LET r == <<a, b>> IN r \in Seq(S) /\ Len(r) = 2 /\ r[1] = a /\ r[2] = b
OBVIOUS

(* The values of each check, as the passes add them.                       *)
LEMMA DivZeroEntries ==
  ASSUME NEW w
  PROVE  LET c == insertDivCheck(Fresh2(w), FALSE, w)
         IN  /\ Len(c) = 4 /\ c[1] = Fresh(w) /\ c[2] = Fresh(w)
             /\ c[3] = Const(w, 0) /\ c[4] = ICmp("eq", 2, 3)
<1> DEFINE s == Fresh2(w)
           a == Const(w, 0)
           b == ICmp("eq", 2, 3)
           S == {Fresh(w), a, b}
           r == Append(Append(s, a), b)
<1>1. s \in Seq(S) /\ Len(s) = 2 /\ s[1] = Fresh(w) /\ s[2] = Fresh(w)
  BY Two DEF Fresh2
<1>2. insertDivCheck(s, FALSE, w) = r
  BY <1>1 DEF insertDivCheck, Then
<1>3. a \in S /\ b \in S
  OBVIOUS
<1> HIDE DEF s, S, a, b
<1>4. /\ Len(r) = 2 + 2 /\ \A i \in 1 .. 2 : r[i] = s[i]
      /\ r[2 + 1] = a /\ r[2 + 2] = b
  BY <1>1, <1>3, AppendTwo
<1> HIDE DEF r
<1>5. Len(r) = 4 /\ r[1] = Fresh(w) /\ r[2] = Fresh(w) /\ r[3] = a /\ r[4] = b
  BY <1>1, <1>4
<1> QED
  BY <1>2, <1>5 DEF s, a, b

LEMMA Three ==
  ASSUME NEW S, NEW a \in S, NEW b \in S, NEW c \in S
  PROVE  LET r == <<a, b, c>>
         IN  r \in Seq(S) /\ Len(r) = 3 /\ r[1] = a /\ r[2] = b /\ r[3] = c
OBVIOUS

LEMMA Six ==
  ASSUME NEW S, NEW a \in S, NEW b \in S, NEW c \in S, NEW d \in S, NEW e \in S, NEW f \in S
  PROVE  LET r == <<a, b, c, d, e, f>>
         IN  /\ r \in Seq(S) /\ Len(r) = 6
             /\ r[1] = a /\ r[2] = b /\ r[3] = c /\ r[4] = d /\ r[5] = e /\ r[6] = f
OBVIOUS

LEMMA DivEntries ==
  ASSUME NEW w
  PROVE  LET c == insertDivCheck(Fresh2(w), TRUE, w)
         IN  /\ Len(c) = 10 /\ c[1] = Fresh(w) /\ c[2] = Fresh(w)
             /\ c[3] = Const(w, 0) /\ c[4] = ICmp("eq", 2, 3)
             /\ c[5] = Const(w, SMin(Mod(w))) /\ c[6] = Const(w, UMax(Mod(w)))
             /\ c[7] = ICmp("eq", 1, 5) /\ c[8] = ICmp("eq", 2, 6)
             /\ c[9] = Binary("and", 1, 7, 8) /\ c[10] = Binary("or", 1, 4, 9)
<1> DEFINE s == Fresh2(w)
           z == insertDivCheck(s, FALSE, w)
           t == << Const(w, SMin(Mod(w))), Const(w, UMax(Mod(w))), ICmp("eq", 1, 5), ICmp("eq", 2, 6),
                   Binary("and", 1, 7, 8), Binary("or", 1, 4, 9) >>
           S == {Fresh(w), Const(w, 0), Const(w, SMin(Mod(w))), Const(w, UMax(Mod(w))), ICmp("eq", 2, 3),
                 ICmp("eq", 1, 5), ICmp("eq", 2, 6), Binary("and", 1, 7, 8), Binary("or", 1, 4, 9)}
           r == z \o t
<1>1. Len(s) = 2
  BY DEF Fresh2
<1>2. insertDivCheck(s, TRUE, w) = r
  BY <1>1 DEF insertDivCheck, Then
<1>3. /\ Len(z) = 4 /\ z[1] = Fresh(w) /\ z[2] = Fresh(w)
      /\ z[3] = Const(w, 0) /\ z[4] = ICmp("eq", 2, 3)
  BY DivZeroEntries
<1>4. z \in Seq(S)
  <2>1. s \in Seq(S) /\ Const(w, 0) \in S /\ ICmp("eq", 2, 3) \in S
    BY Two DEF Fresh2
  <2>2. z = Append(Append(s, Const(w, 0)), ICmp("eq", 2, 3))
    BY <1>1 DEF insertDivCheck, Then
  <2> HIDE DEF s, S, z
  <2> QED
    BY <2>1, <2>2, AppendTwo
<1>5. /\ t \in Seq(S) /\ Len(t) = 6
      /\ t[1] = Const(w, SMin(Mod(w))) /\ t[2] = Const(w, UMax(Mod(w))) /\ t[3] = ICmp("eq", 1, 5)
      /\ t[4] = ICmp("eq", 2, 6) /\ t[5] = Binary("and", 1, 7, 8) /\ t[6] = Binary("or", 1, 4, 9)
  <2>1. /\ Const(w, SMin(Mod(w))) \in S /\ Const(w, UMax(Mod(w))) \in S /\ ICmp("eq", 1, 5) \in S
        /\ ICmp("eq", 2, 6) \in S /\ Binary("and", 1, 7, 8) \in S /\ Binary("or", 1, 4, 9) \in S
    OBVIOUS
  <2> HIDE DEF S
  <2> QED
    BY <2>1, Six
<1> HIDE DEF t, z, S
<1>6. /\ Len(r) = Len(z) + Len(t) /\ \A i \in 1 .. Len(z) : r[i] = z[i]
      /\ \A i \in 1 .. Len(t) : r[Len(z) + i] = t[i]
  <2>1. z \in Seq(S) /\ t \in Seq(S)
    BY <1>4, <1>5
  <2> HIDE DEF s
  <2> QED
    BY <2>1, Joined
<1> HIDE DEF r
<1>7. /\ r[1] = z[1] /\ r[2] = z[2] /\ r[3] = z[3] /\ r[4] = z[4]
  BY <1>3, <1>6
<1>8. /\ r[4 + 1] = t[1] /\ r[4 + 2] = t[2] /\ r[4 + 3] = t[3] /\ r[4 + 4] = t[4] /\ r[4 + 5] = t[5]
      /\ r[4 + 6] = t[6]
  BY <1>3, <1>5, <1>6
<1>9. Len(r) = 10 /\ 4 + 1 = 5 /\ 4 + 2 = 6 /\ 4 + 3 = 7 /\ 4 + 4 = 8 /\ 4 + 5 = 9 /\ 4 + 6 = 10
  BY <1>3, <1>5, <1>6
<1> QED
  BY <1>2, <1>3, <1>5, <1>7, <1>8, <1>9 DEF s

LEMMA ShiftEntries ==
  ASSUME NEW w
  PROVE  LET c == insertShiftCheck(Fresh2(w), w)
         IN  /\ Len(c) = 4 /\ c[1] = Fresh(w) /\ c[2] = Fresh(w)
             /\ c[3] = Const(w, w) /\ c[4] = ICmp("uge", 2, 3)
<1> DEFINE s == Fresh2(w)
           S == {Fresh(w), Const(w, w), ICmp("uge", 2, 3)}
           a == Const(w, w)
           b == ICmp("uge", 2, 3)
           r == Append(Append(s, a), b)
<1>1. s \in Seq(S) /\ Len(s) = 2 /\ s[1] = Fresh(w) /\ s[2] = Fresh(w)
  BY Two DEF Fresh2
<1>2. insertShiftCheck(s, w) = r
  BY <1>1 DEF insertShiftCheck, Then
<1>3. a \in S /\ b \in S
  OBVIOUS
<1> HIDE DEF s, S, a, b
<1>4. /\ Len(r) = 2 + 2 /\ \A i \in 1 .. 2 : r[i] = s[i]
      /\ r[2 + 1] = a /\ r[2 + 2] = b
  BY <1>1, <1>3, AppendTwo
<1> HIDE DEF r
<1>5. Len(r) = 4 /\ r[1] = Fresh(w) /\ r[2] = Fresh(w) /\ r[3] = a /\ r[4] = b
  BY <1>1, <1>4
<1> QED
  BY <1>2, <1>5 DEF s, a, b

LEMMA SizeEntries ==
  ASSUME NEW w
  PROVE  LET c == rewriteSizeAt(<<Fresh(w)>>, w)
         IN  Len(c) = 3 /\ c[1] = Fresh(w) /\ c[2] = Const(w, 0) /\ c[3] = ICmp("slt", 1, 2)
<1> DEFINE s == <<Fresh(w)>>
           a == Const(w, 0)
           b == ICmp("slt", 1, 2)
           S == {Fresh(w), a, b}
           r == Append(Append(s, a), b)
<1>1. s \in Seq(S) /\ Len(s) = 1 /\ s[1] = Fresh(w)
  OBVIOUS
<1>2. rewriteSizeAt(s, w) = r
  BY <1>1 DEF rewriteSizeAt, Then
<1>3. a \in S /\ b \in S
  OBVIOUS
<1> HIDE DEF s, S, a, b
<1>4. /\ Len(r) = 1 + 2 /\ \A i \in 1 .. 1 : r[i] = s[i]
      /\ r[1 + 1] = a /\ r[1 + 2] = b
  BY <1>1, <1>3, AppendTwo
<1> HIDE DEF r
<1>5. Len(r) = 3 /\ r[1] = Fresh(w) /\ r[2] = a /\ r[3] = b
  BY <1>1, <1>4
<1> QED
  BY <1>2, <1>5 DEF s, a, b

(* Four sequences put together.                                            *)
Lists(r, s, t, u, v) ==
  /\ Len(r) = Len(s) + Len(t) + Len(u) + Len(v)
  /\ \A i \in 1 .. Len(s) : r[i] = s[i]
  /\ \A i \in 1 .. Len(t) : r[Len(s) + i] = t[i]
  /\ \A i \in 1 .. Len(u) : r[Len(s) + Len(t) + i] = u[i]
  /\ \A i \in 1 .. Len(v) : r[Len(s) + Len(t) + Len(u) + i] = v[i]

LEMMA JoinedFour ==
  ASSUME NEW S, NEW s \in Seq(S), NEW t \in Seq(S), NEW u \in Seq(S), NEW v \in Seq(S)
  PROVE  Lists(((s \o t) \o u) \o v, s, t, u, v)
<1> DEFINE a == s \o t
           b == a \o u
           r == b \o v
<1>0. /\ Len(s) \in Nat /\ Len(t) \in Nat /\ Len(u) \in Nat /\ Len(v) \in Nat
  OBVIOUS
<1>1. /\ a \in Seq(S) /\ Len(a) = Len(s) + Len(t)
      /\ \A i \in 1 .. Len(s) : a[i] = s[i]
      /\ \A i \in 1 .. Len(t) : a[Len(s) + i] = t[i]
  BY Joined
<1> HIDE DEF a
<1>2. /\ b \in Seq(S) /\ Len(b) = Len(a) + Len(u)
      /\ \A i \in 1 .. Len(a) : b[i] = a[i]
      /\ \A i \in 1 .. Len(u) : b[Len(a) + i] = u[i]
  <2>1. a \in Seq(S)
    BY <1>1
  <2> QED
    BY <2>1, Joined
<1> HIDE DEF b
<1>3. /\ Len(r) = Len(b) + Len(v)
      /\ \A i \in 1 .. Len(b) : r[i] = b[i]
      /\ \A i \in 1 .. Len(v) : r[Len(b) + i] = v[i]
  <2>1. b \in Seq(S)
    BY <1>2
  <2> QED
    BY <2>1, Joined
<1> HIDE DEF r
<1>4. \A i \in 1 .. Len(s) : r[i] = s[i]
  BY <1>0, <1>1, <1>2, <1>3
<1>5. ASSUME NEW i \in 1 .. Len(t) PROVE r[Len(s) + i] = t[i]
  <2>1. Len(s) + i \in 1 .. Len(a) /\ Len(s) + i \in 1 .. Len(b)
    BY <1>0, <1>1, <1>2
  <2> QED
    BY <1>1, <1>2, <1>3, <2>1
<1>6. ASSUME NEW i \in 1 .. Len(u) PROVE r[Len(s) + Len(t) + i] = u[i]
  <2>1. Len(a) + i \in 1 .. Len(b) /\ Len(s) + Len(t) + i = Len(a) + i
    BY <1>0, <1>1, <1>2
  <2> QED
    BY <1>2, <1>3, <2>1
<1>7. ASSUME NEW i \in 1 .. Len(v) PROVE r[Len(s) + Len(t) + Len(u) + i] = v[i]
  <2>1. Len(s) + Len(t) + Len(u) + i = Len(b) + i
    BY <1>0, <1>1, <1>2
  <2> QED
    BY <1>3, <2>1
<1>8. Len(r) = Len(s) + Len(t) + Len(u) + Len(v)
  BY <1>1, <1>2, <1>3
<1>9. r = ((s \o t) \o u) \o v
  BY DEF r, b, a
<1> QED
  BY <1>4, <1>5, <1>6, <1>7, <1>8, <1>9 DEF Lists

(* A sequence between two values and three.                                *)
Surrounds(r, a, b, t, c, d, e) ==
  /\ Len(r) = Len(t) + 5 /\ r[1] = a /\ r[2] = b
  /\ \A i \in 1 .. Len(t) : r[2 + i] = t[i]
  /\ r[Len(t) + 3] = c /\ r[Len(t) + 4] = d /\ r[Len(t) + 5] = e

LEMMA JoinedEntries ==
  ASSUME NEW S, NEW a \in S, NEW b \in S, NEW t \in Seq(S), NEW c \in S, NEW d \in S, NEW e \in S
  PROVE  Surrounds(((<<a, b>> \o t) \o <<c, d>>) \o <<e>>, a, b, t, c, d, e)
<1> DEFINE s == <<a, b>>
           u == <<c, d>>
           v == <<e>>
           n == Len(t)
           r == ((s \o t) \o u) \o v
<1>1. s \in Seq(S) /\ Len(s) = 2 /\ s[1] = a /\ s[2] = b
  BY Two
<1>2. u \in Seq(S) /\ Len(u) = 2 /\ u[1] = c /\ u[2] = d
  BY Two
<1>3. v \in Seq(S) /\ Len(v) = 1 /\ v[1] = e
  OBVIOUS
<1>4. n \in Nat
  OBVIOUS
<1> HIDE DEF s, u, v
<1>5. /\ Len(r) = Len(s) + Len(t) + Len(u) + Len(v)
      /\ \A i \in 1 .. Len(s) : r[i] = s[i]
      /\ \A i \in 1 .. Len(t) : r[Len(s) + i] = t[i]
      /\ \A i \in 1 .. Len(u) : r[Len(s) + Len(t) + i] = u[i]
      /\ \A i \in 1 .. Len(v) : r[Len(s) + Len(t) + Len(u) + i] = v[i]
  <2>1. s \in Seq(S) /\ u \in Seq(S) /\ v \in Seq(S)
    BY <1>1, <1>2, <1>3
  <2>2. Lists(((s \o t) \o u) \o v, s, t, u, v)
    BY <2>1, JoinedFour
  <2> QED
    BY <2>2 DEF Lists
<1>9. r = ((<<a, b>> \o t) \o <<c, d>>) \o <<e>>
  BY DEF s, u, v
<1> HIDE DEF r, n
<1>6. Len(r) = n + 5 /\ r[1] = s[1] /\ r[2] = s[2] /\ \A i \in 1 .. n : r[2 + i] = t[i]
  BY <1>1, <1>2, <1>3, <1>4, <1>5 DEF n
<1>7. r[2 + n + 1] = u[1] /\ r[2 + n + 2] = u[2] /\ r[2 + n + 2 + 1] = v[1]
  BY <1>1, <1>2, <1>3, <1>4, <1>5 DEF n
<1>8. 2 + n + 1 = n + 3 /\ 2 + n + 2 = n + 4 /\ 2 + n + 2 + 1 = n + 5
  BY <1>4
<1> QED
  BY <1>1, <1>2, <1>3, <1>6, <1>7, <1>8, <1>9 DEF n, Surrounds

LEMMA IdealEntries ==
  ASSUME NEW w, NEW o
  PROVE  LET c == IdealShift(Fresh2(w), o, w)
         IN  /\ Len(c) = 8 /\ c[1] = Fresh(w) /\ c[2] = Fresh(w)
             /\ c[3] = Binary(o, w, 1, 2) /\ c[4] = Const(w, w) /\ c[5] = ICmp("uge", 2, 4)
             /\ c[6] = Const(w, IF o = "ashr" THEN w - 1 ELSE 0)
             /\ c[7] = IF o = "ashr" THEN Binary("ashr", w, 1, 6) ELSE Const(w, 0)
             /\ c[8] = Select(w, 5, 7, 3)
<1> DEFINE f == Fresh(w)
           b == Binary(o, w, 1, 2)
           k == Const(w, w)
           g == ICmp("uge", 2, 4)
           x == Const(w, IF o = "ashr" THEN w - 1 ELSE 0)
           y == IF o = "ashr" THEN Binary("ashr", w, 1, 6) ELSE Const(w, 0)
           e == Select(w, 5, 7, 3)
           S == {f, b, k, g, x, y, e}
           t == <<b, k, g>>
           r == ((<<f, f>> \o t) \o <<x, y>>) \o <<e>>
<1>1. IdealShift(Fresh2(w), o, w) = r
  <2>1. Len(<<f, f>>) = 2 /\ 2 + 2 = 4 /\ 2 + 3 = 5 /\ 2 + 1 = 3 /\ 2 + 4 = 6 /\ 2 + 5 = 7
    OBVIOUS
  <2>2. <<x, y>> = IF o = "ashr" THEN << Const(w, w - 1), Binary("ashr", w, 1, 6) >>
                   ELSE << Const(w, 0), Const(w, 0) >>
    OBVIOUS
  <2> QED
    BY <2>1, <2>2 DEF IdealShift, Fresh2
<1>2. f \in S /\ b \in S /\ k \in S /\ g \in S /\ x \in S /\ y \in S /\ e \in S
  OBVIOUS
<1> HIDE DEF f, b, k, g, x, y, e, S
<1>3. t \in Seq(S) /\ Len(t) = 3 /\ t[1] = b /\ t[2] = k /\ t[3] = g
  BY <1>2, Three
<1> HIDE DEF t
<1>4. /\ Len(r) = Len(t) + 5 /\ r[1] = f /\ r[2] = f
      /\ \A i \in 1 .. Len(t) : r[2 + i] = t[i]
      /\ r[Len(t) + 3] = x /\ r[Len(t) + 4] = y /\ r[Len(t) + 5] = e
  <2>1. Surrounds(r, f, f, t, x, y, e)
    BY <1>2, <1>3, JoinedEntries
  <2> QED
    BY <2>1 DEF Surrounds
<1> HIDE DEF r
<1>5. r[2 + 1] = b /\ r[2 + 2] = k /\ r[2 + 3] = g
  BY <1>3, <1>4
<1>6. r[3] = b /\ r[4] = k /\ r[5] = g /\ r[6] = x /\ r[7] = y /\ r[8] = e /\ Len(r) = 8
  BY <1>3, <1>4, <1>5
<1> QED
  BY <1>1, <1>4, <1>6 DEF f, b, k, g, x, y, e

LEMMA ArrayEntries ==
  ASSUME NEW w, NEW z, NEW m, DOMAIN z = 1 .. 2, Len(z) = 2
  PROVE  LET c == insertArrayCheck([i \in DOMAIN z |-> Fresh(w)], w, z, m)
         IN  /\ Len(c) = 7 /\ c[1] = Fresh(w) /\ c[2] = Fresh(w)
             /\ c[3] = Const(w, Elements(z[1], m)) /\ c[4] = ICmp("ugt", 1, 3)
             /\ c[5] = Const(w, Elements(z[2], m)) /\ c[6] = ICmp("ugt", 2, 5)
             /\ c[7] = Binary("or", 1, 4, 6)
<1> DEFINE f == Fresh(w)
           a == Const(w, Elements(z[1], m))
           p == ICmp("ugt", 1, 3)
           b == Const(w, Elements(z[2], m))
           q == ICmp("ugt", 2, 5)
           e == Binary("or", 1, 4, 6)
           S == {f, a, p, b, q, e}
           s == [i \in DOMAIN z |-> Fresh(w)]
           t == <<a, p>>
           r == ((<<f, f>> \o t) \o <<b, q>>) \o <<e>>
<1>1. s = <<f, f>>
  BY DEF Fresh
<1>2. insertArrayCheck(s, w, z, m) = r
  <2>1. Len(<<f, f>>) = 2 /\ 2 + 2 * 1 - 1 = 3 /\ 2 + 2 * 2 - 1 = 5 /\ 2 + 2 = 4 /\ 2 + 4 = 6
    OBVIOUS
  <2> QED
    BY <1>1, <2>1 DEF insertArrayCheck
<1>3. f \in S /\ a \in S /\ p \in S /\ b \in S /\ q \in S /\ e \in S
  OBVIOUS
<1> HIDE DEF f, a, p, b, q, e, S, s
<1>4. t \in Seq(S) /\ Len(t) = 2 /\ t[1] = a /\ t[2] = p
  BY <1>3, Two
<1> HIDE DEF t
<1>5. /\ Len(r) = Len(t) + 5 /\ r[1] = f /\ r[2] = f
      /\ \A i \in 1 .. Len(t) : r[2 + i] = t[i]
      /\ r[Len(t) + 3] = b /\ r[Len(t) + 4] = q /\ r[Len(t) + 5] = e
  <2>1. Surrounds(r, f, f, t, b, q, e)
    BY <1>3, <1>4, JoinedEntries
  <2> QED
    BY <2>1 DEF Surrounds
<1> HIDE DEF r
<1>6. r[2 + 1] = a /\ r[2 + 2] = p
  BY <1>4, <1>5
<1>7. r[3] = a /\ r[4] = p /\ r[5] = b /\ r[6] = q /\ r[7] = e /\ Len(r) = 7
  BY <1>4, <1>5, <1>6
<1> QED
  BY <1>2, <1>5, <1>7 DEF f, a, p, b, q, e, s

LEMMA IndexEntries ==
  ASSUME NEW w, NEW z, NEW m, DOMAIN z = 1 .. 1, Len(z) = 1
  PROVE  LET c == insertArrayCheck([i \in DOMAIN z |-> Fresh(w)], w, z, m)
         IN  /\ Len(c) = 3 /\ c[1] = Fresh(w)
             /\ c[2] = Const(w, Elements(z[1], m)) /\ c[3] = ICmp("ugt", 1, 2)
<1> DEFINE f == Fresh(w)
           a == Const(w, Elements(z[1], m))
           p == ICmp("ugt", 1, 2)
           S == {f, a, p}
           s == [i \in DOMAIN z |-> Fresh(w)]
           u == <<f>>
           t == <<a, p>>
           r == u \o t
<1>1. s = u
  BY DEF Fresh
<1>2. insertArrayCheck(s, w, z, m) = r
  <2>1. Len(u) = 1 /\ 1 + 2 * 1 - 1 = 2
    OBVIOUS
  <2> QED
    BY <1>1, <2>1 DEF insertArrayCheck
<1>3. f \in S /\ a \in S /\ p \in S
  OBVIOUS
<1>4. u \in Seq(S) /\ Len(u) = 1 /\ u[1] = f
  OBVIOUS
<1> HIDE DEF f, a, p, S, s, u
<1>5. t \in Seq(S) /\ Len(t) = 2 /\ t[1] = a /\ t[2] = p
  BY <1>3, Two
<1> HIDE DEF t
<1>6. /\ Len(r) = Len(u) + Len(t) /\ \A i \in 1 .. Len(u) : r[i] = u[i]
      /\ \A i \in 1 .. Len(t) : r[Len(u) + i] = t[i]
  <2>1. u \in Seq(S) /\ t \in Seq(S)
    BY <1>4, <1>5
  <2> QED
    BY <2>1, Joined
<1> HIDE DEF r
<1>7. r[1] = f /\ r[1 + 1] = a /\ r[1 + 2] = p /\ Len(r) = 3
  BY <1>4, <1>5, <1>6
<1>8. r[2] = a /\ r[3] = p
  BY <1>7
<1> QED
  BY <1>2, <1>7, <1>8 DEF f, a, p, s

(* What the values of a check mean, by their kind.                         *)
LEMMA FreshMeans ==
  ASSUME prog \in Programs, NEW v \in Places, NEW w, Val(v) = Fresh(w)
  PROVE  /\ w \in Nat \ {0} /\ Val(v).w = w
         /\ Meaning[v] = prog.fresh[v] /\ prog.fresh[v] \in Word(Mod(w)) /\ prog.fresh[v] \in Nat
         /\ Meaning[v] # Poison
<1>1. Val(v).kind = "fresh" /\ Val(v).w = w
  BY DEF Fresh
<1>2. Widths(prog, v) /\ w \in Nat \ {0}
  BY <1>1, KindFacts
<1>3. prog.fresh[v] \in Word(Mod(w))
  BY <1>1, <1>2 DEF Widths, Val
<1>4. Meaning[v] = prog.fresh[v]
  <2>1. MeaningOf(v, Meaning) = prog.fresh[v]
    BY <1>1, MeaningCases
  <2> QED
    BY <2>1, MeaningIs
<1>5. prog.fresh[v] \in Nat /\ prog.fresh[v] # Poison
  <2>1. Mod(w) \in Nat
    BY <1>2, ModFacts
  <2> QED
    BY <1>3, <2>1 DEF Word, Poison
<1> QED
  BY <1>1, <1>2, <1>3, <1>4, <1>5

LEMMA ConstMeans ==
  ASSUME prog \in Programs, NEW v \in Places, NEW w, NEW n, Val(v) = Const(w, n)
  PROVE  Meaning[v] = n /\ n \in Word(Mod(w)) /\ n \in Nat /\ n # Poison
<1>1. Val(v).kind = "const" /\ Val(v).w = w /\ Val(v).num = n
  BY DEF Const
<1>2. Widths(prog, v) /\ w \in Nat \ {0}
  BY <1>1, KindFacts
<1>3. n \in Word(Mod(w))
  BY <1>1, <1>2 DEF Widths, Val
<1>4. Meaning[v] = n
  <2>1. MeaningOf(v, Meaning) = n
    BY <1>1, MeaningCases
  <2> QED
    BY <2>1, MeaningIs
<1>5. n \in Nat /\ n # Poison
  <2>1. Mod(w) \in Nat
    BY <1>2, ModFacts
  <2> QED
    BY <1>3, <2>1 DEF Word, Poison
<1> QED
  BY <1>3, <1>4, <1>5

LEMMA BitFacts == ASSUME NEW b PROVE Bit(b) \in {0, 1} /\ Bit(b) # Poison
BY DEF Bit, Poison

LEMMA CompareMeans ==
  ASSUME prog \in Programs, NEW v \in Places, NEW p, NEW x, NEW y, Val(v) = ICmp(p, x, y),
         Meaning[x] # Poison, Meaning[y] # Poison
  PROVE  Meaning[v] = Bit(Holds(p, Val(x).w, Meaning[x], Meaning[y]))
<1>1. Val(v).kind = "icmp" /\ Val(v).pred = p /\ Val(v).a = x /\ Val(v).b = y
  BY DEF ICmp
<1>2. ~Spoiled(v, Meaning)
  <2>1. Operands(v) = {x, y}
    BY <1>1 DEF Operands, OperandsOf
  <2> QED
    BY <2>1 DEF Spoiled
<1>3. MeaningOf(v, Meaning) = Bit(Holds(p, Val(x).w, Meaning[x], Meaning[y]))
  BY <1>1, <1>2, MeaningCases
<1> QED
  BY <1>3, MeaningIs

LEMMA ComputeMeans ==
  ASSUME prog \in Programs, NEW v \in Places, NEW o, NEW w, NEW x, NEW y, Val(v) = Binary(o, w, x, y),
         Meaning[x] # Poison, Meaning[y] # Poison
  PROVE  Meaning[v] = IF HasResult(o, w, Meaning[x], Meaning[y])
                      THEN Compute(o, w, Meaning[x], Meaning[y]) ELSE Poison
<1>1. /\ Val(v).kind = "binary" /\ Val(v).op = o /\ Val(v).w = w /\ Val(v).a = x /\ Val(v).b = y
  BY DEF Binary
<1>2. ~Spoiled(v, Meaning)
  <2>1. Operands(v) = {x, y}
    BY <1>1 DEF Operands, OperandsOf
  <2> QED
    BY <2>1 DEF Spoiled
<1>3. MeaningOf(v, Meaning) = IF HasResult(o, w, Meaning[x], Meaning[y])
                              THEN Compute(o, w, Meaning[x], Meaning[y]) ELSE Poison
  BY <1>1, <1>2, MeaningCases
<1> QED
  BY <1>3, MeaningIs

LEMMA LogicMeans ==
  ASSUME prog \in Programs, NEW v \in Places, NEW o \in {"and", "or"}, NEW x, NEW y,
         Val(v) = Binary(o, 1, x, y), NEW a \in BOOLEAN, NEW b \in BOOLEAN,
         Meaning[x] = Bit(a), Meaning[y] = Bit(b)
  PROVE  Meaning[v] = Bit(IF o = "and" THEN a /\ b ELSE a \/ b)
<1>1. Meaning[x] \in {0, 1} /\ Meaning[y] \in {0, 1} /\ Meaning[x] # Poison /\ Meaning[y] # Poison
  BY BitFacts
<1>2. HasResult(o, 1, Meaning[x], Meaning[y])
  BY DEF HasResult, Shifts
<1>3. Meaning[v] = Compute(o, 1, Meaning[x], Meaning[y])
  BY <1>1, <1>2, ComputeMeans
<1>4. /\ Compute("and", 1, Meaning[x], Meaning[y]) = Bit(Meaning[x] = 1 /\ Meaning[y] = 1)
      /\ Compute("or", 1, Meaning[x], Meaning[y]) = Bit(Meaning[x] = 1 \/ Meaning[y] = 1)
  BY <1>1, OneBit
<1>5. (Meaning[x] = 1 <=> a) /\ (Meaning[y] = 1 <=> b)
  BY DEF Bit
<1>6. CASE o = "and"
  BY <1>3, <1>4, <1>5, <1>6 DEF Bit
<1>7. CASE o = "or"
  BY <1>3, <1>4, <1>5, <1>7 DEF Bit
<1> QED
  BY <1>6, <1>7

LEMMA SelectMeans ==
  ASSUME prog \in Programs, NEW v \in Places, NEW w, NEW z, NEW x, NEW y, Val(v) = Select(w, z, x, y)
  PROVE  Meaning[v] = IF Meaning[z] = 1 THEN Meaning[x] ELSE IF Meaning[z] = 0 THEN Meaning[y] ELSE Poison
<1>1. Val(v).kind = "select" /\ Val(v).c = z /\ Val(v).a = x /\ Val(v).b = y
  BY DEF Select
<1>2. MeaningOf(v, Meaning) =
        IF Meaning[z] = 1 THEN Meaning[x] ELSE IF Meaning[z] = 0 THEN Meaning[y] ELSE Poison
  BY <1>1, MeaningCases
<1> QED
  BY <1>2, MeaningIs

(* A word of a width has twice as many values as one a bit narrower.       *)
LEMMA HalfIs ==
  ASSUME NEW w \in Nat \ {0}
  PROVE  /\ w - 1 \in Nat /\ Pow2[w - 1] \in Nat /\ Pow2[w - 1] > 0
         /\ Mod(w) = 2 * Pow2[w - 1] /\ Half(Mod(w)) = Pow2[w - 1]
<1>1. w - 1 \in Nat /\ (w - 1) + 1 = w
  OBVIOUS
<1>2. Pow2[w] = 2 * Pow2[w - 1] /\ Pow2[w - 1] \in Nat /\ Pow2[w - 1] > w - 1
  BY <1>1, Pow2Facts, Pow2Grows
<1> DEFINE h == Pow2[w - 1]
<1>3. h \in Nat /\ h > 0 /\ Mod(w) = 2 * h
  BY <1>1, <1>2 DEF Mod
<1> HIDE DEF h
<1>4. Half(Mod(w)) = h
  BY <1>3 DEF Half
<1> QED
  BY <1>1, <1>3, <1>4 DEF h

(* The first values of a program that puts a question are the question's.  *)
LEMMA PutsFacts ==
  ASSUME prog \in Programs, prog.asks # << >>
  PROVE  LET q == prog.asks
         IN  /\ IsQuestion(q) /\ q.w \in Nat \ {0} /\ q.at = Len(CheckOf(q))
             /\ \A v \in 1 .. q.at : v \in Places /\ Val(v) = CheckOf(q)[v]
<1>1. Puts(prog, prog.asks)
  BY GenAssumption DEF IsProgram
<1> QED
  BY <1>1 DEF Puts, IsQuestion, Places, Val

(* The answer of a question is the meaning of its last value.              *)
Answered ==
  prog.asks.at \in Places /\ Meaning[prog.asks.at] = Asked /\ Meaning[prog.asks.at] # Poison

LEMMA SizeAnswered ==
  ASSUME prog \in Programs, prog.asks # << >>, prog.asks.kind = "negative"
  PROVE  Answered
<1> DEFINE q == prog.asks
           w == q.w
           x == prog.fresh[1]
<1>1. CheckOf(q) = rewriteSizeAt(<<Fresh(w)>>, w)
  BY DEF CheckOf
<1>2. /\ q.at = 3 /\ 1 \in Places /\ 2 \in Places /\ 3 \in Places
      /\ Val(1) = Fresh(w) /\ Val(2) = Const(w, 0) /\ Val(3) = ICmp("slt", 1, 2)
  BY <1>1, PutsFacts, SizeEntries
<1>3. w \in Nat \ {0} /\ Val(1).w = w /\ Meaning[1] = x /\ Meaning[1] # Poison
  BY <1>2, FreshMeans
<1>4. Meaning[2] = 0 /\ Meaning[2] # Poison
  BY <1>2, ConstMeans
<1>5. Meaning[3] = Bit(Holds("slt", w, x, 0))
  BY <1>2, <1>3, <1>4, CompareMeans
<1>6. Signed(Mod(w), 0) = 0
  BY <1>3, HalfIs DEF Signed
<1>7. Holds("slt", w, x, 0) <=> Signed(Mod(w), x) < 0
  BY <1>6 DEF Holds
<1>8. Asked = Bit(Signed(Mod(w), x) < 0)
  BY DEF Asked
<1>9. Meaning[3] = Asked
  BY <1>5, <1>7, <1>8 DEF Bit
<1> QED
  BY <1>2, <1>5, <1>9, BitFacts DEF Answered

LEMMA ShiftAnswered ==
  ASSUME prog \in Programs, prog.asks # << >>, prog.asks.kind = "undefined", prog.asks.op \in Shifts
  PROVE  Answered
<1> DEFINE q == prog.asks
           w == q.w
           x == prog.fresh[1]
           y == prog.fresh[2]
<1>1. CheckOf(q) = insertShiftCheck(Fresh2(w), w)
  BY DEF CheckOf
<1>2. /\ q.at = 4 /\ 1 \in Places /\ 2 \in Places /\ 3 \in Places /\ 4 \in Places
      /\ Val(2) = Fresh(w) /\ Val(3) = Const(w, w) /\ Val(4) = ICmp("uge", 2, 3)
  BY <1>1, PutsFacts, ShiftEntries
<1>3. w \in Nat \ {0} /\ Val(2).w = w /\ Meaning[2] = y /\ Meaning[2] # Poison /\ y \in Nat
  BY <1>2, FreshMeans
<1>4. Meaning[3] = w /\ Meaning[3] # Poison
  BY <1>2, ConstMeans
<1>5. Meaning[4] = Bit(Holds("uge", w, y, w))
  BY <1>2, <1>3, <1>4, CompareMeans
<1>6. Holds("uge", w, y, w) <=> ~(y < w)
  BY <1>3 DEF Holds
<1>7. HasResult(q.op, w, x, y) <=> y < w
  BY DEF HasResult, Shifts
<1>8. Asked = Bit(~HasResult(q.op, w, x, y))
  BY DEF Asked
<1>9. Meaning[4] = Asked
  BY <1>5, <1>6, <1>7, <1>8 DEF Bit
<1> QED
  BY <1>2, <1>5, <1>9, BitFacts DEF Answered

LEMMA UDivAnswered ==
  ASSUME prog \in Programs, prog.asks # << >>, prog.asks.kind = "undefined", prog.asks.op = "udiv"
  PROVE  Answered
<1> DEFINE q == prog.asks
           w == q.w
           x == prog.fresh[1]
           y == prog.fresh[2]
<1>1. CheckOf(q) = insertDivCheck(Fresh2(w), FALSE, w)
  <2>1. q.op \notin Shifts /\ (q.op = "sdiv") = FALSE
    BY DEF Shifts
  <2> QED
    BY <2>1 DEF CheckOf
<1>2. /\ q.at = 4 /\ 1 \in Places /\ 2 \in Places /\ 3 \in Places /\ 4 \in Places
      /\ Val(2) = Fresh(w) /\ Val(3) = Const(w, 0) /\ Val(4) = ICmp("eq", 2, 3)
  <2> DEFINE c == insertDivCheck(Fresh2(w), FALSE, w)
  <2>1. Len(c) = 4 /\ c[2] = Fresh(w) /\ c[3] = Const(w, 0) /\ c[4] = ICmp("eq", 2, 3)
    BY DivZeroEntries
  <2>2. CheckOf(q) = c
    BY <1>1
  <2>3. q.at = Len(CheckOf(q)) /\ \A v \in 1 .. q.at : v \in Places /\ Val(v) = CheckOf(q)[v]
    BY PutsFacts
  <2> HIDE DEF c, q
  <2>4. q.at = 4 /\ \A v \in 1 .. 4 : v \in Places /\ Val(v) = c[v]
    BY <2>1, <2>2, <2>3
  <2> QED
    BY <2>1, <2>4
<1>3. Val(2).w = w /\ Meaning[2] = y /\ Meaning[2] # Poison
  BY <1>2, FreshMeans
<1>4. Meaning[3] = 0 /\ Meaning[3] # Poison
  BY <1>2, ConstMeans
<1>5. Meaning[4] = Bit(Holds("eq", w, y, 0))
  BY <1>2, <1>3, <1>4, CompareMeans
<1>6. Holds("eq", w, y, 0) <=> y = 0
  BY DEF Holds
<1>7. HasResult(q.op, w, x, y) <=> y # 0
  BY DEF HasResult, Shifts
<1>8. Asked = Bit(~HasResult(q.op, w, x, y))
  BY DEF Asked
<1>9. Meaning[4] = Asked
  BY <1>5, <1>6, <1>7, <1>8 DEF Bit
<1> QED
  BY <1>2, <1>5, <1>9, BitFacts DEF Answered

LEMMA SDivAnswered ==
  ASSUME prog \in Programs, prog.asks # << >>, prog.asks.kind = "undefined", prog.asks.op = "sdiv"
  PROVE  Answered
<1> DEFINE q == prog.asks
           w == q.w
           x == prog.fresh[1]
           y == prog.fresh[2]
           lo == SMin(Mod(w))
           hi == UMax(Mod(w))
<1>1. CheckOf(q) = insertDivCheck(Fresh2(w), TRUE, w)
  <2>1. q.op \notin Shifts /\ (q.op = "sdiv") = TRUE
    BY DEF Shifts
  <2> QED
    BY <2>1 DEF CheckOf
<1>2. /\ q.at = 10 /\ \A v \in 1 .. 10 : v \in Places
      /\ Val(1) = Fresh(w) /\ Val(2) = Fresh(w) /\ Val(3) = Const(w, 0) /\ Val(4) = ICmp("eq", 2, 3)
      /\ Val(5) = Const(w, lo) /\ Val(6) = Const(w, hi)
      /\ Val(7) = ICmp("eq", 1, 5) /\ Val(8) = ICmp("eq", 2, 6)
      /\ Val(9) = Binary("and", 1, 7, 8) /\ Val(10) = Binary("or", 1, 4, 9)
  <2> DEFINE c == insertDivCheck(Fresh2(w), TRUE, w)
  <2>1. /\ Len(c) = 10 /\ c[1] = Fresh(w) /\ c[2] = Fresh(w)
        /\ c[3] = Const(w, 0) /\ c[4] = ICmp("eq", 2, 3) /\ c[5] = Const(w, lo) /\ c[6] = Const(w, hi)
        /\ c[7] = ICmp("eq", 1, 5) /\ c[8] = ICmp("eq", 2, 6)
        /\ c[9] = Binary("and", 1, 7, 8) /\ c[10] = Binary("or", 1, 4, 9)
    BY DivEntries
  <2>2. CheckOf(q) = c
    BY <1>1
  <2>3. q.at = Len(CheckOf(q)) /\ \A v \in 1 .. q.at : v \in Places /\ Val(v) = CheckOf(q)[v]
    BY PutsFacts
  <2> HIDE DEF c, lo, hi, q
  <2>4. q.at = 10 /\ \A v \in 1 .. 10 : v \in Places /\ Val(v) = c[v]
    BY <2>1, <2>2, <2>3
  <2> QED
    BY <2>1, <2>4
<1>p. /\ 1 \in Places /\ 2 \in Places /\ 3 \in Places /\ 4 \in Places /\ 5 \in Places
      /\ 6 \in Places /\ 7 \in Places /\ 8 \in Places /\ 9 \in Places /\ 10 \in Places
  BY <1>2
<1>3. /\ Val(1).w = w /\ Meaning[1] = x /\ Meaning[1] # Poison
      /\ Val(2).w = w /\ Meaning[2] = y /\ Meaning[2] # Poison
  BY <1>2, <1>p, FreshMeans
<1>4. /\ Meaning[3] = 0 /\ Meaning[3] # Poison
      /\ Meaning[5] = lo /\ Meaning[5] # Poison /\ Meaning[6] = hi /\ Meaning[6] # Poison
  BY <1>2, <1>p, ConstMeans
<1> HIDE DEF lo, hi
<1>5. /\ Meaning[4] = Bit(Holds("eq", w, y, 0))
      /\ Meaning[7] = Bit(Holds("eq", w, x, lo)) /\ Meaning[8] = Bit(Holds("eq", w, y, hi))
  BY <1>2, <1>p, <1>3, <1>4, CompareMeans
<1>6. /\ Holds("eq", w, y, 0) <=> y = 0
      /\ Holds("eq", w, x, lo) <=> x = lo
      /\ Holds("eq", w, y, hi) <=> y = hi
  BY DEF Holds
<1> DEFINE a == y = 0
           b == x = lo
           c == y = hi
<1>7. Meaning[4] = Bit(a) /\ Meaning[7] = Bit(b) /\ Meaning[8] = Bit(c)
  BY <1>5, <1>6 DEF Bit
<1>b. a \in BOOLEAN /\ b \in BOOLEAN /\ c \in BOOLEAN /\ (b /\ c) \in BOOLEAN
  OBVIOUS
<1>8. HasResult(q.op, w, x, y) <=> ~a /\ ~(b /\ c)
  BY DEF HasResult, Shifts, lo, hi
<1> HIDE DEF a, b, c
<1>9. Meaning[9] = Bit(b /\ c)
  BY <1>2, <1>p, <1>7, <1>b, LogicMeans
<1>10. Meaning[10] = Bit(a \/ (b /\ c))
  <2> DEFINE d == b /\ c
  <2>1. d \in BOOLEAN /\ Meaning[9] = Bit(d)
    BY <1>9, <1>b
  <2> HIDE DEF d
  <2>2. Meaning[10] = Bit(a \/ d)
    BY <1>2, <1>p, <1>7, <1>b, <2>1, LogicMeans
  <2> QED
    BY <2>2 DEF d
<1>11. Asked = Bit(~HasResult(q.op, w, x, y))
  BY DEF Asked
<1>12. Meaning[10] = Asked
  BY <1>8, <1>10, <1>11 DEF Bit
<1> QED
  BY <1>2, <1>p, <1>10, <1>12, BitFacts DEF Answered

(* An index is above the last element, unsigned, exactly if it is out of   *)
(* bounds as a signed number: an array has fewer elements than that.       *)
LEMMA BoundIs ==
  ASSUME NEW w \in Nat \ {0}, NEW x \in Word(Mod(w)), NEW z, NEW m, Elements(z, m) \in 0 .. SMax(Mod(w))
  PROVE  Holds("ugt", w, x, Elements(z, m)) <=> OutOfBounds(w, x, z, m)
<1> DEFINE N == Elements(z, m)
           h == Pow2[w - 1]
           i == Signed(Mod(w), x)
<1>1. h \in Nat /\ h > 0 /\ Mod(w) = 2 * h /\ Half(Mod(w)) = h
  BY HalfIs
<1>2. Holds("ugt", w, x, N) <=> x > N
  BY DEF Holds
<1>3. OutOfBounds(w, x, z, m) <=> (i < 0 \/ i > N)
  BY DEF OutOfBounds, Elements
<1>4. N \in 0 .. h - 1 /\ x \in 0 .. 2 * h - 1
  BY <1>1 DEF SMax, Word
<1>5. i = IF x < h THEN x ELSE x - 2 * h
  BY <1>1 DEF Signed
<1> HIDE DEF N, h, i
<1>6. x > N <=> (i < 0 \/ i > N)
  BY <1>1, <1>4, <1>5
<1> QED
  BY <1>2, <1>3, <1>6 DEF N

LEMMA IndexAnswered ==
  ASSUME prog \in Programs, prog.asks # << >>, prog.asks.kind = "bounds", Len(prog.asks.sizes) = 1
  PROVE  Answered
<1> DEFINE q == prog.asks
           w == q.w
           z == q.sizes
           m == q.intmax
           N == Elements(z[1], m)
           x == prog.fresh[1]
<1>0. DOMAIN z = 1 .. 1 /\ N \in 0 .. SMax(Mod(w)) /\ w \in Nat \ {0}
  <2>1. IsQuestion(q)
    BY PutsFacts
  <2>2. DOMAIN z = 1 .. 1 /\ \A i \in DOMAIN z : Elements(z[i], m) \in 0 .. SMax(Mod(w))
    BY <2>1 DEF IsQuestion
  <2>3. 1 \in DOMAIN z
    BY <2>2
  <2> QED
    BY <2>2, <2>3, PutsFacts
<1>1. CheckOf(q) = insertArrayCheck([i \in DOMAIN z |-> Fresh(w)], w, z, m)
  BY DEF CheckOf
<1>2. /\ q.at = 3 /\ 1 \in Places /\ 2 \in Places /\ 3 \in Places
      /\ Val(1) = Fresh(w) /\ Val(2) = Const(w, N) /\ Val(3) = ICmp("ugt", 1, 2)
  <2> DEFINE c == insertArrayCheck([i \in DOMAIN z |-> Fresh(w)], w, z, m)
  <2>1. Len(c) = 3 /\ c[1] = Fresh(w) /\ c[2] = Const(w, N) /\ c[3] = ICmp("ugt", 1, 2)
    <3>1. DOMAIN z = 1 .. 1 /\ Len(z) = 1
      BY <1>0
    <3> HIDE DEF z, w, m
    <3> QED
      BY <3>1, IndexEntries
  <2>2. CheckOf(q) = c
    BY <1>1
  <2>3. q.at = Len(CheckOf(q)) /\ \A v \in 1 .. q.at : v \in Places /\ Val(v) = CheckOf(q)[v]
    BY PutsFacts
  <2> HIDE DEF c, q, N
  <2>4. q.at = 3 /\ \A v \in 1 .. 3 : v \in Places /\ Val(v) = c[v]
    BY <2>1, <2>2, <2>3
  <2> QED
    BY <2>1, <2>4
<1>3. /\ Val(1).w = w /\ Meaning[1] = x /\ Meaning[1] # Poison /\ x \in Word(Mod(w))
  BY <1>2, FreshMeans
<1>4. Meaning[2] = N /\ Meaning[2] # Poison
  BY <1>2, ConstMeans
<1>5. Meaning[3] = Bit(Holds("ugt", w, x, N))
  BY <1>2, <1>3, <1>4, CompareMeans
<1>6. Holds("ugt", w, x, N) <=> OutOfBounds(w, x, z[1], m)
  BY <1>0, <1>3, BoundIs
<1>7. Asked = Bit(\E i \in DOMAIN z : OutOfBounds(w, prog.fresh[i], z[i], m))
  BY DEF Asked
<1>8. (\E i \in DOMAIN z : OutOfBounds(w, prog.fresh[i], z[i], m)) <=> OutOfBounds(w, x, z[1], m)
  <2>1. \A i : i \in DOMAIN z <=> i = 1
    BY <1>0
  <2> QED
    BY <2>1
<1>9. Meaning[3] = Asked
  BY <1>5, <1>6, <1>7, <1>8 DEF Bit
<1> QED
  BY <1>2, <1>5, <1>9, BitFacts DEF Answered

LEMMA ArrayAnswered ==
  ASSUME prog \in Programs, prog.asks # << >>, prog.asks.kind = "bounds", Len(prog.asks.sizes) = 2
  PROVE  Answered
<1> DEFINE q == prog.asks
           w == q.w
           z == q.sizes
           m == q.intmax
           N == Elements(z[1], m)
           M == Elements(z[2], m)
           x == prog.fresh[1]
           y == prog.fresh[2]
<1>0. DOMAIN z = 1 .. 2 /\ N \in 0 .. SMax(Mod(w)) /\ M \in 0 .. SMax(Mod(w)) /\ w \in Nat \ {0}
  <2>1. IsQuestion(q)
    BY PutsFacts
  <2>2. DOMAIN z = 1 .. 2 /\ \A i \in DOMAIN z : Elements(z[i], m) \in 0 .. SMax(Mod(w))
    BY <2>1 DEF IsQuestion
  <2>3. 1 \in DOMAIN z /\ 2 \in DOMAIN z
    BY <2>2
  <2> QED
    BY <2>2, <2>3, PutsFacts
<1>1. CheckOf(q) = insertArrayCheck([i \in DOMAIN z |-> Fresh(w)], w, z, m)
  BY DEF CheckOf
<1>2. /\ q.at = 7 /\ \A v \in 1 .. 7 : v \in Places
      /\ Val(1) = Fresh(w) /\ Val(2) = Fresh(w)
      /\ Val(3) = Const(w, N) /\ Val(4) = ICmp("ugt", 1, 3)
      /\ Val(5) = Const(w, M) /\ Val(6) = ICmp("ugt", 2, 5) /\ Val(7) = Binary("or", 1, 4, 6)
  <2> DEFINE c == insertArrayCheck([i \in DOMAIN z |-> Fresh(w)], w, z, m)
  <2>1. /\ Len(c) = 7 /\ c[1] = Fresh(w) /\ c[2] = Fresh(w)
        /\ c[3] = Const(w, N) /\ c[4] = ICmp("ugt", 1, 3)
        /\ c[5] = Const(w, M) /\ c[6] = ICmp("ugt", 2, 5) /\ c[7] = Binary("or", 1, 4, 6)
    <3>1. DOMAIN z = 1 .. 2 /\ Len(z) = 2
      BY <1>0
    <3> HIDE DEF z, w, m
    <3> QED
      BY <3>1, ArrayEntries
  <2>2. CheckOf(q) = c
    BY <1>1
  <2>3. q.at = Len(CheckOf(q)) /\ \A v \in 1 .. q.at : v \in Places /\ Val(v) = CheckOf(q)[v]
    BY PutsFacts
  <2> HIDE DEF c, q, N, M
  <2>4. q.at = 7 /\ \A v \in 1 .. 7 : v \in Places /\ Val(v) = c[v]
    BY <2>1, <2>2, <2>3
  <2> QED
    BY <2>1, <2>4
<1>p. /\ 1 \in Places /\ 2 \in Places /\ 3 \in Places /\ 4 \in Places /\ 5 \in Places
      /\ 6 \in Places /\ 7 \in Places
  BY <1>2
<1>3. /\ Val(1).w = w /\ Meaning[1] = x /\ Meaning[1] # Poison /\ x \in Word(Mod(w))
      /\ Val(2).w = w /\ Meaning[2] = y /\ Meaning[2] # Poison /\ y \in Word(Mod(w))
  BY <1>2, <1>p, FreshMeans
<1>4. Meaning[3] = N /\ Meaning[3] # Poison /\ Meaning[5] = M /\ Meaning[5] # Poison
  BY <1>2, <1>p, ConstMeans
<1>5. Meaning[4] = Bit(Holds("ugt", w, x, N)) /\ Meaning[6] = Bit(Holds("ugt", w, y, M))
  BY <1>2, <1>p, <1>3, <1>4, CompareMeans
<1>6. /\ Holds("ugt", w, x, N) <=> OutOfBounds(w, x, z[1], m)
      /\ Holds("ugt", w, y, M) <=> OutOfBounds(w, y, z[2], m)
  BY <1>0, <1>3, BoundIs
<1> DEFINE a == OutOfBounds(w, x, z[1], m)
           b == OutOfBounds(w, y, z[2], m)
<1>a. a \in BOOLEAN /\ b \in BOOLEAN
  BY DEF OutOfBounds
<1>7. Asked = Bit(\E i \in DOMAIN z : OutOfBounds(w, prog.fresh[i], z[i], m))
  BY DEF Asked
<1>8. (\E i \in DOMAIN z : OutOfBounds(w, prog.fresh[i], z[i], m)) <=> a \/ b
  <2>1. \A i : i \in DOMAIN z <=> i = 1 \/ i = 2
    BY <1>0
  <2> QED
    BY <2>1
<1>b. Meaning[4] = Bit(a) /\ Meaning[6] = Bit(b)
  BY <1>5, <1>6 DEF Bit
<1>d. Asked = Bit(a \/ b)
  BY <1>7, <1>8 DEF Bit
<1> HIDE DEF a, b
<1>9. Meaning[7] = Bit(a \/ b)
  BY <1>2, <1>p, <1>a, <1>b, LogicMeans
<1> QED
  BY <1>2, <1>p, <1>9, <1>d, BitFacts DEF Answered

(* A quotient by more than a number's magnitude is 0 or -1.                *)
LEMMA FarQuotient ==
  ASSUME NEW d \in Nat, NEW a \in Int, d > 0, -d <= a, a < d
  PROVE  a \div d = IF a >= 0 THEN 0 ELSE -1
<1> DEFINE k == a \div d
           r == Wrap(d, a)
<1>1. k \in Int /\ r \in 0 .. d - 1 /\ a = d * k + r
  <2>1. k \in Int /\ r \in Word(d) /\ a = d * k + r
    BY Division
  <2> HIDE DEF k, r
  <2> QED
    BY <2>1 DEF Word
<1> HIDE DEF k, r
<1>2. k <= 0
  <2> SUFFICES ASSUME k >= 1 PROVE FALSE
    BY <1>1
  <2>1. d * 1 <= d * k /\ d * 1 = d
    BY <1>1
  <2> QED
    BY <1>1, <2>1
<1>3. k >= -1
  <2> SUFFICES ASSUME k <= -2 PROVE FALSE
    BY <1>1
  <2>1. d * k <= d * (-2) /\ d * (-2) = -(2 * d)
    BY <1>1
  <2> QED
    BY <1>1, <2>1
<1>4. d * 0 = 0 /\ d * (-1) = -d
  OBVIOUS
<1>5. k = 0 \/ k = -1
  BY <1>1, <1>2, <1>3
<1>6. k = IF a >= 0 THEN 0 ELSE -1
  BY <1>1, <1>4, <1>5
<1> QED
  BY <1>6 DEF k

LEMMA FarShift ==
  ASSUME NEW w \in Nat \ {0}, NEW o \in Shifts, NEW x \in Word(Mod(w)), NEW y \in Nat, y >= w
  PROVE  Shift(o, w, x, y) = IF o = "ashr" THEN Shift("ashr", w, x, w - 1) ELSE 0
<1> DEFINE m == Mod(w)
           h == Pow2[w - 1]
           d == Pow2[y]
           i == Signed(m, x)
<1>1. h \in Nat /\ h > 0 /\ m = 2 * h /\ Half(m) = h
  BY HalfIs
<1>2. d \in Nat /\ m <= d /\ \E q \in Nat : d = m * q
  <2>1. /\ Pow2[y] \in Nat /\ Pow2[w] <= Pow2[y] /\ \E q \in Nat : Pow2[y] = Pow2[w] * q
    BY Wider
  <2> QED
    BY <2>1 DEF Mod
<1>3. x \in 0 .. m - 1
  BY DEF Word
<1>4. i = IF x < h THEN x ELSE x - 2 * h
  BY <1>1 DEF Signed
<1>5. /\ o = "shl" => Shift(o, w, x, y) = Wrap(m, x * d)
      /\ o = "lshr" => Shift(o, w, x, y) = x \div d
      /\ o = "ashr" => Shift(o, w, x, y) = Wrap(m, i \div d)
      /\ Shift("ashr", w, x, w - 1) = Wrap(m, i \div h)
  BY DEF Shift
<1>6. o = "shl" \/ o = "lshr" \/ o = "ashr"
  BY DEF Shifts
<1> HIDE DEF m, h, d, i
<1>7. i \in Int /\ -h <= i /\ i < h /\ -d <= i /\ i < d /\ d > 0 /\ m \in Nat /\ m > 0
  BY <1>1, <1>2, <1>3, <1>4
<1>8. CASE o = "shl"
  <2>1. PICK q \in Nat : d = m * q
    BY <1>2
  <2> DEFINE p == x * q
             e == x * d
  <2>2. p \in Int /\ e \in Int /\ e = 0 + m * p
    BY <1>1, <1>2, <1>3, <1>7, <2>1
  <2> HIDE DEF p, e
  <2>3. Cong(m, e, 0)
    BY <2>2 DEF Cong
  <2>4. Wrap(m, e) = Wrap(m, 0)
    BY <1>7, <2>2, <2>3, CongWrap
  <2>5. 0 \in Word(m)
    BY <1>7 DEF Word
  <2>6. Wrap(m, 0) = 0
    BY <1>7, <2>5, WrapInside
  <2> QED
    BY <1>5, <1>8, <2>4, <2>6 DEF e
<1>9. CASE o = "lshr"
  <2>1. x \in Int /\ -d <= x /\ x < d /\ x >= 0
    BY <1>1, <1>2, <1>3
  <2>2. x \div d = 0
    BY <1>2, <1>7, <2>1, FarQuotient
  <2> QED
    BY <1>5, <1>9, <2>2
<1>10. CASE o = "ashr"
  <2>1. i \div d = IF i >= 0 THEN 0 ELSE -1
    BY <1>2, <1>7, FarQuotient
  <2>2. i \div h = IF i >= 0 THEN 0 ELSE -1
    BY <1>1, <1>7, FarQuotient
  <2> QED
    BY <1>5, <1>10, <2>1, <2>2
<1> QED
  BY <1>6, <1>8, <1>9, <1>10

LEMMA IdealAnswered ==
  ASSUME prog \in Programs, prog.asks # << >>, prog.asks.kind = "ideal"
  PROVE  Answered
<1> DEFINE q == prog.asks
           o == q.op
           w == q.w
           x == prog.fresh[1]
           y == prog.fresh[2]
           r == Shift(o, w, x, y)
           far == Shift("ashr", w, x, w - 1)
<1>0. o \in Shifts /\ w \in Nat \ {0}
  BY PutsFacts DEF IsQuestion
<1>1. CheckOf(q) = IdealShift(Fresh2(w), o, w)
  BY DEF CheckOf
<1>2. /\ q.at = 8 /\ \A v \in 1 .. 8 : v \in Places
      /\ Val(1) = Fresh(w) /\ Val(2) = Fresh(w) /\ Val(3) = Binary(o, w, 1, 2)
      /\ Val(4) = Const(w, w) /\ Val(5) = ICmp("uge", 2, 4)
      /\ Val(6) = Const(w, IF o = "ashr" THEN w - 1 ELSE 0)
      /\ Val(7) = IF o = "ashr" THEN Binary("ashr", w, 1, 6) ELSE Const(w, 0)
      /\ Val(8) = Select(w, 5, 7, 3)
  <2> DEFINE c == IdealShift(Fresh2(w), o, w)
             n == IF o = "ashr" THEN w - 1 ELSE 0
             d == IF o = "ashr" THEN Binary("ashr", w, 1, 6) ELSE Const(w, 0)
  <2>1. /\ Len(c) = 8 /\ c[1] = Fresh(w) /\ c[2] = Fresh(w) /\ c[3] = Binary(o, w, 1, 2)
        /\ c[4] = Const(w, w) /\ c[5] = ICmp("uge", 2, 4) /\ c[6] = Const(w, n) /\ c[7] = d
        /\ c[8] = Select(w, 5, 7, 3)
    BY IdealEntries
  <2>2. CheckOf(q) = c
    BY <1>1
  <2>3. q.at = Len(CheckOf(q)) /\ \A v \in 1 .. q.at : v \in Places /\ Val(v) = CheckOf(q)[v]
    BY PutsFacts
  <2> HIDE DEF c, q, n, d
  <2>4. q.at = 8 /\ \A v \in 1 .. 8 : v \in Places /\ Val(v) = c[v]
    BY <2>1, <2>2, <2>3
  <2>5. /\ Val(1) = Fresh(w) /\ Val(2) = Fresh(w) /\ Val(3) = Binary(o, w, 1, 2)
        /\ Val(4) = Const(w, w) /\ Val(5) = ICmp("uge", 2, 4) /\ Val(6) = Const(w, n) /\ Val(7) = d
        /\ Val(8) = Select(w, 5, 7, 3)
    BY <2>1, <2>4
  <2> QED
    BY <2>4, <2>5 DEF n, d
<1>p. /\ 1 \in Places /\ 2 \in Places /\ 3 \in Places /\ 4 \in Places /\ 5 \in Places
      /\ 6 \in Places /\ 7 \in Places /\ 8 \in Places
  BY <1>2
<1>3. /\ Val(1).w = w /\ Meaning[1] = x /\ Meaning[1] # Poison /\ x \in Word(Mod(w))
      /\ Val(2).w = w /\ Meaning[2] = y /\ Meaning[2] # Poison /\ y \in Nat
  BY <1>2, <1>p, FreshMeans
<1>4. Meaning[4] = w /\ Meaning[4] # Poison /\ Meaning[6] = (IF o = "ashr" THEN w - 1 ELSE 0) /\ Meaning[6] # Poison
  BY <1>2, <1>p, ConstMeans
<1>5. Meaning[5] = Bit(Holds("uge", w, y, w))
  BY <1>2, <1>p, <1>3, <1>4, CompareMeans
<1>6. Holds("uge", w, y, w) <=> ~(y < w)
  BY <1>0, <1>3 DEF Holds
<1>7. Meaning[3] = IF HasResult(o, w, x, y) THEN Compute(o, w, x, y) ELSE Poison
  BY <1>2, <1>p, <1>3, ComputeMeans
<1>8. \A z : (HasResult(o, w, x, z) <=> z < w) /\ Compute(o, w, x, z) = Shift(o, w, x, z)
  BY <1>0 DEF HasResult, Compute, Shifts
<1>9. Meaning[7] = IF o = "ashr" THEN far ELSE 0
  <2>1. CASE o = "ashr"
    <3>1. Meaning[6] = w - 1 /\ w - 1 < w
      BY <1>0, <1>4, <2>1
    <3>2. Val(7) = Binary("ashr", w, 1, 6)
      BY <1>2, <2>1
    <3>3. Meaning[7] = IF HasResult("ashr", w, x, w - 1) THEN Compute("ashr", w, x, w - 1) ELSE Poison
      BY <1>p, <1>3, <1>4, <3>1, <3>2, ComputeMeans
    <3> QED
      BY <1>8, <2>1, <3>1, <3>3
  <2>2. CASE o # "ashr"
    BY <1>2, <1>p, <2>2, ConstMeans
  <2> QED
    BY <2>1, <2>2
<1>10. Meaning[8] = IF Meaning[5] = 1 THEN Meaning[7] ELSE IF Meaning[5] = 0 THEN Meaning[3] ELSE Poison
  BY <1>2, <1>p, SelectMeans
<1>11. Asked = r
  BY DEF Asked
<1>12. r # Poison
  <2>1. r \in Word(Mod(w)) /\ Mod(w) \in Nat
    BY <1>0, <1>3, ShiftWord, ModFacts
  <2> HIDE DEF r
  <2> QED
    BY <2>1 DEF Word, Poison
<1>13. ~(y < w) => r = IF o = "ashr" THEN far ELSE 0
  BY <1>0, <1>3, FarShift
<1> HIDE DEF r, far
<1>14. Meaning[8] = r
  <2>1. CASE y < w
    <3>1. Meaning[5] = 0
      BY <1>5, <1>6, <2>1 DEF Bit
    <3> QED
      BY <1>7, <1>8, <1>10, <2>1, <3>1 DEF r
  <2>2. CASE ~(y < w)
    <3>1. Meaning[5] = 1
      BY <1>5, <1>6, <2>2 DEF Bit
    <3> QED
      BY <1>9, <1>10, <1>13, <2>2, <3>1
  <2> QED
    BY <2>1, <2>2
<1> QED
  BY <1>2, <1>p, <1>11, <1>12, <1>14 DEF Answered

LEMMA AllAnswered ==
  ASSUME prog \in Programs, prog.asks # << >>
  PROVE  Answered
<1> DEFINE q == prog.asks
<1>1. IsQuestion(q)
  BY PutsFacts
<1>2. /\ q.kind \in {"undefined", "bounds", "negative", "ideal"}
      /\ q.kind = "undefined" => q.op = "udiv" \/ q.op = "sdiv" \/ q.op \in Shifts
      /\ q.kind = "bounds" => Len(q.sizes) = 1 \/ Len(q.sizes) = 2
  BY <1>1 DEF IsQuestion
<1>3. CASE q.kind = "undefined"
  BY <1>2, <1>3, UDivAnswered, SDivAnswered, ShiftAnswered
<1>4. CASE q.kind = "bounds"
  BY <1>2, <1>4, IndexAnswered, ArrayAnswered
<1>5. CASE q.kind = "negative"
  BY <1>5, SizeAnswered
<1>6. CASE q.kind = "ideal"
  BY <1>6, IdealAnswered
<1> QED
  BY <1>2, <1>3, <1>4, <1>5, <1>6

(* The solver is asked what the passes mean to ask, whatever solver it is: *)
(* the term of a check is 1 exactly where the division or the shift has no *)
(* result, the index is out of its array's bounds or the size is negative, *)
(* and the term of an ideal shift is the shift of integers                 *)
(* (src/IntRewrite.cc, src/IntLibcalls.cc, src/IdealShift.cc).             *)
THEOREM ChecksAskExactly == GenSpec => []AsksExactly
<1>1. GenInit => ValuesInv
  BY DEF GenInit, ValuesInv
<1>2. GenInv /\ ValuesInv => AsksExactly
  <2> SUFFICES ASSUME GenInv, ValuesInv, phase = "ask", prog.asks # << >>, ~(\E v \in Places : LosesSign(v))
               PROVE  terms[cache[prog.asks.at]].x = Asked
    BY DEF AsksExactly
  <2>1. prog \in Programs
    BY DEF GenInv
  <2>2. prog.asks.at \in Places /\ Meaning[prog.asks.at] = Asked /\ Meaning[prog.asks.at] # Poison
    BY <2>1, AllAnswered DEF Answered
  <2>3. prog.asks.at \in DOMAIN cache
    BY <2>2 DEF GenInv
  <2>4. Exactly(terms, cache, prog.asks.at)
    BY <2>3 DEF ValuesInv, NoSignLost
  <2> QED
    BY <2>2, <2>4 DEF Exactly
<1>3. GenInit => RangesInv
  BY DEF GenInit, RangesInv
<1> QED
  BY <1>1, <1>2, <1>3, GenInvariant, RangesSteps, ValuesSteps, PTL DEF GenSpec

=============================================================================
