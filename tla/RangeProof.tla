----------------------------- MODULE RangeProof -----------------------------
(***************************************************************************)
(* Theorems about the range pass, for every width of the integers, every   *)
(* module list, set of names and program.                                  *)
(***************************************************************************)
EXTENDS Collected, FiniteSetTheorems, WellFoundedInduction, TLAPS

(* A set of natural numbers has a least one.                               *)
LEMMA LeastNumber ==
  ASSUME NEW T \in SUBSET Nat, T # {}
  PROVE  \E m \in T : \A k \in T : m <= k
<1> DEFINE R == OpToRel(<, Nat)
<1>1. IsWellFoundedOn(R, Nat)
  BY NatLessThanWellFounded
<1>2. \A i, k \in Nat : <<k, i>> \in R <=> k < i
  BY DEF OpToRel
<1> HIDE DEF R
<1>3. PICK m \in T : \A k \in T : <<k, m>> \notin R
  BY <1>1, WFMin
<1>4. ASSUME NEW k \in T PROVE m <= k
  <2>1. m \in Nat /\ k \in Nat /\ ~ (k < m)
    BY <1>2, <1>3
  <2> QED
    BY <2>1
<1> QED
  BY <1>4

(* Induction on the natural numbers, for a set.                            *)
LEMMA Counting ==
  ASSUME NEW T \in SUBSET Nat, 0 \in T, \A m \in T : m + 1 \in T
  PROVE  T = Nat
<1> SUFFICES ASSUME Nat \ T # {} PROVE FALSE
  OBVIOUS
<1>1. PICK m \in Nat \ T : \A k \in Nat \ T : m <= k
  BY LeastNumber
<1>2. m - 1 \in Nat /\ m - 1 \notin Nat \ T
  BY <1>1
<1> QED
  BY <1>2

-----------------------------------------------------------------------------
(* Ranges: the empty one, the full one and those of one word are ranges,   *)
(* and what a range leaves out is one.                                     *)
LEMMA ArcsOfWords ==
  ASSUME NEW lo \in Word, NEW size \in 1 .. Modulus
  PROVE  Arc(lo, size) \in Ranges /\ Arc(lo, size) \in SUBSET Word
BY DEF Ranges, Arc

LEMMA SomeRanges ==
  /\ EmptySet \in Ranges /\ FullSet \in Ranges
  /\ Ranges \subseteq SUBSET Word
  /\ \A x \in Word : {x} \in Ranges
<1>1. EmptySet \in Ranges
  BY DEF Ranges
<1>2. FullSet \in Ranges
  <2>1. Arc(0, Modulus) = Word
    BY ModulusAssumption DEF Arc, Word
  <2>2. 0 \in Word /\ Modulus \in 1 .. Modulus
    BY ModulusAssumption DEF Word
  <2> QED
    BY <2>1, <2>2, ArcsOfWords DEF FullSet
<1>3. Ranges \subseteq SUBSET Word
  BY DEF Ranges, EmptySet, Arc
<1>4. ASSUME NEW x \in Word PROVE {x} \in Ranges
  <2>1. Arc(x, 1) = {x}
    BY ModulusAssumption DEF Arc, Word
  <2>2. 1 \in 1 .. Modulus
    BY ModulusAssumption
  <2> QED
    BY <2>1, <2>2, ArcsOfWords
<1> QED
  BY <1>1, <1>2, <1>3, <1>4

LEMMA InverseType ==
  ASSUME NEW R \in Ranges
  PROVE  inverse(R) \in Ranges
<1>1. CASE R = EmptySet
  BY <1>1, SomeRanges DEF inverse, EmptySet, FullSet
<1>2. ASSUME NEW lo \in Word, NEW size \in 1 .. Modulus, R = Arc(lo, size)
      PROVE  inverse(R) \in Ranges
  <2>1. CASE size = Modulus
    <3>1. inverse(R) = EmptySet
      BY <1>2, <2>1, ModulusAssumption DEF inverse, Arc, Word, EmptySet
    <3> QED
      BY <3>1, SomeRanges
  <2>2. CASE size < Modulus
    <3> DEFINE up == IF lo + size < Modulus THEN lo + size ELSE lo + size - Modulus
    <3>1. up \in Word /\ Modulus - size \in 1 .. Modulus
      BY <2>2, ModulusAssumption DEF Word
    <3>2. inverse(R) = Arc(up, Modulus - size)
      BY <1>2, <2>2, ModulusAssumption DEF inverse, Arc, Word
    <3> HIDE DEF up
    <3> QED
      BY <3>1, <3>2, ArcsOfWords
  <2> QED
    BY <2>1, <2>2, ModulusAssumption
<1> QED
  BY <1>1, <1>2 DEF Ranges

(* The smallest range that holds a set of words.                           *)
LEMMA HullType ==
  ASSUME NEW S \in SUBSET Word
  PROVE  Hull(S) \in Ranges /\ S \subseteq Hull(S)
<1>1. Word \in Holders(S) /\ Holders(S) \subseteq Ranges
  BY SomeRanges DEF Holders, FullSet
<1>2. \A R \in Holders(S) : Cardinality(R) \in Nat
  <2>1. IsFiniteSet(Word)
    BY FS_Interval, ModulusAssumption DEF Word
  <2>2. \A R \in Holders(S) : IsFiniteSet(R)
    BY <1>1, <2>1, SomeRanges, FS_Subset
  <2> QED
    BY <2>2, FS_CardinalityType
<1>3. \E R \in Holders(S) : \A Q \in Holders(S) : Cardinality(R) <= Cardinality(Q)
  <2> DEFINE T == { Cardinality(R) : R \in Holders(S) }
  <2>1. T \in SUBSET Nat /\ T # {}
    BY <1>1, <1>2
  <2> HIDE DEF T
  <2>2. PICK m \in T : \A k \in T : m <= k
    BY <2>1, LeastNumber
  <2> QED
    BY <2>2 DEF T
<1>4. Hull(S) \in Holders(S)
  BY <1>3 DEF Hull, HullTable
<1> QED
  BY <1>1, <1>4 DEF Holders

LEMMA UnionType ==
  ASSUME NEW R \in Ranges, NEW Q \in Ranges
  PROVE  /\ safeUnion(R, Q) \in Ranges
         /\ R \subseteq safeUnion(R, Q)
         /\ Q \subseteq safeUnion(R, Q)
<1>1. R \cup Q \in SUBSET Word
  BY SomeRanges
<1> QED
  BY <1>1, HullType, SomeRanges DEF safeUnion, EmptySet, FullSet

LEMMA CutType ==
  ASSUME NEW R \in Ranges, NEW Q \in Ranges
  PROVE  intersectWith(R, Q) \in Ranges
BY DEF intersectWith

LEMMA RegionType ==
  ASSUME NEW pred, NEW R
  PROVE  makeICmpRegion(pred, R) \in Ranges
<1>1. { x \in Word : \E y \in R : Compare(pred, x, y) } \in SUBSET Word
  OBVIOUS
<1> QED
  BY <1>1, HullType DEF makeICmpRegion

(* UnionOver joins the ranges of a finite family, one element after the    *)
(* other: g[S] is the union over S.                                        *)
Join(first, family, g, S) ==
  IF S = {} THEN first
  ELSE LET x == CHOOSE x \in S : TRUE IN safeUnion(g[S \ {x}], family[x])

Joins(first, family, g) == g = [S \in SUBSET DOMAIN family |-> Join(first, family, g, S)]

(* The range of a union holds what is joined.                              *)
HoldsAll(first, family, S, R) == R \in Ranges /\ first \subseteq R /\ \A x \in S : family[x] \subseteq R

LEMMA JoinHolds ==
  ASSUME NEW first \in Ranges, NEW family, \A x \in DOMAIN family : family[x] \in Ranges,
         NEW g, NEW S \in SUBSET DOMAIN family,
         \A x \in S : HoldsAll(first, family, S \ {x}, g[S \ {x}])
  PROVE  HoldsAll(first, family, S, Join(first, family, g, S))
<1>1. CASE S = {}
  BY <1>1 DEF Join, HoldsAll
<1>2. CASE S # {}
  <2> DEFINE x == CHOOSE x \in S : TRUE
  <2>1. x \in S
    BY <1>2
  <2>2. Join(first, family, g, S) = safeUnion(g[S \ {x}], family[x])
    BY <1>2 DEF Join
  <2> HIDE DEF x
  <2>3. g[S \ {x}] \in Ranges /\ family[x] \in Ranges
    BY <2>1 DEF HoldsAll
  <2> DEFINE R == safeUnion(g[S \ {x}], family[x])
  <2>4. R \in Ranges /\ g[S \ {x}] \subseteq R /\ family[x] \subseteq R
    BY <2>3, UnionType
  <2> HIDE DEF R
  <2>5. HoldsAll(first, family, S, R)
    BY <2>1, <2>4 DEF HoldsAll
  <2> QED
    BY <2>2, <2>5 DEF R
<1> QED
  BY <1>1, <1>2

LEMMA SmallerSets ==
  ASSUME NEW D, IsFiniteSet(D), NEW S \in SUBSET D
  PROVE  /\ Cardinality(S) \in Nat /\ Cardinality(S) <= Cardinality(D)
         /\ Cardinality(S) = 0 <=> S = {}
         /\ \A x \in S : Cardinality(S \ {x}) = Cardinality(S) - 1
<1>1. IsFiniteSet(S) /\ Cardinality(S) <= Cardinality(D)
  BY FS_Subset
<1> QED
  BY <1>1, FS_CardinalityType, FS_EmptySet, FS_RemoveElement

LEMMA JoinsExists ==
  ASSUME NEW first, NEW family, IsFiniteSet(DOMAIN family)
  PROVE  \E g : Joins(first, family, g)
<1> DEFINE D == DOMAIN family
           Upto(g, m) == \A S \in SUBSET D : Cardinality(S) <= m => g[S] = Join(first, family, g, S)
           T == { m \in Nat : \E g : g = [S \in SUBSET D |-> g[S]] /\ Upto(g, m) }
<1>1. 0 \in T
  <2> DEFINE g == [S \in SUBSET D |-> first]
  <2>1. \A S \in SUBSET D : Cardinality(S) <= 0 => S = {}
    BY SmallerSets
  <2>2. Upto(g, 0)
    BY <2>1 DEF Join
  <2> QED
    BY <2>2
<1>2. ASSUME NEW m \in T PROVE m + 1 \in T
  <2>1. PICK g : g = [S \in SUBSET D |-> g[S]] /\ Upto(g, m)
    OBVIOUS
  <2> DEFINE h == [S \in SUBSET D |->
                     IF Cardinality(S) <= m THEN g[S] ELSE Join(first, family, g, S)]
  <2>2. ASSUME NEW S \in SUBSET D, Cardinality(S) <= m + 1
        PROVE  h[S] = Join(first, family, h, S)
    <3>1. h[S] = Join(first, family, g, S)
      BY <2>1, <2>2
    <3>2. CASE S = {}
      BY <3>1, <3>2 DEF Join
    <3>3. CASE S # {}
      <4> DEFINE x == CHOOSE x \in S : TRUE
      <4>1. x \in S
        BY <3>3
      <4>2. Join(first, family, g, S) = safeUnion(g[S \ {x}], family[x])
        BY <3>3 DEF Join
      <4>3. Join(first, family, h, S) = safeUnion(h[S \ {x}], family[x])
        BY <3>3 DEF Join
      <4> HIDE DEF x
      <4>4. S \ {x} \in SUBSET D /\ Cardinality(S \ {x}) <= m
        BY <2>2, <4>1, SmallerSets
      <4>5. h[S \ {x}] = g[S \ {x}]
        BY <4>4
      <4> QED
        BY <3>1, <4>2, <4>3, <4>5
    <3> QED
      BY <3>2, <3>3
  <2>3. h = [S \in SUBSET D |-> h[S]]
    OBVIOUS
  <2>4. Upto(h, m + 1)
    BY <2>2
  <2>5. \E k : k = [S \in SUBSET D |-> k[S]] /\ Upto(k, m + 1)
    <3> HIDE DEF h, Upto
    <3> QED
      BY <2>3, <2>4, Zenon
  <2>6. m + 1 \in Nat
    OBVIOUS
  <2> QED
    BY <2>5, <2>6, Zenon
<1>3. Cardinality(D) \in T
  <2>1. T \in SUBSET Nat
    OBVIOUS
  <2> HIDE DEF T
  <2> QED
    BY <1>1, <1>2, <2>1, Counting, FS_CardinalityType
<1>4. PICK g : g = [S \in SUBSET D |-> g[S]] /\ Upto(g, Cardinality(D))
  BY <1>3
<1>5. \A S \in SUBSET D : g[S] = Join(first, family, g, S)
  BY <1>4, SmallerSets
<1>6. g = [S \in SUBSET D |-> Join(first, family, g, S)]
  BY <1>4, <1>5
<1> QED
  BY <1>6 DEF Joins

LEMMA UnionOverHolds ==
  ASSUME NEW first \in Ranges, NEW family, IsFiniteSet(DOMAIN family),
         \A x \in DOMAIN family : family[x] \in Ranges
  PROVE  HoldsAll(first, family, DOMAIN family, UnionOver(first, family))
<1> DEFINE D == DOMAIN family
           g == CHOOSE g : Joins(first, family, g)
<1>1. UnionOver(first, family) = g[D]
  BY DEF UnionOver, Joins, Join
<1>2. Joins(first, family, g)
  BY JoinsExists
<1> HIDE DEF g
<1>3. \A S \in SUBSET D : g[S] = Join(first, family, g, S)
  BY <1>2 DEF Joins
<1> DEFINE T == { m \in Nat : \A S \in SUBSET D : Cardinality(S) <= m => HoldsAll(first, family, S, g[S]) }
<1>4. 0 \in T
  <2>1. \A S \in SUBSET D : Cardinality(S) <= 0 => S = {}
    BY SmallerSets
  <2> QED
    BY <1>3, <2>1 DEF Join, HoldsAll
<1>5. ASSUME NEW m \in T PROVE m + 1 \in T
  <2>1. ASSUME NEW S \in SUBSET D, Cardinality(S) <= m + 1
        PROVE  HoldsAll(first, family, S, g[S])
    <3>1. \A x \in S : S \ {x} \in SUBSET D /\ Cardinality(S \ {x}) <= m
      BY <2>1, SmallerSets
    <3>2. \A x \in S : HoldsAll(first, family, S \ {x}, g[S \ {x}])
      BY <3>1
    <3>3. HoldsAll(first, family, S, Join(first, family, g, S))
      BY <3>2, JoinHolds
    <3> QED
      BY <1>3, <3>3
  <2> QED
    BY <2>1
<1>6. Cardinality(D) \in T
  <2>1. T \in SUBSET Nat
    OBVIOUS
  <2> HIDE DEF T
  <2> QED
    BY <1>4, <1>5, <2>1, Counting, FS_CardinalityType
<1> QED
  BY <1>1, <1>6, SmallerSets

LEMMA UnionOverType ==
  ASSUME NEW first \in Ranges, NEW family, IsFiniteSet(DOMAIN family),
         \A x \in DOMAIN family : family[x] \in Ranges
  PROVE  UnionOver(first, family) \in Ranges
BY UnionOverHolds DEF HoldsAll

(* The results of an operation are words.                                  *)
LEMMA WordsByModulus ==
  ASSUME NEW i \in Int
  PROVE  i % Modulus \in Word
BY ModulusAssumption DEF Word

LEMMA Quotients ==
  ASSUME NEW x \in Word, NEW y \in Word, y # 0
  PROVE  x \div y \in Word /\ x % y \in Word
<1> DEFINE q == x \div y
           r == x % y
<1>1. x \in Nat /\ y \in Nat /\ y > 0
  BY ModulusAssumption DEF Word
<1>2. q \in Int /\ r \in 0 .. y - 1 /\ x = y * q + r
  BY <1>1
<1> HIDE DEF q, r
<1>3. r \in Word
  BY <1>2, ModulusAssumption DEF Word
<1>4. q >= 0
  BY <1>1, <1>2
<1>5. y * q >= q
  BY <1>1, <1>2, <1>4
<1>6. q \in Word
  <2>1. y * q \in Int
    BY <1>1, <1>2
  <2> HIDE DEF Word
  <2> QED
    BY <1>2, <1>4, <1>5, <2>1, ModulusAssumption DEF Word
<1> QED
  BY <1>3, <1>6 DEF q, r

LEMMA ImageType ==
  ASSUME NEW op \in Operations, NEW R \in Ranges, NEW Q \in Ranges
  PROVE  Image(op, R, Q) \in SUBSET Word
<1>1. ASSUME NEW x \in R, NEW y \in Q PROVE Results(op, x, y) \in SUBSET Word
  <2>1. x \in Word /\ y \in Word /\ x \in Int /\ y \in Int
    BY SomeRanges, ModulusAssumption DEF Word
  <2>2. x + y \in Int /\ x - y \in Int /\ x * y \in Int
    BY <2>1
  <2>3. (x + y) % Modulus \in Word /\ (x - y) % Modulus \in Word /\ (x * y) % Modulus \in Word
    BY <2>2, WordsByModulus
  <2>4. y # 0 => x \div y \in Word /\ x % y \in Word
    BY <2>1, Quotients
  <2> QED
    BY <2>3, <2>4, Zenon DEF Results, Operations
<1> QED
  BY <1>1 DEF Image

-----------------------------------------------------------------------------
USE NumModulesAssumption, RangeAssumption DEF IsList

(* The names with nothing left to grow.                                    *)
Fulls == { id \in Ids : ranges[id] = FullSet }

(* The place of the pass is one of its program.                            *)
PlaceInv ==
  /\ prog \in Programs
  /\ mod \in Modules
  /\ fn \in 1 .. Len(Functions) + 1
  /\ phase # "sweep" => fn = 1
  /\ blk \in Nat \ {0}
  /\ fn <= Len(Functions) => blk \in 1 .. Len(F.blocks)
  /\ fn > Len(Functions) \/ phase # "sweep" => blk = 1
  /\ pos \in Nat \ {0}
  /\ callee \in Seq(Ids)
  /\ arg # 0 => arg \in 1 .. Len(callee)

(* Each sweep after MaxIterations of them began with one more full range   *)
(* than the sweep before; a name that grew in this sweep was not one of    *)
(* those, since full ranges do not grow.                                   *)
SweepsInv ==
  /\ DOMAIN ranges = Ids
  /\ changes \subseteq Ids
  /\ changed => changes # {}
  /\ itr \in Nat \ {0}
  /\ phase = "init" => itr = 1
  /\ itr > MaxIterations => itr - MaxIterations <= Cardinality(Fulls \ changes)

-----------------------------------------------------------------------------
LEMMA FullStaysFull == \A R : safeUnion(FullSet, R) = FullSet
  BY DEF safeUnion

LEMMA FinitelyMany ==
  ASSUME NEW S \in SUBSET Ids, NEW T \in SUBSET S
  PROVE  /\ IsFiniteSet(S) /\ IsFiniteSet(T)
         /\ Cardinality(S) \in Nat /\ Cardinality(T) \in Nat
         /\ Cardinality(T) <= Cardinality(S)
         /\ Cardinality(S) <= Cardinality(Ids)
         /\ Cardinality(Ids) \in Nat
         /\ T # S => Cardinality(T) < Cardinality(S)
<1>1. IsFiniteSet(Ids) /\ IsFiniteSet(S) /\ IsFiniteSet(T)
  BY FS_Subset
<1> QED
  BY <1>1, FS_Subset, FS_CardinalityType

(* The instruction at pos is one of the program.                           *)
LEMMA InstrType ==
  ASSUME PlaceInv, NEW ops, At(ops)
  PROVE  IsInstr(Instr)
<1>1. fn \in 1 .. Len(Functions) /\ blk \in 1 .. Len(F.blocks)
  BY ProgramAssumption DEF PlaceInv, At, InBlock, Functions
<1>2. IsFunction(F)
  BY <1>1, ProgramAssumption DEF PlaceInv, Functions, F
<1>3. IsBlock(F, blk)
  BY <1>1, <1>2 DEF IsFunction
<1>4. pos \in 1 .. Len(Code)
  BY <1>3 DEF PlaceInv, At, Code, IsBlock
<1> QED
  BY <1>3, <1>4 DEF IsBlock, Instr, Code

(* A name that grows joins the change set and was not full; all others     *)
(* keep their ranges.                                                      *)
LEMMA UnionKeepsSweeps ==
  ASSUME SweepsInv, NEW id \in Ids, NEW R, UnionName(id, R), itr' = itr
  PROVE  SweepsInv'
<1>1. DOMAIN ranges' = Ids /\ changes' \subseteq Ids
  BY DEF SweepsInv, UnionName
<1>2. changed' => changes' # {}
  BY DEF SweepsInv, UnionName
<1>3. Fulls \ changes = (Fulls \ changes)'
  BY FullStaysFull DEF SweepsInv, UnionName, Fulls
<1> QED
  BY <1>1, <1>2, <1>3 DEF SweepsInv, UnionName

LEMMA NoUnionKeepsSweeps ==
  ASSUME SweepsInv, NoUnion, itr' = itr
  PROVE  SweepsInv'
BY DEF SweepsInv, NoUnion, Fulls, driverVars

LEMMA InitSweeps == Init => PlaceInv /\ SweepsInv
<1> SUFFICES ASSUME Init PROVE PlaceInv /\ SweepsInv
  OBVIOUS
<1>1. mod \in Modules /\ Len(Functions) \in Nat
  BY ProgramAssumption DEF Init, DriverInit, Modules, Functions
<1>2. Len(Functions) >= 1 => IsFunction(F)
  BY <1>1, ProgramAssumption DEF Init, Functions, F
<1>3. PlaceInv
  BY <1>1, <1>2 DEF Init, DriverInit, PlaceInv, IsFunction
<1>4. SweepsInv
  BY DEF Init, DriverInit, SweepsInv
<1> QED
  BY <1>3, <1>4

(* Modules start at the first block of their first function.               *)
LEMMA StartOfModule ==
  ASSUME PlaceInv, mod' \in Modules, fn' = 1, blk' = 1,
         UNCHANGED <<prog, pos, callee, arg>>
  PROVE  PlaceInv'
<1>1. prog' \in Programs /\ Len(Functions') \in Nat
  BY ProgramAssumption DEF PlaceInv, Functions
<1>2. 1 <= Len(Functions') => IsFunction(F')
  BY <1>1, ProgramAssumption DEF Functions, F
<1> QED
  BY <1>1, <1>2 DEF PlaceInv, IsFunction

LEMMA PlaceStep ==
  ASSUME PlaceInv, [Next]_vars
  PROVE  PlaceInv'
<1> USE DEF PlaceInv
<1>0. Len(Functions) \in Nat
  BY ProgramAssumption DEF Functions
<1>1. CASE Initialize
  <2>1. fn = 1 /\ blk = 1 /\ UNCHANGED <<prog, pos, callee, arg, fn, blk>>
    BY <1>1, <1>0 DEF Initialize, placeVars, callVars
  <2>2. mod' \in Modules
    BY <1>1 DEF Initialize, InitializedModule, EnterModule, Modules
  <2> QED
    BY <2>1, <2>2, StartOfModule
<1>2. CASE MergePred
  BY <1>2 DEF MergePred, NoUnion, driverVars, callVars, Functions, F
<1>3. CASE NextBlock
  <2>1. IsFunction(F)
    BY <1>3, <1>0, ProgramAssumption DEF NextBlock, InBlock, Functions, F
  <2>2. CASE blk < Len(F.blocks)
    BY <1>3, <2>1, <2>2 DEF NextBlock, InBlock, NoUnion, driverVars, callVars, Functions, F, IsFunction
  <2>3. CASE ~(blk < Len(F.blocks))
    <3>1. fn + 1 <= Len(Functions) => IsFunction(Functions[fn + 1])
      BY <1>0, ProgramAssumption DEF Functions
    <3>2. /\ fn \in 1 .. Len(Functions) /\ fn' = fn + 1 /\ blk' = 1
          /\ pos' = 1 /\ phase = "sweep" /\ UNCHANGED <<prog, mod, phase, callee, arg>>
      BY <1>3, <2>3 DEF NextBlock, InBlock, NoUnion, driverVars, callVars
    <3>3. Functions' = Functions /\ F' = Functions[fn + 1]
      BY <3>2 DEF Functions, F
    <3>4. fn' <= Len(Functions') => blk' \in 1 .. Len(F'.blocks)
      BY <3>1, <3>2, <3>3 DEF IsFunction
    <3> QED
      BY <1>0, <3>2, <3>3, <3>4
  <2> QED
    BY <2>2, <2>3
<1>4. CASE Record
  BY <1>4 DEF Record, At, InBlock, UnionName, NextInstr, callVars, Functions, F
<1>5. CASE Compute
  BY <1>5 DEF Compute, At, InBlock, NoUnion, NextInstr, driverVars, callVars, Functions, F
<1>6. CASE TakeCallee
  <2>1. IsInstr(Instr)
    BY <1>6, InstrType DEF TakeCallee
  <2>2. callee' \in Seq(Ids) /\ arg' \in 1 .. Len(callee')
    <3>1. PICK names \in Instr.passes : callee' = names
      BY <1>6 DEF TakeCallee
    <3>2. names \in Seq(Ids) /\ Len(names) > 0
      BY <1>6, <2>1 DEF TakeCallee, At, IsInstr
    <3> QED
      BY <1>6, <3>1, <3>2 DEF TakeCallee
  <2> QED
    BY <1>6, <2>2 DEF TakeCallee, At, InBlock, NoUnion, driverVars, Functions, F
<1>7. CASE PassArg
  <2>1. UNCHANGED <<phase, mod, prog, fn, blk, pos>>
    BY <1>7 DEF PassArg, UnionName
  <2>2. CASE arg < Len(callee)
    BY <1>7, <2>1, <2>2 DEF PassArg, Functions, F
  <2>3. CASE ~(arg < Len(callee))
    <3>1. arg' = 0 /\ callee' = << >>
      BY <1>7, <2>3 DEF PassArg
    <3> QED
      BY <2>1, <3>1 DEF Functions, F
  <2> QED
    BY <2>2, <2>3
<1>8. CASE TakeResult
  BY <1>8 DEF TakeResult, At, InBlock, NoUnion, UnionName, NextInstr, driverVars, Functions, F
<1>9. CASE EndSweep
  BY <1>9, StartOfModule DEF EndSweep, AtSweepEnd, SweepAgain, callVars
<1>10. CASE EndModule
  <2>1. mod' \in Modules
    BY <1>10 DEF EndModule, ReturnFromModule, EnterModule, Modules
  <2> QED
    BY <1>10, <2>1, StartOfModule DEF EndModule, AtSweepEnd, callVars
<1>11. CASE Finalize
  <2>1. mod' \in Modules
    BY <1>11 DEF Finalize, FinalizedModule, EnterModule, Modules
  <2> QED
    BY <1>11, <2>1, StartOfModule DEF Finalize, placeVars, callVars
<1>12. CASE UNCHANGED vars
  BY <1>12 DEF vars, driverVars, placeVars, callVars, Functions, F
<1> QED
  BY <1>1, <1>2, <1>3, <1>4, <1>5, <1>6, <1>7, <1>8, <1>9, <1>10, <1>11, <1>12 DEF Next, Ended

LEMMA SweepsStep ==
  ASSUME PlaceInv, SweepsInv, [Next]_vars
  PROVE  SweepsInv'
<1> USE DEF SweepsInv
<1>1. CASE Initialize
  <2>1. DOMAIN ranges' = Ids /\ itr' = 1 /\ changes' = changes /\ changed' = FALSE
    BY <1>1 DEF Initialize, InitializedModule, EnterModule
  <2> QED
    BY <2>1
<1>2. CASE MergePred
  BY <1>2, NoUnionKeepsSweeps DEF MergePred
<1>3. CASE NextBlock
  BY <1>3, NoUnionKeepsSweeps DEF NextBlock
<1>4. CASE Record
  <2>1. Instr.id \in Ids
    BY <1>4, InstrType DEF Record, At, IsInstr
  <2> QED
    BY <1>4, <2>1, UnionKeepsSweeps DEF Record, NextInstr
<1>5. CASE Compute
  BY <1>5, NoUnionKeepsSweeps DEF Compute, NextInstr
<1>6. CASE TakeCallee
  BY <1>6, NoUnionKeepsSweeps DEF TakeCallee
<1>7. CASE PassArg
  <2>1. callee[arg] \in Ids
    BY <1>7 DEF PassArg, PlaceInv
  <2> QED
    BY <1>7, <2>1, UnionKeepsSweeps DEF PassArg
<1>8. CASE TakeResult
  <2>1. itr' = itr
    BY <1>8 DEF TakeResult, NextInstr
  <2>2. CASE NoUnion
    BY <2>1, <2>2, NoUnionKeepsSweeps
  <2>3. CASE ~NoUnion
    <3>1. UnionName(Instr.ret, GetRange(blk, Instr.val)) /\ Instr.ret # NoId
      BY <1>8, <2>3 DEF TakeResult
    <3>2. Instr.ret \in Ids
      BY <1>8, <3>1, InstrType DEF TakeResult, At, IsInstr
    <3> QED
      BY <2>1, <3>1, <3>2, UnionKeepsSweeps
  <2> QED
    BY <2>2, <2>3
<1>9. CASE EndSweep
  <2>1. changes # {} /\ changes' = {} /\ changed' = FALSE /\ itr' = itr + 1
    BY <1>9 DEF EndSweep, SweepAgain
  <2>2. DOMAIN ranges' = Ids
    BY <1>9 DEF EndSweep, Widen
  <2>3. ASSUME itr' > MaxIterations
        PROVE  itr' - MaxIterations <= Cardinality(Fulls')
    <3>1. Fulls \cup changes \subseteq Fulls'
      BY <1>9, <2>1, <2>3 DEF EndSweep, Widen, Fulls
    <3>2. Fulls \ changes \subseteq Fulls' /\ Fulls \ changes # Fulls' /\ Fulls' \subseteq Ids
      BY <2>1, <3>1 DEF Fulls
    <3>3. /\ Cardinality(Fulls \ changes) < Cardinality(Fulls')
          /\ Cardinality(Fulls \ changes) \in Nat
          /\ Cardinality(Fulls') \in Nat
      BY <3>2, FinitelyMany
    <3> QED
      BY <2>1, <2>3, <3>3
  <2>4. Fulls' \ changes' = Fulls'
    BY <2>1
  <2>5. phase' # "init"
    BY <1>9 DEF EndSweep, AtSweepEnd, SweepAgain
  <2> QED
    BY <2>1, <2>2, <2>3, <2>4, <2>5
<1>10. CASE EndModule
  <2>1. UNCHANGED <<ranges, changes>> /\ changed' = FALSE /\ itr' = 1
    BY <1>10 DEF EndModule, ReturnFromModule, EnterModule
  <2> QED
    BY <2>1
<1>11. CASE Finalize
  <2>1. UNCHANGED <<ranges, changes, itr>> /\ changed' = FALSE /\ phase' # "init"
    BY <1>11 DEF Finalize, FinalizedModule, EnterModule
  <2> QED
    BY <2>1 DEF Fulls
<1>12. CASE UNCHANGED vars
  BY <1>12 DEF vars, driverVars, Fulls
<1> QED
  BY <1>1, <1>2, <1>3, <1>4, <1>5, <1>6, <1>7, <1>8, <1>9, <1>10, <1>11, <1>12 DEF Next, Ended

-----------------------------------------------------------------------------
(* The sweeps over a module are bounded by the number of names, and not by *)
(* the width of the integers or the program (doModulePass,                 *)
(* src/Range.cc:505).                                                      *)
THEOREM FewSweeps == Spec => []SweepsBounded
<1>1. Init => PlaceInv /\ SweepsInv
  BY InitSweeps
<1>2. PlaceInv /\ SweepsInv /\ [Next]_vars => (PlaceInv /\ SweepsInv)'
  BY PlaceStep, SweepsStep
<1>3. PlaceInv /\ SweepsInv => SweepsBounded
  <2> SUFFICES ASSUME SweepsInv PROVE itr <= MaxIterations + Cardinality(Ids)
    BY DEF SweepsBounded
  <2>1. /\ Cardinality(Fulls \ changes) \in Nat
        /\ Cardinality(Fulls \ changes) <= Cardinality(Ids)
        /\ Cardinality(Ids) \in Nat
    BY FinitelyMany DEF Fulls
  <2>2. CASE itr > MaxIterations
    BY <2>1, <2>2 DEF SweepsInv
  <2>3. CASE ~(itr > MaxIterations)
    BY <2>1, <2>3 DEF SweepsInv
  <2> QED
    BY <2>2, <2>3
<1> QED
  BY <1>1, <1>2, <1>3, PTL DEF Spec

-----------------------------------------------------------------------------
(* The driver's steps keep its types.                                      *)
LEMMA DriverTypes ==
  ASSUME DriverTypeOK,
         \/ phase = "init" /\ InitializedModule
         \/ phase = "sweep" /\ SweepAgain
         \/ phase = "sweep" /\ ReturnFromModule
         \/ phase = "final" /\ FinalizedModule
         \/ changed' \in BOOLEAN /\ UNCHANGED <<phase, mod, updated, ret>>
  PROVE  DriverTypeOK'
<1> USE DEF DriverTypeOK, Modules, Phases
<1>1. changed' \in BOOLEAN /\ ret' \in BOOLEAN
  BY Zenon DEF InitializedModule, SweepAgain, ReturnFromModule, FinalizedModule, EnterModule
<1>2. /\ phase' \in Phases
      /\ mod' \in Modules
      /\ updated' \in 0 .. mod' - 1
      /\ phase' = "final" => updated' = 0
  <2>1. CASE phase = "init" /\ InitializedModule
    BY <2>1 DEF InitializedModule, EnterModule
  <2>2. CASE phase = "sweep" /\ SweepAgain
    BY <2>2 DEF SweepAgain
  <2>3. CASE phase = "sweep" /\ ReturnFromModule
    BY <2>3 DEF ReturnFromModule, EnterModule, Counted
  <2>4. CASE phase = "final" /\ FinalizedModule
    BY <2>4 DEF FinalizedModule, EnterModule
  <2>5. CASE UNCHANGED <<phase, mod, updated, ret>>
    BY <2>5
  <2> QED
    BY <2>1, <2>2, <2>3, <2>4, <2>5
<1> QED
  BY <1>1, <1>2

(* ... and how they begin.                                                 *)
LEMMA DriverInitTypes == DriverInit => DriverTypeOK
<1> SUFFICES ASSUME DriverInit PROVE DriverTypeOK
  OBVIOUS
<1>1. changed \in BOOLEAN /\ ret \in BOOLEAN
  BY Zenon DEF DriverInit
<1> QED
  BY <1>1 DEF DriverInit, DriverTypeOK, Modules, Phases

(* The ranges of a function's values, and of the names.                    *)
Rows(D) == [D -> [Values -> Ranges \cup {NoRange}]]

NamesHaveRanges == ranges \in [Ids -> Ranges]

LEMMA LookupType ==
  ASSUME NamesHaveRanges, NEW v \in Values
  PROVE  Lookup(v) \in Ranges
<1> DEFINE ids == Returns[v] \cup ({NameOf[v]} \ {NoId})
           family == [id \in ids |-> ranges[id]]
<1>1. ids \subseteq Ids
  OBVIOUS
<1>2. IsFiniteSet(ids)
  BY <1>1, FS_Subset
<1> HIDE DEF ids
<1>3. IsFiniteSet(DOMAIN family) /\ \A x \in DOMAIN family : family[x] \in Ranges
  BY <1>1, <1>2 DEF NamesHaveRanges
<1>4. UnionOver(EmptySet, family) \in Ranges
  <2> HIDE DEF family
  <2> QED
    BY <1>3, UnionOverType, SomeRanges
<1> QED
  BY <1>4, SomeRanges DEF Lookup, ids

LEMMA GetRangeType ==
  ASSUME NamesHaveRanges, NEW D, vrms \in Rows(D), NEW b \in D, NEW v \in Operands
  PROVE  GetRange(b, v) \in Ranges
<1>1. CASE v \in Word
  BY <1>1, SomeRanges DEF GetRange
<1>2. CASE v \notin Word
  <2>1. v \in Values /\ vrms[b][v] \in Ranges \cup {NoRange}
    BY <1>2 DEF Operands, Rows
  <2> QED
    BY <1>2, <2>1, LookupType DEF GetRange
<1> QED
  BY <1>1, <1>2

LEMMA NotedType ==
  ASSUME NamesHaveRanges, NEW D, NEW vs \in Rows(D), NEW uses
  PROVE  Noted(vs, uses) \in Rows(D)
BY LookupType DEF Noted, Rows

LEMMA JoinedType ==
  ASSUME NEW R \in Ranges \cup {NoRange}, NEW Q \in Ranges
  PROVE  Joined(R, Q) \in Ranges
BY UnionType DEF Joined

LEMMA EnteredType ==
  ASSUME NEW D, NEW vs \in Rows(D), NEW b \in D, NEW v \in Values, NEW R \in Ranges
  PROVE  Entered(vs, b, v, R) \in Rows(D)
<1>1. vs[b][v] \in Ranges \cup {NoRange}
  BY DEF Rows
<1>2. Joined(vs[b][v], R) \in Ranges
  BY <1>1, JoinedType
<1> QED
  BY <1>2 DEF Entered, Rows

(* What a terminator says is a list of at most two facts.                  *)
IsFacts(facts) == DOMAIN facts \subseteq 1 .. 2 /\ \A m \in DOMAIN facts : facts[m][2] \in Ranges

LEMMA PairOfFacts ==
  ASSUME NEW v, NEW w, NEW R \in Ranges, NEW Q \in Ranges
  PROVE  IsFacts(<< <<v, R>>, <<w, Q>> >>)
BY DEF IsFacts

LEMMA FactsType ==
  ASSUME NamesHaveRanges, NEW g, NEW t, IsTerm(g, t), vrms \in Rows(DOMAIN g.blocks),
         NEW p \in DOMAIN g.blocks, NEW b
  PROVE  IsFacts(Facts(p, t, b))
<1>1. CASE t.kind = "cond"
  <2> DEFINE L == GetRange(t.at, t.l)
             R == GetRange(t.at, t.r)
  <2>1. L \in Ranges /\ R \in Ranges
    BY <1>1, GetRangeType DEF IsTerm
  <2>2. Facts(p, t, b) = BranchFacts(t, b)
    BY <1>1 DEF Facts
  <2>3. BranchFacts(t, b) = OnTrue(t, L, R) \/ BranchFacts(t, b) = OnFalse(t, L, R)
    BY DEF BranchFacts
  <2> HIDE DEF L, R
  <2>4. IsFacts(OnTrue(t, L, R)) /\ IsFacts(OnFalse(t, L, R))
    BY <2>1, CutType, RegionType, PairOfFacts DEF OnTrue, OnFalse
  <2> QED
    BY <2>2, <2>3, <2>4
<1>2. CASE t.kind = "switch"
  <2>1. GetRange(p, t.v) \in Ranges
    BY <1>2, GetRangeType DEF IsTerm
  <2>2. CasesTo(t, b) \in Ranges
    <3>1. { k \in DOMAIN t.cases : t.cases[k] = b } \in SUBSET Word /\ DOMAIN t.cases \in SUBSET Word
      BY <1>2 DEF IsTerm
    <3> QED
      BY <3>1, HullType, InverseType DEF CasesTo
  <2>3. intersectWith(GetRange(p, t.v), CasesTo(t, b)) \in Ranges
    BY <2>1, <2>2, CutType
  <2>4. Facts(p, t, b) = << <<t.v, intersectWith(GetRange(p, t.v), CasesTo(t, b))>> >>
    BY <1>2 DEF Facts
  <2> QED
    BY <2>3, <2>4 DEF IsFacts
<1>3. CASE t.kind \notin {"cond", "switch"}
  <2>1. Facts(p, t, b) = << >>
    BY <1>3 DEF Facts
  <2> QED
    BY <2>1 DEF IsFacts
<1> QED
  BY <1>1, <1>2, <1>3

LEMMA FromPredType ==
  ASSUME NEW D, vrms \in Rows(D), NEW p \in D, NEW facts, IsFacts(facts)
  PROVE  FromPred(p, facts) \in [Values -> Ranges \cup {NoRange}]
<1>1. ASSUME NEW v \in Values PROVE Insert(vrms[p], facts, v) \in Ranges \cup {NoRange}
  <2> DEFINE said == { m \in DOMAIN facts : facts[m][1] = v }
  <2>1. said # {} => Min(said) \in said
    <3>1. CASE 1 \in said
      <4>1. \A y \in said : 1 <= y
        BY DEF IsFacts
      <4> QED
        BY <3>1, <4>1 DEF Min
    <3>2. CASE 1 \notin said
      <4>1. said \subseteq {2}
        BY <3>2 DEF IsFacts
      <4> HIDE DEF said
      <4>2. CASE said = {}
        BY <4>2
      <4>3. CASE said = {2}
        <5>1. \A y \in said : 2 <= y
          BY <4>3
        <5>2. 2 \in said
          BY <4>3
        <5> QED
          BY <5>1, <5>2 DEF Min
      <4> QED
        BY <4>1, <4>2, <4>3, Zenon
    <3> QED
      BY <3>1, <3>2
  <2>2. said # {} => facts[Min(said)][2] \in Ranges
    BY <2>1 DEF IsFacts
  <2>3. vrms[p][v] \in Ranges \cup {NoRange}
    BY DEF Rows
  <2>4. Insert(vrms[p], facts, v) =
          IF vrms[p][v] = NoRange /\ said # {} THEN facts[Min(said)][2] ELSE vrms[p][v]
    BY DEF Insert
  <2> HIDE DEF said
  <2> QED
    BY <2>2, <2>3, <2>4
<1> QED
  BY <1>1 DEF FromPred

LEMMA MergedType ==
  ASSUME NEW row \in [Values -> Ranges \cup {NoRange}],
         NEW there \in [Values -> Ranges \cup {NoRange}]
  PROVE  Merged(row, there) \in [Values -> Ranges \cup {NoRange}]
BY JoinedType DEF Merged

-----------------------------------------------------------------------------
(* TypeOK in parts, and what each action leaves of them.                   *)
NamesOK ==
  /\ NamesHaveRanges
  /\ changes \subseteq { id \in Ids : ranges[id] # EmptySet }
  /\ changed <=> changes # {}
  /\ phase # "sweep" => changed = FALSE

EntriesOK ==
  /\ ~InBlock => left = {} /\ pos = 1
  /\ InBlock => /\ left \subseteq DOMAIN F.blocks
                /\ pos \in 1 .. Len(Code) + 1
                /\ vrms \in Rows(DOMAIN F.blocks)

CallOK ==
  /\ handled # {} => At({"call"}) /\ handled \subseteq Instr.passes
  /\ IF arg = 0 THEN callee = << >>
                ELSE callee \in handled /\ arg \in 1 .. Len(callee)

MetaOK == meta \in [Values -> {NoRange} \cup (Ranges \ {EmptySet, FullSet})]

TypeInv == DriverTypeOK /\ PlaceInv /\ NamesOK /\ itr \in Nat \ {0} /\ EntriesOK /\ CallOK /\ MetaOK

(* The block the pass is in.                                               *)
LEMMA InBlockFacts ==
  ASSUME PlaceInv, InBlock
  PROVE  /\ IsList(F.blocks) /\ blk \in DOMAIN F.blocks /\ IsList(Code)
         /\ \A b \in DOMAIN F.blocks : IsBlock(F, b)
<1>1. fn \in 1 .. Len(Functions) /\ blk \in 1 .. Len(F.blocks)
  BY ProgramAssumption DEF PlaceInv, InBlock, Functions
<1>2. IsFunction(F)
  BY <1>1, ProgramAssumption DEF PlaceInv, Functions, F
<1> QED
  BY <1>1, <1>2 DEF IsFunction, IsBlock, Code

LEMMA TypeInvTypes == TypeInv => TypeOK
<1> SUFFICES ASSUME TypeInv PROVE TypeOK
  OBVIOUS
<1>1. InBlock => blk \in DOMAIN F.blocks
  BY InBlockFacts DEF TypeInv
<1> QED
  BY <1>1, Zenon DEF TypeInv, TypeOK, PlaceInv, NamesOK, NamesHaveRanges, EntriesOK, CallOK, MetaOK, Rows

(* A name is joined with a range.                                          *)
LEMMA UnionNameTypes ==
  ASSUME NamesOK, DriverTypeOK, phase = "sweep", NEW id \in Ids, NEW R \in Ranges, UnionName(id, R)
  PROVE  NamesOK' /\ DriverTypeOK' /\ UNCHANGED <<phase, mod>>
<1> DEFINE grown == safeUnion(ranges[id], R)
<1>1. UNCHANGED <<phase, mod, updated, ret>>
  BY DEF UnionName
<1>2. changed' = (changed \/ grown # ranges[id])
  BY DEF UnionName
<1>3. ranges' = [ranges EXCEPT ![id] = grown]
  BY DEF UnionName
<1>4. changes' = IF grown # ranges[id] THEN changes \cup {id} ELSE changes
  BY DEF UnionName
<1>5. /\ grown \in Ranges
      /\ grown # ranges[id] => grown # EmptySet
      /\ ranges[id] # EmptySet => grown # EmptySet
  BY UnionType DEF NamesOK, NamesHaveRanges, safeUnion, EmptySet
<1> HIDE DEF grown
<1>6. changed' \in BOOLEAN
  BY <1>2, Zenon
<1>7. DriverTypeOK'
  BY <1>1, <1>6, DriverTypes
<1>8. NamesHaveRanges'
  BY <1>3, <1>5 DEF NamesOK, NamesHaveRanges
<1>9. changes' \subseteq { i \in Ids : ranges'[i] # EmptySet }
  BY <1>3, <1>4, <1>5 DEF NamesOK, NamesHaveRanges
<1>10. changed' <=> changes' # {}
  <2>1. changes' # {} <=> (changes # {} \/ grown # ranges[id])
    BY <1>4
  <2> QED
    BY <1>2, <2>1, Zenon DEF NamesOK
<1>11. phase' = "sweep"
  BY <1>1
<1> QED
  BY <1>1, <1>7, <1>8, <1>9, <1>10, <1>11 DEF NamesOK

LEMMA NoUnionTypes ==
  ASSUME NamesOK, DriverTypeOK, NoUnion
  PROVE  NamesOK' /\ DriverTypeOK' /\ UNCHANGED <<phase, mod>>
<1>1. UNCHANGED <<phase, mod, updated, changed, ret, ranges, changes>>
  BY Zenon DEF NoUnion, driverVars
<1> QED
  BY <1>1, Zenon DEF NamesOK, NamesHaveRanges, DriverTypeOK

(* Within a block, the next instruction is handled.                        *)
LEMMA SamePlace ==
  ASSUME UNCHANGED <<prog, phase, mod, fn, blk>>
  PROVE  UNCHANGED <<Functions, F, Code, InBlock>>
BY Zenon DEF Functions, F, Code, InBlock

LEMMA NextInstrTypes ==
  ASSUME TypeInv, NEW ops, At(ops), NextInstr, UNCHANGED <<phase, mod>>,
         vrms' \in Rows(DOMAIN F.blocks)
  PROVE  EntriesOK' /\ MetaOK' /\ (itr \in Nat \ {0})'
<1>1. UNCHANGED <<prog, fn, blk, left, itr, meta>> /\ pos' = pos + 1
  BY DEF NextInstr
<1>2. InBlock' /\ Code' = Code /\ F' = F
  BY <1>1, SamePlace DEF At
<1>3. pos' \in 1 .. Len(Code') + 1 /\ left' \subseteq DOMAIN F'.blocks
  BY <1>1, <1>2, InBlockFacts DEF TypeInv, EntriesOK, At
<1>4. EntriesOK'
  BY <1>2, <1>3 DEF EntriesOK
<1> QED
  BY <1>1, <1>4 DEF TypeInv, MetaOK

LEMMA NoCall ==
  ASSUME TypeInv, NEW ops, At(ops), "call" \notin ops
  PROVE  handled = {} /\ arg = 0 /\ callee = << >>
BY Zenon DEF TypeInv, CallOK, At

LEMMA NoCallTypes ==
  ASSUME handled = {}, arg = 0, callee = << >>, UNCHANGED callVars
  PROVE  CallOK'
BY DEF CallOK, callVars

(* A function of a module is entered at its first block.                   *)
LEMMA EnterFunction ==
  ASSUME PlaceInv', prog' = prog, NEW m, NEW g, mod' = m, fn' = g,
         blk' = 1, left' = {}, pos' = 1, vrms' = Forgotten(m, g)
  PROVE  EntriesOK'
<1>1. CASE ~InBlock'
  BY <1>1 DEF EntriesOK
<1>2. CASE InBlock'
  <2>1. IsList(F'.blocks) /\ blk' \in DOMAIN F'.blocks /\ IsList(Code')
    <3>1. fn' \in 1 .. Len(Functions') /\ prog' \in Programs /\ mod' \in Modules
          /\ blk' \in 1 .. Len(F'.blocks)
      BY <1>2, ProgramAssumption DEF PlaceInv, InBlock, Functions
    <3>2. IsFunction(F')
      BY <3>1, ProgramAssumption DEF Functions, F
    <3> QED
      BY <3>1, <3>2 DEF IsFunction, IsBlock, Code
  <2>2. NumBlocks(m, g) = Len(F'.blocks)
    BY <1>2 DEF NumBlocks, InBlock, Functions, F
  <2>3. vrms' \in Rows(DOMAIN F'.blocks)
    BY <2>1, <2>2 DEF Forgotten, Rows
  <2> QED
    BY <1>2, <2>1, <2>3 DEF EntriesOK
<1> QED
  BY <1>1, <1>2

LEMMA InitTypes == Init => TypeInv
<1> SUFFICES ASSUME Init PROVE TypeInv
  OBVIOUS
<1>1. PlaceInv /\ DriverTypeOK
  BY InitSweeps, DriverInitTypes DEF Init
<1>2. phase = "init" /\ changed = FALSE /\ ~InBlock
  BY Zenon DEF Init, DriverInit, InBlock
<1>3. NamesOK
  BY <1>2, SomeRanges DEF Init, NamesOK, NamesHaveRanges
<1>4. EntriesOK /\ CallOK /\ MetaOK /\ itr \in Nat \ {0}
  BY <1>2 DEF Init, EntriesOK, CallOK, MetaOK
<1> QED
  BY <1>1, <1>3, <1>4 DEF TypeInv

LEMMA InitialType ==
  ASSUME NamesHaveRanges, PlaceInv, NEW id \in Ids
  PROVE  WithInitial(id) \in Ranges
<1> DEFINE values == { e \in prog.inits[mod] : e[1] = id }
           family == [e \in values |-> {e[2]}]
<1>1. IsFiniteSet(prog.inits[mod]) /\ prog.inits[mod] \subseteq Ids \X Word
  BY ProgramAssumption DEF PlaceInv
<1>2. IsFiniteSet(values)
  BY <1>1, FS_Subset
<1>3. \A e \in values : {e[2]} \in Ranges
  BY <1>1, SomeRanges
<1> HIDE DEF values
<1>4. IsFiniteSet(DOMAIN family) /\ \A x \in DOMAIN family : family[x] \in Ranges
  BY <1>2, <1>3
<1>5. UnionOver(ranges[id], family) \in Ranges
  <2> HIDE DEF family
  <2> QED
    BY <1>4, UnionOverType DEF NamesHaveRanges
<1> QED
  BY <1>5 DEF WithInitial, values

LEMMA InitializeTypes ==
  ASSUME TypeInv, Initialize, PlaceInv'
  PROVE  TypeInv'
<1>1. DriverTypeOK'
  BY DriverTypes DEF TypeInv, Initialize
<1>2. /\ phase = "init" /\ changed = FALSE /\ changed' = FALSE
      /\ UNCHANGED <<prog, changes, itr, fn, blk, left, pos, handled, callee, arg, meta>>
      /\ vrms' = Forgotten(mod', 1)
  BY Zenon DEF Initialize, InitializedModule, EnterModule, placeVars, callVars, TypeInv, NamesOK
<1>3. fn = 1 /\ blk = 1 /\ left = {} /\ pos = 1
  BY <1>2, ProgramAssumption DEF TypeInv, PlaceInv, EntriesOK, InBlock
<1>4. NamesOK'
  <2>1. ranges' = [id \in Ids |-> WithInitial(id)] /\ changes = {}
    BY <1>2 DEF Initialize, TypeInv, NamesOK
  <2>2. NamesHaveRanges'
    BY <2>1, InitialType DEF NamesHaveRanges, TypeInv, NamesOK
  <2> QED
    BY <1>2, <2>1, <2>2 DEF NamesOK
<1>5. EntriesOK'
  BY <1>2, <1>3, EnterFunction
<1>6. CallOK'
  <2>1. handled = {} /\ arg = 0 /\ callee = << >>
    BY <1>2, Zenon DEF TypeInv, CallOK, At, InBlock
  <2> QED
    BY <1>2, <2>1, NoCallTypes DEF callVars
<1> QED
  BY <1>1, <1>2, <1>4, <1>5, <1>6 DEF TypeInv, MetaOK

LEMMA MergePredTypes ==
  ASSUME TypeInv, MergePred, PlaceInv'
  PROVE  TypeInv'
<1>1. /\ InBlock /\ left # {} /\ NoUnion
      /\ UNCHANGED <<prog, itr, fn, blk, pos, handled, callee, arg, meta>>
  BY DEF MergePred, callVars
<1>2. NamesOK' /\ DriverTypeOK' /\ UNCHANGED <<phase, mod>>
  BY <1>1, NoUnionTypes DEF TypeInv
<1>3. InBlock' /\ F' = F /\ Code' = Code
  BY <1>1, <1>2, SamePlace
<1>4. vrms \in Rows(DOMAIN F.blocks) /\ left \subseteq DOMAIN F.blocks /\ NamesHaveRanges
  BY <1>1 DEF TypeInv, EntriesOK, NamesOK
<1>5. vrms' \in Rows(DOMAIN F.blocks) /\ left' \subseteq left
  <2>1. PICK p \in left :
          /\ left' = left \ {p}
          /\ \E facts \in {Facts(p, F.blocks[p].term, blk)} : \E there \in {FromPred(p, facts)} :
               vrms' = [Noted(vrms, TermUses(p, F.blocks[p].term)) EXCEPT ![blk] = Merged(@, there)]
    BY DEF MergePred
  <2> DEFINE facts == Facts(p, F.blocks[p].term, blk)
             there == FromPred(p, facts)
             noted == Noted(vrms, TermUses(p, F.blocks[p].term))
  <2>2. vrms' = [noted EXCEPT ![blk] = Merged(noted[blk], there)]
    BY <2>1
  <2>3. IsFacts(facts)
    <3>1. IsTerm(F, F.blocks[p].term) /\ p \in DOMAIN F.blocks
      BY <1>1, <1>4, InBlockFacts DEF TypeInv, IsBlock
    <3> QED
      BY <1>4, <3>1, FactsType
  <2> HIDE DEF facts
  <2>4. there \in [Values -> Ranges \cup {NoRange}]
    BY <1>4, <2>3, FromPredType
  <2>5. noted \in Rows(DOMAIN F.blocks)
    BY <1>4, NotedType
  <2> HIDE DEF there, noted
  <2>6. blk \in DOMAIN F.blocks
    BY <1>1, InBlockFacts DEF TypeInv
  <2>7. Merged(noted[blk], there) \in [Values -> Ranges \cup {NoRange}]
    BY <2>4, <2>5, <2>6, MergedType DEF Rows
  <2> QED
    BY <2>1, <2>2, <2>5, <2>7 DEF Rows
<1>6. EntriesOK'
  BY <1>1, <1>3, <1>4, <1>5 DEF TypeInv, EntriesOK
<1>7. CallOK'
  <2>1. handled = {} /\ arg = 0 /\ callee = << >>
    BY <1>1, Zenon DEF TypeInv, CallOK, At
  <2> QED
    BY <1>1, <2>1, NoCallTypes DEF callVars
<1> QED
  BY <1>1, <1>2, <1>6, <1>7 DEF TypeInv, MetaOK

LEMMA NextBlockTypes ==
  ASSUME TypeInv, NextBlock, PlaceInv'
  PROVE  TypeInv'
<1>1. /\ InBlock /\ left = {} /\ pos > Len(Code) /\ NoUnion /\ pos' = 1
      /\ UNCHANGED <<prog, itr, handled, callee, arg, meta>>
  BY DEF NextBlock, callVars
<1>2. NamesOK' /\ DriverTypeOK' /\ UNCHANGED <<phase, mod>>
  BY <1>1, NoUnionTypes DEF TypeInv
<1>3. EntriesOK'
  <2>1. CASE blk < Len(F.blocks)
    <3>1. blk' = blk + 1 /\ left' = Forward(F, blk + 1) /\ fn' = fn /\ vrms' = vrms
      BY <2>1 DEF NextBlock
    <3>2. InBlock' /\ F' = F
      BY <1>1, <1>2, <3>1, Zenon DEF InBlock, Functions, F
    <3>3. IsBlock(F, blk + 1)
      BY <1>1, <2>1, InBlockFacts DEF TypeInv
    <3>4. Len(Code') \in Nat
      BY <3>1, <3>2, <3>3 DEF IsBlock, Code
    <3>5. left' \subseteq DOMAIN F.blocks
      BY <3>1 DEF Forward
    <3>6. vrms' \in Rows(DOMAIN F.blocks)
      BY <1>1, <3>1 DEF TypeInv, EntriesOK
    <3> QED
      BY <1>1, <3>2, <3>4, <3>5, <3>6 DEF EntriesOK
  <2>2. CASE ~ (blk < Len(F.blocks))
    <3>1. blk' = 1 /\ left' = {} /\ fn' = fn + 1 /\ vrms' = Forgotten(mod, fn + 1)
      BY <2>2 DEF NextBlock
    <3> QED
      BY <1>1, <1>2, <3>1, EnterFunction
  <2> QED
    BY <2>1, <2>2
<1>4. CallOK'
  <2>1. ~At({"call"})
    BY <1>1, InBlockFacts DEF TypeInv, At, PlaceInv
  <2>2. handled = {} /\ arg = 0 /\ callee = << >>
    BY <2>1, Zenon DEF TypeInv, CallOK
  <2> QED
    BY <1>1, <2>2, NoCallTypes DEF callVars
<1> QED
  BY <1>1, <1>2, <1>3, <1>4 DEF TypeInv, MetaOK

(* What is asked of an instruction's operands are ranges.                  *)
LEMMA AskedTypes ==
  ASSUME TypeInv, NEW ops, At(ops)
  PROVE  /\ NamesHaveRanges /\ vrms \in Rows(DOMAIN F.blocks) /\ blk \in DOMAIN F.blocks
         /\ IsInstr(Instr)
         /\ \A v \in Operands : GetRange(blk, v) \in Ranges
<1>1. NamesHaveRanges /\ vrms \in Rows(DOMAIN F.blocks) /\ blk \in DOMAIN F.blocks
  BY InBlockFacts DEF TypeInv, NamesOK, EntriesOK, At
<1> QED
  BY <1>1, GetRangeType, InstrType DEF TypeInv

LEMMA RecordTypes ==
  ASSUME TypeInv, Record, PlaceInv'
  PROVE  TypeInv'
<1>1. /\ At({"store", "ret"}) /\ NextInstr /\ UNCHANGED callVars
      /\ UnionName(Instr.id, GetRange(blk, Instr.v))
      /\ vrms' = Noted(vrms, {<<blk, Instr.v>>})
  BY DEF Record
<1>2. Instr.id \in Ids /\ Instr.v \in Operands
  BY <1>1, AskedTypes DEF At, IsInstr
<1>3. NamesOK' /\ DriverTypeOK' /\ UNCHANGED <<phase, mod>>
  BY <1>1, <1>2, AskedTypes, UnionNameTypes DEF TypeInv, At, InBlock
<1>4. vrms' \in Rows(DOMAIN F.blocks)
  BY <1>1, AskedTypes, NotedType
<1>5. EntriesOK' /\ MetaOK' /\ (itr \in Nat \ {0})'
  BY <1>1, <1>3, <1>4, NextInstrTypes
<1>6. CallOK'
  BY <1>1, NoCall, NoCallTypes
<1> QED
  BY <1>3, <1>5, <1>6 DEF TypeInv

LEMMA ComputedType ==
  ASSUME TypeInv, At({"bin", "select", "phi", "load", "mark", "other"})
  PROVE  Computed \in Ranges /\ Instr.val \in Values
<1> DEFINE ops == {"bin", "select", "phi", "load", "mark", "other"}
<1>1. /\ NamesHaveRanges /\ vrms \in Rows(DOMAIN F.blocks) /\ blk \in DOMAIN F.blocks
      /\ \A v \in Operands : GetRange(blk, v) \in Ranges
      /\ IsInstr(Instr)
  BY AskedTypes
<1>2. Instr.op \in ops /\ Instr.val \in Values
  BY <1>1 DEF At, IsInstr
<1>3. CASE Instr.op = "bin"
  <2> DEFINE R == GetRange(blk, Instr.l)
             Q == GetRange(blk, Instr.r)
  <2>1. Instr.fn \in Operations /\ R \in Ranges /\ Q \in Ranges
    BY <1>1, <1>3 DEF IsInstr
  <2>2. Computed = BinaryOp(Instr.fn, R, Q)
    BY <1>3 DEF Computed
  <2> HIDE DEF R, Q
  <2>3. BinaryOp(Instr.fn, R, Q) \in Ranges
    BY <2>1, ImageType, HullType DEF BinaryOp
  <2> QED
    BY <1>2, <2>2, <2>3
<1>4. CASE Instr.op = "select"
  <2>1. Computed = safeUnion(GetRange(blk, Instr.l), GetRange(blk, Instr.r))
    BY <1>4 DEF Computed
  <2>2. Instr.l \in Operands /\ Instr.r \in Operands
    BY <1>1, <1>4 DEF IsInstr
  <2> QED
    BY <1>1, <1>2, <2>1, <2>2, UnionType
<1>5. CASE Instr.op = "phi"
  <2> DEFINE D == Forward(F, blk)
             family == [p \in D |-> GetRange(p, Instr.from[p])]
  <2>1. /\ IsFiniteSet(D) /\ D \subseteq DOMAIN F.blocks
        /\ \A q \in D : Instr.from[q] \in Operands
    <3>1. /\ DOMAIN F.blocks = 1 .. Len(F.blocks) /\ Len(F.blocks) \in Nat
          /\ IsBlock(F, blk) /\ DOMAIN Code = 1 .. Len(Code)
      BY <1>1, InBlockFacts DEF TypeInv, At
    <3>2. pos \in 1 .. Len(Code)
      BY <3>1, InBlockFacts DEF TypeInv, PlaceInv, At
    <3>3. \A q \in D : Instr.from[q] \in Operands
      BY <1>5, <3>1, <3>2 DEF IsBlock, Code, Instr
    <3>4. D \subseteq DOMAIN F.blocks
      BY DEF Forward
    <3>5. IsFiniteSet(1 .. Len(F.blocks))
      BY <3>1, FS_Interval
    <3> QED
      BY <3>1, <3>3, <3>4, <3>5, FS_Subset
  <2> HIDE DEF D
  <2>2. IsFiniteSet(DOMAIN family) /\ \A q \in DOMAIN family : family[q] \in Ranges
    BY <1>1, <2>1, GetRangeType
  <2>3. UnionOver(EmptySet, family) \in Ranges
    <3> HIDE DEF family
    <3> QED
      BY <2>2, UnionOverType, SomeRanges
  <2>4. Computed = UnionOver(EmptySet, family)
    BY <1>5 DEF Computed, PhiRange, D
  <2> QED
    BY <1>2, <2>3, <2>4
<1>6. CASE Instr.op \in {"load", "mark"}
  <2>1. Computed = GetRange(blk, Instr.val)
    BY <1>6 DEF Computed
  <2> QED
    BY <1>1, <1>2, <2>1 DEF Operands
<1>7. CASE Instr.op = "other"
  <2>1. Computed = FullSet
    BY <1>7 DEF Computed
  <2> QED
    BY <1>2, <2>1, SomeRanges
<1> QED
  BY <1>2, <1>3, <1>4, <1>5, <1>6, <1>7

LEMMA ComputeTypes ==
  ASSUME TypeInv, Compute, PlaceInv'
  PROVE  TypeInv'
<1>1. /\ At({"bin", "select", "phi", "load", "mark", "other"})
      /\ NextInstr /\ UNCHANGED callVars /\ NoUnion
      /\ vrms' = Entered(Noted(vrms, Uses), blk, Instr.val, Computed)
  BY DEF Compute
<1>2. NamesOK' /\ DriverTypeOK' /\ UNCHANGED <<phase, mod>>
  BY <1>1, NoUnionTypes DEF TypeInv
<1>3. vrms' \in Rows(DOMAIN F.blocks)
  <2>1. Noted(vrms, Uses) \in Rows(DOMAIN F.blocks) /\ blk \in DOMAIN F.blocks
    BY <1>1, AskedTypes, NotedType
  <2> QED
    BY <1>1, <2>1, ComputedType, EnteredType
<1>4. EntriesOK' /\ MetaOK' /\ (itr \in Nat \ {0})'
  BY <1>1, <1>2, <1>3, NextInstrTypes
<1>5. CallOK'
  BY <1>1, NoCall, NoCallTypes
<1> QED
  BY <1>2, <1>4, <1>5 DEF TypeInv

(* The call at hand stays the one at hand.                                 *)
LEMMA SameCall ==
  ASSUME At({"call"}), UNCHANGED <<prog, phase, mod, fn, blk, left, pos>>
  PROVE  At({"call"})' /\ Instr' = Instr /\ UNCHANGED <<Functions, F, Code, InBlock>>
BY Zenon DEF At, Instr, Functions, F, Code, InBlock

LEMMA TakeCalleeTypes ==
  ASSUME TypeInv, TakeCallee, PlaceInv'
  PROVE  TypeInv'
<1>1. /\ At({"call"}) /\ arg = 0 /\ arg' = 1 /\ NoUnion /\ Len(Instr.args) > 0
      /\ UNCHANGED <<prog, itr, vrms, fn, blk, left, pos, meta>>
  BY DEF TakeCallee
<1>2. NamesOK' /\ DriverTypeOK' /\ UNCHANGED <<phase, mod>>
  BY <1>1, NoUnionTypes DEF TypeInv
<1>3. At({"call"})' /\ Instr' = Instr /\ UNCHANGED <<Functions, F, Code, InBlock>>
  BY <1>1, <1>2, SameCall
<1>4. EntriesOK'
  BY <1>1, <1>3 DEF TypeInv, EntriesOK
<1>5. CallOK'
  <2>1. PICK names \in Instr.passes \ handled : callee' = names /\ handled' = handled \cup {names}
    BY DEF TakeCallee
  <2>2. Len(names) > 0 /\ Len(names) \in Nat
    <3>1. IsInstr(Instr) /\ Instr.op = "call"
      BY <1>1, AskedTypes DEF At
    <3> QED
      BY <1>1, <2>1, <3>1 DEF IsInstr
  <2>3. handled \subseteq Instr.passes
    BY DEF TypeInv, CallOK
  <2> QED
    BY <1>1, <1>3, <2>1, <2>2, <2>3 DEF CallOK
<1> QED
  BY <1>1, <1>2, <1>4, <1>5 DEF TypeInv, MetaOK

LEMMA PassArgTypes ==
  ASSUME TypeInv, PassArg, PlaceInv'
  PROVE  TypeInv'
<1>1. /\ At({"call"}) /\ arg # 0
      /\ UnionName(callee[arg], GetRange(blk, Instr.args[arg]))
      /\ vrms' = Noted(vrms, {<<blk, Instr.args[arg]>>})
      /\ UNCHANGED <<prog, itr, fn, blk, left, pos, handled, meta>>
  BY DEF PassArg
<1>2. /\ callee \in handled /\ arg \in 1 .. Len(callee)
      /\ handled \subseteq Instr.passes
  BY <1>1 DEF TypeInv, CallOK
<1>3. callee[arg] \in Ids /\ Instr.args[arg] \in Operands
  <2>1. IsInstr(Instr) /\ Instr.op = "call"
    BY <1>1, AskedTypes DEF At
  <2>2. callee \in Seq(Ids) /\ Len(callee) = Len(Instr.args) /\ Instr.args \in Seq(Operands)
    BY <1>2, <2>1 DEF IsInstr
  <2> QED
    BY <1>2, <2>2
<1>4. NamesOK' /\ DriverTypeOK' /\ UNCHANGED <<phase, mod>>
  BY <1>1, <1>3, AskedTypes, UnionNameTypes DEF TypeInv, At, InBlock
<1>5. At({"call"})' /\ Instr' = Instr /\ UNCHANGED <<Functions, F, Code, InBlock>>
  BY <1>1, <1>4, SameCall
<1>6. vrms' \in Rows(DOMAIN F.blocks)
  BY <1>1, AskedTypes, NotedType
<1>7. EntriesOK'
  BY <1>1, <1>5, <1>6 DEF TypeInv, EntriesOK
<1>8. CallOK'
  <2>1. CASE arg < Len(callee)
    BY <1>1, <1>2, <1>5, <2>1 DEF CallOK, PassArg
  <2>2. CASE ~ (arg < Len(callee))
    <3>1. arg' = 0 /\ callee' = << >>
      BY <2>2 DEF PassArg
    <3> QED
      BY <1>1, <1>2, <1>5, <3>1 DEF CallOK
  <2> QED
    BY <2>1, <2>2
<1> QED
  BY <1>1, <1>4, <1>7, <1>8 DEF TypeInv, MetaOK

LEMMA TakeResultTypes ==
  ASSUME TypeInv, TakeResult, PlaceInv'
  PROVE  TypeInv'
<1> DEFINE R == GetRange(blk, Instr.val)
<1>1. /\ At({"call"}) /\ arg = 0 /\ handled' = {} /\ NextInstr /\ UNCHANGED <<callee, arg>>
      /\ vrms' = Entered(vrms, blk, Instr.val, R)
      /\ IF Instr.passes = {} \/ Instr.ret = NoId THEN NoUnion ELSE UnionName(Instr.ret, R)
  BY DEF TakeResult
<1>2. Instr.val \in Values /\ Instr.ret \in Ids \cup {NoId}
  BY <1>1, AskedTypes DEF At, IsInstr
<1>3. R \in Ranges
  BY <1>1, <1>2, AskedTypes DEF Operands
<1> HIDE DEF R
<1>4. NamesOK' /\ DriverTypeOK' /\ UNCHANGED <<phase, mod>>
  <2>1. CASE NoUnion
    BY <2>1, NoUnionTypes DEF TypeInv
  <2>2. CASE ~NoUnion
    <3>1. Instr.ret \in Ids /\ UnionName(Instr.ret, R)
      BY <1>1, <1>2, <2>2
    <3> QED
      BY <1>1, <1>3, <3>1, UnionNameTypes DEF TypeInv, At, InBlock
  <2> QED
    BY <2>1, <2>2
<1>5. vrms' \in Rows(DOMAIN F.blocks)
  BY <1>1, <1>2, <1>3, AskedTypes, EnteredType
<1>6. EntriesOK' /\ MetaOK' /\ (itr \in Nat \ {0})'
  BY <1>1, <1>4, <1>5, NextInstrTypes
<1>7. CallOK'
  BY <1>1 DEF TypeInv, CallOK
<1> QED
  BY <1>4, <1>6, <1>7 DEF TypeInv

(* A sweep ends after the last function, outside of calls and blocks.      *)
LEMMA SweepEndFacts ==
  ASSUME TypeInv, AtSweepEnd
  PROVE  /\ blk = 1 /\ left = {} /\ pos = 1
         /\ handled = {} /\ arg = 0 /\ callee = << >>
<1>1. ~InBlock
  BY ProgramAssumption DEF TypeInv, PlaceInv, AtSweepEnd, InBlock, Functions
<1>2. blk = 1
  BY DEF TypeInv, PlaceInv, AtSweepEnd
<1> QED
  BY <1>1, <1>2, Zenon DEF TypeInv, EntriesOK, CallOK, At

LEMMA EndSweepTypes ==
  ASSUME TypeInv, EndSweep, PlaceInv'
  PROVE  TypeInv'
<1>1. /\ AtSweepEnd /\ SweepAgain /\ itr' = itr + 1 /\ ranges' = Widen /\ changes' = {}
      /\ fn' = 1 /\ vrms' = Forgotten(mod, 1)
      /\ UNCHANGED <<prog, blk, left, pos, handled, callee, arg, meta>>
  BY DEF EndSweep, callVars
<1>2. DriverTypeOK'
  BY <1>1, DriverTypes DEF TypeInv, AtSweepEnd
<1>3. changed' = FALSE /\ mod' = mod
  BY <1>1 DEF SweepAgain
<1>4. NamesOK'
  <2>1. NamesHaveRanges'
    BY <1>1, SomeRanges DEF TypeInv, NamesOK, NamesHaveRanges, Widen
  <2> QED
    BY <1>1, <1>3, <2>1 DEF NamesOK
<1>5. EntriesOK'
  BY <1>1, <1>3, SweepEndFacts, EnterFunction
<1>6. CallOK'
  BY <1>1, SweepEndFacts, NoCallTypes DEF callVars
<1>7. (itr \in Nat \ {0})' /\ MetaOK'
  BY <1>1 DEF TypeInv, MetaOK
<1> QED
  BY <1>2, <1>4, <1>5, <1>6, <1>7 DEF TypeInv

LEMMA EndModuleTypes ==
  ASSUME TypeInv, EndModule, PlaceInv'
  PROVE  TypeInv'
<1>1. /\ AtSweepEnd /\ ReturnFromModule /\ itr' = 1
      /\ fn' = 1 /\ vrms' = Forgotten(mod', 1)
      /\ UNCHANGED <<prog, ranges, changes, blk, left, pos, handled, callee, arg, meta>>
  BY DEF EndModule, callVars
<1>2. DriverTypeOK'
  BY <1>1, DriverTypes DEF TypeInv, AtSweepEnd
<1>3. ~changed /\ changed' = FALSE
  BY <1>1, Zenon DEF ReturnFromModule, EnterModule
<1>4. NamesOK'
  <2>1. changes = {}
    BY <1>3, Zenon DEF TypeInv, NamesOK
  <2> QED
    BY <1>1, <1>3, <2>1 DEF TypeInv, NamesOK, NamesHaveRanges
<1>5. EntriesOK'
  BY <1>1, SweepEndFacts, EnterFunction
<1>6. CallOK'
  BY <1>1, SweepEndFacts, NoCallTypes DEF callVars
<1>7. (itr \in Nat \ {0})' /\ MetaOK'
  BY <1>1 DEF TypeInv, MetaOK
<1> QED
  BY <1>2, <1>4, <1>5, <1>6, <1>7 DEF TypeInv

LEMMA MetaOfType ==
  ASSUME NamesHaveRanges, PlaceInv, NEW ins \in Marked(mod)
  PROVE  MetaOf(ins) \in {NoRange} \cup (Ranges \ {EmptySet, FullSet})
<1>1. ins.op \in {"load", "mark", "call"} /\ IsInstr(ins)
  <2> DEFINE blocks == UNION { Range(g.blocks) : g \in Range(prog.code[mod]) }
  <2>0. ins \in UNION { Range(b.code) : b \in blocks } /\ ins.op \in {"load", "mark", "call"}
    BY DEF Marked
  <2>1. PICK g \in Range(prog.code[mod]) : \E b \in Range(g.blocks) : ins \in Range(b.code)
    <3>1. PICK b \in blocks : ins \in Range(b.code)
      BY <2>0
    <3>2. \E g \in Range(prog.code[mod]) : b \in Range(g.blocks)
      OBVIOUS
    <3> QED
      BY <3>1, <3>2
  <2>2. PICK b \in Range(g.blocks) : ins \in Range(b.code)
    BY <2>1
  <2>3. IsFunction(g)
    <3>1. PICK j \in DOMAIN prog.code[mod] : g = prog.code[mod][j]
      BY <2>1 DEF Range
    <3>2. IsFunction(prog.code[mod][j])
      BY ProgramAssumption DEF PlaceInv
    <3> QED
      BY <3>1, <3>2
  <2>4. PICK k \in 1 .. Len(g.blocks) : b = g.blocks[k] /\ IsBlock(g, k)
    BY <2>2, <2>3 DEF IsFunction, Range
  <2>5. IsInstr(ins)
    BY <2>2, <2>4 DEF IsBlock, Range
  <2> QED
    BY <2>0, <2>5
<1>2. MarkName(ins) \in Ids \cup {NoId}
  BY <1>1 DEF MarkName, IsInstr
<1> QED
  BY <1>2 DEF MetaOf, NamesHaveRanges

LEMMA FinalizeTypes ==
  ASSUME TypeInv, Finalize, PlaceInv'
  PROVE  TypeInv'
<1>1. /\ phase = "final" /\ FinalizedModule
      /\ UNCHANGED <<prog, ranges, changes, itr, vrms, fn, blk, left, pos, handled, callee, arg>>
  BY DEF Finalize, placeVars, callVars
<1>2. DriverTypeOK'
  BY <1>1, DriverTypes DEF TypeInv
<1>3. changed = FALSE /\ changed' = FALSE /\ phase' # "sweep"
  BY <1>1, Zenon DEF FinalizedModule, EnterModule, TypeInv, NamesOK
<1>4. NamesOK'
  BY <1>1, <1>3, Zenon DEF TypeInv, NamesOK, NamesHaveRanges
<1>5. ~InBlock /\ ~InBlock'
  BY <1>1, <1>3 DEF InBlock
<1>6. EntriesOK'
  BY <1>1, <1>5 DEF TypeInv, EntriesOK
<1>7. CallOK'
  <2>1. handled = {} /\ arg = 0 /\ callee = << >>
    BY <1>5, Zenon DEF TypeInv, CallOK, At
  <2> QED
    BY <1>1, <2>1, NoCallTypes DEF callVars
<1>8. MetaOK'
  <2> DEFINE maker(v) == CHOOSE ins \in Marked(mod) : ins.val = v
  <2>1. \A v \in Values : (\E ins \in Marked(mod) : ins.val = v) => maker(v) \in Marked(mod)
    OBVIOUS
  <2>2. \A ins \in Marked(mod) : MetaOf(ins) \in {NoRange} \cup (Ranges \ {EmptySet, FullSet})
    BY MetaOfType DEF TypeInv, NamesOK
  <2>3. meta' = [v \in Values |-> IF \E ins \in Marked(mod) : ins.val = v
                                  THEN MetaOf(maker(v)) ELSE meta[v]]
    BY DEF Finalize
  <2> HIDE DEF maker
  <2> QED
    BY <2>1, <2>2, <2>3 DEF TypeInv, MetaOK
<1> QED
  BY <1>1, <1>2, <1>4, <1>6, <1>7, <1>8 DEF TypeInv

LEMMA StutterTypes ==
  ASSUME TypeInv, UNCHANGED vars
  PROVE  TypeInv'
<1>1. UNCHANGED <<prog, ranges, changes, itr, vrms, meta, phase, mod, updated, changed, ret>>
  BY DEF vars, driverVars
<1>2. UNCHANGED <<fn, blk, left, pos, handled, callee, arg>>
  BY DEF vars, placeVars, callVars
<1>3. UNCHANGED <<Functions, F, Code, Instr, InBlock>>
  BY <1>1, <1>2, Zenon DEF Functions, F, Code, Instr, InBlock
<1>4. DriverTypeOK' /\ NamesOK'
  BY <1>1, Zenon DEF TypeInv, DriverTypeOK, NamesOK, NamesHaveRanges
<1>5. PlaceInv'
  BY <1>1, <1>2, <1>3, Zenon DEF TypeInv, PlaceInv
<1>6. EntriesOK' /\ MetaOK' /\ (itr \in Nat \ {0})'
  BY <1>1, <1>2, <1>3, Zenon DEF TypeInv, EntriesOK, MetaOK
<1>7. CallOK'
  BY <1>1, <1>2, <1>3, Zenon DEF TypeInv, CallOK, At
<1> QED
  BY <1>4, <1>5, <1>6, <1>7 DEF TypeInv

LEMMA TypeStep ==
  ASSUME TypeInv, [Next]_vars
  PROVE  TypeInv'
<1>1. PlaceInv'
  BY PlaceStep DEF TypeInv
<1>2. CASE Next
  BY <1>1, <1>2, InitializeTypes, MergePredTypes, NextBlockTypes, RecordTypes, ComputeTypes,
     TakeCalleeTypes, PassArgTypes, TakeResultTypes, EndSweepTypes, EndModuleTypes,
     FinalizeTypes, StutterTypes, Zenon DEF Next, Ended
<1>3. CASE UNCHANGED vars
  BY <1>3, StutterTypes
<1> QED
  BY <1>2, <1>3

-----------------------------------------------------------------------------
(* At every point of the pass the tables hold ranges, the change set holds *)
(* names that have one and says whether the sweep changed anything, and a  *)
(* call hands its arguments to one of its callees at a time: TypeOK, for   *)
(* every width, module list and program.                                   *)
THEOREM TypeCorrect == Spec => []TypeOK
<1>1. Init => TypeInv
  BY InitTypes
<1>2. TypeInv /\ [Next]_vars => TypeInv'
  BY TypeStep
<1>3. TypeInv => TypeOK
  BY TypeInvTypes
<1> QED
  BY <1>1, <1>2, <1>3, PTL DEF Spec

-----------------------------------------------------------------------------
(* Programs laid out in order (Ordered, Collected): what the pass finds    *)
(* holds what the reference collects.  Row v of a block holds what is      *)
(* there of v in a table of the reference; tables are compared with the    *)
(* ranges while a sweep has changed nothing.                               *)
USE ReferenceAssumption

(* What an entry of a row says: nothing is known of a value without one.   *)
Entry(row, v) == IF row[v] = NoRange THEN {} ELSE row[v]

Kept(p) == Values \ MarkValues(p)

(* Tables whose values all come from the instructions, and from names      *)
(* whose ranges hold them.                                                 *)
Supported(p, s) ==
  \A m \in Modules : \A g \in DOMAIN p.code[m] :
    \A b \in DOMAIN p.code[m][g].blocks : \A v \in Values :
      s.at[m][g][b][v] \subseteq AtPlace(s.names, p.code[m][g], s.at[m][g], b, v)

Within(s) == \A id \in Ids \ Sources : s.names[id] \subseteq ranges[id]

(* What instructions record is in the ranges.                              *)
InstrRecorded(s, m, g, b, i) ==
  \A id \in Ids :
    Recorded(s.names, s.at[m][g][b], prog.code[m][g].blocks[b].code[i], id) \subseteq ranges[id]

BlockRecorded(s, m, g, b) == \A i \in DOMAIN prog.code[m][g].blocks[b].code : InstrRecorded(s, m, g, b, i)

FunctionRecorded(s, m, g) == \A b \in DOMAIN prog.code[m][g].blocks : BlockRecorded(s, m, g, b)

ModuleRecorded(s, m) == \A g \in DOMAIN prog.code[m] : FunctionRecorded(s, m, g)

(* In the current function, and in a sweep that has changed nothing so     *)
(* far, the entries hold the values there are: in the blocks handled, on   *)
(* the way from the predecessors merged, after the instructions handled.   *)
BlocksHeld(s) ==
  \A b \in DOMAIN F.blocks : b < blk => \A v \in Kept(prog) : s.at[mod][fn][b][v] \subseteq Entry(vrms[b], v)

PredsHeld(s) ==
  \A q \in Entering(F, blk) \ left : \A v \in Kept(prog) :
    s.at[mod][fn][q][v] \subseteq Entry(vrms[blk], v)

ValuesHeld(s) ==
  \A i \in DOMAIN Code : i < pos /\ Makes(Code[i]) /\ Code[i].val \in Kept(prog) =>
    Made(s.names, F, s.at[mod][fn], blk, Code[i]) \subseteq Entry(vrms[blk], Code[i].val)

BlocksRecorded(s) == \A b \in DOMAIN F.blocks : b < blk => BlockRecorded(s, mod, fn, b)

InstrsRecorded(s) == \A i \in DOMAIN Code : i < pos => InstrRecorded(s, mod, fn, blk, i)

CallRecorded(s) ==
  At({"call"}) =>
    \A ids \in handled : \A i \in 1 .. Len(Instr.args) :
      arg = 0 \/ ids # callee \/ i < arg =>
        HereIn(s.at[mod][fn][blk], Instr.args[i]) \subseteq ranges[ids[i]]

PlaceHeld(s) ==
  InBlock =>
    /\ BlocksHeld(s) /\ PredsHeld(s) /\ ValuesHeld(s)
    /\ BlocksRecorded(s) /\ InstrsRecorded(s) /\ CallRecorded(s)

(* A value not yet made has no entry.                                      *)
Later(b, i) == blk < b \/ (b = blk /\ pos <= i)

IsUnmade(v) ==
  \E b \in DOMAIN F.blocks : \E i \in DOMAIN F.blocks[b].code :
    Later(b, i) /\ Makes(F.blocks[b].code[i]) /\ F.blocks[b].code[i].val = v

Unmade ==
  InBlock =>
    \A v \in Values : IsUnmade(v) => \A c \in DOMAIN F.blocks : vrms[c][v] = NoRange

(* The predecessors still to be merged are some.                           *)
LeftInv == InBlock => left \subseteq Forward(F, blk)

(* The functions and modules handled since something changed.              *)
SweepRecorded(s) ==
  /\ \A g \in DOMAIN Functions : g < fn => FunctionRecorded(s, mod, g)
  /\ ~ret /\ updated = 0 => \A m \in Modules : m < mod => ModuleRecorded(s, m)

Quiet(s) == Within(s) /\ Supported(prog, s)

HeldInv(s) ==
  Quiet(s) =>
    /\ phase = "sweep" /\ ~changed => PlaceHeld(s) /\ SweepRecorded(s)
    /\ phase \in {"final", "done"} => \A m \in Modules : ModuleRecorded(s, m)

(* Initial values are in the ranges, and taint sources hold none.          *)
InitsInv ==
  \A m \in Modules : phase # "init" \/ m < mod => \A e \in prog.inits[m] : e[2] \in ranges[e[1]]

SourcesInv == \A id \in Ids \cap Sources : ranges[id] = EmptySet

(* Metadata is the range of the name of an instruction.                    *)
MetaInv ==
  \A v \in Values : meta[v] # NoRange =>
    /\ phase \in {"final", "done"}
    /\ \E m \in Modules : \E ins \in Marked(m) :
         ins.val = v /\ MarkName(ins) # NoId /\ meta[v] = ranges[MarkName(ins)]

-----------------------------------------------------------------------------
(* A lookup holds what the names of a value can hold.                      *)
LEMMA LookupHolds ==
  ASSUME NamesHaveRanges, NEW v \in Values, NEW id \in Returns[v] \cup ({NameOf[v]} \ {NoId})
  PROVE  IF id \in Sources THEN Lookup(v) = Word ELSE ranges[id] \subseteq Lookup(v)
<1> DEFINE ids == Returns[v] \cup ({NameOf[v]} \ {NoId})
           family == [i \in ids |-> ranges[i]]
<1>1. ids \subseteq Ids /\ IsFiniteSet(ids)
  <2>1. ids \subseteq Ids
    OBVIOUS
  <2> QED
    BY <2>1, FS_Subset
<1>2. id \in ids
  OBVIOUS
<1>3. Lookup(v) = IF ids \cap Sources # {} THEN FullSet ELSE UnionOver(EmptySet, family)
  BY DEF Lookup
<1> HIDE DEF ids
<1>4. IsFiniteSet(DOMAIN family) /\ (\A x \in DOMAIN family : family[x] \in Ranges) /\ family[id] = ranges[id]
  BY <1>1, <1>2 DEF NamesHaveRanges
<1>5. ranges[id] \subseteq UnionOver(EmptySet, family)
  <2>1. id \in DOMAIN family
    BY <1>2
  <2> HIDE DEF family
  <2>2. HoldsAll(EmptySet, family, DOMAIN family, UnionOver(EmptySet, family))
    BY <1>4, UnionOverHolds, SomeRanges
  <2> QED
    BY <1>4, <2>1, <2>2 DEF HoldsAll
<1>6. ranges[id] \subseteq Word
  BY <1>1, <1>2, SomeRanges DEF NamesHaveRanges
<1> HIDE DEF family
<1> QED
  BY <1>2, <1>3, <1>5, <1>6 DEF FullSet

LEMMA UnderLookup ==
  ASSUME NamesHaveRanges, NEW s, Within(s), NEW v \in Values,
         NEW ids \in SUBSET (Returns[v] \cup ({NameOf[v]} \ {NoId}))
  PROVE  Under(s.names, ids) \subseteq Lookup(v)
<1> SUFFICES ASSUME NEW id \in ids
             PROVE  (IF id \in Sources THEN Word ELSE s.names[id]) \subseteq Lookup(v)
  BY DEF Under
<1>1. id \in Returns[v] \cup ({NameOf[v]} \ {NoId}) /\ id \in Ids
  OBVIOUS
<1>2. IF id \in Sources THEN Lookup(v) = Word ELSE ranges[id] \subseteq Lookup(v)
  BY <1>1, LookupHolds
<1> QED
  BY <1>1, <1>2 DEF Within

(* Entries only grow, and hold what is entered.                            *)
LEMMA NotedHolds ==
  ASSUME NEW D, NEW vs \in Rows(D), NEW uses, NEW b \in D, NEW v \in Values
  PROVE  /\ Entry(vs[b], v) \subseteq Entry(Noted(vs, uses)[b], v)
         /\ <<b, v>> \notin uses => Noted(vs, uses)[b][v] = vs[b][v]
<1>1. DOMAIN vs = D
  BY DEF Rows
<1>2. Noted(vs, uses)[b][v] =
        IF <<b, v>> \in uses /\ vs[b][v] = NoRange /\ Lookup(v) # EmptySet THEN Lookup(v) ELSE vs[b][v]
  BY <1>1 DEF Noted
<1> QED
  BY <1>2 DEF Entry

LEMMA JoinedHolds ==
  ASSUME NEW R \in Ranges \cup {NoRange}, NEW Q \in Ranges
  PROVE  /\ Joined(R, Q) # NoRange /\ Q \subseteq Joined(R, Q)
         /\ R # NoRange => R \subseteq Joined(R, Q)
<1>1. Joined(R, Q) \in Ranges
  BY JoinedType
<1>2. R # NoRange => R \in Ranges
  OBVIOUS
<1> QED
  BY <1>1, <1>2, UnionType DEF Joined

GrewBy(D, vs, new, b, v, R) ==
  /\ R \subseteq Entry(new[b], v)
  /\ \A c \in D : \A u \in Values :
       /\ Entry(vs[c], u) \subseteq Entry(new[c], u)
       /\ u # v => new[c][u] = vs[c][u]

LEMMA EnteredHolds ==
  ASSUME NEW D, NEW vs \in Rows(D), NEW b \in D, NEW v \in Values, NEW R \in Ranges
  PROVE  GrewBy(D, vs, Entered(vs, b, v, R), b, v, R)
<1> DEFINE new == [vs EXCEPT ![b][v] = Joined(@, R)]
<1>1. vs[b][v] \in Ranges \cup {NoRange}
  BY DEF Rows
<1>2. \A c \in D : \A u \in Values :
        new[c][u] = IF c = b /\ u = v THEN Joined(vs[b][v], R) ELSE vs[c][u]
  BY DEF Rows
<1>3. Entered(vs, b, v, R) = IF R = EmptySet THEN vs ELSE new
  BY DEF Entered
<1> HIDE DEF new
<1> DEFINE J == Joined(vs[b][v], R)
<1>4. J # NoRange /\ R \subseteq J /\ (vs[b][v] # NoRange => vs[b][v] \subseteq J)
  BY <1>1, JoinedHolds
<1> HIDE DEF J
<1>5. R \subseteq Entry(new[b], v)
  BY <1>2, <1>4 DEF Entry, J
<1>6. ASSUME NEW c \in D, NEW u \in Values
      PROVE  /\ Entry(vs[c], u) \subseteq Entry(new[c], u)
             /\ u # v => new[c][u] = vs[c][u]
  BY <1>2, <1>4 DEF Entry, J
<1> QED
  BY <1>3, <1>5, <1>6 DEF EmptySet, GrewBy

LEMMA MergedHolds ==
  ASSUME NEW row \in [Values -> Ranges \cup {NoRange}],
         NEW there \in [Values -> Ranges \cup {NoRange}], NEW v \in Values
  PROVE  /\ Entry(row, v) \subseteq Entry(Merged(row, there), v)
         /\ Entry(there, v) \subseteq Entry(Merged(row, there), v)
         /\ there[v] = NoRange => Merged(row, there)[v] = row[v]
<1>1. Merged(row, there)[v] = IF there[v] = NoRange THEN row[v] ELSE Joined(row[v], there[v])
  BY DEF Merged
<1>2. there[v] # NoRange => there[v] \in Ranges /\ row[v] \in Ranges \cup {NoRange}
  OBVIOUS
<1> QED
  BY <1>1, <1>2, JoinedHolds DEF Entry

(* What is asked of an operand holds what its entry holds, and a name      *)
(* holds what it is joined with.                                           *)
LEMMA GetRangeHolds ==
  ASSUME NEW row, NEW b, NEW u \in Operands, u \in Word \/ row[u] \subseteq Entry(vrms[b], u)
  PROVE  HereIn(row, u) \subseteq GetRange(b, u)
<1>1. CASE u \in Word
  BY <1>1 DEF HereIn, GetRange
<1>2. CASE u \notin Word /\ vrms[b][u] # NoRange
  BY <1>2 DEF HereIn, GetRange, Entry
<1>3. CASE u \notin Word /\ vrms[b][u] = NoRange
  BY <1>3 DEF HereIn, Entry
<1> QED
  BY <1>1, <1>2, <1>3

LEMMA UnionNameHolds ==
  ASSUME NamesHaveRanges, NEW id \in Ids, NEW R \in Ranges, UnionName(id, R)
  PROVE  /\ R \subseteq ranges'[id]
         /\ \A i \in Ids : ranges[i] \subseteq ranges'[i]
         /\ ~changed' => ~changed /\ ranges' = ranges
<1> DEFINE grown == safeUnion(ranges[id], R)
<1>1. ranges' = [ranges EXCEPT ![id] = grown]
  BY DEF UnionName
<1>2. changed' = (changed \/ grown # ranges[id])
  BY DEF UnionName
<1>3. ranges[id] \in Ranges /\ DOMAIN ranges = Ids /\ ranges = [i \in Ids |-> ranges[i]]
  BY DEF NamesHaveRanges
<1>4. R \subseteq grown /\ ranges[id] \subseteq grown
  BY <1>3, UnionType
<1> HIDE DEF grown
<1>5. ranges'[id] = grown /\ \A i \in Ids \ {id} : ranges'[i] = ranges[i]
  BY <1>1, <1>3
<1>6. ASSUME ~changed' PROVE ~changed /\ ranges' = ranges
  <2>1. ~changed /\ grown = ranges[id]
    BY <1>2, <1>6, Zenon
  <2>2. ranges' = ranges
    BY <1>1, <1>3, <2>1
  <2> QED
    BY <2>1, <2>2, Zenon
<1> QED
  BY <1>4, <1>5, <1>6

-----------------------------------------------------------------------------
(* The reference: larger tables make and pass more values.                 *)
RowBelow(r, t) == \A v \in Values : r[v] \subseteq t[v]

RowsBelow(f, r, t) == \A b \in DOMAIN f.blocks : RowBelow(r[b], t[b])

NamesBelow(n, o) == \A id \in Ids : n[id] \subseteq o[id]

LEMMA HereInBelow ==
  ASSUME NEW r, NEW t, RowBelow(r, t), NEW u \in Operands
  PROVE  HereIn(r, u) \subseteq HereIn(t, u)
BY DEF HereIn, RowBelow, Operands

LEMMA UnderBelow ==
  ASSUME NEW n, NEW o, NamesBelow(n, o), NEW ids \in SUBSET Ids
  PROVE  Under(n, ids) \subseteq Under(o, ids)
BY DEF Under, NamesBelow

LEMMA ImageBelow ==
  ASSUME NEW op, NEW R, NEW Q, NEW S, NEW T, R \subseteq S, Q \subseteq T
  PROVE  Image(op, R, Q) \subseteq Image(op, S, T)
BY DEF Image

LEMMA PassingBelow ==
  ASSUME NEW f, NEW t, IsTerm(f, t), NEW r, NEW w, RowBelow(r, w), NEW b, NEW v \in Values
  PROVE  Passing(t, r, b, v) \subseteq Passing(t, w, b, v)
<1>1. r[v] \subseteq w[v]
  BY DEF RowBelow
<1>2. CASE t.kind = "cond"
  <2>1. HereIn(r, t.l) \subseteq HereIn(w, t.l) /\ HereIn(r, t.r) \subseteq HereIn(w, t.r)
    BY <1>2, HereInBelow DEF IsTerm
  <2> QED
    BY <1>1, <1>2, <2>1 DEF Passing
<1>3. CASE t.kind # "cond"
  BY <1>1, <1>3 DEF Passing
<1> QED
  BY <1>2, <1>3

LEMMA PassingKeeps ==
  ASSUME NEW t, NEW r, NEW b, NEW v
  PROVE  Passing(t, r, b, v) \subseteq r[v]
BY DEF Passing

(* In a function laid out in order, a phi has an operand for every block   *)
(* that enters its own.                                                    *)
LEMMA NoBackEdges ==
  ASSUME NEW f, LaidOut(f), NEW b
  PROVE  Forward(f, b) = Entering(f, b) /\ \A q \in Entering(f, b) : q \in DOMAIN f.blocks /\ q < b
BY DEF LaidOut, Forward, Entering

LEMMA MadeBelow ==
  ASSUME NEW f, LaidOut(f), NEW b \in DOMAIN f.blocks, NEW ins, IsInstr(ins), Makes(ins),
         ins.op = "phi" => \A q \in Forward(f, b) : ins.from[q] \in Operands,
         NEW n, NEW o, NamesBelow(n, o), NEW r, NEW t, RowsBelow(f, r, t)
  PROVE  Made(n, f, r, b, ins) \subseteq Made(o, f, t, b, ins)
<1>1. RowBelow(r[b], t[b])
  BY DEF RowsBelow
<1>2. CASE ins.op \in {"bin", "select"}
  <2>1. /\ HereIn(r[b], ins.l) \subseteq HereIn(t[b], ins.l)
        /\ HereIn(r[b], ins.r) \subseteq HereIn(t[b], ins.r)
    BY <1>1, <1>2, HereInBelow DEF IsInstr
  <2>2. CASE ins.op = "bin"
    <3>1. /\ Made(n, f, r, b, ins) = Image(ins.fn, HereIn(r[b], ins.l), HereIn(r[b], ins.r))
          /\ Made(o, f, t, b, ins) = Image(ins.fn, HereIn(t[b], ins.l), HereIn(t[b], ins.r))
      BY <2>2 DEF Made
    <3> QED
      BY <2>1, <3>1, ImageBelow
  <2>3. CASE ins.op = "select"
    BY <2>1, <2>3 DEF Made
  <2> QED
    BY <1>2, <2>2, <2>3
<1>3. CASE ins.op = "phi"
  <2>1. ASSUME NEW q \in Entering(f, b)
        PROVE  HereIn(r[q], ins.from[q]) \subseteq HereIn(t[q], ins.from[q])
    <3>1. ins.from[q] \in Operands /\ RowBelow(r[q], t[q])
      BY <1>3, NoBackEdges DEF RowsBelow
    <3> QED
      BY <3>1, HereInBelow
  <2> QED
    BY <1>3, <2>1 DEF Made
<1>4. CASE ins.op = "load"
  <2>1. NameOf[ins.val] # NoId => {NameOf[ins.val]} \in SUBSET Ids
    BY <1>4 DEF IsInstr
  <2> QED
    BY <1>4, <2>1, UnderBelow DEF Made
<1>5. CASE ins.op = "mark"
  <2>1. {ins.id} \in SUBSET Ids
    BY <1>5 DEF IsInstr
  <2> QED
    BY <1>5, <2>1, UnderBelow DEF Made
<1>6. CASE ins.op = "call"
  <2>1. Returns[ins.val] \in SUBSET Ids
    BY <1>6 DEF IsInstr
  <2> QED
    BY <1>6, <2>1, UnderBelow DEF Made
<1>7. CASE ins.op = "other"
  BY <1>7 DEF Made
<1> QED
  BY <1>2, <1>3, <1>4, <1>5, <1>6, <1>7 DEF IsInstr, Makes

LEMMA AtPlaceIs ==
  ASSUME NEW n, NEW f, NEW r, NEW b, NEW v, NEW x
  PROVE  x \in AtPlace(n, f, r, b, v) <=>
           \/ \E ins \in Range(f.blocks[b].code) :
                Makes(ins) /\ ins.val = v /\ x \in Made(n, f, r, b, ins)
           \/ \E q \in Entering(f, b) : x \in Passing(f.blocks[q].term, r[q], b, v)
BY DEF AtPlace

(* The instructions of a function.                                         *)
LEMMA CodeOfBlock ==
  ASSUME NEW f, IsFunction(f), NEW b \in DOMAIN f.blocks
  PROVE  /\ IsBlock(f, b) /\ IsTerm(f, f.blocks[b].term)
         /\ DOMAIN f.blocks[b].code = 1 .. Len(f.blocks[b].code)
         /\ \A i \in DOMAIN f.blocks[b].code : IsInstr(f.blocks[b].code[i])
         /\ Range(f.blocks[b].code) = { f.blocks[b].code[i] : i \in DOMAIN f.blocks[b].code }
<1>1. IsBlock(f, b)
  BY DEF IsFunction
<1> QED
  BY <1>1 DEF IsBlock, Range

LEMMA AtPlaceBelow ==
  ASSUME NEW f, IsFunction(f), LaidOut(f), NEW b \in DOMAIN f.blocks, NEW v \in Values,
         NEW n, NEW o, NamesBelow(n, o), NEW r, NEW t, RowsBelow(f, r, t)
  PROVE  AtPlace(n, f, r, b, v) \subseteq AtPlace(o, f, t, b, v)
<1> SUFFICES ASSUME NEW x \in AtPlace(n, f, r, b, v) PROVE x \in AtPlace(o, f, t, b, v)
  OBVIOUS
<1>1. CASE \E ins \in Range(f.blocks[b].code) :
             Makes(ins) /\ ins.val = v /\ x \in Made(n, f, r, b, ins)
  <2>1. PICK ins \in Range(f.blocks[b].code) :
               Makes(ins) /\ ins.val = v /\ x \in Made(n, f, r, b, ins)
    BY <1>1
  <2>2. /\ IsInstr(ins)
        /\ ins.op = "phi" => \A q \in Forward(f, b) : ins.from[q] \in Operands
    BY <2>1, CodeOfBlock DEF IsBlock
  <2>3. x \in Made(o, f, t, b, ins)
    BY <2>1, <2>2, MadeBelow
  <2> QED
    BY <2>1, <2>3, AtPlaceIs
<1>2. CASE \E q \in Entering(f, b) : x \in Passing(f.blocks[q].term, r[q], b, v)
  <2>1. PICK q \in Entering(f, b) : x \in Passing(f.blocks[q].term, r[q], b, v)
    BY <1>2
  <2>2. q \in DOMAIN f.blocks
    BY DEF Entering
  <2>3. IsTerm(f, f.blocks[q].term) /\ RowBelow(r[q], t[q])
    BY <2>2, CodeOfBlock DEF RowsBelow
  <2>4. x \in Passing(f.blocks[q].term, t[q], b, v)
    BY <2>1, <2>3, PassingBelow
  <2> QED
    BY <2>4, AtPlaceIs
<1> QED
  BY <1>1, <1>2, AtPlaceIs

(* The tables after 0 to n applications.                                   *)
Applied(f, p, n) == f = [k \in 0 .. n |-> IF k = 0 THEN NoValues(p) ELSE Advance(p, f[k - 1])]

LEMMA AppliedExist == \A p : \A n \in Nat : \E f : Applied(f, p, n)
<1> SUFFICES ASSUME NEW p PROVE \A n \in Nat : \E f : Applied(f, p, n)
  OBVIOUS
<1> DEFINE T == { n \in Nat : \E f : Applied(f, p, n) }
<1>1. 0 \in T
  <2> DEFINE f == [k \in 0 .. 0 |-> NoValues(p)]
  <2>1. f = [k \in 0 .. 0 |-> IF k = 0 THEN NoValues(p) ELSE Advance(p, f[k - 1])]
    OBVIOUS
  <2> HIDE DEF f
  <2>2. Applied(f, p, 0)
    BY <2>1 DEF Applied
  <2> QED
    BY <2>2
<1>2. ASSUME NEW n \in T PROVE n + 1 \in T
  <2>1. PICK f : f = [k \in 0 .. n |-> IF k = 0 THEN NoValues(p) ELSE Advance(p, f[k - 1])]
    BY DEF Applied
  <2> DEFINE g == [k \in 0 .. n + 1 |-> IF k = n + 1 THEN Advance(p, f[n]) ELSE f[k]]
  <2>2. \A k \in 0 .. n + 1 : g[k] = IF k = 0 THEN NoValues(p) ELSE Advance(p, g[k - 1])
    <3> TAKE k \in 0 .. n + 1
    <3>1. CASE k = n + 1
      <4>1. k # 0 /\ k - 1 = n /\ n \in 0 .. n + 1 /\ n # n + 1
        BY <3>1
      <4>2. g[k] = Advance(p, f[n]) /\ g[k - 1] = f[n]
        BY <3>1, <4>1
      <4> QED
        BY <4>1, <4>2
    <3>2. CASE k # n + 1
      <4>1. k \in 0 .. n /\ (k # 0 => k - 1 \in 0 .. n /\ k - 1 \in 0 .. n + 1 /\ k - 1 # n + 1)
        BY <3>2
      <4>2. f[k] = IF k = 0 THEN NoValues(p) ELSE Advance(p, f[k - 1])
        BY <2>1, <4>1
      <4>3. g[k] = f[k] /\ (k # 0 => g[k - 1] = f[k - 1])
        BY <3>2, <4>1
      <4> QED
        BY <4>2, <4>3
    <3> QED
      BY <3>1, <3>2
  <2>3. g = [k \in 0 .. n + 1 |-> g[k]]
    OBVIOUS
  <2> HIDE DEF g
  <2>4. Applied(g, p, n + 1)
    BY <2>2, <2>3 DEF Applied
  <2> QED
    BY <2>4
<1> HIDE DEF T
<1>3. T = Nat
  <2>1. T \in SUBSET Nat
    BY DEF T
  <2> QED
    BY <1>1, <1>2, <2>1, Counting
<1> QED
  BY <1>3 DEF T

LEMMA CollectedIs ==
  ASSUME NEW p
  PROVE  \E f : /\ Collected(p) = f[Depth] /\ f[0] = NoValues(p)
                /\ \A k \in 1 .. Depth : f[k] = CollectStep(p, f[k - 1])
<1> DEFINE T == CHOOSE f : Applied(f, p, Depth)
<1>1. Depth \in Nat
  BY CollectedAssumption
<1>2. Applied(T, p, Depth)
  BY <1>1, AppliedExist
<1>3. Collected(p) = T[Depth]
  BY DEF Collected, Applied
<1> HIDE DEF T
<1>4. T[0] = NoValues(p)
  BY <1>1, <1>2 DEF Applied
<1>5. ASSUME NEW k \in 1 .. Depth PROVE T[k] = CollectStep(p, T[k - 1])
  <2>1. k \in 0 .. Depth /\ k # 0
    BY <1>1
  <2>2. T[k] = Advance(p, T[k - 1])
    BY <1>2, <2>1 DEF Applied
  <2> QED
    BY <2>2 DEF Advance
<1> QED
  BY <1>3, <1>4, <1>5

(* An application adds to the tables, and what it adds the instructions    *)
(* make of them.                                                           *)
LEMMA StepAt ==
  ASSUME NEW p, NEW s, NEW m \in Modules, NEW g \in DOMAIN p.code[m],
         NEW b \in DOMAIN p.code[m][g].blocks, NEW v \in Values
  PROVE  CollectStep(p, s).at[m][g][b][v] =
           s.at[m][g][b][v] \cup AtPlace(s.names, p.code[m][g], s.at[m][g], b, v)
BY DEF CollectStep

LEMMA StepNames ==
  ASSUME NEW p, NEW s, NEW id \in Ids
  PROVE  CollectStep(p, s).names[id] = s.names[id] \cup UNION { FromModule(p, s, m, id) : m \in Modules }
BY DEF CollectStep

LEMMA SupportedStart == ASSUME NEW p PROVE Supported(p, NoValues(p))
BY DEF Supported, NoValues

LEMMA ProgramParts ==
  ASSUME NEW p \in Programs, Ordered(p), NEW m \in Modules, NEW g \in DOMAIN p.code[m]
  PROVE  IsFunction(p.code[m][g]) /\ LaidOut(p.code[m][g]) /\ DefinedFirst(p.code[m][g])
BY ProgramAssumption DEF Ordered

LEMMA SupportedStep ==
  ASSUME NEW p \in Programs, Ordered(p), NEW s, Supported(p, s)
  PROVE  Supported(p, CollectStep(p, s))
<1> DEFINE t == CollectStep(p, s)
<1> SUFFICES ASSUME NEW m \in Modules, NEW g \in DOMAIN p.code[m],
                    NEW b \in DOMAIN p.code[m][g].blocks, NEW v \in Values
             PROVE  t.at[m][g][b][v] \subseteq AtPlace(t.names, p.code[m][g], t.at[m][g], b, v)
  BY DEF Supported
<1> DEFINE f == p.code[m][g]
<1>1. IsFunction(f) /\ LaidOut(f)
  BY ProgramParts
<1>2. NamesBelow(s.names, t.names)
  BY StepNames DEF NamesBelow
<1>3. RowsBelow(f, s.at[m][g], t.at[m][g])
  BY StepAt DEF RowsBelow, RowBelow
<1>4. t.at[m][g][b][v] = s.at[m][g][b][v] \cup AtPlace(s.names, f, s.at[m][g], b, v)
  BY StepAt
<1>5. s.at[m][g][b][v] \subseteq AtPlace(s.names, f, s.at[m][g], b, v)
  BY DEF Supported
<1>6. AtPlace(s.names, f, s.at[m][g], b, v) \subseteq AtPlace(t.names, f, t.at[m][g], b, v)
  <2> HIDE DEF t
  <2> QED
    BY <1>1, <1>2, <1>3, AtPlaceBelow
<1> QED
  BY <1>4, <1>5, <1>6

(* Nothing leaves the ranges in an application, once they hold all that    *)
(* the instructions record.                                                *)
LEMMA FromModuleWithin ==
  ASSUME NEW s, NEW m \in Modules, ModuleRecorded(s, m), NEW id \in Ids,
         \A e \in prog.inits[m] : e[2] \in ranges[e[1]],
         prog \in Programs
  PROVE  FromModule(prog, s, m, id) \subseteq ranges[id]
<1>1. { e[2] : e \in { o \in prog.inits[m] : o[1] = id } } \subseteq ranges[id]
  OBVIOUS
<1>2. ASSUME NEW g \in DOMAIN prog.code[m]
      PROVE  FromFunction(s.names, prog.code[m][g], s.at[m][g], id) \subseteq ranges[id]
  <2> DEFINE f == prog.code[m][g]
  <2>1. IsFunction(f)
    BY ProgramAssumption
  <2>2. ASSUME NEW b \in DOMAIN f.blocks, NEW ins \in Range(f.blocks[b].code)
        PROVE  Recorded(s.names, s.at[m][g][b], ins, id) \subseteq ranges[id]
    <3>1. PICK i \in DOMAIN f.blocks[b].code : ins = f.blocks[b].code[i]
      BY DEF Range
    <3> QED
      BY <3>1 DEF ModuleRecorded, FunctionRecorded, BlockRecorded, InstrRecorded
  <2> QED
    BY <2>2 DEF FromFunction
<1> QED
  BY <1>1, <1>2 DEF FromModule

LEMMA WithinStep ==
  ASSUME NEW s, Within(s), \A m \in Modules : ModuleRecorded(s, m), prog \in Programs,
         \A m \in Modules : \A e \in prog.inits[m] : e[2] \in ranges[e[1]]
  PROVE  Within(CollectStep(prog, s))
<1> SUFFICES ASSUME NEW id \in Ids \ Sources PROVE CollectStep(prog, s).names[id] \subseteq ranges[id]
  BY DEF Within
<1>1. \A m \in Modules : FromModule(prog, s, m, id) \subseteq ranges[id]
  BY FromModuleWithin
<1> QED
  BY <1>1, StepNames DEF Within

LEMMA WithinStart == Within(NoValues(prog))
BY DEF Within, NoValues

-----------------------------------------------------------------------------
(* The instructions of a program, by their places.                         *)
IsSite(p, m, g, b, i) ==
  /\ m \in Modules /\ g \in DOMAIN p.code[m]
  /\ b \in DOMAIN p.code[m][g].blocks /\ i \in DOMAIN p.code[m][g].blocks[b].code

LEMMA SiteIs ==
  ASSUME NEW p, NEW m, NEW g, NEW b, NEW i, IsSite(p, m, g, b, i)
  PROVE  <<m, g, b, i>> \in Sites(p) /\ InstrAt(p, <<m, g, b, i>>) = p.code[m][g].blocks[b].code[i]
BY DEF Sites, InstrAt, IsSite

IsKnown(p, f, b, ins) ==
  /\ ins.op = "bin" => ins.fn # "urem"
  /\ ins.op = "load" => NameOf[ins.val] # NoId
  /\ ins.op = "call" => (ins.passes = {} => Returns[ins.val] = {})
  /\ Reads(f, b, ins) \cap MarkValues(p) = {}
  /\ ins.op = "mark" => ins.val \in MarkValues(p)
  /\ Writes(ins) \cap Sources = {}

LEMMA KnownInstr ==
  ASSUME NEW p, Ordered(p), NEW m, NEW g, NEW b, NEW i, IsSite(p, m, g, b, i)
  PROVE  IsKnown(p, p.code[m][g], b, p.code[m][g].blocks[b].code[i])
<1> DEFINE f == p.code[m][g]
           ins == f.blocks[b].code[i]
<1> DEFINE x == <<m, g, b, i>>
<1>1. x \in Sites(p) /\ InstrAt(p, x) = ins
  BY SiteIs
<1>2. p.code[x[1]][x[2]] = f /\ x[3] = b
  OBVIOUS
<1> HIDE DEF x
<1>3. Known(p, x) /\ Writes(InstrAt(p, x)) \cap Sources = {}
  BY <1>1 DEF Ordered, SourcesOutside
<1>4. ins.op = "mark" => ins.val \in MarkValues(p)
  BY <1>1 DEF MarkValues
<1> QED
  BY <1>1, <1>2, <1>3, <1>4 DEF Known, IsKnown

MakesValue(p, m, g, b, i, v) ==
  /\ IsSite(p, m, g, b, i)
  /\ Makes(p.code[m][g].blocks[b].code[i]) /\ p.code[m][g].blocks[b].code[i].val = v

MadeAt(p, v, x) == x \in Sites(p) /\ Makes(InstrAt(p, x)) /\ InstrAt(p, x).val = v

LEMMA MakesAt ==
  ASSUME NEW p, NEW v, NEW m, NEW g, NEW b, NEW i, MakesValue(p, m, g, b, i, v)
  PROVE  MadeAt(p, v, <<m, g, b, i>>)
<1>1. IsSite(p, m, g, b, i)
  BY DEF MakesValue
<1>2. <<m, g, b, i>> \in Sites(p) /\ InstrAt(p, <<m, g, b, i>>) = p.code[m][g].blocks[b].code[i]
  BY <1>1, SiteIs
<1> QED
  BY <1>2 DEF MakesValue, MadeAt

LEMMA OneMaker ==
  ASSUME NEW p, Ordered(p), NEW v, NEW m, NEW g, NEW b, NEW i, MakesValue(p, m, g, b, i, v),
         NEW k, NEW h, NEW c, NEW j, MakesValue(p, k, h, c, j, v)
  PROVE  m = k /\ g = h /\ b = c /\ i = j
<1>1. MadeAt(p, v, <<m, g, b, i>>) /\ MadeAt(p, v, <<k, h, c, j>>)
  BY MakesAt
<1>2. \A x, y : MadeAt(p, v, x) /\ MadeAt(p, v, y) => x = y
  BY DEF Ordered, MadeOnce, MadeAt
<1>3. <<m, g, b, i>> = <<k, h, c, j>>
  BY <1>1, <1>2, Zenon
<1> QED
  BY <1>3

(* The place of the pass in an ordered program.                            *)
LEMMA PlaceParts ==
  ASSUME TypeInv, InBlock, Ordered(prog)
  PROVE  /\ prog \in Programs /\ mod \in Modules /\ fn \in DOMAIN prog.code[mod] /\ F = prog.code[mod][fn]
         /\ Functions = prog.code[mod]
         /\ blk \in DOMAIN F.blocks /\ Code = F.blocks[blk].code
         /\ DOMAIN F.blocks = 1 .. Len(F.blocks) /\ Len(F.blocks) \in Nat
         /\ DOMAIN Code = 1 .. Len(Code) /\ Len(Code) \in Nat
         /\ pos \in 1 .. Len(Code) + 1
         /\ vrms \in Rows(DOMAIN F.blocks) /\ NamesHaveRanges
         /\ IsFunction(F) /\ LaidOut(F) /\ DefinedFirst(F)
<1>1. prog \in Programs /\ mod \in Modules /\ Functions = prog.code[mod] /\ F = prog.code[mod][fn]
  BY DEF TypeInv, PlaceInv, Functions, F
<1>2. DOMAIN prog.code[mod] = 1 .. Len(prog.code[mod]) /\ Len(prog.code[mod]) \in Nat
  BY <1>1, ProgramAssumption
<1>3. fn \in DOMAIN prog.code[mod]
  BY <1>1, <1>2 DEF TypeInv, PlaceInv, InBlock
<1>4. IsFunction(F) /\ LaidOut(F) /\ DefinedFirst(F)
  BY <1>1, <1>3, ProgramParts
<1>5. IsList(F.blocks) /\ blk \in DOMAIN F.blocks /\ IsList(Code)
  BY InBlockFacts DEF TypeInv
<1> QED
  BY <1>1, <1>3, <1>4, <1>5 DEF TypeInv, EntriesOK, NamesOK, Code

LEMMA InstrParts ==
  ASSUME TypeInv, Ordered(prog), NEW ops, At(ops)
  PROVE  /\ InBlock /\ left = {} /\ pos \in DOMAIN Code /\ Instr = Code[pos] /\ Instr.op \in ops
         /\ IsInstr(Instr)
         /\ Reads(F, blk, Instr) \cap MarkValues(prog) = {}
         /\ Instr.op = "bin" => Instr.fn # "urem"
         /\ Instr.op = "load" => NameOf[Instr.val] # NoId
         /\ Instr.op = "call" => (Instr.passes = {} => Returns[Instr.val] = {})
         /\ Instr.op = "mark" => Instr.val \in MarkValues(prog)
         /\ Writes(Instr) \cap Sources = {}
         /\ Instr.op = "phi" => \A q \in Entering(F, blk) : Instr.from[q] \in Operands
<1>1. InBlock /\ left = {} /\ pos <= Len(Code) /\ Instr.op \in ops
  BY DEF At
<1>2. pos \in DOMAIN Code /\ Instr = Code[pos]
  BY <1>1, PlaceParts DEF Instr
<1>3. IsInstr(Instr)
  BY InstrType DEF TypeInv
<1>4. /\ prog \in Programs /\ mod \in Modules /\ fn \in DOMAIN prog.code[mod] /\ F = prog.code[mod][fn]
      /\ blk \in DOMAIN F.blocks /\ Code = F.blocks[blk].code /\ IsFunction(F) /\ LaidOut(F)
  BY <1>1, PlaceParts
<1>5. IsKnown(prog, F, blk, Instr)
  <2>1. IsSite(prog, mod, fn, blk, pos)
    BY <1>2, <1>4 DEF IsSite
  <2>2. IsKnown(prog, prog.code[mod][fn], blk, prog.code[mod][fn].blocks[blk].code[pos])
    BY <2>1, KnownInstr
  <2> QED
    BY <1>2, <1>4, <2>2
<1>6. Instr.op = "phi" => \A q \in Entering(F, blk) : Instr.from[q] \in Operands
  <2>1. IsBlock(F, blk)
    BY <1>4, CodeOfBlock
  <2>2. Forward(F, blk) = Entering(F, blk)
    BY <1>4, NoBackEdges
  <2> QED
    BY <1>2, <1>4, <2>1, <2>2, PlaceParts, <1>1 DEF IsBlock
<1> QED
  BY <1>1, <1>2, <1>3, <1>5, <1>6 DEF IsKnown

(* In the current block, the entry of a value holds all it can be, once    *)
(* the predecessors are merged and the instruction that makes it, if it is *)
(* here, is handled.                                                       *)
LEMMA ValueHeld ==
  ASSUME TypeInv, Ordered(prog), InBlock, left = {}, NEW s, Quiet(s), PlaceHeld(s),
         NEW u \in Kept(prog), \A i \in DOMAIN Code : Makes(Code[i]) /\ Code[i].val = u => i < pos
  PROVE  s.at[mod][fn][blk][u] \subseteq Entry(vrms[blk], u)
<1> DEFINE t == s.at[mod][fn]
<1> SUFFICES ASSUME NEW x \in t[blk][u] PROVE x \in Entry(vrms[blk], u)
  OBVIOUS
<1>1. /\ mod \in Modules /\ fn \in DOMAIN prog.code[mod] /\ F = prog.code[mod][fn]
      /\ blk \in DOMAIN F.blocks /\ Code = F.blocks[blk].code
  BY PlaceParts
<1>2. u \in Values
  BY DEF Kept
<1>3. x \in AtPlace(s.names, F, t, blk, u)
  BY <1>1, <1>2 DEF Quiet, Supported
<1> HIDE DEF t
<1>4. CASE \E ins \in Range(Code) : Makes(ins) /\ ins.val = u /\ x \in Made(s.names, F, t, blk, ins)
  <2>1. PICK i \in DOMAIN Code : Makes(Code[i]) /\ Code[i].val = u /\ x \in Made(s.names, F, t, blk, Code[i])
    BY <1>4 DEF Range
  <2> QED
    BY <2>1 DEF PlaceHeld, ValuesHeld, t
<1>5. CASE \E q \in Entering(F, blk) : x \in Passing(F.blocks[q].term, t[q], blk, u)
  <2>1. PICK q \in Entering(F, blk) : x \in Passing(F.blocks[q].term, t[q], blk, u)
    BY <1>5
  <2>2. x \in t[q][u]
    BY <2>1, PassingKeeps
  <2> QED
    BY <2>1, <2>2 DEF PlaceHeld, PredsHeld, t
<1> QED
  BY <1>1, <1>3, <1>4, <1>5, AtPlaceIs

LEMMA OperandHeld ==
  ASSUME TypeInv, Ordered(prog), NEW ops, At(ops), "phi" \notin ops, NEW s, Quiet(s), PlaceHeld(s),
         NEW u \in Operands, u \in Reads(F, blk, Instr)
  PROVE  HereIn(s.at[mod][fn][blk], u) \subseteq GetRange(blk, u)
<1>1. CASE u \in Word
  BY <1>1, GetRangeHolds
<1>2. CASE u \notin Word
  <2>1. u \in Kept(prog)
    BY <1>2, InstrParts DEF Kept, Operands
  <2>2. ASSUME NEW i \in DOMAIN Code, Makes(Code[i]), Code[i].val = u PROVE i < pos
    <3>1. InBlock /\ blk \in DOMAIN F.blocks /\ Code = F.blocks[blk].code /\ DefinedFirst(F)
          /\ DOMAIN Code = 1 .. Len(Code) /\ Len(Code) \in Nat /\ DOMAIN F.blocks = 1 .. Len(F.blocks)
      BY InstrParts, PlaceParts
    <3>2. MadeFirst(F, blk, i, u)
      BY <2>2, <3>1 DEF DefinedFirst
    <3>3. pos \in DOMAIN Code /\ Instr = Code[pos]
      BY InstrParts
    <3>4. blk \in 1 .. blk
      BY <3>1
    <3>5. ~(pos <= i)
      BY <3>1, <3>2, <3>3, <3>4 DEF MadeFirst
    <3> QED
      BY <3>1, <3>3, <3>5
  <2>3. s.at[mod][fn][blk][u] \subseteq Entry(vrms[blk], u)
    BY <2>1, <2>2, InstrParts, ValueHeld
  <2> QED
    BY <2>3, GetRangeHolds
<1> QED
  BY <1>1, <1>2

(* Values not yet made are not used.                                       *)
LEMMA UnmadeUnread ==
  ASSUME TypeInv, Ordered(prog), InBlock, NEW v, IsUnmade(v)
  PROVE  /\ \A q \in DOMAIN F.blocks : q < blk => v \notin TermReads(F.blocks[q].term)
         /\ pos \in DOMAIN Code => v \notin Reads(F, blk, Code[pos])
<1>1. PICK b \in DOMAIN F.blocks : \E i \in DOMAIN F.blocks[b].code :
             Later(b, i) /\ Makes(F.blocks[b].code[i]) /\ F.blocks[b].code[i].val = v
  BY DEF IsUnmade
<1>2. PICK i \in DOMAIN F.blocks[b].code :
             Later(b, i) /\ Makes(F.blocks[b].code[i]) /\ F.blocks[b].code[i].val = v
  BY <1>1
<1>3. /\ blk \in DOMAIN F.blocks /\ Code = F.blocks[blk].code /\ DefinedFirst(F)
      /\ DOMAIN F.blocks = 1 .. Len(F.blocks) /\ Len(F.blocks) \in Nat
  BY PlaceParts
<1>4. MadeFirst(F, b, i, v)
  BY <1>2, <1>3 DEF DefinedFirst
<1>5. ASSUME NEW q \in DOMAIN F.blocks, q < blk PROVE v \notin TermReads(F.blocks[q].term)
  <2>1. q \in 1 .. b /\ q < b
    BY <1>2, <1>3, <1>5 DEF Later
  <2> QED
    BY <1>4, <2>1 DEF MadeFirst
<1>6. ASSUME pos \in DOMAIN Code PROVE v \notin Reads(F, blk, Code[pos])
  <2>1. blk \in 1 .. b /\ (blk < b \/ pos <= i)
    BY <1>2, <1>3 DEF Later
  <2> QED
    BY <1>3, <1>4, <1>6, <2>1 DEF MadeFirst
<1> QED
  BY <1>5, <1>6

LEMMA InstrUnmade ==
  ASSUME TypeInv, Ordered(prog), NEW ops, At(ops), Makes(Instr)
  PROVE  IsUnmade(Instr.val)
<1>1. /\ blk \in DOMAIN F.blocks /\ Code = F.blocks[blk].code
      /\ pos \in DOMAIN Code /\ Instr = Code[pos] /\ DOMAIN Code = 1 .. Len(Code)
  BY InstrParts, PlaceParts
<1>2. Later(blk, pos)
  BY <1>1 DEF Later
<1> QED
  BY <1>1, <1>2 DEF IsUnmade

(* A value that an instruction looks up by its names has no entry yet.     *)
LEMMA LookedUp ==
  ASSUME TypeInv, Ordered(prog), Unmade, NEW ops, At(ops), Makes(Instr)
  PROVE  GetRange(blk, Instr.val) = Lookup(Instr.val) /\ Instr.val \in Values
<1>1. Instr.val \in Values /\ Instr.val \notin Word
  BY InstrParts, ReferenceAssumption DEF IsInstr, Makes
<1>2. vrms[blk][Instr.val] = NoRange
  BY <1>1, InstrParts, PlaceParts, InstrUnmade DEF Unmade
<1> QED
  BY <1>1, <1>2 DEF GetRange

ComputeOps == {"bin", "select", "phi", "load", "mark", "other"}

(* What the pass computes for an instruction holds what it makes.          *)
LEMMA PhiHolds ==
  ASSUME TypeInv, Ordered(prog), At({"phi"}), NEW s, PlaceHeld(s)
  PROVE  UNION { HereIn(s.at[mod][fn][q], Instr.from[q]) : q \in Entering(F, blk) } \subseteq PhiRange
<1> DEFINE family == [q \in Entering(F, blk) |-> GetRange(q, Instr.from[q])]
<1>1. /\ InBlock /\ Instr.op = "phi"
      /\ Reads(F, blk, Instr) \cap MarkValues(prog) = {}
      /\ \A q \in Entering(F, blk) : Instr.from[q] \in Operands
  BY InstrParts
<1>2. /\ LaidOut(F) /\ vrms \in Rows(DOMAIN F.blocks) /\ NamesHaveRanges
      /\ DOMAIN F.blocks = 1 .. Len(F.blocks) /\ Len(F.blocks) \in Nat
  BY <1>1, PlaceParts
<1>3. Forward(F, blk) = Entering(F, blk) /\ \A q \in Entering(F, blk) : q \in DOMAIN F.blocks /\ q < blk
  BY <1>2, NoBackEdges
<1>4. ASSUME NEW q \in Entering(F, blk)
      PROVE  HereIn(s.at[mod][fn][q], Instr.from[q]) \subseteq GetRange(q, Instr.from[q])
  <2>1. Instr.from[q] \in Operands /\ Instr.from[q] \notin MarkValues(prog)
    BY <1>1 DEF Reads
  <2>2. Instr.from[q] \in Word \/ Instr.from[q] \in Kept(prog)
    BY <2>1 DEF Operands, Kept
  <2>3. Instr.from[q] \in Word \/ s.at[mod][fn][q][Instr.from[q]] \subseteq Entry(vrms[q], Instr.from[q])
    BY <1>1, <1>3, <2>2 DEF PlaceHeld, BlocksHeld
  <2> QED
    BY <2>1, <2>3, GetRangeHolds
<1>5. \A q \in Entering(F, blk) : GetRange(q, Instr.from[q]) \in Ranges
  BY <1>1, <1>2, <1>3, GetRangeType
<1>6. IsFiniteSet(DOMAIN family) /\ \A q \in DOMAIN family : family[q] \in Ranges
  <2>1. IsFiniteSet(DOMAIN F.blocks)
    BY <1>2, FS_Interval
  <2>2. Entering(F, blk) \subseteq DOMAIN F.blocks
    BY <1>3
  <2> QED
    BY <1>5, <2>1, <2>2, FS_Subset
<1>7. PhiRange = UnionOver(EmptySet, family)
  BY <1>3 DEF PhiRange
<1>8. \A q \in Entering(F, blk) : family[q] \subseteq PhiRange
  <2>1. DOMAIN family = Entering(F, blk)
    OBVIOUS
  <2> HIDE DEF family
  <2>2. HoldsAll(EmptySet, family, DOMAIN family, UnionOver(EmptySet, family))
    BY <1>6, UnionOverHolds, SomeRanges
  <2> QED
    BY <1>7, <2>1, <2>2 DEF HoldsAll
<1> QED
  BY <1>4, <1>8

LEMMA ComputedHolds ==
  ASSUME TypeInv, Ordered(prog), Unmade, At(ComputeOps), NEW s, Quiet(s), PlaceHeld(s),
         Instr.val \in Kept(prog)
  PROVE  Made(s.names, F, s.at[mod][fn], blk, Instr) \subseteq Computed
<1> DEFINE row == s.at[mod][fn][blk]
<1>1. /\ InBlock /\ Instr.op \in ComputeOps /\ IsInstr(Instr) /\ Makes(Instr)
      /\ Instr.op = "bin" => Instr.fn # "urem"
      /\ Instr.op = "load" => NameOf[Instr.val] # NoId
      /\ Instr.op # "mark"
  BY InstrParts DEF Kept, Makes, ComputeOps
<1>2. /\ NamesHaveRanges /\ vrms \in Rows(DOMAIN F.blocks) /\ blk \in DOMAIN F.blocks
  BY <1>1, PlaceParts
<1>3. ASSUME Instr.op \in {"bin", "select"}
      PROVE  /\ GetRange(blk, Instr.l) \in Ranges /\ GetRange(blk, Instr.r) \in Ranges
             /\ HereIn(row, Instr.l) \subseteq GetRange(blk, Instr.l)
             /\ HereIn(row, Instr.r) \subseteq GetRange(blk, Instr.r)
  <2>1. /\ Instr.l \in Operands /\ Instr.l \in Reads(F, blk, Instr)
        /\ Instr.r \in Operands /\ Instr.r \in Reads(F, blk, Instr)
    <3>1. Instr.op = "bin" \/ Instr.op = "select"
      BY <1>3
    <3>2. Reads(F, blk, Instr) = {Instr.l, Instr.r}
      BY <3>1 DEF Reads
    <3>3. Instr.l \in Operands /\ Instr.r \in Operands
      BY <1>1, <3>1 DEF IsInstr
    <3> QED
      BY <3>2, <3>3
  <2>2. At({"bin", "select"}) /\ "phi" \notin {"bin", "select"}
    BY <1>1, <1>3 DEF At
  <2>3. HereIn(row, Instr.l) \subseteq GetRange(blk, Instr.l)
    BY <2>1, <2>2, OperandHeld
  <2>4. HereIn(row, Instr.r) \subseteq GetRange(blk, Instr.r)
    BY <2>1, <2>2, OperandHeld
  <2> QED
    BY <1>2, <2>1, <2>3, <2>4, GetRangeType
<1>4. CASE Instr.op = "bin"
  <2> DEFINE I == Image(Instr.fn, GetRange(blk, Instr.l), GetRange(blk, Instr.r))
  <2>1. Made(s.names, F, s.at[mod][fn], blk, Instr) = Image(Instr.fn, HereIn(row, Instr.l), HereIn(row, Instr.r))
    BY <1>4 DEF Made
  <2>2. Image(Instr.fn, HereIn(row, Instr.l), HereIn(row, Instr.r)) \subseteq I
    BY <1>3, <1>4, ImageBelow
  <2>3. I \in SUBSET Word
    BY <1>1, <1>3, <1>4, ImageType DEF IsInstr
  <2>4. Computed = Hull(I)
    BY <1>1, <1>4 DEF Computed, BinaryOp
  <2> HIDE DEF I, row
  <2>5. I \subseteq Hull(I)
    BY <2>3, HullType
  <2> QED
    BY <2>1, <2>2, <2>4, <2>5
<1>5. CASE Instr.op = "select"
  <2>1. Made(s.names, F, s.at[mod][fn], blk, Instr) = HereIn(row, Instr.l) \cup HereIn(row, Instr.r)
    BY <1>5 DEF Made
  <2>2. Computed = safeUnion(GetRange(blk, Instr.l), GetRange(blk, Instr.r))
    BY <1>5 DEF Computed
  <2> HIDE DEF row
  <2> QED
    BY <1>3, <1>5, <2>1, <2>2, UnionType
<1>6. CASE Instr.op = "phi"
  <2>1. At({"phi"})
    BY <1>6 DEF At
  <2>2. Made(s.names, F, s.at[mod][fn], blk, Instr) =
          UNION { HereIn(s.at[mod][fn][q], Instr.from[q]) : q \in Entering(F, blk) }
    BY <1>6 DEF Made
  <2>3. Computed = PhiRange
    BY <1>6 DEF Computed
  <2> QED
    BY <2>1, <2>2, <2>3, PhiHolds
<1>7. CASE Instr.op = "load"
  <2> DEFINE v == Instr.val
  <2>1. Made(s.names, F, s.at[mod][fn], blk, Instr) = Under(s.names, {NameOf[v]})
    BY <1>1, <1>7 DEF Made
  <2>2. Computed = Lookup(v) /\ v \in Values
    BY <1>1, <1>7, LookedUp DEF Computed
  <2>3. {NameOf[v]} \in SUBSET (Returns[v] \cup ({NameOf[v]} \ {NoId}))
    BY <1>1, <1>7
  <2> DEFINE ids == {NameOf[v]}
  <2>4. Within(s)
    BY DEF Quiet
  <2> HIDE DEF v, ids
  <2>5. Under(s.names, ids) \subseteq Lookup(v)
    BY <1>2, <2>2, <2>3, <2>4, UnderLookup DEF ids
  <2> QED
    BY <2>1, <2>2, <2>5 DEF ids
<1>8. CASE Instr.op = "other"
  BY <1>8 DEF Made, Computed, FullSet
<1> QED
  BY <1>1, <1>4, <1>5, <1>6, <1>7, <1>8 DEF ComputeOps

-----------------------------------------------------------------------------
(* Entries grow within a function.                                         *)
RowsGrow == \A b \in DOMAIN F.blocks : \A v \in Values : Entry(vrms[b], v) \subseteq Entry(vrms'[b], v)

Staying == UNCHANGED <<prog, phase, mod, fn, blk, ranges>>

LEMMA StayingPlace ==
  ASSUME Staying
  PROVE  UNCHANGED <<prog, mod, fn, blk, ranges, Functions, F, Code, InBlock>>
BY SamePlace DEF Staying

LEMMA BlocksKept ==
  ASSUME NEW s, BlocksHeld(s), BlocksRecorded(s), Staying, RowsGrow
  PROVE  BlocksHeld(s)' /\ BlocksRecorded(s)'
<1>1. UNCHANGED <<prog, mod, fn, blk, ranges, F>>
  BY StayingPlace
<1>2. ASSUME NEW b \in DOMAIN F.blocks, b < blk, NEW v \in Kept(prog)
      PROVE  s.at[mod][fn][b][v] \subseteq Entry(vrms'[b], v)
  BY <1>2 DEF BlocksHeld, RowsGrow, Kept
<1>3. BlocksHeld(s)'
  BY <1>1, <1>2 DEF BlocksHeld
<1>4. BlocksRecorded(s)'
  BY <1>1 DEF BlocksRecorded, BlockRecorded, InstrRecorded
<1> QED
  BY <1>3, <1>4

LEMMA PredsKept ==
  ASSUME NEW s, PredsHeld(s), Staying, RowsGrow, left' = left, blk \in DOMAIN F.blocks
  PROVE  PredsHeld(s)'
<1>1. UNCHANGED <<prog, mod, fn, blk, F>>
  BY StayingPlace
<1>2. ASSUME NEW q \in Entering(F, blk) \ left, NEW v \in Kept(prog)
      PROVE  s.at[mod][fn][q][v] \subseteq Entry(vrms'[blk], v)
  BY <1>2 DEF PredsHeld, RowsGrow, Kept
<1> QED
  BY <1>1, <1>2 DEF PredsHeld

LEMMA ValuesKept ==
  ASSUME NEW s, ValuesHeld(s), InstrsRecorded(s), Staying, RowsGrow, pos' = pos, blk \in DOMAIN F.blocks
  PROVE  ValuesHeld(s)' /\ InstrsRecorded(s)'
<1>1. UNCHANGED <<prog, mod, fn, blk, ranges, F, Code>>
  BY StayingPlace
<1>2. ASSUME NEW i \in DOMAIN Code, i < pos, Makes(Code[i]), Code[i].val \in Kept(prog)
      PROVE  Made(s.names, F, s.at[mod][fn], blk, Code[i]) \subseteq Entry(vrms'[blk], Code[i].val)
  BY <1>2 DEF ValuesHeld, RowsGrow, Kept
<1>3. ValuesHeld(s)'
  BY <1>1, <1>2 DEF ValuesHeld
<1>4. InstrsRecorded(s)'
  BY <1>1 DEF InstrsRecorded, InstrRecorded
<1> QED
  BY <1>3, <1>4

(* An instruction is handled: it is recorded and its value is held.        *)
LEMMA InstrHeld ==
  ASSUME TypeInv, Ordered(prog), NEW ops, At(ops), NEW s, PlaceHeld(s),
         Staying, RowsGrow, left' = left, pos' = pos + 1, handled' = {},
         Makes(Instr) /\ Instr.val \in Kept(prog) =>
           Made(s.names, F, s.at[mod][fn], blk, Instr) \subseteq Entry(vrms'[blk], Instr.val),
         InstrRecorded(s, mod, fn, blk, pos)
  PROVE  PlaceHeld(s)'
<1>1. UNCHANGED <<prog, mod, fn, blk, ranges, F, Code>>
  BY StayingPlace
<1>2. /\ InBlock /\ blk \in DOMAIN F.blocks /\ pos \in DOMAIN Code /\ Instr = Code[pos]
      /\ DOMAIN Code = 1 .. Len(Code)
  BY InstrParts, PlaceParts
<1>3. BlocksHeld(s) /\ PredsHeld(s) /\ ValuesHeld(s) /\ BlocksRecorded(s) /\ InstrsRecorded(s)
  BY <1>2 DEF PlaceHeld
<1>4. ASSUME NEW i \in DOMAIN Code, i < pos + 1, Makes(Code[i]), Code[i].val \in Kept(prog)
      PROVE  Made(s.names, F, s.at[mod][fn], blk, Code[i]) \subseteq Entry(vrms'[blk], Code[i].val)
  <2>1. CASE i = pos
    BY <1>2, <1>4, <2>1
  <2>2. CASE i < pos
    BY <1>2, <1>3, <1>4, <2>2 DEF ValuesHeld, RowsGrow, Kept
  <2> QED
    BY <1>2, <1>4, <2>1, <2>2
<1>5. ValuesHeld(s)'
  BY <1>1, <1>4 DEF ValuesHeld
<1>6. ASSUME NEW i \in DOMAIN Code, i < pos + 1
      PROVE  InstrRecorded(s, mod, fn, blk, i)
  <2>1. i = pos \/ i < pos
    BY <1>2, <1>6
  <2> QED
    BY <1>3, <2>1 DEF InstrsRecorded
<1>7. InstrsRecorded(s)'
  BY <1>1, <1>6 DEF InstrsRecorded, InstrRecorded
<1>8. CallRecorded(s)'
  BY DEF CallRecorded
<1> QED
  BY <1>2, <1>3, <1>5, <1>7, <1>8, BlocksKept, PredsKept DEF PlaceHeld

(* A value not yet made stays without entries.                             *)
LEMMA UnmadeKept ==
  ASSUME Unmade, InBlock, UNCHANGED <<prog, mod, fn>>,
         \A v \in Values : IsUnmade(v)' =>
           IsUnmade(v) /\ \A c \in DOMAIN F.blocks : vrms'[c][v] = vrms[c][v]
  PROVE  Unmade'
<1>1. F' = F
  BY DEF F, Functions
<1> QED
  BY <1>1 DEF Unmade

LEMMA LaterInstr ==
  ASSUME TypeInv, Ordered(prog), NEW ops, At(ops), UNCHANGED <<prog, mod, fn, blk>>, pos' = pos + 1,
         NEW v, IsUnmade(v)'
  PROVE  IsUnmade(v) /\ (Makes(Instr) => v # Instr.val)
<1>1. F' = F
  BY DEF F, Functions
<1>2. PICK b \in DOMAIN F.blocks : \E i \in DOMAIN F.blocks[b].code :
             Later(b, i)' /\ Makes(F.blocks[b].code[i]) /\ F.blocks[b].code[i].val = v
  BY <1>1 DEF IsUnmade
<1>3. PICK i \in DOMAIN F.blocks[b].code :
             Later(b, i)' /\ Makes(F.blocks[b].code[i]) /\ F.blocks[b].code[i].val = v
  BY <1>2
<1>4. /\ prog \in Programs /\ mod \in Modules /\ fn \in DOMAIN prog.code[mod] /\ F = prog.code[mod][fn]
      /\ blk \in DOMAIN F.blocks /\ Code = F.blocks[blk].code /\ IsFunction(F)
      /\ pos \in DOMAIN Code /\ Instr = Code[pos] /\ DOMAIN Code = 1 .. Len(Code)
  BY InstrParts, PlaceParts
<1>5. DOMAIN F.blocks[b].code = 1 .. Len(F.blocks[b].code)
  BY <1>4, CodeOfBlock
<1>6. Later(b, i) /\ ~(b = blk /\ i = pos)
  <2>1. blk < b \/ (b = blk /\ pos + 1 <= i)
    BY <1>3 DEF Later
  <2>2. pos \in Nat /\ i \in Int /\ blk \in Int
    BY <1>4, <1>5 DEF TypeInv, PlaceInv
  <2>3. DOMAIN F.blocks = 1 .. Len(F.blocks) /\ b \in Int
    BY InstrParts, PlaceParts
  <2> QED
    BY <2>1, <2>2, <2>3 DEF Later
<1>7. IsUnmade(v)
  BY <1>3, <1>6 DEF IsUnmade
<1>8. ASSUME Makes(Instr), v = Instr.val PROVE FALSE
  <2>1. MakesValue(prog, mod, fn, b, i, v)
    BY <1>3, <1>4 DEF MakesValue, IsSite
  <2>2. MakesValue(prog, mod, fn, blk, pos, v)
    BY <1>4, <1>8 DEF MakesValue, IsSite
  <2>3. b = blk /\ i = pos
    BY <2>1, <2>2, OneMaker
  <2> QED
    BY <1>6, <2>3
<1> QED
  BY <1>7, <1>8

-----------------------------------------------------------------------------
(* What a terminator says is about its operands, and leaves the entries of *)
(* its block.                                                              *)
LEMMA FactsAbout ==
  ASSUME NEW p, NEW t, NEW b
  PROVE  \A m \in DOMAIN Facts(p, t, b) : Facts(p, t, b)[m][1] \in TermReads(t)
<1>1. CASE t.kind = "cond"
  <2>1. Facts(p, t, b) = BranchFacts(t, b) /\ TermReads(t) = {t.l, t.r}
    BY <1>1 DEF Facts, TermReads
  <2>2. \A L, R : \A m \in DOMAIN OnTrue(t, L, R) : OnTrue(t, L, R)[m][1] \in {t.l, t.r}
    BY DEF OnTrue
  <2>3. \A L, R : \A m \in DOMAIN OnFalse(t, L, R) : OnFalse(t, L, R)[m][1] \in {t.l, t.r}
    BY DEF OnFalse
  <2> QED
    BY <2>1, <2>2, <2>3 DEF BranchFacts
<1>2. CASE t.kind = "switch"
  <2>1. Facts(p, t, b) = << <<t.v, intersectWith(GetRange(p, t.v), CasesTo(t, b))>> >>
    BY <1>2 DEF Facts
  <2>2. TermReads(t) = {t.v}
    BY <1>2 DEF TermReads
  <2> QED
    BY <2>1, <2>2
<1>3. CASE t.kind \notin {"cond", "switch"}
  <2>1. Facts(p, t, b) = << >>
    BY <1>3 DEF Facts
  <2> QED
    BY <2>1
<1> QED
  BY <1>1, <1>2, <1>3

LEMMA UsesAbout ==
  ASSUME NEW p, NEW t, NEW c, NEW v, v \notin TermReads(t)
  PROVE  <<c, v>> \notin TermUses(p, t)
BY DEF TermReads, TermUses

LEMMA FromPredHolds ==
  ASSUME NEW p, NEW facts, NEW v \in Values
  PROVE  /\ Entry(vrms[p], v) \subseteq Entry(FromPred(p, facts), v)
         /\ vrms[p][v] = NoRange /\ (\A m \in DOMAIN facts : facts[m][1] # v) =>
              FromPred(p, facts)[v] = NoRange
BY DEF FromPred, Insert, Entry

LEMMA MergeParts ==
  ASSUME TypeInv, Ordered(prog), LeftInv, MergePred
  PROVE  \E p, N, there :
           /\ p \in left /\ InBlock /\ p \in Forward(F, blk) /\ p \in DOMAIN F.blocks /\ p < blk
           /\ left' = left \ {p}
           /\ N = Noted(vrms, TermUses(p, F.blocks[p].term))
           /\ there = FromPred(p, Facts(p, F.blocks[p].term, blk))
           /\ N \in Rows(DOMAIN F.blocks) /\ there \in [Values -> Ranges \cup {NoRange}]
           /\ \A c \in DOMAIN F.blocks :
                vrms'[c] = IF c = blk THEN Merged(N[blk], there) ELSE N[c]
<1>1. PICK p \in left :
        LET term == F.blocks[p].term
        IN  /\ left' = left \ {p}
            /\ \E facts \in {Facts(p, term, blk)} : \E there \in {FromPred(p, facts)} :
                 vrms' = [Noted(vrms, TermUses(p, term)) EXCEPT ![blk] = Merged(@, there)]
  BY DEF MergePred
<1> DEFINE term  == F.blocks[p].term
           N     == Noted(vrms, TermUses(p, term))
           there == FromPred(p, Facts(p, term, blk))
<1>2. left' = left \ {p} /\ vrms' = [N EXCEPT ![blk] = Merged(@, there)]
  BY <1>1
<1>3. InBlock /\ p \in Forward(F, blk)
  BY DEF MergePred, LeftInv
<1>4. /\ blk \in DOMAIN F.blocks /\ vrms \in Rows(DOMAIN F.blocks) /\ NamesHaveRanges
      /\ IsFunction(F) /\ LaidOut(F)
  BY <1>3, PlaceParts
<1>5. p \in DOMAIN F.blocks /\ p < blk
  BY <1>3, <1>4, NoBackEdges
<1>6. N \in Rows(DOMAIN F.blocks)
  BY <1>4, NotedType
<1>7. there \in [Values -> Ranges \cup {NoRange}]
  <2>1. IsTerm(F, term)
    BY <1>4, <1>5, CodeOfBlock
  <2>2. IsFacts(Facts(p, term, blk))
    BY <1>4, <1>5, <2>1, FactsType
  <2> QED
    BY <1>4, <1>5, <2>2, FromPredType
<1> HIDE DEF N, there
<1>8. \A c \in DOMAIN F.blocks : vrms'[c] = IF c = blk THEN Merged(N[blk], there) ELSE N[c]
  BY <1>2, <1>4, <1>6 DEF Rows
<1> QED
  BY <1>2, <1>3, <1>5, <1>6, <1>7, <1>8 DEF N, there

LEMMA MergeHeld ==
  ASSUME TypeInv, Ordered(prog), LeftInv, Unmade, MergePred
  PROVE  /\ RowsGrow
         /\ Unmade'
         /\ \A s : PlaceHeld(s) => PlaceHeld(s)'
<1>1. PICK p, N, there :
           /\ p \in left /\ InBlock /\ p \in Forward(F, blk) /\ p \in DOMAIN F.blocks /\ p < blk
           /\ left' = left \ {p}
           /\ N = Noted(vrms, TermUses(p, F.blocks[p].term))
           /\ there = FromPred(p, Facts(p, F.blocks[p].term, blk))
           /\ N \in Rows(DOMAIN F.blocks) /\ there \in [Values -> Ranges \cup {NoRange}]
           /\ \A c \in DOMAIN F.blocks :
                vrms'[c] = IF c = blk THEN Merged(N[blk], there) ELSE N[c]
  BY MergeParts
<1>2. /\ blk \in DOMAIN F.blocks /\ vrms \in Rows(DOMAIN F.blocks) /\ LaidOut(F)
  BY <1>1, PlaceParts
<1>3. /\ UNCHANGED <<prog, fn, blk, pos, callVars>> /\ NoUnion
  BY DEF MergePred
<1>4. Staying /\ UNCHANGED <<mod, callVars, changed>>
  BY <1>3 DEF NoUnion, Staying, driverVars
<1>5. UNCHANGED <<F, Code, InBlock>>
  BY <1>4, StayingPlace
<1>6. N[blk] \in [Values -> Ranges \cup {NoRange}]
  BY <1>1, <1>2 DEF Rows
<1>7. \A c \in DOMAIN F.blocks : \A v \in Values : Entry(vrms[c], v) \subseteq Entry(N[c], v)
  BY <1>1, <1>2, NotedHolds
<1>8. \A v \in Values : /\ Entry(N[blk], v) \subseteq Entry(vrms'[blk], v)
                        /\ Entry(there, v) \subseteq Entry(vrms'[blk], v)
                        /\ there[v] = NoRange => vrms'[blk][v] = N[blk][v]
  BY <1>1, <1>2, <1>6, MergedHolds
<1>9. RowsGrow
  BY <1>1, <1>7, <1>8 DEF RowsGrow
<1>10. ASSUME NEW v \in Values, IsUnmade(v)' PROVE IsUnmade(v) /\ \A c \in DOMAIN F.blocks : vrms'[c][v] = vrms[c][v]
  <2>1. IsUnmade(v)
    BY <1>3, <1>5, <1>10 DEF IsUnmade, Later
  <2>2. v \notin TermReads(F.blocks[p].term)
    BY <1>1, <2>1, UnmadeUnread
  <2>3. ASSUME NEW c \in DOMAIN F.blocks PROVE N[c][v] = vrms[c][v]
    <3>1. <<c, v>> \notin TermUses(p, F.blocks[p].term)
      BY <2>2, UsesAbout
    <3> QED
      BY <1>1, <1>2, <3>1, NotedHolds
  <2>4. vrms[p][v] = NoRange
    BY <1>1, <2>1 DEF Unmade
  <2>5. there[v] = NoRange
    BY <1>1, <2>2, <2>4, FactsAbout, FromPredHolds
  <2>6. \A c \in DOMAIN F.blocks : vrms'[c][v] = vrms[c][v]
    BY <1>1, <1>8, <2>3, <2>5
  <2> QED
    BY <2>1, <2>6
<1>11. Unmade'
  BY <1>1, <1>4, <1>10, UnmadeKept, StayingPlace
<1>12. ASSUME NEW s, PlaceHeld(s) PROVE PlaceHeld(s)'
  <2>1. BlocksHeld(s) /\ PredsHeld(s) /\ ValuesHeld(s) /\ BlocksRecorded(s) /\ InstrsRecorded(s) /\ CallRecorded(s)
    BY <1>1, <1>12 DEF PlaceHeld
  <2>2. ASSUME NEW q \in Entering(F, blk) \ left', NEW v \in Kept(prog)
        PROVE  s.at[mod][fn][q][v] \subseteq Entry(vrms'[blk], v)
    <3>1. v \in Values
      BY DEF Kept
    <3>2. CASE q = p
      <4>1. s.at[mod][fn][p][v] \subseteq Entry(vrms[p], v)
        BY <1>1, <2>1 DEF BlocksHeld
      <4>2. Entry(vrms[p], v) \subseteq Entry(there, v)
        BY <1>1, <3>1, FromPredHolds
      <4> QED
        BY <1>8, <3>1, <3>2, <4>1, <4>2
    <3>3. CASE q # p
      <4>1. s.at[mod][fn][q][v] \subseteq Entry(vrms[blk], v)
        BY <1>1, <2>1, <3>3 DEF PredsHeld
      <4> QED
        BY <1>2, <1>9, <3>1, <4>1 DEF RowsGrow
    <3> QED
      BY <3>2, <3>3
  <2>3. PredsHeld(s)'
    BY <1>3, <1>4, <1>5, <2>2, StayingPlace DEF PredsHeld
  <2>4. CallRecorded(s)'
    <3>1. UNCHANGED <<handled, callee, arg, ranges, mod, fn, blk, pos>>
      BY <1>3, <1>4, StayingPlace DEF callVars
    <3>2. left # {} /\ handled = {}
      BY <1>1 DEF TypeInv, CallOK, At
    <3> QED
      BY <3>1, <3>2 DEF CallRecorded
  <2> QED
    BY <1>2, <1>3, <1>4, <1>9, <2>1, <2>3, <2>4, BlocksKept, ValuesKept DEF PlaceHeld
<1> QED
  BY <1>9, <1>11, <1>12

(* The instructions: what they use they read.                              *)
LEMMA UsesRead ==
  ASSUME TypeInv, Ordered(prog), At(ComputeOps), NEW c, NEW v, <<c, v>> \in Uses
  PROVE  v \in Reads(F, blk, Instr)
<1>1. Instr.op \in ComputeOps /\ InBlock
  BY InstrParts
<1>2. Forward(F, blk) = Entering(F, blk)
  BY <1>1, PlaceParts, NoBackEdges
<1>3. CASE Instr.op = "bin" \/ Instr.op = "select"
  BY <1>3 DEF Uses, Reads
<1>4. CASE Instr.op = "phi"
  BY <1>2, <1>4 DEF Uses, Reads
<1>5. CASE Instr.op \notin {"bin", "select", "phi"}
  BY <1>5 DEF Uses
<1> QED
  BY <1>3, <1>4, <1>5

LEMMA RecordedSilent ==
  ASSUME NEW names, NEW row, NEW ins, NEW id, ins.op \notin {"store", "ret", "call"}
  PROVE  Recorded(names, row, ins, id) = {}
BY DEF Recorded

LEMMA ComputeHeld ==
  ASSUME TypeInv, Ordered(prog), Unmade, Compute
  PROVE  /\ RowsGrow
         /\ Unmade'
         /\ \A s : Quiet(s) /\ PlaceHeld(s) => PlaceHeld(s)'
<1>1. /\ At(ComputeOps)
      /\ vrms' = Entered(Noted(vrms, Uses), blk, Instr.val, Computed)
      /\ NoUnion /\ NextInstr /\ UNCHANGED callVars
  BY DEF Compute, ComputeOps
<1>2. /\ InBlock /\ IsInstr(Instr) /\ Makes(Instr) /\ Instr.op \in ComputeOps
      /\ pos \in DOMAIN Code /\ Instr = Code[pos]
  BY <1>1, InstrParts DEF Makes, ComputeOps
<1>3. /\ blk \in DOMAIN F.blocks /\ vrms \in Rows(DOMAIN F.blocks) /\ NamesHaveRanges
      /\ F = prog.code[mod][fn] /\ Code = F.blocks[blk].code
  BY <1>2, PlaceParts
<1>4. /\ Staying /\ pos' = pos + 1 /\ left' = left /\ UNCHANGED callVars /\ UNCHANGED <<mod, prog, fn, blk>>
  BY <1>1 DEF NoUnion, NextInstr, Staying, driverVars
<1>5. Instr.val \in Values
  BY <1>2 DEF IsInstr, Makes
<1>6. Computed \in Ranges
  BY <1>1, ComputedType DEF ComputeOps
<1> DEFINE N == Noted(vrms, Uses)
<1>7. N \in Rows(DOMAIN F.blocks)
  BY <1>3, NotedType
<1>8. \A c \in DOMAIN F.blocks : \A v \in Values : Entry(vrms[c], v) \subseteq Entry(N[c], v)
  BY <1>3, NotedHolds
<1>9. /\ Computed \subseteq Entry(vrms'[blk], Instr.val)
      /\ \A c \in DOMAIN F.blocks : \A v \in Values :
           /\ Entry(N[c], v) \subseteq Entry(vrms'[c], v)
           /\ v # Instr.val => vrms'[c][v] = N[c][v]
  <2> DEFINE val == Instr.val
             R   == Computed
  <2>1. vrms' = Entered(N, blk, val, R)
    BY <1>1
  <2>2. val \in Values /\ R \in Ranges
    BY <1>5, <1>6
  <2> HIDE DEF N, val, R
  <2>3. GrewBy(DOMAIN F.blocks, N, Entered(N, blk, val, R), blk, val, R)
    BY <1>3, <1>7, <2>2, EnteredHolds
  <2> QED
    BY <2>1, <2>3 DEF val, R, GrewBy
<1>10. RowsGrow
  BY <1>8, <1>9 DEF RowsGrow
<1>11. ASSUME NEW v \in Values, IsUnmade(v)' PROVE IsUnmade(v) /\ \A c \in DOMAIN F.blocks : vrms'[c][v] = vrms[c][v]
  <2>1. IsUnmade(v) /\ v # Instr.val
    BY <1>1, <1>2, <1>4, <1>11, LaterInstr
  <2>2. v \notin Reads(F, blk, Instr)
    BY <1>2, <2>1, UnmadeUnread
  <2>3. ASSUME NEW c \in DOMAIN F.blocks PROVE N[c][v] = vrms[c][v]
    <3>1. <<c, v>> \notin Uses
      BY <1>1, <2>2, UsesRead
    <3> QED
      BY <1>3, <3>1, NotedHolds
  <2> HIDE DEF N
  <2> QED
    BY <1>9, <2>1, <2>3
<1>12. Unmade'
  BY <1>2, <1>4, <1>11, UnmadeKept
<1> HIDE DEF N
<1>13. ASSUME NEW s, Quiet(s), PlaceHeld(s) PROVE PlaceHeld(s)'
  <2>1. Makes(Instr) /\ Instr.val \in Kept(prog) =>
           Made(s.names, F, s.at[mod][fn], blk, Instr) \subseteq Entry(vrms'[blk], Instr.val)
    BY <1>1, <1>9, <1>13, ComputedHolds
  <2>2. InstrRecorded(s, mod, fn, blk, pos)
    <3>1. prog.code[mod][fn].blocks[blk].code[pos] = Instr
      BY <1>2, <1>3
    <3>2. Instr.op \notin {"store", "ret", "call"}
      BY <1>2 DEF ComputeOps
    <3> QED
      BY <3>1, <3>2, RecordedSilent DEF InstrRecorded
  <2>3. handled' = {}
    BY <1>1, <1>4, NoCall DEF callVars, ComputeOps
  <2> QED
    BY <1>1, <1>4, <1>10, <1>13, <2>1, <2>2, <2>3, InstrHeld
<1> QED
  BY <1>10, <1>12, <1>13

LEMMA RecordHeld ==
  ASSUME TypeInv, Ordered(prog), Unmade, Record
  PROVE  /\ \A id \in Ids : ranges[id] \subseteq ranges'[id]
         /\ Unmade'
         /\ ~changed' => ~changed /\ ranges' = ranges
         /\ \A s : Quiet(s) /\ PlaceHeld(s) /\ ~changed' => PlaceHeld(s)'
<1> DEFINE v == Instr.v
           R == GetRange(blk, v)
<1>1. /\ At({"store", "ret"}) /\ UnionName(Instr.id, R)
      /\ vrms' = Noted(vrms, {<<blk, v>>})
      /\ NextInstr /\ UNCHANGED callVars
  BY DEF Record
<1>2. /\ InBlock /\ IsInstr(Instr) /\ ~Makes(Instr) /\ Instr.op \in {"store", "ret"}
      /\ pos \in DOMAIN Code /\ Instr = Code[pos]
  BY <1>1, InstrParts DEF Makes
<1>3. /\ blk \in DOMAIN F.blocks /\ vrms \in Rows(DOMAIN F.blocks) /\ NamesHaveRanges
      /\ F = prog.code[mod][fn] /\ Code = F.blocks[blk].code
  BY <1>2, PlaceParts
<1>4. /\ pos' = pos + 1 /\ left' = left /\ UNCHANGED callVars /\ UNCHANGED <<prog, phase, mod, fn, blk>>
  BY <1>1 DEF UnionName, NextInstr
<1>5. Instr.id \in Ids /\ v \in Operands
  BY <1>2 DEF IsInstr
<1>6. R \in Ranges
  BY <1>3, <1>5, GetRangeType
<1>7. v \in Reads(F, blk, Instr)
  BY <1>2 DEF Reads
<1>8. /\ R \subseteq ranges'[Instr.id]
      /\ \A id \in Ids : ranges[id] \subseteq ranges'[id]
      /\ ~changed' => ~changed /\ ranges' = ranges
  <2> HIDE DEF R
  <2> QED
    BY <1>1, <1>3, <1>5, <1>6, UnionNameHolds
<1>9. RowsGrow
  BY <1>1, <1>3, NotedHolds DEF RowsGrow
<1>10. ASSUME NEW u \in Values, IsUnmade(u)' PROVE IsUnmade(u) /\ \A c \in DOMAIN F.blocks : vrms'[c][u] = vrms[c][u]
  <2>1. IsUnmade(u)
    BY <1>1, <1>4, <1>10, LaterInstr
  <2>2. u \notin Reads(F, blk, Instr)
    BY <1>2, <2>1, UnmadeUnread
  <2>3. ASSUME NEW c \in DOMAIN F.blocks PROVE vrms'[c][u] = vrms[c][u]
    <3> DEFINE uses == {<<blk, v>>}
    <3>1. <<c, u>> \notin uses
      BY <1>7, <2>2
    <3>2. vrms' = Noted(vrms, uses)
      BY <1>1
    <3> HIDE DEF uses
    <3> QED
      BY <1>3, <3>1, <3>2, NotedHolds
  <2> QED
    BY <2>1, <2>3
<1>11. Unmade'
  BY <1>2, <1>4, <1>10, UnmadeKept
<1>12. ASSUME NEW s, Quiet(s), PlaceHeld(s), ~changed' PROVE PlaceHeld(s)'
  <2>1. Staying
    BY <1>4, <1>8, <1>12 DEF Staying
  <2>2. HereIn(s.at[mod][fn][blk], v) \subseteq R
    <3>1. "phi" \notin {"store", "ret"}
      OBVIOUS
    <3> QED
      BY <1>1, <1>5, <1>7, <1>12, <3>1, OperandHeld
  <2>3. HereIn(s.at[mod][fn][blk], v) \subseteq ranges[Instr.id]
    <3> HIDE DEF R
    <3> QED
      BY <1>8, <1>12, <2>2
  <2>4. InstrRecorded(s, mod, fn, blk, pos)
    <3>1. prog.code[mod][fn].blocks[blk].code[pos] = Instr
      BY <1>2, <1>3
    <3>2. \A id \in Ids : Recorded(s.names, s.at[mod][fn][blk], Instr, id) =
                            IF Instr.id = id THEN HereIn(s.at[mod][fn][blk], v) ELSE {}
      BY <1>2 DEF Recorded
    <3> QED
      BY <2>3, <3>1, <3>2 DEF InstrRecorded
  <2>5. handled' = {}
    BY <1>1, <1>4, NoCall DEF callVars
  <2> QED
    BY <1>1, <1>2, <1>4, <1>9, <1>12, <2>1, <2>4, <2>5, InstrHeld
<1> QED
  BY <1>8, <1>11, <1>12

(* A call: its arguments for each callee, and its result.                  *)
LEMMA SameUnmade ==
  ASSUME Unmade, InBlock, UNCHANGED <<prog, mod, fn, blk, pos>>,
         \A v \in Values : IsUnmade(v) => \A c \in DOMAIN F.blocks : vrms'[c][v] = vrms[c][v]
  PROVE  Unmade'
<1>1. F' = F
  BY DEF F, Functions
<1>2. \A v : IsUnmade(v)' <=> IsUnmade(v)
  BY <1>1 DEF IsUnmade, Later
<1> QED
  BY <1>2, UnmadeKept

LEMMA CallParts ==
  ASSUME TypeInv, Ordered(prog), At({"call"})
  PROVE  /\ InBlock /\ left = {} /\ pos \in DOMAIN Code /\ Instr = Code[pos]
         /\ Instr.op = "call" /\ IsInstr(Instr) /\ Makes(Instr) /\ Instr.val \in Values
         /\ DOMAIN Instr.args = 1 .. Len(Instr.args) /\ Len(Instr.args) \in Nat
         /\ \A i \in 1 .. Len(Instr.args) : Instr.args[i] \in Operands /\ Instr.args[i] \in Reads(F, blk, Instr)
         /\ \A ids \in Instr.passes : Len(ids) = Len(Instr.args) /\ \A i \in 1 .. Len(Instr.args) : ids[i] \in Ids
         /\ handled \subseteq Instr.passes
         /\ blk \in DOMAIN F.blocks /\ vrms \in Rows(DOMAIN F.blocks) /\ NamesHaveRanges
         /\ F = prog.code[mod][fn] /\ Code = F.blocks[blk].code
<1>1. InBlock /\ left = {} /\ pos \in DOMAIN Code /\ Instr = Code[pos] /\ Instr.op = "call" /\ IsInstr(Instr)
  BY InstrParts
<1>2. Makes(Instr) /\ Instr.val \in Values
  BY <1>1 DEF IsInstr, Makes
<1>3. Instr.args \in Seq(Operands)
  BY <1>1 DEF IsInstr
<1>4. Reads(F, blk, Instr) = Range(Instr.args)
  BY <1>1 DEF Reads
<1>5. \A i \in 1 .. Len(Instr.args) : Instr.args[i] \in Operands /\ Instr.args[i] \in Reads(F, blk, Instr)
  BY <1>3, <1>4 DEF Range
<1>6. ASSUME NEW ids \in Instr.passes
      PROVE  Len(ids) = Len(Instr.args) /\ \A i \in 1 .. Len(Instr.args) : ids[i] \in Ids
  <2>1. ids \in Seq(Ids) /\ Len(ids) = Len(Instr.args)
    BY <1>1 DEF IsInstr
  <2> QED
    BY <2>1
<1>7. handled \subseteq Instr.passes
  BY DEF TypeInv, CallOK
<1> QED
  BY <1>1, <1>2, <1>3, <1>5, <1>6, <1>7, PlaceParts

LEMMA PassingHeld ==
  ASSUME TypeInv, Ordered(prog), At({"call"}), NEW s, PlaceHeld(s), Staying, RowsGrow,
         left' = left, pos' = pos, CallRecorded(s)'
  PROVE  PlaceHeld(s)'
<1>1. InBlock /\ blk \in DOMAIN F.blocks
  BY CallParts
<1>2. BlocksHeld(s) /\ PredsHeld(s) /\ ValuesHeld(s) /\ BlocksRecorded(s) /\ InstrsRecorded(s)
  BY <1>1 DEF PlaceHeld
<1> QED
  BY <1>1, <1>2, BlocksKept, PredsKept, ValuesKept DEF PlaceHeld

LEMMA TakeCalleeHeld ==
  ASSUME TypeInv, Ordered(prog), Unmade, TakeCallee
  PROVE  /\ ranges' = ranges
         /\ Unmade'
         /\ \A s : PlaceHeld(s) => PlaceHeld(s)'
<1>1. PICK names \in Instr.passes \ handled : callee' = names /\ handled' = handled \cup {names}
  BY DEF TakeCallee
<1>2. /\ At({"call"}) /\ arg = 0 /\ arg' = 1 /\ NoUnion
      /\ UNCHANGED <<prog, itr, vrms, fn, blk, left, pos, meta>>
  BY DEF TakeCallee
<1>3. Staying /\ ranges' = ranges /\ UNCHANGED <<phase, mod, changed>>
  BY <1>2 DEF NoUnion, Staying, driverVars
<1>4. RowsGrow
  BY <1>2 DEF RowsGrow
<1>5. InBlock
  BY <1>2, CallParts
<1>6. Unmade'
  BY <1>2, <1>3, <1>5, SameUnmade
<1>7. ASSUME NEW s, PlaceHeld(s) PROVE PlaceHeld(s)'
  <2>1. CallRecorded(s)
    BY <1>5, <1>7 DEF PlaceHeld
  <2>2. Instr' = Instr
    BY <1>2, <1>3, SameCall
  <2>3. ASSUME NEW ids \in handled', NEW i \in 1 .. Len(Instr.args), ids # names \/ i < 1
        PROVE  HereIn(s.at[mod][fn][blk], Instr.args[i]) \subseteq ranges[ids[i]]
    <3>1. ids \in handled
      BY <1>1, <2>3
    <3> QED
      BY <1>2, <2>1, <3>1 DEF CallRecorded
  <2>4. CallRecorded(s)'
    BY <1>1, <1>2, <1>3, <2>2, <2>3 DEF CallRecorded
  <2> QED
    BY <1>2, <1>3, <1>4, <1>7, <2>4, PassingHeld
<1> QED
  BY <1>3, <1>6, <1>7

LEMMA PassArgHeld ==
  ASSUME TypeInv, Ordered(prog), Unmade, PassArg
  PROVE  /\ \A id \in Ids : ranges[id] \subseteq ranges'[id]
         /\ Unmade'
         /\ ~changed' => ~changed /\ ranges' = ranges
         /\ \A s : Quiet(s) /\ PlaceHeld(s) /\ ~changed' => PlaceHeld(s)'
<1> DEFINE v == Instr.args[arg]
           R == GetRange(blk, v)
<1>1. /\ At({"call"}) /\ arg # 0 /\ UnionName(callee[arg], R)
      /\ vrms' = Noted(vrms, {<<blk, v>>})
      /\ UNCHANGED <<prog, itr, fn, blk, left, pos, handled, meta>>
  BY DEF PassArg
<1>2. /\ InBlock /\ blk \in DOMAIN F.blocks /\ vrms \in Rows(DOMAIN F.blocks) /\ NamesHaveRanges
      /\ pos \in DOMAIN Code /\ Instr = Code[pos]
  BY <1>1, CallParts
<1>3. callee \in handled /\ arg \in 1 .. Len(callee) /\ Len(callee) = Len(Instr.args) /\ callee \in Instr.passes
  BY <1>1, CallParts DEF TypeInv, CallOK
<1>4. callee[arg] \in Ids /\ v \in Operands /\ v \in Reads(F, blk, Instr)
  BY <1>1, <1>3, CallParts
<1>5. R \in Ranges
  BY <1>2, <1>4, GetRangeType
<1>6. /\ R \subseteq ranges'[callee[arg]]
      /\ \A id \in Ids : ranges[id] \subseteq ranges'[id]
      /\ ~changed' => ~changed /\ ranges' = ranges
  <2> HIDE DEF R
  <2> QED
    BY <1>1, <1>2, <1>4, <1>5, UnionNameHolds
<1>7. UNCHANGED <<prog, phase, mod, fn, blk, left, pos, handled>>
  BY <1>1 DEF UnionName
<1>8. RowsGrow
  BY <1>1, <1>2, NotedHolds DEF RowsGrow
<1>9. ASSUME NEW u \in Values, IsUnmade(u) PROVE \A c \in DOMAIN F.blocks : vrms'[c][u] = vrms[c][u]
  <2>1. u \notin Reads(F, blk, Instr)
    BY <1>2, <1>9, UnmadeUnread
  <2>2. ASSUME NEW c \in DOMAIN F.blocks PROVE vrms'[c][u] = vrms[c][u]
    <3> DEFINE uses == {<<blk, v>>}
    <3>1. <<c, u>> \notin uses
      BY <1>4, <2>1
    <3>2. vrms' = Noted(vrms, uses)
      BY <1>1
    <3> HIDE DEF uses
    <3> QED
      BY <1>2, <3>1, <3>2, NotedHolds
  <2> QED
    BY <2>2
<1>10. Unmade'
  BY <1>2, <1>7, <1>9, SameUnmade
<1>11. ASSUME NEW s, Quiet(s), PlaceHeld(s), ~changed' PROVE PlaceHeld(s)'
  <2>1. Staying
    BY <1>6, <1>7, <1>11 DEF Staying
  <2>2. HereIn(s.at[mod][fn][blk], v) \subseteq R
    <3>1. "phi" \notin {"call"}
      OBVIOUS
    <3> QED
      BY <1>1, <1>4, <1>11, <3>1, OperandHeld
  <2>3. HereIn(s.at[mod][fn][blk], v) \subseteq ranges[callee[arg]]
    <3> HIDE DEF R
    <3> QED
      BY <1>6, <1>11, <2>2
  <2>4. CallRecorded(s)
    BY <1>2, <1>11 DEF PlaceHeld
  <2>5. Instr' = Instr
    BY <1>1, <1>7, SameCall
  <2>6. ASSUME NEW ids \in handled, NEW i \in 1 .. Len(Instr.args), ids # callee \/ i <= arg
        PROVE  HereIn(s.at[mod][fn][blk], Instr.args[i]) \subseteq ranges[ids[i]]
    <3>1. CASE ids = callee /\ i = arg
      BY <2>3, <3>1
    <3>2. CASE ids # callee \/ i < arg
      BY <1>1, <2>4, <3>2 DEF CallRecorded
    <3> QED
      BY <1>3, <2>6, <3>1, <3>2
  <2>7. ASSUME NEW ids \in handled, NEW i \in 1 .. Len(Instr.args), arg' = 0 \/ ids # callee' \/ i < arg'
        PROVE  ids # callee \/ i <= arg
    <3>1. CASE arg < Len(callee)
      <4>1. arg' = arg + 1 /\ callee' = callee
        BY <3>1 DEF PassArg
      <4> QED
        BY <1>3, <2>7, <4>1
    <3>2. CASE ~ (arg < Len(callee))
      BY <1>3, <3>2, CallParts, <1>1
    <3> QED
      BY <3>1, <3>2
  <2>8. CallRecorded(s)'
    BY <1>7, <2>1, <2>5, <2>6, <2>7 DEF CallRecorded, Staying
  <2> QED
    BY <1>1, <1>7, <1>8, <1>11, <2>1, <2>8, PassingHeld
<1> QED
  BY <1>6, <1>10, <1>11

LEMMA RecordedOfCall ==
  ASSUME NEW names, NEW row, NEW ins, ins.op = "call", NEW id
  PROVE  \A x \in Recorded(names, row, ins, id) :
           \/ \E i \in 1 .. Len(ins.args) : \E ids \in ins.passes : ids[i] = id /\ x \in HereIn(row, ins.args[i])
           \/ ins.ret = id /\ x \in Under(names, Returns[ins.val])
BY DEF Recorded

(* The values a call records are in the ranges once all is handled.        *)
LEMMA CallHeld ==
  ASSUME TypeInv, Ordered(prog), At({"call"}), arg = 0, handled = Instr.passes \/ Len(Instr.args) = 0,
         NEW s, PlaceHeld(s),
         Instr.passes # {} /\ Instr.ret # NoId => Under(s.names, Returns[Instr.val]) \subseteq ranges[Instr.ret]
  PROVE  InstrRecorded(s, mod, fn, blk, pos)
<1> DEFINE row == s.at[mod][fn][blk]
<1>1. /\ InBlock /\ pos \in DOMAIN Code /\ Instr = Code[pos] /\ Instr.op = "call"
      /\ DOMAIN Instr.args = 1 .. Len(Instr.args)
      /\ F = prog.code[mod][fn] /\ Code = F.blocks[blk].code
  BY CallParts
<1>2. prog.code[mod][fn].blocks[blk].code[pos] = Instr
  BY <1>1
<1>3. CallRecorded(s)
  BY <1>1 DEF PlaceHeld
<1>4. ASSUME NEW id \in Ids PROVE Recorded(s.names, row, Instr, id) \subseteq ranges[id]
  <2>1. ASSUME NEW i \in 1 .. Len(Instr.args), NEW ids \in Instr.passes, ids[i] = id
        PROVE  HereIn(row, Instr.args[i]) \subseteq ranges[id]
    <3>1. ids \in handled
      <4>1. Len(Instr.args) # 0
        OBVIOUS
      <4> QED
        BY <4>1
    <3> QED
      BY <1>3, <2>1, <3>1 DEF CallRecorded
  <2>2. (IF Instr.ret = id THEN Under(s.names, Returns[Instr.val]) ELSE {}) \subseteq ranges[id]
    <3>1. id # NoId
      BY ReferenceAssumption
    <3>2. CASE Instr.passes = {}
      <4>1. Returns[Instr.val] = {}
        BY <1>1, <3>2, InstrParts
      <4>2. Under(s.names, Returns[Instr.val]) = {}
        BY <4>1 DEF Under
      <4> QED
        BY <4>2
    <3> QED
      BY <3>1, <3>2
  <2>3. \A x \in Recorded(s.names, row, Instr, id) :
          \/ \E i \in 1 .. Len(Instr.args) : \E ids \in Instr.passes :
               ids[i] = id /\ x \in HereIn(row, Instr.args[i])
          \/ Instr.ret = id /\ x \in Under(s.names, Returns[Instr.val])
    <3> DEFINE names == s.names
               ins   == Instr
    <3>1. ins.op = "call"
      BY <1>1
    <3> HIDE DEF names, row, ins
    <3>2. \A x \in Recorded(names, row, ins, id) :
            \/ \E i \in 1 .. Len(ins.args) : \E ids \in ins.passes : ids[i] = id /\ x \in HereIn(row, ins.args[i])
            \/ ins.ret = id /\ x \in Under(names, Returns[ins.val])
      BY <3>1, RecordedOfCall
    <3> QED
      BY <3>2 DEF names, ins
  <2> HIDE DEF row
  <2> QED
    BY <2>1, <2>2, <2>3
<1> QED
  BY <1>2, <1>4 DEF InstrRecorded

LEMMA TakeResultHeld ==
  ASSUME TypeInv, Ordered(prog), Unmade, TakeResult
  PROVE  /\ \A id \in Ids : ranges[id] \subseteq ranges'[id]
         /\ Unmade'
         /\ ~changed' => ~changed /\ ranges' = ranges
         /\ \A s : Quiet(s) /\ PlaceHeld(s) /\ ~changed' => PlaceHeld(s)'
<1> DEFINE val == Instr.val
           R   == GetRange(blk, val)
<1>1. /\ At({"call"}) /\ arg = 0 /\ (handled = Instr.passes \/ Len(Instr.args) = 0)
      /\ vrms' = Entered(vrms, blk, val, R)
      /\ IF Instr.passes = {} \/ Instr.ret = NoId THEN NoUnion ELSE UnionName(Instr.ret, R)
      /\ handled' = {} /\ NextInstr /\ UNCHANGED <<callee, arg>>
  BY DEF TakeResult
<1>2. /\ InBlock /\ Instr.op = "call" /\ IsInstr(Instr) /\ Makes(Instr) /\ val \in Values
      /\ blk \in DOMAIN F.blocks /\ vrms \in Rows(DOMAIN F.blocks) /\ NamesHaveRanges
  BY <1>1, CallParts
<1>3. R = Lookup(val)
  BY <1>1, <1>2, LookedUp
<1>4. R \in Ranges
  BY <1>2, <1>3, LookupType
<1>5. /\ UNCHANGED <<prog, phase, mod, fn, blk, left>> /\ pos' = pos + 1
  BY <1>1 DEF NextInstr, NoUnion, UnionName, driverVars
<1>6. /\ Instr.passes # {} /\ Instr.ret # NoId => R \subseteq ranges'[Instr.ret]
      /\ \A id \in Ids : ranges[id] \subseteq ranges'[id]
      /\ ~changed' => ~changed /\ ranges' = ranges
  <2>1. CASE Instr.passes = {} \/ Instr.ret = NoId
    <3>1. ranges' = ranges /\ changed' = changed
      BY <1>1, <2>1, Zenon DEF NoUnion, driverVars
    <3> QED
      BY <2>1, <3>1
  <2>2. CASE ~(Instr.passes = {} \/ Instr.ret = NoId)
    <3>1. Instr.ret \in Ids /\ UnionName(Instr.ret, R)
      BY <1>1, <1>2, <2>2 DEF IsInstr
    <3> HIDE DEF R
    <3> QED
      BY <1>2, <1>4, <3>1, UnionNameHolds
  <2> QED
    BY <2>1, <2>2
<1>7. GrewBy(DOMAIN F.blocks, vrms, vrms', blk, val, R)
  <2> HIDE DEF val, R
  <2> QED
    BY <1>1, <1>2, <1>4, EnteredHolds
<1>8. RowsGrow
  BY <1>7 DEF RowsGrow, GrewBy
<1>9. ASSUME NEW u \in Values, IsUnmade(u)' PROVE IsUnmade(u) /\ \A c \in DOMAIN F.blocks : vrms'[c][u] = vrms[c][u]
  <2>1. IsUnmade(u) /\ u # val
    BY <1>1, <1>2, <1>5, <1>9, LaterInstr
  <2> QED
    BY <1>7, <2>1 DEF GrewBy
<1>10. Unmade'
  BY <1>2, <1>5, <1>9, UnmadeKept
<1>11. ASSUME NEW s, Quiet(s), PlaceHeld(s), ~changed' PROVE PlaceHeld(s)'
  <2>1. Staying
    BY <1>5, <1>6, <1>11 DEF Staying
  <2>2. Under(s.names, Returns[val]) \subseteq R
    <3>1. Within(s)
      BY <1>11 DEF Quiet
    <3>2. Returns[val] \in SUBSET (Returns[val] \cup ({NameOf[val]} \ {NoId}))
      OBVIOUS
    <3> DEFINE ids == Returns[val]
    <3> HIDE DEF val, R, ids
    <3>3. Under(s.names, ids) \subseteq Lookup(val)
      BY <1>2, <3>1, <3>2, UnderLookup DEF ids
    <3> QED
      BY <1>3, <3>3 DEF ids
  <2>3. Made(s.names, F, s.at[mod][fn], blk, Instr) \subseteq Entry(vrms'[blk], val)
    <3>1. Made(s.names, F, s.at[mod][fn], blk, Instr) = Under(s.names, Returns[val])
      BY <1>2 DEF Made
    <3> HIDE DEF R, val
    <3> QED
      BY <1>7, <2>2, <3>1 DEF GrewBy
  <2>4. Instr.passes # {} /\ Instr.ret # NoId => Under(s.names, Returns[Instr.val]) \subseteq ranges[Instr.ret]
    <3>1. Instr.passes # {} /\ Instr.ret # NoId => R \subseteq ranges[Instr.ret]
      BY <1>6, <1>11
    <3> HIDE DEF R
    <3> QED
      BY <2>2, <3>1
  <2>5. InstrRecorded(s, mod, fn, blk, pos)
    BY <1>1, <1>11, <2>4, CallHeld
  <2> QED
    BY <1>1, <1>5, <1>8, <1>11, <2>1, <2>3, <2>5, InstrHeld
<1> QED
  BY <1>6, <1>10, <1>11

-----------------------------------------------------------------------------
(* A function is entered: no block or instruction is behind the pass.      *)
LEMMA EnteredPlace ==
  ASSUME PlaceInv', prog' = prog, Ordered(prog), NEW m, NEW g, mod' = m, fn' = g,
         blk' = 1, left' = {}, pos' = 1, handled' = {}, vrms' = Forgotten(m, g)
  PROVE  Unmade' /\ LeftInv' /\ \A s : PlaceHeld(s)'
<1>1. LeftInv'
  BY DEF LeftInv
<1>2. CASE ~InBlock'
  BY <1>1, <1>2 DEF Unmade, PlaceHeld
<1>3. CASE InBlock'
  <2>1. /\ prog \in Programs /\ m \in Modules /\ g \in DOMAIN prog.code[m] /\ g <= Len(prog.code[m])
        /\ F' = prog.code[m][g] /\ Code' = prog.code[m][g].blocks[1].code
    <3>1. prog \in Programs /\ m \in Modules /\ g \in 1 .. Len(prog.code[m])
      BY <1>3, ProgramAssumption DEF PlaceInv, InBlock, Functions
    <3> QED
      BY <3>1, ProgramAssumption DEF F, Functions, Code
  <2> DEFINE f == prog.code[m][g]
  <2>2. /\ IsFunction(f) /\ LaidOut(f)
        /\ DOMAIN f.blocks = 1 .. Len(f.blocks) /\ Len(f.blocks) \in Nat \ {0}
    BY <2>1, ProgramParts DEF IsFunction
  <2>3. DOMAIN f.blocks[1].code = 1 .. Len(f.blocks[1].code)
    BY <2>2, CodeOfBlock
  <2>4. Entering(f, 1) = {}
    BY <2>2, NoBackEdges
  <2>5. \A c \in DOMAIN f.blocks : \A v \in Values : vrms'[c][v] = NoRange
    BY <2>1, <2>2 DEF Forgotten, NumBlocks
  <2>6. Unmade'
    BY <2>1, <2>5 DEF Unmade
  <2>7. ASSUME NEW s PROVE PlaceHeld(s)'
    <3>1. BlocksHeld(s)' /\ BlocksRecorded(s)'
      BY <2>1, <2>2 DEF BlocksHeld, BlocksRecorded
    <3>2. PredsHeld(s)'
      BY <2>1, <2>4 DEF PredsHeld
    <3>3. ValuesHeld(s)' /\ InstrsRecorded(s)'
      <4>1. DOMAIN Code' = 1 .. Len(Code')
        BY <2>1, <2>3
      <4>2. \A i \in DOMAIN Code' : ~(i < pos')
        BY <4>1
      <4> QED
        BY <4>2 DEF ValuesHeld, InstrsRecorded
    <3>4. CallRecorded(s)'
      BY DEF CallRecorded
    <3> QED
      BY <3>1, <3>2, <3>3, <3>4 DEF PlaceHeld
  <2> QED
    BY <1>1, <2>6, <2>7
<1> QED
  BY <1>2, <1>3

(* A block is at its end: it holds its values, and all it records is in    *)
(* the ranges.                                                             *)
LEMMA BlockEnded ==
  ASSUME TypeInv, Ordered(prog), InBlock, left = {}, pos > Len(Code), NEW s, Quiet(s), PlaceHeld(s)
  PROVE  /\ \A v \in Kept(prog) : s.at[mod][fn][blk][v] \subseteq Entry(vrms[blk], v)
         /\ BlockRecorded(s, mod, fn, blk)
<1>1. /\ DOMAIN Code = 1 .. Len(Code) /\ Len(Code) \in Nat /\ pos \in Nat
      /\ F = prog.code[mod][fn] /\ Code = F.blocks[blk].code
  BY PlaceParts
<1>2. \A i \in DOMAIN Code : i < pos
  BY <1>1
<1>3. \A v \in Kept(prog) : s.at[mod][fn][blk][v] \subseteq Entry(vrms[blk], v)
  BY <1>2, ValueHeld
<1>4. BlockRecorded(s, mod, fn, blk)
  BY <1>1, <1>2 DEF PlaceHeld, InstrsRecorded, BlockRecorded
<1> QED
  BY <1>3, <1>4

LEMMA NextBlockHeld ==
  ASSUME TypeInv, Ordered(prog), Unmade, NextBlock, PlaceInv'
  PROVE  /\ ranges' = ranges /\ UNCHANGED <<prog, driverVars>>
         /\ Unmade' /\ LeftInv'
         /\ \A s : Quiet(s) /\ PlaceHeld(s) => PlaceHeld(s)'
         /\ \/ fn' = fn
            \/ fn' = fn + 1 /\ \A s : Quiet(s) /\ PlaceHeld(s) => FunctionRecorded(s, mod, fn)
<1>1. /\ InBlock /\ left = {} /\ pos > Len(Code) /\ pos' = 1
      /\ NoUnion /\ UNCHANGED <<prog, itr, callVars, meta>>
  BY DEF NextBlock
<1>2. ranges' = ranges /\ UNCHANGED <<prog, phase, mod, driverVars>>
  BY <1>1 DEF NoUnion, driverVars
<1>3. handled' = {}
  <2>1. ~At({"call"})
    BY <1>1, PlaceParts DEF At
  <2> QED
    BY <1>1, <2>1 DEF TypeInv, CallOK, callVars
<1>4. /\ blk \in DOMAIN F.blocks /\ DOMAIN F.blocks = 1 .. Len(F.blocks) /\ Len(F.blocks) \in Nat
      /\ F = prog.code[mod][fn] /\ Code = F.blocks[blk].code /\ IsFunction(F) /\ LaidOut(F)
  BY <1>1, PlaceParts
<1>5. CASE blk < Len(F.blocks)
  <2>1. blk' = blk + 1 /\ left' = Forward(F, blk + 1) /\ UNCHANGED <<fn, vrms>>
    BY <1>5 DEF NextBlock
  <2>2. UNCHANGED <<Functions, F, InBlock>>
    BY <1>2, <2>1 DEF Functions, F, InBlock
  <2>3. LeftInv'
    BY <2>1, <2>2 DEF LeftInv
  <2>4. ASSUME NEW v, IsUnmade(v)' PROVE IsUnmade(v)
    <3>1. PICK b \in DOMAIN F.blocks : \E i \in DOMAIN F.blocks[b].code :
                 Later(b, i)' /\ Makes(F.blocks[b].code[i]) /\ F.blocks[b].code[i].val = v
      BY <2>2, <2>4 DEF IsUnmade
    <3>2. blk < b
      BY <1>4, <2>1, <3>1 DEF Later
    <3> QED
      BY <3>1, <3>2 DEF IsUnmade, Later
  <2>5. Unmade'
    BY <1>1, <1>2, <2>1, <2>4, UnmadeKept
  <2>6. ASSUME NEW s, Quiet(s), PlaceHeld(s) PROVE PlaceHeld(s)'
    <3>1. /\ \A v \in Kept(prog) : s.at[mod][fn][blk][v] \subseteq Entry(vrms[blk], v)
          /\ BlockRecorded(s, mod, fn, blk)
      BY <1>1, <2>6, BlockEnded
    <3>2. BlocksHeld(s) /\ BlocksRecorded(s)
      BY <1>1, <2>6 DEF PlaceHeld
    <3>3. \A b \in DOMAIN F.blocks : b < blk + 1 => b = blk \/ b < blk
      BY <1>4
    <3>4. ASSUME NEW b \in DOMAIN F.blocks, b < blk + 1
          PROVE  /\ \A v \in Kept(prog) : s.at[mod][fn][b][v] \subseteq Entry(vrms[b], v)
                 /\ BlockRecorded(s, mod, fn, b)
      BY <3>1, <3>2, <3>3, <3>4 DEF BlocksHeld, BlocksRecorded
    <3>5. BlocksHeld(s)'
      BY <1>2, <2>1, <2>2, <3>4 DEF BlocksHeld
    <3>6. BlocksRecorded(s)'
      BY <1>2, <2>1, <2>2, <3>4 DEF BlocksRecorded, BlockRecorded, InstrRecorded
    <3>7. PredsHeld(s)'
      <4>1. Entering(F, blk + 1) = Forward(F, blk + 1)
        BY <1>4, NoBackEdges
      <4>2. Entering(F', blk') \ left' = {}
        BY <2>1, <2>2, <4>1
      <4> QED
        BY <4>2 DEF PredsHeld
    <3>8. ValuesHeld(s)' /\ InstrsRecorded(s)'
      <4>1. Code' = F.blocks[blk + 1].code /\ blk + 1 \in DOMAIN F.blocks
        BY <1>4, <1>5, <2>1, <2>2 DEF Code
      <4>2. DOMAIN Code' = 1 .. Len(Code')
        BY <1>4, <4>1, CodeOfBlock
      <4> QED
        BY <1>1, <4>2 DEF ValuesHeld, InstrsRecorded
    <3>9. CallRecorded(s)'
      BY <1>3 DEF CallRecorded
    <3> QED
      BY <3>5, <3>6, <3>7, <3>8, <3>9 DEF PlaceHeld
  <2> QED
    BY <1>2, <2>1, <2>3, <2>5, <2>6
<1>6. CASE ~(blk < Len(F.blocks))
  <2>1. blk' = 1 /\ left' = {} /\ fn' = fn + 1 /\ vrms' = Forgotten(mod, fn + 1)
    BY <1>6 DEF NextBlock
  <2>2. Unmade' /\ LeftInv' /\ \A s : PlaceHeld(s)'
    BY <1>1, <1>2, <1>3, <2>1, EnteredPlace
  <2>3. ASSUME NEW s, Quiet(s), PlaceHeld(s) PROVE FunctionRecorded(s, mod, fn)
    <3>1. BlockRecorded(s, mod, fn, blk)
      BY <1>1, <2>3, BlockEnded
    <3>2. BlocksRecorded(s)
      BY <1>1, <2>3 DEF PlaceHeld
    <3>3. \A b \in DOMAIN F.blocks : b = blk \/ b < blk
      BY <1>4, <1>6
    <3> QED
      BY <1>4, <3>1, <3>2, <3>3 DEF BlocksRecorded, FunctionRecorded
  <2> QED
    BY <1>2, <2>1, <2>2, <2>3
<1> QED
  BY <1>5, <1>6

-----------------------------------------------------------------------------
(* The steps within a block.                                               *)
Working == MergePred \/ Record \/ Compute \/ TakeCallee \/ PassArg \/ TakeResult

LEMMA WorkStays ==
  ASSUME Working
  PROVE  /\ phase = "sweep" /\ InBlock
         /\ UNCHANGED <<prog, phase, mod, updated, ret, fn, blk, meta, InBlock>>
         /\ left' \subseteq left
<1>1. InBlock
  BY Zenon DEF Working, MergePred, Record, Compute, TakeCallee, PassArg, TakeResult, At
<1>2. UNCHANGED <<prog, fn, blk, meta>> /\ left' \subseteq left
  BY DEF Working, MergePred, Record, Compute, TakeCallee, PassArg, TakeResult, NextInstr
<1>3. UNCHANGED <<phase, mod, updated, ret>>
  BY DEF Working, MergePred, Record, Compute, TakeCallee, PassArg, TakeResult, UnionName, NoUnion, driverVars
<1> QED
  BY <1>1, <1>2, <1>3, SamePlace DEF InBlock

LEMMA WorkHeld ==
  ASSUME TypeInv, Ordered(prog), LeftInv, Unmade, Working
  PROVE  /\ \A id \in Ids : ranges[id] \subseteq ranges'[id]
         /\ LeftInv' /\ Unmade'
         /\ ~changed' => ~changed /\ ranges' = ranges
         /\ \A s : Quiet(s) /\ PlaceHeld(s) /\ ~changed' => PlaceHeld(s)'
<1>1. LeftInv'
  <2>1. F' = F /\ blk' = blk /\ left' \subseteq left /\ InBlock
    BY WorkStays DEF F, Functions
  <2> QED
    BY <2>1 DEF LeftInv
<1>2. CASE MergePred
  <2>1. UNCHANGED <<changed, ranges>>
    BY <1>2 DEF MergePred, NoUnion, driverVars
  <2> QED
    BY <1>1, <1>2, <2>1, MergeHeld
<1>3. CASE Compute
  <2>1. UNCHANGED <<changed, ranges>>
    BY <1>3 DEF Compute, NoUnion, driverVars
  <2> QED
    BY <1>1, <1>3, <2>1, ComputeHeld
<1>4. CASE TakeCallee
  <2>1. UNCHANGED <<changed, ranges>>
    BY <1>4 DEF TakeCallee, NoUnion, driverVars
  <2> QED
    BY <1>1, <1>4, <2>1, TakeCalleeHeld
<1>5. CASE Record
  BY <1>1, <1>5, RecordHeld
<1>6. CASE PassArg
  BY <1>1, <1>6, PassArgHeld
<1>7. CASE TakeResult
  BY <1>1, <1>7, TakeResultHeld
<1> QED
  BY <1>2, <1>3, <1>4, <1>5, <1>6, <1>7 DEF Working

(* No name of a taint source is written.                                   *)
LEMMA UnionOthers ==
  ASSUME NamesHaveRanges, NEW id, NEW R, UnionName(id, R), id \notin Sources
  PROVE  \A i \in Ids \cap Sources : ranges'[i] = ranges[i]
BY DEF UnionName, NamesHaveRanges

LEMMA WorkSources ==
  ASSUME TypeInv, Ordered(prog), Working
  PROVE  \A i \in Ids \cap Sources : ranges'[i] = ranges[i]
<1>0. NamesHaveRanges
  BY DEF TypeInv, NamesOK
<1>1. CASE NoUnion
  BY <1>1 DEF NoUnion
<1>2. CASE Record
  <2>1. At({"store", "ret"}) /\ UnionName(Instr.id, GetRange(blk, Instr.v))
    BY <1>2 DEF Record
  <2>2. Writes(Instr) \cap Sources = {} /\ Instr.op \in {"store", "ret"}
    BY <2>1, InstrParts
  <2>3. Instr.id \notin Sources
    BY <2>2 DEF Writes
  <2> QED
    BY <1>0, <2>1, <2>3, UnionOthers
<1>3. CASE PassArg
  <2>1. At({"call"}) /\ arg # 0 /\ UnionName(callee[arg], GetRange(blk, Instr.args[arg]))
    BY <1>3 DEF PassArg
  <2>2. Writes(Instr) \cap Sources = {} /\ Instr.op = "call" /\ IsInstr(Instr)
    BY <2>1, InstrParts
  <2>3. callee \in Instr.passes /\ arg \in 1 .. Len(callee)
    BY <2>1 DEF TypeInv, CallOK
  <2>4. DOMAIN callee = 1 .. Len(callee)
    BY <2>2, <2>3 DEF IsInstr
  <2>5. callee[arg] \in Range(callee)
    BY <2>3, <2>4 DEF Range
  <2>6. callee[arg] \in Writes(Instr)
    BY <2>2, <2>3, <2>5 DEF Writes
  <2> QED
    BY <1>0, <2>1, <2>2, <2>6, UnionOthers
<1>4. CASE TakeResult
  <2>1. CASE Instr.passes = {} \/ Instr.ret = NoId
    BY <1>1, <1>4, <2>1 DEF TakeResult
  <2>2. CASE ~(Instr.passes = {} \/ Instr.ret = NoId)
    <3>1. At({"call"}) /\ UnionName(Instr.ret, GetRange(blk, Instr.val))
      BY <1>4, <2>2 DEF TakeResult
    <3>2. Writes(Instr) \cap Sources = {} /\ Instr.op = "call"
      BY <3>1, InstrParts
    <3>3. Instr.ret \notin Sources
      BY <3>2 DEF Writes
    <3> QED
      BY <1>0, <3>1, <3>3, UnionOthers
  <2> QED
    BY <2>1, <2>2
<1>5. CASE MergePred \/ Compute \/ TakeCallee
  BY <1>1, <1>5 DEF MergePred, Compute, TakeCallee
<1> QED
  BY <1>2, <1>3, <1>4, <1>5 DEF Working

(* The initial values of a module enter the ranges.                        *)
LEMMA InitialHolds ==
  ASSUME NamesHaveRanges, PlaceInv, NEW id \in Ids
  PROVE  /\ ranges[id] \subseteq WithInitial(id)
         /\ \A e \in prog.inits[mod] : e[1] = id => e[2] \in WithInitial(id)
<1> DEFINE values == { e \in prog.inits[mod] : e[1] = id }
           family == [e \in values |-> {e[2]}]
<1>1. IsFiniteSet(prog.inits[mod]) /\ prog.inits[mod] \subseteq Ids \X Word
  BY ProgramAssumption DEF PlaceInv
<1>2. IsFiniteSet(values)
  BY <1>1, FS_Subset
<1>3. \A e \in values : {e[2]} \in Ranges
  BY <1>1, SomeRanges
<1>4. \A e \in prog.inits[mod] : e[1] = id => e \in values
  OBVIOUS
<1> HIDE DEF values
<1>5. IsFiniteSet(DOMAIN family) /\ \A x \in DOMAIN family : family[x] \in Ranges
  BY <1>2, <1>3
<1>6. DOMAIN family = values /\ \A e \in values : family[e] = {e[2]}
  OBVIOUS
<1>7. HoldsAll(ranges[id], family, values, UnionOver(ranges[id], family))
  <2> HIDE DEF family
  <2> QED
    BY <1>5, <1>6, UnionOverHolds DEF NamesHaveRanges
<1>8. WithInitial(id) = UnionOver(ranges[id], family)
  BY DEF WithInitial, values
<1> HIDE DEF family
<1> QED
  BY <1>4, <1>6, <1>7, <1>8 DEF HoldsAll

LEMMA UnionOfNone ==
  ASSUME NEW first, NEW family, DOMAIN family = {}
  PROVE  UnionOver(first, family) = first
<1> DEFINE g == CHOOSE g : Joins(first, family, g)
<1>1. UnionOver(first, family) = g[DOMAIN family]
  BY DEF UnionOver, Joins, Join
<1>2. Joins(first, family, g)
  BY JoinsExists, FS_EmptySet
<1> HIDE DEF g
<1>3. g[{}] = Join(first, family, g, {})
  BY <1>2 DEF Joins
<1> QED
  BY <1>1, <1>3 DEF Join

LEMMA InitialSources ==
  ASSUME Ordered(prog), mod \in Modules, NEW id \in Sources
  PROVE  WithInitial(id) = ranges[id]
<1> DEFINE values == { e \in prog.inits[mod] : e[1] = id }
           family == [e \in values |-> {e[2]}]
<1>1. values = {}
  BY DEF Ordered, SourcesOutside
<1>2. DOMAIN family = {}
  BY <1>1
<1>3. WithInitial(id) = UnionOver(ranges[id], family)
  BY DEF WithInitial
<1> HIDE DEF family
<1> QED
  BY <1>2, <1>3, UnionOfNone

LEMMA WidenHolds ==
  ASSUME NamesOK
  PROVE  /\ \A id \in Ids : ranges[id] \subseteq Widen[id]
         /\ SourcesInv => \A id \in Ids \cap Sources : Widen[id] = ranges[id]
<1>1. \A id \in Ids : ranges[id] \subseteq Word
  BY SomeRanges DEF NamesOK, NamesHaveRanges
<1> QED
  BY <1>1 DEF Widen, FullSet, SourcesInv, NamesOK

-----------------------------------------------------------------------------
(* The invariant of ordered programs, step by step.                        *)
OrderInv == LeftInv /\ Unmade /\ (\A s : HeldInv(s)) /\ InitsInv /\ SourcesInv /\ MetaInv

LEMMA QuietSame ==
  ASSUME UNCHANGED <<prog, ranges>>, NEW s
  PROVE  /\ Quiet(s)' <=> Quiet(s)
         /\ \A m, g : FunctionRecorded(s, m, g)' <=> FunctionRecorded(s, m, g)
         /\ \A m : ModuleRecorded(s, m)' <=> ModuleRecorded(s, m)
BY DEF Quiet, Within, ModuleRecorded, FunctionRecorded, BlockRecorded, InstrRecorded

LEMMA SweepSame ==
  ASSUME UNCHANGED <<prog, ranges, mod, fn, ret, updated>>, NEW s, SweepRecorded(s)
  PROVE  SweepRecorded(s)'
BY QuietSame DEF SweepRecorded, Functions

LEMMA MetaSame ==
  ASSUME MetaInv, phase \in {"init", "sweep"}, meta' = meta
  PROVE  MetaInv'
BY DEF MetaInv

LEMMA InitsGrow ==
  ASSUME InitsInv, PlaceInv, phase' = phase \/ phase # "init", mod' = mod \/ phase # "init", prog' = prog,
         \A id \in Ids : ranges[id] \subseteq ranges'[id]
  PROVE  InitsInv'
<1> SUFFICES ASSUME NEW m \in Modules, phase' # "init" \/ m < mod', NEW e \in prog.inits[m]
             PROVE  e[2] \in ranges'[e[1]]
  BY DEF InitsInv
<1>1. phase # "init" \/ m < mod
  OBVIOUS
<1>2. e[1] \in Ids
  BY ProgramAssumption DEF PlaceInv
<1>3. e[2] \in ranges[e[1]]
  BY <1>1 DEF InitsInv
<1> QED
  BY <1>2, <1>3

LEMMA InitOrder == Init => OrderInv
<1> SUFFICES ASSUME Init PROVE OrderInv
  OBVIOUS
<1>1. phase = "init" /\ mod = 1 /\ ~InBlock
  BY Zenon DEF Init, DriverInit, InBlock
<1>2. LeftInv /\ Unmade
  BY <1>1 DEF LeftInv, Unmade
<1>3. \A s : HeldInv(s)
  BY <1>1 DEF HeldInv
<1>4. InitsInv
  BY <1>1 DEF InitsInv, Modules
<1>5. SourcesInv /\ MetaInv
  BY DEF Init, SourcesInv, MetaInv
<1> QED
  BY <1>2, <1>3, <1>4, <1>5 DEF OrderInv

LEMMA WorkOrder ==
  ASSUME TypeInv, Ordered(prog), OrderInv, Working
  PROVE  OrderInv'
<1>1. /\ phase = "sweep" /\ InBlock
      /\ UNCHANGED <<prog, phase, mod, updated, ret, fn, blk, meta, InBlock>>
  BY WorkStays
<1>2. /\ \A id \in Ids : ranges[id] \subseteq ranges'[id]
      /\ LeftInv' /\ Unmade'
      /\ ~changed' => ~changed /\ ranges' = ranges
      /\ \A s : Quiet(s) /\ PlaceHeld(s) /\ ~changed' => PlaceHeld(s)'
  BY WorkHeld DEF OrderInv
<1>3. ASSUME NEW s, Quiet(s)', ~changed' PROVE PlaceHeld(s)' /\ SweepRecorded(s)'
  <2>1. ~changed /\ ranges' = ranges
    BY <1>2, <1>3
  <2>2. Quiet(s)
    BY <1>1, <1>3, <2>1, QuietSame
  <2>3. PlaceHeld(s) /\ SweepRecorded(s)
    BY <1>1, <2>1, <2>2 DEF OrderInv, HeldInv
  <2>4. PlaceHeld(s)'
    BY <1>2, <1>3, <2>2, <2>3
  <2>5. SweepRecorded(s)'
    BY <1>1, <2>1, <2>3, SweepSame
  <2> QED
    BY <2>4, <2>5
<1>4. \A s : HeldInv(s)'
  BY <1>1, <1>3 DEF HeldInv
<1>5. InitsInv'
  BY <1>1, <1>2, InitsGrow DEF OrderInv, TypeInv
<1>6. SourcesInv'
  BY WorkSources DEF OrderInv, SourcesInv
<1>7. MetaInv'
  BY <1>1, MetaSame DEF OrderInv
<1> QED
  BY <1>2, <1>4, <1>5, <1>6, <1>7 DEF OrderInv

LEMMA NextBlockOrder ==
  ASSUME TypeInv, Ordered(prog), OrderInv, NextBlock, PlaceInv'
  PROVE  OrderInv'
<1>1. /\ ranges' = ranges /\ UNCHANGED <<prog, driverVars>>
      /\ Unmade' /\ LeftInv'
      /\ \A s : Quiet(s) /\ PlaceHeld(s) => PlaceHeld(s)'
      /\ \/ fn' = fn
         \/ fn' = fn + 1 /\ \A s : Quiet(s) /\ PlaceHeld(s) => FunctionRecorded(s, mod, fn)
  BY NextBlockHeld DEF OrderInv
<1>2. phase = "sweep" /\ UNCHANGED <<phase, mod, updated, changed, ret, meta>>
  BY <1>1 DEF NextBlock, InBlock, driverVars
<1>3. ASSUME NEW s, Quiet(s)', ~changed' PROVE PlaceHeld(s)' /\ SweepRecorded(s)'
  <2>1. Quiet(s) /\ ~changed
    BY <1>1, <1>2, <1>3, QuietSame
  <2>2. PlaceHeld(s) /\ SweepRecorded(s)
    BY <1>2, <2>1 DEF OrderInv, HeldInv
  <2>3. PlaceHeld(s)'
    BY <1>1, <2>1, <2>2
  <2>4. CASE fn' = fn
    BY <1>1, <1>2, <2>2, <2>3, <2>4, SweepSame
  <2>5. CASE fn' = fn + 1 /\ \A t : Quiet(t) /\ PlaceHeld(t) => FunctionRecorded(t, mod, fn)
    <3>1. FunctionRecorded(s, mod, fn)
      BY <2>1, <2>2, <2>5
    <3>2. fn \in Int /\ DOMAIN Functions = 1 .. Len(Functions)
      BY ProgramAssumption DEF TypeInv, PlaceInv, Functions
    <3>3. \A g \in DOMAIN Functions : g < fn + 1 => g = fn \/ g < fn
      BY <3>2
    <3>4. \A g \in DOMAIN Functions : g < fn + 1 => FunctionRecorded(s, mod, g)
      BY <2>2, <3>1, <3>3 DEF SweepRecorded
    <3>5. SweepRecorded(s)'
      BY <1>1, <1>2, <2>2, <2>5, <3>4, QuietSame DEF SweepRecorded, Functions
    <3> QED
      BY <2>3, <3>5
  <2> QED
    BY <1>1, <2>4, <2>5
<1>4. \A s : HeldInv(s)'
  BY <1>2, <1>3 DEF HeldInv
<1>5. InitsInv'
  BY <1>1, <1>2, InitsGrow DEF OrderInv, TypeInv
<1>6. SourcesInv'
  BY <1>1 DEF OrderInv, SourcesInv
<1>7. MetaInv'
  BY <1>2, MetaSame DEF OrderInv
<1> QED
  BY <1>1, <1>4, <1>5, <1>6, <1>7 DEF OrderInv

(* A sweep over a module begins.                                           *)
LEMMA SweepBegins ==
  ASSUME PlaceInv', prog' = prog, Ordered(prog), NEW m, mod' = m, fn' = 1,
         blk' = 1, left' = {}, pos' = 1, handled' = {}, vrms' = Forgotten(m, 1),
         NEW s, ~ret' /\ updated' = 0 => \A k \in Modules : k < m => ModuleRecorded(s, k)'
  PROVE  PlaceHeld(s)' /\ SweepRecorded(s)'
<1>1. PlaceHeld(s)'
  BY EnteredPlace
<1>2. \A g \in DOMAIN Functions' : ~(g < fn')
  <2>1. DOMAIN Functions' = 1 .. Len(Functions')
    BY ProgramAssumption DEF PlaceInv, Functions
  <2> QED
    BY <2>1
<1>3. SweepRecorded(s)'
  BY <1>2 DEF SweepRecorded
<1> QED
  BY <1>1, <1>3

LEMMA InitializeOrder ==
  ASSUME TypeInv, Ordered(prog), OrderInv, Initialize, PlaceInv'
  PROVE  OrderInv'
<1>1. /\ phase = "init" /\ InitializedModule
      /\ ranges' = [id \in Ids |-> WithInitial(id)] /\ vrms' = Forgotten(mod', 1)
      /\ UNCHANGED <<prog, fn, blk, left, pos, handled, meta>>
  BY DEF Initialize, placeVars, callVars
<1>2. NamesHaveRanges /\ PlaceInv /\ mod \in Modules
  BY DEF TypeInv, NamesOK, PlaceInv
<1>3. fn = 1 /\ blk = 1 /\ left = {} /\ pos = 1 /\ handled = {}
  <2>1. ~InBlock /\ ~At({"call"})
    BY <1>1 DEF InBlock, At
  <2> QED
    BY <1>1, <2>1 DEF TypeInv, PlaceInv, EntriesOK, CallOK
<1>4. Unmade' /\ LeftInv'
  BY <1>1, <1>3, EnteredPlace
<1>5. \/ phase' = "init" /\ mod' = mod + 1
      \/ phase' = "sweep" /\ mod' = 1 /\ mod = NumModules
  BY <1>1, <1>2 DEF InitializedModule, EnterModule, Modules
<1>6. ASSUME NEW s PROVE HeldInv(s)'
  <2>1. CASE phase' = "init"
    BY <2>1 DEF HeldInv
  <2>2. CASE phase' = "sweep" /\ mod' = 1
    <3>1. \A k \in Modules : ~(k < 1)
      BY DEF Modules
    <3>2. PlaceHeld(s)' /\ SweepRecorded(s)'
      BY <1>1, <1>3, <2>2, <3>1, SweepBegins
    <3> QED
      BY <2>2, <3>2 DEF HeldInv
  <2> QED
    BY <1>5, <2>1, <2>2
<1>7. InitsInv'
  <2> SUFFICES ASSUME NEW m \in Modules, phase' # "init" \/ m < mod', NEW e \in prog.inits[m]
               PROVE  e[2] \in ranges'[e[1]]
    BY <1>1 DEF InitsInv
  <2>1. e[1] \in Ids
    BY <1>2, ProgramAssumption DEF PlaceInv
  <2>2. m < mod \/ m = mod
    BY <1>2, <1>5 DEF Modules
  <2>3. CASE m < mod
    <3>1. e[2] \in ranges[e[1]]
      BY <2>3 DEF OrderInv, InitsInv
    <3> QED
      BY <1>1, <1>2, <2>1, <3>1, InitialHolds
  <2>4. CASE m = mod
    BY <1>1, <1>2, <2>1, <2>4, InitialHolds
  <2> QED
    BY <2>2, <2>3, <2>4
<1>8. SourcesInv'
  BY <1>1, <1>2, InitialSources DEF OrderInv, SourcesInv
<1>9. MetaInv'
  BY <1>1, MetaSame DEF OrderInv
<1> QED
  BY <1>4, <1>6, <1>7, <1>8, <1>9 DEF OrderInv

LEMMA EndSweepOrder ==
  ASSUME TypeInv, Ordered(prog), OrderInv, EndSweep, PlaceInv'
  PROVE  OrderInv'
<1>1. /\ AtSweepEnd /\ phase = "sweep" /\ SweepAgain /\ ranges' = Widen
      /\ fn' = 1 /\ vrms' = Forgotten(mod, 1)
      /\ UNCHANGED <<prog, blk, left, pos, handled, meta>>
  BY DEF EndSweep, AtSweepEnd, callVars
<1>2. ret' = TRUE /\ UNCHANGED <<phase, mod>>
  BY <1>1 DEF SweepAgain
<1>3. blk = 1 /\ left = {} /\ pos = 1 /\ handled = {}
  BY <1>1, SweepEndFacts
<1>4. Unmade' /\ LeftInv'
  BY <1>1, <1>2, <1>3, EnteredPlace
<1>5. ASSUME NEW s PROVE HeldInv(s)'
  <2>1. PlaceHeld(s)' /\ SweepRecorded(s)'
    BY <1>1, <1>2, <1>3, SweepBegins
  <2> QED
    BY <1>1, <1>2, <2>1 DEF HeldInv
<1>6. /\ \A id \in Ids : ranges[id] \subseteq ranges'[id]
      /\ \A id \in Ids \cap Sources : ranges'[id] = ranges[id]
  BY <1>1, WidenHolds DEF TypeInv, OrderInv
<1>7. InitsInv'
  BY <1>1, <1>2, <1>6, InitsGrow DEF OrderInv, TypeInv
<1>8. SourcesInv'
  BY <1>6 DEF OrderInv, SourcesInv
<1>9. MetaInv'
  BY <1>1, MetaSame DEF OrderInv
<1> QED
  BY <1>4, <1>5, <1>7, <1>8, <1>9 DEF OrderInv

LEMMA EndModuleOrder ==
  ASSUME TypeInv, Ordered(prog), OrderInv, EndModule, PlaceInv'
  PROVE  OrderInv'
<1>1. /\ AtSweepEnd /\ phase = "sweep" /\ fn > Len(Functions) /\ ReturnFromModule
      /\ fn' = 1 /\ vrms' = Forgotten(mod', 1)
      /\ UNCHANGED <<prog, ranges, blk, left, pos, handled, meta>>
  BY DEF EndModule, AtSweepEnd, callVars
<1>2. blk = 1 /\ left = {} /\ pos = 1 /\ handled = {}
  BY <1>1, SweepEndFacts
<1>3. Unmade' /\ LeftInv'
  BY <1>1, <1>2, EnteredPlace
<1>4. /\ ~changed /\ mod \in Modules /\ updated \in Nat
      /\ \/ mod < NumModules /\ mod' = mod + 1 /\ updated' = Counted /\ phase' = "sweep"
         \/ mod = NumModules /\ mod' = 1 /\ phase' = "sweep"
         \/ mod = NumModules /\ phase' = "final" /\ Counted = 0
  <2>1. ~changed /\ mod \in Modules /\ updated \in 0 .. mod - 1
    BY <1>1 DEF ReturnFromModule, TypeInv, DriverTypeOK
  <2>2. Counted \in Nat
    BY <2>1 DEF Counted, Modules
  <2> QED
    BY <1>1, <2>1, <2>2 DEF ReturnFromModule, EnterModule, Modules
<1>5. ASSUME NEW s, Quiet(s), ~ret, updated = 0
      PROVE  \A m \in Modules : m <= mod => ModuleRecorded(s, m)
  <2>1. SweepRecorded(s)
    BY <1>1, <1>4, <1>5 DEF OrderInv, HeldInv
  <2>2. \A g \in DOMAIN Functions : g < fn
    BY <1>1, ProgramAssumption DEF TypeInv, PlaceInv, Functions
  <2>3. ModuleRecorded(s, mod)
    BY <2>1, <2>2 DEF SweepRecorded, ModuleRecorded, Functions
  <2>4. \A m \in Modules : m <= mod => m < mod \/ m = mod
    BY <1>4 DEF Modules
  <2> QED
    BY <1>5, <2>1, <2>3, <2>4 DEF SweepRecorded
<1>6. Counted = 0 => ~ret /\ updated = 0
  BY <1>4 DEF Counted
<1>7. ASSUME NEW s, Quiet(s)' PROVE HeldInv(s)'
  <2>0. Quiet(s)
    BY <1>1, <1>7, QuietSame
  <2>1. CASE mod < NumModules /\ mod' = mod + 1 /\ updated' = Counted /\ phase' = "sweep"
    <3>1. \A m \in Modules : m < mod + 1 => m <= mod
      BY <1>4 DEF Modules
    <3>2. ~ret' /\ updated' = 0 => \A m \in Modules : m < mod + 1 => ModuleRecorded(s, m)'
      BY <1>1, <1>5, <1>6, <2>0, <2>1, <3>1, QuietSame
    <3>3. PlaceHeld(s)' /\ SweepRecorded(s)'
      BY <1>1, <1>2, <2>1, <3>2, SweepBegins
    <3> QED
      BY <2>1, <3>3 DEF HeldInv
  <2>2. CASE mod = NumModules /\ mod' = 1 /\ phase' = "sweep"
    <3>1. \A m \in Modules : ~(m < 1)
      BY DEF Modules
    <3>2. PlaceHeld(s)' /\ SweepRecorded(s)'
      BY <1>1, <1>2, <2>2, <3>1, SweepBegins
    <3> QED
      BY <2>2, <3>2 DEF HeldInv
  <2>3. CASE mod = NumModules /\ phase' = "final" /\ Counted = 0
    <3>1. \A m \in Modules : m <= mod
      BY <2>3 DEF Modules
    <3>2. \A m \in Modules : ModuleRecorded(s, m)'
      BY <1>1, <1>5, <1>6, <2>0, <2>3, <3>1, QuietSame
    <3> QED
      BY <2>3, <3>2 DEF HeldInv
  <2> QED
    BY <1>4, <2>1, <2>2, <2>3
<1>8. \A s : HeldInv(s)'
  BY <1>7 DEF HeldInv
<1>9. InitsInv'
  BY <1>1, InitsGrow DEF OrderInv, TypeInv
<1>10. SourcesInv'
  BY <1>1 DEF OrderInv, SourcesInv
<1>11. MetaInv'
  BY <1>1, MetaSame DEF OrderInv
<1> QED
  BY <1>3, <1>8, <1>9, <1>10, <1>11 DEF OrderInv

LEMMA FinalizeOrder ==
  ASSUME TypeInv, Ordered(prog), OrderInv, Finalize
  PROVE  OrderInv'
<1>1. phase = "final" /\ phase' \in {"final", "done"} /\ UNCHANGED <<prog, ranges>>
  BY DEF Finalize, FinalizedModule
<1>2. ~InBlock'
  BY <1>1 DEF InBlock
<1>3. LeftInv' /\ Unmade'
  BY <1>2 DEF LeftInv, Unmade
<1>4. ASSUME NEW s PROVE HeldInv(s)'
  <2>1. HeldInv(s)
    BY DEF OrderInv
  <2> QED
    BY <1>1, <2>1, QuietSame DEF HeldInv
<1>5. InitsInv'
  BY <1>1, InitsGrow DEF OrderInv, TypeInv
<1>6. SourcesInv'
  BY <1>1 DEF OrderInv, SourcesInv
<1>7. MetaInv'
  <2> SUFFICES ASSUME NEW v \in Values, meta'[v] # NoRange
               PROVE  \E m \in Modules : \E ins \in Marked(m) :
                        ins.val = v /\ MarkName(ins) # NoId /\ meta'[v] = ranges[MarkName(ins)]
    BY <1>1 DEF MetaInv, Marked
  <2>1. CASE \E ins \in Marked(mod) : ins.val = v
    <3> DEFINE ins == CHOOSE ins \in Marked(mod) : ins.val = v
    <3>1. ins \in Marked(mod) /\ ins.val = v
      BY <2>1
    <3>2. meta'[v] = MetaOf(ins)
      BY <2>1 DEF Finalize
    <3> HIDE DEF ins
    <3>3. MarkName(ins) # NoId /\ meta'[v] = ranges[MarkName(ins)]
      BY <3>2 DEF MetaOf
    <3> QED
      BY <3>1, <3>3 DEF TypeInv, PlaceInv
  <2>2. CASE ~ \E ins \in Marked(mod) : ins.val = v
    <3>1. meta'[v] = meta[v]
      BY <2>2 DEF Finalize
    <3> QED
      BY <3>1 DEF OrderInv, MetaInv
  <2> QED
    BY <2>1, <2>2
<1> QED
  BY <1>3, <1>4, <1>5, <1>6, <1>7 DEF OrderInv

LEMMA StutterOrder ==
  ASSUME TypeInv, OrderInv, UNCHANGED vars
  PROVE  OrderInv'
<1>1. UNCHANGED <<prog, ranges, vrms, meta, phase, mod, updated, changed, ret, fn, blk, left, pos, handled, callee, arg>>
  BY DEF vars, driverVars, placeVars, callVars
<1>2. UNCHANGED <<Functions, F, Code, Instr, InBlock>>
  BY <1>1, Zenon DEF Functions, F, Code, Instr, InBlock
<1>3. LeftInv' /\ Unmade'
  BY <1>1, <1>2 DEF OrderInv, LeftInv, Unmade, IsUnmade, Later
<1>4. ASSUME NEW s PROVE HeldInv(s)'
  <2>1. HeldInv(s)
    BY DEF OrderInv
  <2>2. Quiet(s)' <=> Quiet(s)
    BY <1>1, QuietSame
  <2>3. PlaceHeld(s)' <=> PlaceHeld(s)
    <3>1. (BlocksHeld(s)' <=> BlocksHeld(s)) /\ (PredsHeld(s)' <=> PredsHeld(s)) /\ (ValuesHeld(s)' <=> ValuesHeld(s))
      BY <1>1, <1>2 DEF BlocksHeld, PredsHeld, ValuesHeld
    <3>2. (BlocksRecorded(s)' <=> BlocksRecorded(s)) /\ (InstrsRecorded(s)' <=> InstrsRecorded(s))
      BY <1>1, <1>2 DEF BlocksRecorded, InstrsRecorded, BlockRecorded, InstrRecorded
    <3>3. CallRecorded(s)' <=> CallRecorded(s)
      BY <1>1, <1>2 DEF CallRecorded, At
    <3> QED
      BY <1>2, <3>1, <3>2, <3>3 DEF PlaceHeld
  <2>4. SweepRecorded(s) => SweepRecorded(s)'
    BY <1>1, SweepSame
  <2> QED
    BY <1>1, <2>1, <2>2, <2>3, <2>4, QuietSame DEF HeldInv
<1>5. InitsInv' /\ SourcesInv' /\ MetaInv'
  BY <1>1 DEF OrderInv, InitsInv, SourcesInv, MetaInv, Marked
<1> QED
  BY <1>3, <1>4, <1>5 DEF OrderInv

-----------------------------------------------------------------------------
(* In every step of the pass over an ordered program.                      *)
LEMMA OrderStep ==
  ASSUME TypeInv, Ordered(prog), OrderInv, [Next]_vars
  PROVE  OrderInv'
<1>1. PlaceInv'
  BY PlaceStep DEF TypeInv
<1>2. CASE Working
  BY <1>2, WorkOrder
<1>3. CASE NextBlock
  BY <1>1, <1>3, NextBlockOrder
<1>4. CASE Initialize
  BY <1>1, <1>4, InitializeOrder
<1>5. CASE EndSweep
  BY <1>1, <1>5, EndSweepOrder
<1>6. CASE EndModule
  BY <1>1, <1>6, EndModuleOrder
<1>7. CASE Finalize
  BY <1>7, FinalizeOrder
<1>8. CASE UNCHANGED vars
  BY <1>8, StutterOrder
<1> QED
  BY <1>2, <1>3, <1>4, <1>5, <1>6, <1>7, <1>8, Zenon DEF Next, Ended, Working

LEMMA SameProgram == [Next]_vars => prog' = prog
<1> SUFFICES ASSUME [Next]_vars PROVE prog' = prog
  OBVIOUS
<1>1. CASE Working
  BY <1>1, WorkStays
<1>2. CASE NextBlock \/ Initialize \/ EndSweep \/ EndModule \/ Finalize
  BY <1>2, Zenon DEF NextBlock, Initialize, EndSweep, EndModule, Finalize
<1>3. CASE UNCHANGED vars
  BY <1>3 DEF vars
<1> QED
  BY <1>1, <1>2, <1>3, Zenon DEF Next, Ended, Working

(* At the end the ranges hold every table the reference reaches, and what  *)
(* instructions record of it.                                              *)
Reached(s) == Within(s) /\ Supported(prog, s) /\ \A m \in Modules : ModuleRecorded(s, m)

LEMMA TablesReached ==
  ASSUME prog \in Programs, Ordered(prog), \A s : HeldInv(s), InitsInv, phase = "done"
  PROVE  \E T : /\ Collected(prog) = T[Depth] /\ T[0] = NoValues(prog)
                /\ \A n \in 1 .. Depth : T[n] = CollectStep(prog, T[n - 1])
                /\ \A n \in 0 .. Depth : Reached(T[n])
<1>1. PICK T : /\ Collected(prog) = T[Depth] /\ T[0] = NoValues(prog)
               /\ \A n \in 1 .. Depth : T[n] = CollectStep(prog, T[n - 1])
  BY CollectedIs
<1>2. Depth \in Nat
  BY CollectedAssumption
<1>3. ASSUME NEW s, Within(s), Supported(prog, s) PROVE Reached(s)
  BY <1>3 DEF HeldInv, Quiet, Reached
<1> DEFINE N == { n \in Nat : n <= Depth => Reached(T[n]) }
<1>4. 0 \in N
  BY <1>1, <1>3, WithinStart, SupportedStart
<1>5. ASSUME NEW n \in N PROVE n + 1 \in N
  <2>1. ASSUME n + 1 <= Depth PROVE Reached(T[n + 1])
    <3>1. n \in Nat /\ n <= Depth /\ n + 1 \in 1 .. Depth /\ (n + 1) - 1 = n
      BY <1>2, <2>1
    <3> DEFINE s == T[n]
    <3>2. Reached(s)
      BY <3>1
    <3>3. T[n + 1] = CollectStep(prog, s)
      BY <1>1, <3>1
    <3> HIDE DEF N, s
    <3>4. \A m \in Modules : \A e \in prog.inits[m] : e[2] \in ranges[e[1]]
      BY DEF InitsInv
    <3>5. Within(CollectStep(prog, s)) /\ Supported(prog, CollectStep(prog, s))
      BY <3>2, <3>4, WithinStep, SupportedStep DEF Reached
    <3> QED
      BY <1>3, <3>3, <3>5
  <2>2. n + 1 \in Nat
    OBVIOUS
  <2> QED
    BY <2>1, <2>2
<1>6. N = Nat
  <2>1. N \in SUBSET Nat
    OBVIOUS
  <2> HIDE DEF N
  <2> QED
    BY <1>4, <1>5, <2>1, Counting
<1>7. \A n \in 0 .. Depth : Reached(T[n])
  <2>1. \A n \in 0 .. Depth : n \in N /\ n <= Depth
    BY <1>2, <1>6
  <2> QED
    BY <2>1
<1> QED
  BY <1>1, <1>7

(* A marked instruction at its place, with a name that has a range.        *)
MarkedSite(k, h, c, j, ins, v, id) ==
  /\ IsSite(prog, k, h, c, j) /\ prog.code[k][h].blocks[c].code[j] = ins
  /\ ins.op \in {"load", "mark", "call"} /\ IsInstr(ins) /\ Makes(ins) /\ ins.val = v
  /\ MarkName(ins) = id /\ id \in Ids /\ ranges[id] # EmptySet

LEMMA MarkedAt ==
  ASSUME prog \in Programs, NEW k \in Modules, NEW ins \in Marked(k),
         MarkName(ins) # NoId, ranges[MarkName(ins)] # EmptySet
  PROVE  \E h, c, j : MarkedSite(k, h, c, j, ins, ins.val, MarkName(ins))
<1> DEFINE blocks == UNION { Range(g.blocks) : g \in Range(prog.code[k]) }
<1>1. ins \in UNION { Range(b.code) : b \in blocks } /\ ins.op \in {"load", "mark", "call"}
  BY DEF Marked
<1>2. PICK bk \in blocks : ins \in Range(bk.code)
  BY <1>1
<1>3. PICK f \in Range(prog.code[k]) : bk \in Range(f.blocks)
  OBVIOUS
<1>4. PICK h \in DOMAIN prog.code[k] : f = prog.code[k][h]
  BY <1>3 DEF Range
<1>5. PICK c \in DOMAIN f.blocks : bk = f.blocks[c]
  BY <1>3 DEF Range
<1>6. PICK j \in DOMAIN bk.code : ins = bk.code[j]
  BY <1>2 DEF Range
<1>7. IsSite(prog, k, h, c, j) /\ prog.code[k][h].blocks[c].code[j] = ins
  BY <1>4, <1>5, <1>6 DEF IsSite
<1>8. IsInstr(ins)
  <2>1. IsFunction(prog.code[k][h])
    BY <1>4, ProgramAssumption
  <2> QED
    BY <1>4, <1>5, <1>6, <2>1, CodeOfBlock
<1>9. MarkName(ins) \in Ids
  BY <1>1, <1>8 DEF MarkName, IsInstr
<1>10. MarkedSite(k, h, c, j, ins, ins.val, MarkName(ins))
  BY <1>1, <1>7, <1>8, <1>9 DEF MarkedSite, Makes
<1> QED
  BY <1>10

(* What a marked instruction makes is in the range of its name.            *)
LEMMA MadeMarked ==
  ASSUME Ordered(prog), SourcesInv, NEW s, Reached(s), NEW rows,
         NEW k, NEW h, NEW c, NEW j, NEW ins, NEW v, NEW id, MarkedSite(k, h, c, j, ins, v, id)
  PROVE  Made(s.names, prog.code[k][h], rows, c, ins) \subseteq ranges[id]
<1>0. /\ IsSite(prog, k, h, c, j) /\ prog.code[k][h].blocks[c].code[j] = ins
      /\ ins.op \in {"load", "mark", "call"} /\ MarkName(ins) = id /\ id \in Ids /\ ranges[id] # EmptySet
  BY DEF MarkedSite
<1>1. id \notin Sources
  BY <1>0 DEF SourcesInv
<1>2. s.names[id] \subseteq ranges[id]
  BY <1>0, <1>1 DEF Reached, Within
<1>3. Under(s.names, {id}) \subseteq ranges[id]
  BY <1>1, <1>2 DEF Under
<1>4. id # NoId
  BY <1>0, ReferenceAssumption
<1>5. CASE ins.op = "load"
  BY <1>0, <1>3, <1>4, <1>5 DEF MarkName, Made
<1>6. CASE ins.op = "mark"
  BY <1>0, <1>3, <1>6 DEF MarkName, Made
<1>7. CASE ins.op = "call"
  <2> DEFINE row == s.at[k][h][c]
  <2>1. InstrRecorded(s, k, h, c, j)
    BY <1>0 DEF Reached, IsSite, ModuleRecorded, FunctionRecorded, BlockRecorded
  <2>2. Recorded(s.names, row, ins, id) \subseteq ranges[id]
    BY <1>0, <2>1 DEF InstrRecorded
  <2>3. ins.ret = id
    BY <1>0, <1>7 DEF MarkName
  <2> HIDE DEF row
  <2>4. Under(s.names, Returns[ins.val]) \subseteq Recorded(s.names, row, ins, id)
    BY <1>7, <2>3 DEF Recorded
  <2>5. Made(s.names, prog.code[k][h], rows, c, ins) = Under(s.names, Returns[ins.val])
    BY <1>7 DEF Made
  <2> QED
    BY <2>2, <2>4, <2>5
<1> QED
  BY <1>0, <1>5, <1>6, <1>7

(* Metadata excludes no value: a value is where its instruction makes it   *)
(* and where blocks pass it on.                                            *)
EverywhereIn(s, v, R) ==
  \A m \in Modules : \A g \in DOMAIN prog.code[m] : \A b \in DOMAIN prog.code[m][g].blocks :
    s.at[m][g][b][v] \subseteq R

LEMMA EverywhereStep ==
  ASSUME prog \in Programs, Ordered(prog), SourcesInv, NEW s, Reached(s),
         NEW k, NEW h, NEW c, NEW j, NEW ins, NEW v \in Values, NEW id, MarkedSite(k, h, c, j, ins, v, id),
         EverywhereIn(s, v, ranges[id])
  PROVE  EverywhereIn(CollectStep(prog, s), v, ranges[id])
<1> SUFFICES ASSUME NEW m \in Modules, NEW g \in DOMAIN prog.code[m], NEW b \in DOMAIN prog.code[m][g].blocks,
                    NEW x \in AtPlace(s.names, prog.code[m][g], s.at[m][g], b, v)
             PROVE  x \in ranges[id]
  BY StepAt DEF EverywhereIn
<1> DEFINE f    == prog.code[m][g]
           rows == s.at[m][g]
<1>1. CASE \E o \in Range(f.blocks[b].code) : Makes(o) /\ o.val = v /\ x \in Made(s.names, f, rows, b, o)
  <2>1. PICK o \in Range(f.blocks[b].code) : Makes(o) /\ o.val = v /\ x \in Made(s.names, f, rows, b, o)
    BY <1>1
  <2>2. PICK i \in DOMAIN f.blocks[b].code : o = f.blocks[b].code[i]
    BY DEF Range
  <2>3. MakesValue(prog, m, g, b, i, v)
    BY <2>1, <2>2 DEF MakesValue, IsSite
  <2>4. MakesValue(prog, k, h, c, j, v)
    BY DEF MarkedSite, MakesValue
  <2>5. m = k /\ g = h /\ b = c /\ i = j
    BY <2>3, <2>4, OneMaker
  <2>6. o = ins
    BY <2>2, <2>5 DEF MarkedSite
  <2> HIDE DEF rows
  <2>7. Made(s.names, prog.code[k][h], rows, c, ins) \subseteq ranges[id]
    BY MadeMarked
  <2> QED
    BY <2>1, <2>5, <2>6, <2>7
<1>2. CASE \E q \in Entering(f, b) : x \in Passing(f.blocks[q].term, rows[q], b, v)
  <2>1. PICK q \in Entering(f, b) : x \in Passing(f.blocks[q].term, rows[q], b, v)
    BY <1>2
  <2>2. q \in DOMAIN f.blocks
    BY DEF Entering
  <2>3. x \in rows[q][v]
    BY <2>1, PassingKeeps
  <2> QED
    BY <2>2, <2>3 DEF EverywhereIn
<1> QED
  BY <1>1, <1>2, AtPlaceIs

LEMMA MetaHolds ==
  ASSUME prog \in Programs, Ordered(prog), SourcesInv, \A s : HeldInv(s), InitsInv, phase = "done",
         NEW k, NEW h, NEW c, NEW j, NEW ins, NEW v \in Values, NEW id, MarkedSite(k, h, c, j, ins, v, id)
  PROVE  EverywhereIn(Collected(prog), v, ranges[id])
<1>1. PICK T : /\ Collected(prog) = T[Depth] /\ T[0] = NoValues(prog)
               /\ \A n \in 1 .. Depth : T[n] = CollectStep(prog, T[n - 1])
               /\ \A n \in 0 .. Depth : Reached(T[n])
  BY TablesReached
<1>2. Depth \in Nat
  BY CollectedAssumption
<1> DEFINE N == { n \in Nat : n <= Depth => EverywhereIn(T[n], v, ranges[id]) }
<1>3. 0 \in N
  BY <1>1 DEF EverywhereIn, NoValues
<1>4. ASSUME NEW n \in N PROVE n + 1 \in N
  <2>1. ASSUME n + 1 <= Depth PROVE EverywhereIn(T[n + 1], v, ranges[id])
    <3>1. n \in 0 .. Depth /\ n <= Depth /\ n + 1 \in 1 .. Depth /\ (n + 1) - 1 = n
      BY <1>2, <2>1
    <3> DEFINE s == T[n]
    <3>2. Reached(s) /\ EverywhereIn(s, v, ranges[id])
      BY <1>1, <3>1
    <3>3. T[n + 1] = CollectStep(prog, s)
      BY <1>1, <3>1
    <3> HIDE DEF N, s
    <3>4. EverywhereIn(CollectStep(prog, s), v, ranges[id])
      BY <3>2, EverywhereStep
    <3> QED
      BY <3>3, <3>4
  <2>2. n + 1 \in Nat
    OBVIOUS
  <2> QED
    BY <2>1, <2>2
<1>5. N = Nat
  <2>1. N \in SUBSET Nat
    OBVIOUS
  <2> HIDE DEF N
  <2> QED
    BY <1>3, <1>4, <2>1, Counting
<1>6. Depth \in N /\ Depth <= Depth
  BY <1>2, <1>5
<1> QED
  BY <1>1, <1>6

(* The range pass is a may analysis of ordered programs, for every width,  *)
(* module list and program: whatever value the reference collects for a    *)
(* name that is no taint source is in the name's range, and whatever it    *)
(* collects for a value is in the value's metadata, if there is any        *)
(* (MayAnalysis, src/Range.cc:6).                                          *)
THEOREM ForwardMay == Spec => [](Ordered(prog) => MayAnalysis)
<1> DEFINE Inv == TypeInv /\ (Ordered(prog) => OrderInv)
<1>1. Init => Inv
  BY InitTypes, InitOrder
<1>2. Inv /\ [Next]_vars => Inv'
  <2> SUFFICES ASSUME Inv, [Next]_vars PROVE Inv'
    OBVIOUS
  <2>1. TypeInv'
    BY TypeStep
  <2>2. prog' = prog
    BY SameProgram
  <2>3. ASSUME Ordered(prog) PROVE OrderInv'
    BY <2>3, OrderStep
  <2> QED
    BY <2>1, <2>2, <2>3
<1>3. Inv => (Ordered(prog) => MayAnalysis)
  <2> SUFFICES ASSUME TypeInv, OrderInv, Ordered(prog), phase = "done" PROVE MayAnalysis
    BY DEF MayAnalysis
  <2>1. prog \in Programs /\ SourcesInv /\ (\A s : HeldInv(s)) /\ InitsInv /\ MetaInv /\ MetaOK
    BY DEF TypeInv, PlaceInv, OrderInv
  <2> DEFINE s == Collected(prog)
  <2>2. Within(s)
    <3>1. PICK T : Collected(prog) = T[Depth] /\ \A n \in 0 .. Depth : Reached(T[n])
      BY <2>1, TablesReached
    <3>2. Depth \in 0 .. Depth
      BY CollectedAssumption
    <3> QED
      BY <3>1, <3>2 DEF Reached
  <2>3. ASSUME NEW v \in Values, meta[v] # NoRange
        PROVE  EverywhereIn(s, v, meta[v])
    <3>1. PICK k \in Modules : \E ins \in Marked(k) :
                 ins.val = v /\ MarkName(ins) # NoId /\ meta[v] = ranges[MarkName(ins)]
      BY <2>1, <2>3 DEF MetaInv
    <3>2. PICK ins \in Marked(k) : ins.val = v /\ MarkName(ins) # NoId /\ meta[v] = ranges[MarkName(ins)]
      BY <3>1
    <3>3. meta[v] # EmptySet
      BY <2>1, <2>3 DEF MetaOK
    <3>4. \E h, c, j : MarkedSite(k, h, c, j, ins, ins.val, MarkName(ins))
      BY <2>1, <3>2, <3>3, MarkedAt
    <3>5. PICK h, c, j : MarkedSite(k, h, c, j, ins, ins.val, MarkName(ins))
      BY <3>4
    <3> DEFINE id == MarkName(ins)
    <3>6. MarkedSite(k, h, c, j, ins, v, id)
      BY <3>2, <3>5
    <3> HIDE DEF id, s
    <3>7. EverywhereIn(Collected(prog), v, ranges[id])
      BY <2>1, <3>6, MetaHolds
    <3> QED
      BY <3>2, <3>7 DEF id, s
  <2> HIDE DEF s
  <2>4. \A m \in Modules : \A g \in DOMAIN prog.code[m] :
          \A b \in DOMAIN prog.code[m][g].blocks, v \in Values :
            meta[v] # NoRange => s.at[m][g][b][v] \subseteq meta[v]
    BY <2>3 DEF EverywhereIn
  <2> QED
    BY <2>2, <2>4 DEF MayAnalysis, Within, s
<1> QED
  BY <1>1, <1>2, <1>3, PTL DEF Spec

=============================================================================
