----------------------------- MODULE FilesProof -----------------------------
(***************************************************************************)
(* Theorems about the files, for any number of them, of runs and of        *)
(* crashes, and for all functions a compiler makes (ProgramAssumption).    *)
(* First what annotation does to a function, once, twice and again.        *)
(***************************************************************************)
EXTENDS Files, FiniteSetTheorems, TLAPS

-----------------------------------------------------------------------------
(* What annotation needs of a function, as it was compiled or annotated.   *)
Shape == {"syscall", "vararg", "args", "code"}

IsOps(ops) == ops = [n \in DOMAIN ops |-> ops[n]]

IsInstr(I) == I = [x \in Fields |-> I[x]]

IsShaped(f) == f = [x \in Shape |-> f[x]] /\ f.code = [i \in DOMAIN f.code |-> f.code[i]]

IsText(f) ==
  /\ IsShaped(f)
  /\ \A i \in DOMAIN f.code :
       LET I == f.code[i]
       IN  /\ IsInstr(I)
           /\ IsOps(I.ops)
           /\ I.callee = "__kint_taint" => I.ops[1][2] # NoMark
  /\ \E lo, hi \in Int : DOMAIN f.code \subseteq lo .. hi
  /\ DOMAIN f.code # {}

(* A function that is annotated: no argument is to be replaced, no call to *)
(* be erased, and names and marks are set.                                 *)
Sources(f, code, v) == { i \in DOMAIN code : MarksSource(f, code, code[i], v) }
Sinks(code, v)      == { i \in DOMAIN code : MarksSink(code[i], v) }

IsAnnotated(f) ==
  /\ IsText(f)
  /\ ToReplace(f) = {}
  /\ \A i \in DOMAIN f.code :
       LET I == f.code[i]
       IN  /\ ~Erased(f.code, I)
           /\ AnnotateLoadStore(I) = I.id
           /\ AnnotateSink(f.code, I) = I.sink
           /\ Sources(f, f.code, I.val) # {} => I.source # NoMark

(* Code that differs in metadata only.                                     *)
Alike(I, J) == /\ I.val = J.val /\ I.op = J.op /\ I.callee = J.callee
               /\ I.cell = J.cell /\ I.ops = J.ops

LEMMA GreatestNumber ==
  ASSUME NEW S, S # {}, NEW lo \in Int, NEW hi \in Int, S \subseteq lo .. hi
  PROVE  Max(S) \in S
<1> DEFINE T == { hi - i : i \in S }
           R == OpToRel(<, Nat)
<1>1. T \subseteq Nat /\ T # {}
  OBVIOUS
<1>2. IsWellFoundedOn(R, Nat)
  BY NatLessThanWellFounded
<1>3. \A i, k \in Nat : <<k, i>> \in R <=> k < i
  BY DEF OpToRel
<1> HIDE DEF R
<1>4. PICK t \in T : \A k \in T : <<k, t>> \notin R
  BY <1>1, <1>2, WFMin
<1>5. PICK m \in S : t = hi - m
  BY <1>4
<1>6. ASSUME NEW k \in S PROVE m >= k
  <2>1. hi - k \in T /\ hi - k \in Nat /\ t \in Nat
    BY <1>1, <1>4
  <2>2. ~(hi - k < t)
    BY <1>3, <1>4, <2>1
  <2> QED
    BY <1>5, <2>1, <2>2
<1> QED
  BY <1>6 DEF Max

(* Marks depend on what code has beside metadata.                          *)
LEMMA AlikeUsed ==
  ASSUME NEW code, NEW other, DOMAIN code = DOMAIN other,
         \A i \in DOMAIN code : Alike(code[i], other[i])
  PROVE  \A v : Used(code, v) <=> Used(other, v)
BY DEF Used, Alike

LEMMA AlikeMarks ==
  ASSUME NEW I, NEW J, Alike(I, J)
  PROVE  /\ \A v : MarksSink(I, v) <=> MarksSink(J, v)
         /\ Description(I) = Description(J)
         /\ \A f, code : \A v : MarksSource(f, code, I, v) <=> MarksSource(f, code, J, v)
<1>1. Fitting(I) = Fitting(J)
  BY DEF Fitting, Alike
<1> QED
  BY <1>1 DEF MarksSink, Description, MarksSource, Alike

Remake(I, id, from, sink) == [I EXCEPT !.id = id, !.source = from, !.sink = sink]

LEMMA Remade ==
  ASSUME NEW I, IsInstr(I), NEW id, NEW from, NEW sink
  PROVE  LET J == Remake(I, id, from, sink)
         IN  /\ IsInstr(J)
             /\ Alike(J, I)
             /\ J.id = id /\ J.source = from /\ J.sink = sink
<1> DEFINE J == [x \in Fields |-> CASE x = "id" -> id [] x = "source" -> from [] x = "sink" -> sink
                                   [] OTHER -> I[x]]
<1>1. Remake(I, id, from, sink) = J
  BY DEF Fields, Remake, IsInstr
<1>2. IsInstr(J)
  BY DEF IsInstr
<1>3. Alike(J, I) /\ J.id = id /\ J.source = from /\ J.sink = sink
  BY DEF Alike, Fields
<1> HIDE DEF J
<1> QED
  BY <1>1, <1>2, <1>3

(* The parts of what Annotate returns.                                     *)
Kept(code) == { i \in DOMAIN code : ~Erased(code, code[i]) }

LEMMA Annotates ==
  ASSUME NEW f, IsShaped(f), NEW code, code = AnnotateArguments(f),
         \A i \in DOMAIN code : IsInstr(code[i])
  PROVE  LET g == Annotate(f)
         IN  /\ IsShaped(g)
             /\ g.syscall = f.syscall /\ g.vararg = f.vararg /\ g.args = f.args
             /\ DOMAIN g.code = Kept(code)
             /\ \A i \in Kept(code) :
                  /\ IsInstr(g.code[i])
                  /\ Alike(g.code[i], code[i])
                  /\ g.code[i].id = AnnotateLoadStore(code[i])
                  /\ g.code[i].source = AnnotateTaintSource(f, code, code[i])
                  /\ g.code[i].sink = AnnotateSink(code, code[i])
<1> DEFINE g == Annotate(f)
           new(i) == Remake(code[i], AnnotateLoadStore(code[i]),
                            AnnotateTaintSource(f, code, code[i]), AnnotateSink(code, code[i]))
<1>1. g = [f EXCEPT !.code = [i \in Kept(code) |-> new(i)]]
  BY DEF Annotate, Kept, Remake
<1>2. ASSUME NEW i \in Kept(code)
      PROVE  /\ IsInstr(new(i))
             /\ Alike(new(i), code[i])
             /\ new(i).id = AnnotateLoadStore(code[i])
             /\ new(i).source = AnnotateTaintSource(f, code, code[i])
             /\ new(i).sink = AnnotateSink(code, code[i])
  BY Remade DEF Kept
<1> HIDE DEF new, g
<1>3. /\ IsShaped(g)
      /\ g.syscall = f.syscall /\ g.vararg = f.vararg /\ g.args = f.args
      /\ g.code = [i \in Kept(code) |-> new(i)]
  BY <1>1 DEF Shape, IsShaped
<1> QED
  BY <1>2, <1>3 DEF g

UsedIn(K, code, v) == \E j \in K : \E n \in DOMAIN code[j].ops : code[j].ops[n] = v

(* Code before calls are erased: what annotation leaves to be done once.   *)
Ready(f, code) ==
  /\ IsShaped(f)
  /\ \A i \in DOMAIN code :
       LET I == code[i]
       IN  /\ IsInstr(I)
           /\ IsOps(I.ops)
           /\ I.callee = "__kint_taint" => I.ops[1][2] # NoMark
           /\ I.callee = "__kint_taint" /\ Used(code, I.val) => UsedIn(Kept(code), code, I.val)
  /\ \E lo, hi \in Int : DOMAIN code \subseteq lo .. hi
  /\ Kept(code) # {}
  /\ f.vararg \/ \A k \in DOMAIN f.args : f.args[k] = "int" => ~Used(code, Arg(k))

(* What a function that is ready becomes is annotated.                     *)
LEMMA ReadyAnnotated ==
  ASSUME NEW f, NEW code, code = AnnotateArguments(f), Ready(f, code)
  PROVE  IsAnnotated(Annotate(f))
<1> DEFINE g == Annotate(f)
           K == Kept(code)
<1>1. /\ IsShaped(g)
      /\ g.syscall = f.syscall /\ g.vararg = f.vararg /\ g.args = f.args
      /\ DOMAIN g.code = K
      /\ \A i \in K : /\ IsInstr(g.code[i])
                      /\ Alike(g.code[i], code[i])
                      /\ g.code[i].id = AnnotateLoadStore(code[i])
                      /\ g.code[i].source = AnnotateTaintSource(f, code, code[i])
                      /\ g.code[i].sink = AnnotateSink(code, code[i])
  BY Annotates DEF Ready
<1>2. K \subseteq DOMAIN code
  BY DEF Kept
<1>3. \A v : Used(g.code, v) <=> UsedIn(K, code, v)
  BY <1>1 DEF Used, UsedIn, Alike
<1>4. \A v : Used(g.code, v) => Used(code, v)
  BY <1>1, <1>2 DEF Used, Alike
<1> HIDE DEF g, K
<1>5. IsText(g)
  <2>1. \A i \in DOMAIN g.code :
          LET I == g.code[i]
          IN  /\ IsInstr(I)
              /\ IsOps(I.ops)
              /\ I.callee = "__kint_taint" => I.ops[1][2] # NoMark
    BY <1>1, <1>2 DEF Ready, Alike
  <2>2. \E lo, hi \in Int : DOMAIN g.code \subseteq lo .. hi
    BY <1>1, <1>2 DEF Ready
  <2>3. DOMAIN g.code # {}
    BY <1>1 DEF Ready, K
  <2> QED
    BY <1>1, <2>1, <2>2, <2>3 DEF IsText
<1>6. ToReplace(g) = {}
  BY <1>1, <1>4 DEF ToReplace, Ready
<1>7. ASSUME NEW i \in DOMAIN g.code PROVE ~Erased(g.code, g.code[i])
  <2>1. /\ i \in K /\ i \in DOMAIN code /\ ~Erased(code, code[i])
        /\ Alike(g.code[i], code[i])
    BY <1>1 DEF K, Kept
  <2>2. CASE code[i].callee = "__kint_taint"
    <3>1. Used(code, code[i].val)
      BY <2>1, <2>2 DEF Erased
    <3>2. UsedIn(K, code, code[i].val)
      BY <2>1, <2>2, <3>1 DEF Ready, K
    <3> QED
      BY <2>1, <3>2, <1>3 DEF Erased, Alike
  <2> QED
    BY <2>1, <2>2 DEF Erased, Alike
<1>8. ASSUME NEW i \in DOMAIN g.code PROVE AnnotateLoadStore(g.code[i]) = g.code[i].id
  BY <1>1 DEF AnnotateLoadStore, Alike
<1>9. ASSUME NEW v PROVE Sinks(g.code, v) = Sinks(code, v)
  <2>1. ASSUME NEW i \in DOMAIN code, MarksSink(code[i], v) PROVE i \in K
    BY <2>1 DEF MarksSink, Fitting, Allocs, K, Kept, Erased
  <2>2. \A i \in K : MarksSink(g.code[i], v) <=> MarksSink(code[i], v)
    BY <1>1, AlikeMarks
  <2> QED
    BY <1>1, <1>2, <2>1, <2>2 DEF Sinks
<1>10. PICK lo, hi \in Int : DOMAIN code \subseteq lo .. hi
  BY DEF Ready
<1>11. ASSUME NEW i \in DOMAIN g.code PROVE AnnotateSink(g.code, g.code[i]) = g.code[i].sink
  <2> DEFINE S == Sinks(code, code[i].val)
  <2>1. Sinks(g.code, g.code[i].val) = S /\ i \in K
    BY <1>1, <1>9 DEF Alike
  <2>2. CASE S = {}
    BY <2>1, <2>2 DEF AnnotateSink, Sinks
  <2>3. CASE S # {}
    <3>1. Max(S) \in S
      BY <1>10, <2>3, GreatestNumber DEF Sinks
    <3>2. Max(S) \in K
      BY <3>1, <1>1, <1>9 DEF Sinks
    <3>3. g.code[Max(S)].callee = code[Max(S)].callee
      BY <1>1, <3>2 DEF Alike
    <3>4. AnnotateSink(g.code, g.code[i]) = g.code[Max(S)].callee
      BY <2>1, <2>3 DEF AnnotateSink, Sinks
    <3>5. AnnotateSink(code, code[i]) = code[Max(S)].callee
      BY <2>3 DEF AnnotateSink, Sinks
    <3> QED
      BY <1>1, <2>1, <3>3, <3>4, <3>5
  <2> QED
    BY <2>2, <2>3
<1>12. ASSUME NEW i \in DOMAIN g.code, Sources(g, g.code, g.code[i].val) # {}
       PROVE  g.code[i].source # NoMark
  <2> DEFINE S == Sources(f, code, code[i].val)
  <2>1. i \in K /\ g.code[i].val = code[i].val
    BY <1>1 DEF Alike
  <2>2. PICK m \in K : MarksSource(g, g.code, g.code[m], code[i].val)
    BY <1>1, <1>12, <2>1 DEF Sources
  <2>3. MarksSource(f, code, code[m], code[i].val)
    BY <1>1, <1>4, <2>2 DEF MarksSource, Alike
  <2>4. S # {}
    BY <1>2, <2>3 DEF Sources
  <2>5. Max(S) \in S
    BY <1>10, <2>4, GreatestNumber DEF Sources
  <2>6. Description(code[Max(S)]) # NoMark
    BY <2>5 DEF Description, Sources, MarksSource, Ready, NoMark
  <2>7. g.code[i].source = Description(code[Max(S)])
    BY <1>1, <2>1, <2>4 DEF AnnotateTaintSource, Sources
  <2> QED
    BY <2>6, <2>7
<1>13. IsAnnotated(g)
  BY <1>5, <1>6, <1>7, <1>8, <1>11, <1>12 DEF IsAnnotated
<1> QED
  BY <1>13 DEF g

(* Code as it was compiled is ready once its arguments are replaced.       *)
LEMMA CompiledReady ==
  ASSUME NEW f, Compiled(f)
  PROVE  Ready(f, AnnotateArguments(f))
<1> DEFINE code == AnnotateArguments(f)
           ks   == ToReplace(f)
           by(v) == IF v \in { Arg(k) : k \in ks } THEN Marker(v[2]) ELSE v
<1>1. /\ Len(f.args) \in Nat /\ DOMAIN f.args = 1 .. Len(f.args)
      /\ Len(f.code) \in Nat /\ DOMAIN f.code = 1 .. Len(f.code)
      /\ ks \subseteq DOMAIN f.args
  BY DEF Compiled, ToReplace
<1>2. IsShaped(f)
  BY DEF Compiled, IsShaped, Shape
<1>3. DOMAIN code = DOMAIN f.code \cup { Place(k) : k \in ks }
  BY DEF AnnotateArguments
<1>4. ASSUME NEW i \in DOMAIN f.code
      PROVE  /\ code[i] = [f.code[i] EXCEPT !.ops = [n \in DOMAIN f.code[i].ops |-> by(f.code[i].ops[n])]]
             /\ IsInstr(f.code[i]) /\ IsOps(f.code[i].ops)
  <2>1. code[i] = [f.code[i] EXCEPT !.ops = [n \in DOMAIN @ |-> by(@[n])]]
    BY DEF AnnotateArguments
  <2>2. IsInstr(f.code[i]) /\ IsOps(f.code[i].ops)
    BY DEF Compiled, IsInstr, IsOps
  <2> QED
    BY <2>1, <2>2
<1>5. ASSUME NEW i \in DOMAIN f.code
      PROVE  /\ IsInstr(code[i]) /\ IsOps(code[i].ops)
             /\ code[i].val = f.code[i].val /\ code[i].callee = f.code[i].callee
             /\ DOMAIN code[i].ops = DOMAIN f.code[i].ops
             /\ \A n \in DOMAIN f.code[i].ops : code[i].ops[n] = by(f.code[i].ops[n])
  <2> DEFINE ops == [n \in DOMAIN f.code[i].ops |-> by(f.code[i].ops[n])]
  <2>1. IsOps(ops)
    BY DEF IsOps
  <2>2. DOMAIN ops = DOMAIN f.code[i].ops /\ \A n \in DOMAIN ops : ops[n] = by(f.code[i].ops[n])
    OBVIOUS
  <2> HIDE DEF ops, by, code
  <2>3. IsInstr(code[i]) /\ code[i].ops = ops /\ code[i].val = f.code[i].val
        /\ code[i].callee = f.code[i].callee
    BY <1>4 DEF IsInstr, Fields, ops
  <2> QED
    BY <2>1, <2>2, <2>3
<1>6. ASSUME NEW i \in DOMAIN code, i \notin DOMAIN f.code
      PROVE  \E k \in ks : i = Place(k) /\ code[i] = MarkerOf(Place(Place(k)))
  BY <1>3, <1>6 DEF AnnotateArguments
<1>7. ASSUME NEW i \in DOMAIN code, i \notin DOMAIN f.code
      PROVE  IsInstr(code[i]) /\ code[i].callee = "kint_arg.i" /\ code[i].ops = <<>> /\ IsOps(code[i].ops)
  <2>1. PICK k : code[i] = MarkerOf(k)
    BY <1>6, <1>7
  <2>2. IsInstr(MarkerOf(k)) /\ MarkerOf(k).callee = "kint_arg.i" /\ MarkerOf(k).ops = <<>>
    BY DEF IsInstr, Fields, MarkerOf
  <2>3. IsOps(<<>>)
    BY DEF IsOps
  <2> QED
    BY <2>1, <2>2, <2>3
<1>8. ASSUME NEW v, Used(code, v) PROVE \E i \in DOMAIN f.code : \E n \in DOMAIN f.code[i].ops : v = by(f.code[i].ops[n])
  BY <1>3, <1>5, <1>7, <1>8 DEF Used
<1>9. \A v : v[1] = "instruction" => (Used(code, v) <=> Used(f.code, v))
  <2>1. ASSUME NEW v, NEW w, v[1] = "instruction" PROVE by(w) = v <=> w = v
    BY <2>1 DEF Arg, Marker
  <2>2. ASSUME NEW v, v[1] = "instruction", Used(f.code, v) PROVE Used(code, v)
    BY <1>3, <1>5, <2>1, <2>2 DEF Used
  <2>3. ASSUME NEW v, v[1] = "instruction", Used(code, v) PROVE Used(f.code, v)
    BY <1>8, <2>1, <2>3 DEF Used
  <2> QED
    BY <2>2, <2>3
<1>10. ASSUME NEW i \in DOMAIN f.code PROVE Erased(code, code[i]) <=> Erased(f.code, f.code[i])
  BY <1>5, <1>9 DEF Erased, Compiled
<1> HIDE DEF code, by
<1>11. ASSUME NEW i \in DOMAIN code, code[i].callee = "__kint_taint"
       PROVE  /\ code[i].ops[1][2] # NoMark
              /\ Used(code, code[i].val) => UsedIn(Kept(code), code, code[i].val)
  <2>1. i \in DOMAIN f.code /\ f.code[i].callee = "__kint_taint"
    BY <1>5, <1>7, <1>11
  <2>2. Named(f, f.code[i]) /\ f.code[i].val[1] = "instruction"
    BY <2>1 DEF Compiled
  <2>3. code[i].ops[1][2] # NoMark
    <3>1. f.code[i].ops[1][1] = "constant" /\ f.code[i].ops[1][2] # NoMark /\ 1 \in DOMAIN f.code[i].ops
      BY <2>2 DEF Named
    <3>2. by(f.code[i].ops[1]) = f.code[i].ops[1]
      BY <3>1 DEF by, Arg
    <3> QED
      BY <2>1, <1>5, <3>1, <3>2
  <2>4. ASSUME Used(code, code[i].val) PROVE UsedIn(Kept(code), code, code[i].val)
    <3>1. Used(f.code, f.code[i].val)
      BY <1>5, <1>9, <2>1, <2>2, <2>4
    <3>2. PICK j \in DOMAIN f.code : ~Erased(f.code, f.code[j]) /\ f.code[i].val \in Range(f.code[j].ops)
      BY <2>2, <3>1 DEF Named
    <3>3. PICK n \in DOMAIN f.code[j].ops : f.code[i].val = f.code[j].ops[n]
      BY <3>2 DEF Range
    <3>4. code[j].ops[n] = code[i].val
      BY <1>5, <2>1, <2>2, <3>3 DEF by, Arg
    <3>5. j \in Kept(code)
      BY <1>3, <1>10, <3>2 DEF Kept
    <3> QED
      BY <1>5, <3>3, <3>4, <3>5 DEF UsedIn
  <2> QED
    BY <2>3, <2>4
<1>12. \E lo, hi \in Int : DOMAIN code \subseteq lo .. hi
  <2>1. DOMAIN code \subseteq 1 - Len(f.args) .. Len(f.code) + 1
    BY <1>1, <1>3 DEF Place
  <2>2. 1 - Len(f.args) \in Int /\ Len(f.code) + 1 \in Int
    BY <1>1
  <2> QED
    BY <2>1, <2>2, Zenon
<1>13. Kept(code) # {}
  <2>1. PICK i \in DOMAIN f.code : f.code[i].callee # "__kint_taint"
    BY DEF Compiled
  <2> QED
    BY <2>1, <1>3, <1>10 DEF Kept, Erased
<1>14. ASSUME ~f.vararg, NEW k \in DOMAIN f.args, f.args[k] = "int", Used(code, Arg(k))
       PROVE  FALSE
  <2>1. PICK i \in DOMAIN f.code : \E n \in DOMAIN f.code[i].ops : Arg(k) = by(f.code[i].ops[n])
    BY <1>8, <1>14
  <2>0. PICK n \in DOMAIN f.code[i].ops : Arg(k) = by(f.code[i].ops[n])
    BY <2>1
  <2>2. Arg(k) = f.code[i].ops[n] /\ k \notin ks
    BY <2>0 DEF by, Arg, Marker
  <2>3. Used(f.code, Arg(k))
    BY <2>2 DEF Used
  <2> QED
    BY <1>14, <2>2, <2>3 DEF ToReplace
<1>15. \A i \in DOMAIN code : IsInstr(code[i]) /\ IsOps(code[i].ops)
  BY <1>5, <1>7
<1>16. Ready(f, code)
  BY <1>2, <1>11, <1>12, <1>13, <1>14, <1>15 DEF Ready
<1> QED
  BY <1>16 DEF code

(* To annotate a function again changes nothing but descriptions, and to   *)
(* annotate it a third time nothing at all.                                *)
LEMMA AnnotatedStays ==
  ASSUME NEW f, IsAnnotated(f)
  PROVE  /\ AnnotateArguments(f) = f.code
         /\ Ready(f, f.code)
         /\ Kept(f.code) = DOMAIN f.code
<1>1. /\ IsText(f) /\ ToReplace(f) = {}
      /\ \A i \in DOMAIN f.code : ~Erased(f.code, f.code[i])
  BY DEF IsAnnotated
<1>2. Kept(f.code) = DOMAIN f.code
  BY <1>1 DEF Kept
<1>3. AnnotateArguments(f) = f.code
  <2>1. ASSUME NEW i \in DOMAIN f.code
        PROVE  [f.code[i] EXCEPT !.ops = [n \in DOMAIN f.code[i].ops |-> f.code[i].ops[n]]] = f.code[i]
    <3>1. IsInstr(f.code[i]) /\ IsOps(f.code[i].ops)
      BY <1>1 DEF IsText
    <3>2. [n \in DOMAIN f.code[i].ops |-> f.code[i].ops[n]] = f.code[i].ops
      BY <3>1 DEF IsOps
    <3> DEFINE ops == f.code[i].ops
    <3>3. [f.code[i] EXCEPT !.ops = ops] = f.code[i]
      BY <3>1 DEF IsInstr
    <3> QED
      BY <3>2, <3>3
  <2>2. AnnotateArguments(f) =
          [i \in DOMAIN f.code |-> [f.code[i] EXCEPT !.ops = [n \in DOMAIN f.code[i].ops |-> f.code[i].ops[n]]]]
    BY <1>1 DEF AnnotateArguments
  <2>3. AnnotateArguments(f) = [i \in DOMAIN f.code |-> f.code[i]]
    BY <2>1, <2>2
  <2> QED
    BY <1>1, <2>3 DEF IsText, IsShaped
<1>4. \A v : UsedIn(DOMAIN f.code, f.code, v) <=> Used(f.code, v)
  BY DEF UsedIn, Used
<1>5. f.vararg \/ \A k \in DOMAIN f.args : f.args[k] = "int" => ~Used(f.code, Arg(k))
  BY <1>1 DEF ToReplace
<1>6. Ready(f, f.code)
  BY <1>1, <1>2, <1>4, <1>5 DEF Ready, IsText
<1> QED
  BY <1>2, <1>3, <1>6

LEMMA AnnotateAgain ==
  ASSUME NEW f, IsAnnotated(f)
  PROVE  LET g == Annotate(f)
         IN  /\ IsAnnotated(g) /\ IsShaped(g)
             /\ g.syscall = f.syscall /\ g.vararg = f.vararg /\ g.args = f.args
             /\ DOMAIN g.code = DOMAIN f.code
             /\ \A i \in DOMAIN f.code :
                  /\ IsInstr(g.code[i]) /\ Alike(g.code[i], f.code[i])
                  /\ g.code[i].id = f.code[i].id
                  /\ g.code[i].sink = f.code[i].sink
                  /\ g.code[i].source = AnnotateTaintSource(f, f.code, f.code[i])
                  /\ g.code[i].source = NoMark <=> f.code[i].source = NoMark
<1> DEFINE g == Annotate(f)
<1>1. IsAnnotated(g)
  BY AnnotatedStays, ReadyAnnotated
<1>2. IsShaped(f) /\ \A i \in DOMAIN f.code : IsInstr(f.code[i])
  BY DEF IsAnnotated, IsText
<1>3. /\ IsShaped(g)
      /\ g.syscall = f.syscall /\ g.vararg = f.vararg /\ g.args = f.args
      /\ DOMAIN g.code = DOMAIN f.code
      /\ \A i \in DOMAIN f.code :
           /\ IsInstr(g.code[i]) /\ Alike(g.code[i], f.code[i])
           /\ g.code[i].id = AnnotateLoadStore(f.code[i])
           /\ g.code[i].source = AnnotateTaintSource(f, f.code, f.code[i])
           /\ g.code[i].sink = AnnotateSink(f.code, f.code[i])
  BY <1>2, AnnotatedStays, Annotates
<1>4. \A i \in DOMAIN f.code : g.code[i].id = f.code[i].id /\ g.code[i].sink = f.code[i].sink
  BY <1>3 DEF IsAnnotated
<1> HIDE DEF g
<1>5. ASSUME NEW i \in DOMAIN f.code
      PROVE  g.code[i].source = NoMark <=> f.code[i].source = NoMark
  <2> DEFINE S == Sources(f, f.code, f.code[i].val)
  <2>1. CASE S = {}
    BY <1>3, <2>1 DEF AnnotateTaintSource, Sources
  <2>2. CASE S # {}
    <3>1. f.code[i].source # NoMark
      BY <2>2 DEF IsAnnotated
    <3>2. PICK lo, hi \in Int : DOMAIN f.code \subseteq lo .. hi
      BY DEF IsAnnotated, IsText
    <3>3. Max(S) \in S
      BY <2>2, <3>2, GreatestNumber DEF Sources
    <3>4. Description(f.code[Max(S)]) # NoMark
      BY <3>3 DEF Description, Sources, MarksSource, IsAnnotated, IsText, NoMark
    <3>5. g.code[i].source = Description(f.code[Max(S)])
      BY <1>3, <2>2 DEF AnnotateTaintSource, Sources
    <3> QED
      BY <3>1, <3>4, <3>5
  <2> QED
    BY <2>1, <2>2
<1> QED
  BY <1>1, <1>3, <1>4, <1>5 DEF g

(* Functions are the same that have the same parts.                        *)
LEMMA SameInstr ==
  ASSUME NEW I, NEW J, IsInstr(I), IsInstr(J), Alike(I, J),
         I.id = J.id, I.source = J.source, I.sink = J.sink
  PROVE  I = J
BY DEF IsInstr, Alike, Fields

LEMMA SameFunction ==
  ASSUME NEW f, NEW g, IsShaped(f), IsShaped(g),
         f.syscall = g.syscall, f.vararg = g.vararg, f.args = g.args,
         DOMAIN f.code = DOMAIN g.code, \A i \in DOMAIN f.code : f.code[i] = g.code[i]
  PROVE  f = g
<1>1. f.code = g.code
  BY DEF IsShaped
<1> QED
  BY <1>1 DEF IsShaped, Shape

LEMMA AnnotateThird ==
  ASSUME NEW f, IsAnnotated(f)
  PROVE  Annotate(Annotate(f)) = Annotate(f)
<1> DEFINE g == Annotate(f)
           h == Annotate(g)
<1>1. /\ IsAnnotated(g) /\ IsShaped(g)
      /\ DOMAIN g.code = DOMAIN f.code
      /\ g.syscall = f.syscall
      /\ \A i \in DOMAIN f.code :
           /\ IsInstr(g.code[i]) /\ Alike(g.code[i], f.code[i])
           /\ g.code[i].source = AnnotateTaintSource(f, f.code, f.code[i])
  BY AnnotateAgain
<1>2. /\ IsShaped(h)
      /\ h.syscall = g.syscall /\ h.vararg = g.vararg /\ h.args = g.args
      /\ DOMAIN h.code = DOMAIN g.code
      /\ \A i \in DOMAIN g.code :
           /\ IsInstr(h.code[i]) /\ Alike(h.code[i], g.code[i])
           /\ h.code[i].id = g.code[i].id
           /\ h.code[i].sink = g.code[i].sink
           /\ h.code[i].source = AnnotateTaintSource(g, g.code, g.code[i])
  BY <1>1, AnnotateAgain
<1> HIDE DEF g, h
<1>3. \A v : Used(g.code, v) <=> Used(f.code, v)
  BY <1>1, AlikeUsed
<1>4. \A v : Sources(g, g.code, v) = Sources(f, f.code, v)
  BY <1>1, <1>3 DEF Sources, MarksSource, Alike
<1>5. ASSUME NEW i \in DOMAIN g.code PROVE h.code[i].source = g.code[i].source
  <2> DEFINE S == Sources(f, f.code, f.code[i].val)
  <2>1. Sources(g, g.code, g.code[i].val) = S
    BY <1>1, <1>4 DEF Alike
  <2>2. CASE S = {}
    BY <1>2, <2>1, <2>2 DEF AnnotateTaintSource, Sources
  <2>3. CASE S # {}
    <3>1. PICK lo, hi \in Int : DOMAIN f.code \subseteq lo .. hi
      BY DEF IsAnnotated, IsText
    <3>2. Max(S) \in S
      BY <2>3, <3>1, GreatestNumber DEF Sources
    <3>3. Max(S) \in DOMAIN f.code
      BY <3>2 DEF Sources
    <3>4. Description(g.code[Max(S)]) = Description(f.code[Max(S)])
      BY <1>1, <3>3 DEF Description, Alike
    <3>5. h.code[i].source = Description(g.code[Max(S)])
      BY <1>2, <2>1, <2>3 DEF AnnotateTaintSource, Sources
    <3>6. g.code[i].source = Description(f.code[Max(S)])
      BY <1>1, <2>3 DEF AnnotateTaintSource, Sources
    <3> QED
      BY <3>4, <3>5, <3>6
  <2> QED
    BY <2>2, <2>3
<1>6. \A i \in DOMAIN h.code : h.code[i] = g.code[i]
  BY <1>1, <1>2, <1>5, SameInstr
<1>7. h = g
  BY <1>1, <1>2, <1>6, SameFunction
<1> QED
  BY <1>7 DEF g, h

WithSource(I, from) == [I EXCEPT !.source = from]

LEMMA SameMarked ==
  ASSUME NEW I, NEW J, IsInstr(I), IsInstr(J), Alike(I, J), I.id = J.id, I.sink = J.sink,
         NEW to
  PROVE  WithSource(I, to) = WithSource(J, to)
<1> DEFINE K == [x \in Fields |-> IF x = "source" THEN to ELSE I[x]]
<1>1. WithSource(I, to) = K
  BY DEF IsInstr, Fields, WithSource
<1>2. WithSource(J, to) = K
  BY DEF IsInstr, Fields, Alike, WithSource
<1> QED
  BY <1>1, <1>2

LEMMA SameUndescribed ==
  ASSUME NEW f, NEW g, IsShaped(f), IsShaped(g),
         f.syscall = g.syscall, f.vararg = g.vararg, f.args = g.args,
         DOMAIN f.code = DOMAIN g.code,
         \A i \in DOMAIN f.code :
           /\ IsInstr(f.code[i]) /\ IsInstr(g.code[i]) /\ Alike(g.code[i], f.code[i])
           /\ g.code[i].id = f.code[i].id /\ g.code[i].sink = f.code[i].sink
           /\ g.code[i].source = NoMark <=> f.code[i].source = NoMark
  PROVE  Undescribed(g) = Undescribed(f)
<1>1. ASSUME NEW i \in DOMAIN f.code PROVE MarkedOnly(f.code[i]) = MarkedOnly(g.code[i])
  <2> DEFINE to == IF f.code[i].source = NoMark THEN NoMark ELSE "marked"
  <2>1. to = IF g.code[i].source = NoMark THEN NoMark ELSE "marked"
    OBVIOUS
  <2>2. MarkedOnly(f.code[i]) = WithSource(f.code[i], to)
    BY DEF MarkedOnly, WithSource
  <2>3. MarkedOnly(g.code[i]) = WithSource(g.code[i], to)
    BY <2>1 DEF MarkedOnly, WithSource
  <2> HIDE DEF to
  <2>4. WithSource(g.code[i], to) = WithSource(f.code[i], to)
    BY SameMarked
  <2> QED
    BY <2>2, <2>3, <2>4
<1>2. \A e : Undescribed(e) = [e EXCEPT !.code = [i \in DOMAIN e.code |-> MarkedOnly(e.code[i])]]
  BY DEF Undescribed
<1>3. [i \in DOMAIN f.code |-> MarkedOnly(f.code[i])] = [i \in DOMAIN g.code |-> MarkedOnly(g.code[i])]
  BY <1>1
<1> DEFINE c == [i \in DOMAIN f.code |-> MarkedOnly(f.code[i])]
<1>4. Undescribed(f) = [f EXCEPT !.code = c] /\ Undescribed(g) = [g EXCEPT !.code = c]
  BY <1>2, <1>3
<1> HIDE DEF c
<1>5. [f EXCEPT !.code = c] = [g EXCEPT !.code = c]
  BY DEF IsShaped, Shape
<1> QED
  BY <1>4, <1>5

(* A function settles once it is annotated.                                *)
Settles(f) ==
  LET once  == Annotate(f)
      twice == Annotate(once)
  IN  /\ Undescribed(twice) = Undescribed(once)
      /\ Annotate(twice) = twice
      /\ NoCode \notin {f, once, twice}

(* AnnotationPass may run any number of times on what it wrote, as it does *)
(* when intglobal is run again (main, src/IntGlobal.cc:113-134): only a    *)
(* description may change, once, and only by the second run, and no        *)
(* function a compiler makes becomes empty.                                *)
THEOREM AnnotationSettles ==
  ASSUME NEW f, Compiled(f)
  PROVE  Settles(f)
<1> DEFINE once  == Annotate(f)
           twice == Annotate(once)
<1>1. IsAnnotated(once)
  BY CompiledReady, ReadyAnnotated
<1>2. IsAnnotated(twice) /\ Annotate(twice) = twice
  BY <1>1, AnnotateAgain, AnnotateThird
<1>3. Undescribed(twice) = Undescribed(once)
  <2>1. IsShaped(once) /\ \A i \in DOMAIN once.code : IsInstr(once.code[i])
    BY <1>1 DEF IsAnnotated, IsText
  <2> HIDE DEF once
  <2> QED
    BY <1>1, <2>1, AnnotateAgain, SameUndescribed
<1>4. \A g : IsAnnotated(g) => g # NoCode
  BY DEF IsAnnotated, IsText, NoCode
<1>5. f # NoCode
  BY DEF Compiled, NoCode
<1> QED
  BY <1>1, <1>2, <1>3, <1>4, <1>5 DEF Settles

LEMMA EmptyStays == Annotate(NoCode) = NoCode
<1>1. ToReplace(NoCode) = {}
  BY DEF ToReplace, NoCode
<1>2. AnnotateArguments(NoCode) = <<>>
  BY <1>1 DEF AnnotateArguments, NoCode
<1>3. Annotate(NoCode) = [NoCode EXCEPT !.code = <<>>]
  BY <1>2 DEF Annotate
<1> QED
  BY <1>3 DEF NoCode

-----------------------------------------------------------------------------
(* A function as it was compiled, and as annotation leaves it.             *)
Once(f)  == Annotate(source[f])
Twice(f) == Annotate(Once(f))
Done(f)  == {Once(f), Twice(f)}

Contents == {NoCode} \cup UNION { {source[f]} \cup Done(f) : f \in FileNames }

Texts  == [code : Contents, taint : SUBSET Contents, range : SUBSET Contents]
Loaded == [mod : Texts, file : FileNames]

Working == step \in {"load", "taint", "range"}

(* The module last loaded or finalised.                                    *)
Turn == IF step = "load" THEN Len(modules) ELSE at - 1

FilesTypeOK ==
  /\ source \in Programs
  /\ disk \in [FileNames -> Texts \cup {Broken}]
  /\ noWriteback \in BOOLEAN
  /\ step \in {"off", "load", "taint", "range", "done"}
  /\ at \in Nat \ {0}
  /\ modules \in Seq(Loaded)
  /\ pending \in BOOLEAN
  /\ out \in FileNames \cup {0}
  /\ failed \subseteq FileNames
  /\ runs \in Nat /\ crashes \in Nat

(* The modules are in the order of their files.                            *)
Places ==
  /\ step = "load" => /\ at <= NumFiles + 1
                      /\ \A n \in DOMAIN modules : modules[n].file < at
  /\ step \in {"taint", "range"} => at <= Len(modules) + 1
  /\ \A m, n \in DOMAIN modules : m < n => modules[m].file < modules[n].file

(* What is written is the module last handled, to its file.                *)
Writing ==
  /\ pending \/ out # 0 => Working /\ Turn \in DOMAIN modules /\ ~noWriteback
  /\ ~(pending /\ out # 0)
  /\ out # 0 => out = modules[Turn].file

(* A module has the code of its file annotated, or that of a file lost     *)
(* before.                                                                 *)
ModuleCode ==
  \A n \in DOMAIN modules : modules[n].mod.code \in {NoCode} \cup Done(modules[n].file)

FromLost ==
  step # "off" =>
    \A n \in DOMAIN modules :
      modules[n].mod.code = NoCode /\ modules[n].file # out => Lost(modules[n].file)

FileCode ==
  \A f \in FileNames :
    disk[f] = Broken \/ disk[f].code \in {NoCode, source[f]} \cup Done(f)

(* The files that have no code, were the one being written complete.       *)
Missing == { f \in FileNames : IF f = out THEN Handled.mod.code = NoCode ELSE Lost(f) }

Losses == Cardinality(Missing) <= crashes

(* While every file was read and opened, the files have the modules, but   *)
(* for the one to be written.                                              *)
Reflected ==
  ~noWriteback /\ failed = {} /\ step # "off" =>
    /\ Len(modules) = IF step = "load" THEN at - 1 ELSE NumFiles
    /\ \A n \in DOMAIN modules :
         /\ modules[n].file = n
         /\ disk[n] = modules[n].mod \/ (n = Turn /\ (pending \/ out # 0))

(* The modules finalised have the results for all of the modules.          *)
Results ==
  /\ step \in {"taint", "range", "done"} =>
       \A n \in DOMAIN modules : step # "taint" \/ n < at => modules[n].mod.taint = Code
  /\ step \in {"range", "done"} =>
       \A n \in DOMAIN modules : step # "range" \/ n < at => modules[n].mod.range = Code

FilesInv ==
  /\ FilesTypeOK /\ Places /\ Writing
  /\ ModuleCode /\ FromLost /\ FileCode /\ Losses /\ Reflected /\ Results

-----------------------------------------------------------------------------
USE ProgramAssumption, EmptyStays

(* A text is never what is left of a file being written.                   *)
LEMMA TextParses == \A t \in Texts : t # Broken
<1> SUFFICES ASSUME NEW t \in Texts PROVE t # Broken
  OBVIOUS
<1>1. "code" \in DOMAIN t
  BY DEF Texts
<1>2. "code" \notin DOMAIN Broken
  BY DEF Broken
<1> QED
  BY <1>1, <1>2

(* What annotation makes of the contents a file can have.                  *)
LEMMA Settled ==
  ASSUME source \in Programs, NEW f \in FileNames
  PROVE  /\ {NoCode, source[f]} \cup Done(f) \subseteq Contents
         /\ NoCode \notin {source[f]} \cup Done(f)
         /\ \A c \in Done(f) : Undescribed(c) = Annotated(f)
         /\ \A c \in {source[f]} \cup Done(f) : Annotate(c) \in Done(f)
<1>1. Settles(source[f])
  BY AnnotationSettles
<1>2. /\ Undescribed(Twice(f)) = Undescribed(Once(f))
      /\ Annotate(Twice(f)) = Twice(f)
      /\ NoCode \notin {source[f], Once(f), Twice(f)}
  BY <1>1 DEF Settles, Once, Twice
<1>3. \A c \in Done(f) : Undescribed(c) = Annotated(f)
  BY <1>2 DEF Done, Annotated, Once
<1>4. \A c \in {source[f]} \cup Done(f) : Annotate(c) \in Done(f)
  BY <1>2 DEF Done, Once, Twice
<1>5. {NoCode, source[f]} \cup Done(f) \subseteq Contents
  BY DEF Contents
<1> QED
  BY <1>2, <1>3, <1>4, <1>5 DEF Done

(* Sets of files are finite.                                               *)
LEMMA Fewer ==
  ASSUME NEW S, NEW T \in SUBSET FileNames, NEW x, S \subseteq T \cup {x}
  PROVE  /\ Cardinality(T) \in Nat /\ Cardinality(S) \in Nat
         /\ Cardinality(S) <= Cardinality(T) + 1
         /\ S \subseteq T => Cardinality(S) <= Cardinality(T)
<1>1. IsFiniteSet(FileNames)
  BY FS_Interval DEF FileNames
<1>2. IsFiniteSet(T)
  BY <1>1, FS_Subset
<1>3. /\ IsFiniteSet(T \cup {x})
      /\ Cardinality(T \cup {x}) = IF x \in T THEN Cardinality(T) ELSE Cardinality(T) + 1
  BY <1>2, FS_AddElement
<1>4. IsFiniteSet(S) /\ Cardinality(S) <= Cardinality(T \cup {x})
  BY <1>3, FS_Subset
<1>5. S \subseteq T => Cardinality(S) <= Cardinality(T)
  BY <1>2, FS_Subset
<1>6. Cardinality(T) \in Nat /\ Cardinality(S) \in Nat
  BY <1>2, <1>4, FS_CardinalityType
<1> QED
  BY <1>3, <1>4, <1>5, <1>6

LEMMA HandledTurn == Handled = modules[Turn]
  BY DEF Handled, Turn

(* The losses of a step that loses at most the files in a set it names.    *)
LEMMA KeepsLosses ==
  ASSUME FilesTypeOK, Losses, Missing' \subseteq Missing, crashes' = crashes
  PROVE  Losses'
<1>1. Missing \subseteq FileNames
  BY DEF Missing
<1>2. Missing' \subseteq Missing \cup {0}
  OBVIOUS
<1>3. Cardinality(Missing') <= Cardinality(Missing) /\ Cardinality(Missing) \in Nat
      /\ Cardinality(Missing') \in Nat
  BY <1>1, <1>2, Fewer
<1> QED
  BY <1>3 DEF Losses, FilesTypeOK

-----------------------------------------------------------------------------
(* What the sources fix stays fixed.                                       *)
LEMMA SourceStays ==
  ASSUME source' = source
  PROVE  /\ \A f : Done(f)' = Done(f)
         /\ \A f : Annotated(f)' = Annotated(f)
         /\ Contents' = Contents /\ Texts' = Texts /\ Loaded' = Loaded
<1>1. /\ \A f : Done(f)' = Done(f)
      /\ \A f : Annotated(f)' = Annotated(f)
  BY DEF Done, Twice, Once, Annotated
<1>2. Contents' = Contents
  BY <1>1 DEF Contents
<1> QED
  BY <1>1, <1>2 DEF Texts, Loaded

(* The module a step of the driver reads or appends.                       *)
LEMMA LoadedText ==
  ASSUME FilesTypeOK, FileCode, at \in FileNames, Parses(disk[at])
  PROVE  LET mod == [disk[at] EXCEPT !.code = Annotate(@)]
         IN  /\ mod \in Texts
             /\ mod.code \in {NoCode} \cup Done(at)
             /\ mod.code = NoCode <=> disk[at].code = NoCode
             /\ mod.code = NoCode => Lost(at)
<1> DEFINE mod == [disk[at] EXCEPT !.code = Annotate(@)]
<1>1. disk[at] \in Texts
  BY DEF FilesTypeOK, Parses
<1>2. mod.code = Annotate(disk[at].code)
  BY <1>1 DEF Texts
<1>3. disk[at].code \in {NoCode, source[at]} \cup Done(at)
  BY DEF FileCode, Parses
<1>4. /\ mod.code \in {NoCode} \cup Done(at)
      /\ mod.code = NoCode <=> disk[at].code = NoCode
  BY <1>2, <1>3, Settled DEF FilesTypeOK
<1>5. mod.code \in Contents
  BY <1>4, Settled DEF FilesTypeOK
<1>6. mod \in Texts
  BY <1>1, <1>2, <1>5 DEF Texts
<1>7. mod.code = NoCode => Lost(at)
  BY <1>4 DEF Lost
<1> QED
  BY <1>4, <1>6, <1>7

(* What a pass does to a module leaves its code.                           *)
LEMMA CodeContents ==
  ASSUME FilesTypeOK
  PROVE  Code \subseteq Contents
<1>1. \A n \in DOMAIN modules : modules[n] \in Loaded
  BY DEF FilesTypeOK
<1> QED
  BY <1>1 DEF Code, Loaded, Texts

LEMMA FinalizedText ==
  ASSUME FilesTypeOK, step \in {"taint", "range"}, NEW mod \in Texts
  PROVE  /\ Finalized(mod) \in Texts
         /\ Finalized(mod).code = mod.code
         /\ step = "taint" => Finalized(mod).taint = Code /\ Finalized(mod).range = mod.range
         /\ step = "range" => Finalized(mod).range = Code /\ Finalized(mod).taint = mod.taint
<1>1. CASE step = "taint"
  <2>1. Finalized(mod) = [mod EXCEPT !.taint = Code]
    BY <1>1 DEF Finalized
  <2> QED
    BY <1>1, <2>1, CodeContents DEF Texts
<1>2. CASE step = "range"
  <2>1. Finalized(mod) = [mod EXCEPT !.range = Code]
    BY <1>2 DEF Finalized
  <2> QED
    BY <1>2, <2>1, CodeContents DEF Texts
<1> QED
  BY <1>1, <1>2

(* The types.                                                              *)
LEMMA TypeStep ==
  ASSUME FilesTypeOK, Places, Writing, FileCode, [Next]_vars
  PROVE  FilesTypeOK'
<1>1. source' = source
  BY DEF Next, vars, Start, Load, Analyse, Finalize, EndPass, Open, OpenFails, Keep, Crash,
         Recompile, Finished
<1> USE <1>1, SourceStays
<1>2. CASE Start
  BY <1>2 DEF Start, FilesTypeOK
<1>3. CASE Load
  <2>1. at \in FileNames
    BY <1>3 DEF Load, FilesTypeOK, FileNames
  <2>2. CASE Parses(disk[at])
    <3> DEFINE new == [mod |-> [disk[at] EXCEPT !.code = Annotate(@)], file |-> at]
    <3>1. new \in Loaded
      BY <2>1, <2>2, LoadedText DEF Loaded
    <3>2. modules' = Append(modules, new) /\ pending' = ~noWriteback /\ failed' = failed
      BY <1>3, <2>2 DEF Load
    <3> HIDE DEF new
    <3>3. modules' \in Seq(Loaded)
      BY <3>1, <3>2 DEF FilesTypeOK
    <3>4. pending' \in BOOLEAN
      BY <3>2
    <3>5. /\ at' \in Nat \ {0}
          /\ UNCHANGED <<disk, noWriteback, step, out, runs, crashes>>
      BY <1>3 DEF Load, FilesTypeOK
    <3> QED
      BY <3>2, <3>3, <3>4, <3>5 DEF FilesTypeOK
  <2>3. CASE ~Parses(disk[at])
    <3>0. /\ failed' = failed \cup {at} /\ at' = at + 1
          /\ UNCHANGED <<disk, noWriteback, step, out, runs, crashes, modules, pending>>
      BY <1>3, <2>3, Zenon DEF Load
    <3>1. failed' \subseteq FileNames /\ at' \in Nat \ {0}
      BY <2>1, <3>0 DEF FilesTypeOK
    <3>2. noWriteback' \in BOOLEAN /\ pending' \in BOOLEAN
      BY <3>0 DEF FilesTypeOK
    <3>3. modules' \in Seq(Loaded)
      BY <3>0 DEF FilesTypeOK
    <3>4. disk' \in [FileNames -> Texts \cup {Broken}]
      BY <3>0 DEF FilesTypeOK
    <3> QED
      BY <3>0, <3>1, <3>2, <3>3, <3>4 DEF FilesTypeOK
  <2> QED
    BY <2>2, <2>3
<1>4. CASE Analyse
  BY <1>4 DEF Analyse, FilesTypeOK
<1>5. CASE Finalize
  <2>1. at \in DOMAIN modules /\ modules[at] \in Loaded
    BY <1>5 DEF Finalize, FilesTypeOK
  <2>2. Finalized(modules[at].mod) \in Texts
    BY <1>5, <2>1, FinalizedText DEF Finalize, Loaded
  <2>3. [modules[at] EXCEPT !.mod = Finalized(modules[at].mod)] \in Loaded
    BY <2>1, <2>2 DEF Loaded
  <2>4. modules' = [modules EXCEPT ![at] = [modules[at] EXCEPT !.mod = Finalized(modules[at].mod)]]
    BY <1>5 DEF Finalize
  <2>5. modules' \in Seq(Loaded)
    BY <2>1, <2>3, <2>4 DEF FilesTypeOK
  <2> QED
    BY <1>5, <2>5 DEF Finalize, FilesTypeOK
<1>6. CASE EndPass
  BY <1>6 DEF EndPass, FilesTypeOK
<1>7. CASE Open \/ OpenFails
  <2>1. Handled \in Loaded
    BY <1>7, HandledTurn DEF Open, OpenFails, Writing, FilesTypeOK
  <2>2. Handled.file \in FileNames
    BY <2>1 DEF Loaded
  <2> QED
    BY <1>7, <2>2 DEF Open, OpenFails, FilesTypeOK
<1>8. CASE Keep
  <2>1. Handled \in Loaded
    BY <1>8, HandledTurn DEF Keep, Writing, FilesTypeOK
  <2>2. Handled.mod \in Texts
    BY <2>1 DEF Loaded
  <2> QED
    BY <1>8, <2>2 DEF Keep, FilesTypeOK
<1>9. CASE Crash
  <2>1. Text(NoCode) \in Texts
    BY DEF Texts, Text, Contents
  <2>2. disk' \in [FileNames -> Texts \cup {Broken}]
    BY <1>9, <2>1 DEF Crash, FilesTypeOK
  <2>3. /\ step' = "off" /\ at' = 1 /\ modules' = <<>> /\ pending' = FALSE /\ out' = 0
        /\ crashes' \in Nat
        /\ UNCHANGED <<noWriteback, failed, runs>>
    BY <1>9 DEF Crash, FilesTypeOK
  <2>0. <<>> \in Seq(Loaded)
    OBVIOUS
  <2>4. modules' \in Seq(Loaded)' /\ pending' \in BOOLEAN /\ out' \in FileNames' \cup {0}
    BY <2>0, <2>3
  <2>5. noWriteback' \in BOOLEAN /\ failed' \subseteq FileNames /\ runs' \in Nat /\ crashes' \in Nat
    BY <2>3 DEF FilesTypeOK
  <2>6. source' \in Programs /\ step' \in {"off", "load", "taint", "range", "done"} /\ at' \in Nat \ {0}
    BY <2>3 DEF FilesTypeOK
  <2> QED
    BY <2>2, <2>4, <2>5, <2>6 DEF FilesTypeOK
<1>10. CASE Recompile
  <2>1. \A f \in FileNames : Text(source[f]) \in Texts
    BY DEF Texts, Text, Contents
  <2>2. disk' \in [FileNames -> Texts \cup {Broken}]
    BY <1>10, <2>1 DEF Recompile, FilesTypeOK
  <2> QED
    BY <1>10, <2>2 DEF Recompile, FilesTypeOK
<1>11. CASE UNCHANGED vars
  BY <1>11 DEF vars, FilesTypeOK
<1> QED
  BY <1>2, <1>3, <1>4, <1>5, <1>6, <1>7, <1>8, <1>9, <1>10, <1>11 DEF Next, Finished

-----------------------------------------------------------------------------
(* The two steps that change the modules.                                  *)
LEMMA LoadStep ==
  ASSUME FilesTypeOK, Load, Parses(disk[at])
  PROVE  /\ at \in FileNames
         /\ Len(modules) \in Nat /\ Len(modules') = Len(modules) + 1
         /\ DOMAIN modules = 1 .. Len(modules) /\ DOMAIN modules' = 1 .. Len(modules')
         /\ \A n \in DOMAIN modules : n \in DOMAIN modules' /\ modules'[n] = modules[n]
         /\ modules'[Len(modules')].file = at
         /\ modules'[Len(modules')].mod = [disk[at] EXCEPT !.code = Annotate(@)]
<1> DEFINE new == [mod |-> [disk[at] EXCEPT !.code = Annotate(@)], file |-> at]
<1>1. at \in FileNames
  BY DEF Load, FilesTypeOK, FileNames
<1>2. modules' = Append(modules, new)
  BY DEF Load
<1>3. new.file = at /\ new.mod = [disk[at] EXCEPT !.code = Annotate(@)]
  OBVIOUS
<1> HIDE DEF new
<1>4. /\ Len(modules) \in Nat /\ Len(modules') = Len(modules) + 1
      /\ DOMAIN modules = 1 .. Len(modules) /\ DOMAIN modules' = 1 .. Len(modules')
      /\ \A n \in DOMAIN modules : n \in DOMAIN modules' /\ modules'[n] = modules[n]
      /\ modules'[Len(modules')] = new
  BY <1>2 DEF FilesTypeOK
<1> QED
  BY <1>1, <1>3, <1>4

LEMMA FinalizeStep ==
  ASSUME FilesTypeOK, Finalize
  PROVE  /\ at \in DOMAIN modules
         /\ DOMAIN modules = 1 .. Len(modules)
         /\ DOMAIN modules' = DOMAIN modules /\ Len(modules') = Len(modules)
         /\ \A n \in DOMAIN modules : n # at => modules'[n] = modules[n]
         /\ modules'[at].mod = Finalized(modules[at].mod)
         /\ \A n \in DOMAIN modules : /\ modules'[n].file = modules[n].file
                                      /\ modules'[n].mod.code = modules[n].mod.code
         /\ Code' = Code
<1>1. at \in DOMAIN modules /\ modules[at] \in Loaded /\ DOMAIN modules = 1 .. Len(modules)
  BY DEF Finalize, FilesTypeOK
<1>2. modules' = [modules EXCEPT ![at] = [modules[at] EXCEPT !.mod = Finalized(modules[at].mod)]]
  BY DEF Finalize
<1>3. /\ DOMAIN modules' = DOMAIN modules /\ Len(modules') = Len(modules)
      /\ \A n \in DOMAIN modules : n # at => modules'[n] = modules[n]
      /\ modules'[at] = [modules[at] EXCEPT !.mod = Finalized(modules[at].mod)]
  BY <1>1, <1>2 DEF FilesTypeOK
<1>4. modules'[at].mod = Finalized(modules[at].mod) /\ modules'[at].file = modules[at].file
  BY <1>1, <1>3 DEF Loaded
<1>5. Finalized(modules[at].mod).code = modules[at].mod.code
  BY <1>1, FinalizedText DEF Loaded, Finalize
<1>6. \A n \in DOMAIN modules : /\ modules'[n].file = modules[n].file
                                /\ modules'[n].mod.code = modules[n].mod.code
  BY <1>3, <1>4, <1>5
<1>7. Code' = Code
  BY <1>3, <1>6 DEF Code
<1> QED
  BY <1>1, <1>3, <1>4, <1>6, <1>7

(* What is written, and where.                                             *)
LEMMA WritingStep ==
  ASSUME FilesTypeOK, Places, Writing, [Next]_vars
  PROVE  Places' /\ Writing'
<1>0. Len(modules) \in Nat /\ DOMAIN modules = 1 .. Len(modules) /\ at \in Nat
  BY DEF FilesTypeOK
<1>x. \A n \in DOMAIN modules : modules[n].file \in Nat
  <2>1. \A n \in DOMAIN modules : modules[n] \in Loaded
    BY DEF FilesTypeOK
  <2>2. FileNames \subseteq Nat
    BY DEF FileNames
  <2> QED
    BY <2>1, <2>2 DEF Loaded
<1>1. CASE Start
  <2>1. step' = "load" /\ at' = 1 /\ modules' = <<>> /\ pending' = pending /\ out' = out
    BY <1>1, Zenon DEF Start
  <2>2. ~pending /\ out = 0
    BY <1>1 DEF Start, Writing, Working
  <2> QED
    BY <2>1, <2>2 DEF Places, Writing, Working
<1>2. CASE Load
  <2>1. /\ step = "load" /\ step' = "load" /\ at' = at + 1 /\ out' = out /\ noWriteback' = noWriteback
        /\ out = 0 /\ ~pending
    BY <1>2, Zenon DEF Load, Idle
  <2>2. CASE Parses(disk[at])
    <3>1. pending' = ~noWriteback
      BY <1>2, <2>2 DEF Load
    <3>2. /\ at <= NumFiles /\ Len(modules') = Len(modules) + 1
          /\ DOMAIN modules' = 1 .. Len(modules')
          /\ \A n \in DOMAIN modules : modules'[n] = modules[n]
          /\ modules'[Len(modules')].file = at
      BY <1>2, <2>2, LoadStep DEF Load
    <3>3. \A n \in DOMAIN modules : modules[n].file < at
      BY <2>1 DEF Places
    <3>4. \A n \in DOMAIN modules' : n = Len(modules') \/ n \in DOMAIN modules
      BY <1>0, <3>2
    <3>5. at' = at + 1 /\ at' <= NumFiles + 1
      BY <1>0, <2>1, <3>2
    <3>6. ASSUME NEW n \in DOMAIN modules' PROVE modules'[n].file < at'
      <4>1. CASE n \in DOMAIN modules
        BY <1>0, <1>x, <3>2, <3>3, <3>5, <4>1
      <4>2. CASE n = Len(modules')
        BY <1>0, <3>2, <3>5, <4>2
      <4> QED
        BY <3>4, <4>1, <4>2
    <3>7. ASSUME NEW m \in DOMAIN modules', NEW n \in DOMAIN modules', m < n
          PROVE  modules'[m].file < modules'[n].file
      <4>1. m \in DOMAIN modules
        BY <1>0, <3>2, <3>7
      <4>2. CASE n \in DOMAIN modules
        BY <3>2, <3>7, <4>1, <4>2 DEF Places
      <4>3. CASE n = Len(modules')
        BY <3>2, <3>3, <4>1, <4>3
      <4> QED
        BY <3>4, <4>2, <4>3
    <3>8. Places'
      BY <2>1, <3>5, <3>6, <3>7 DEF Places
    <3>9. Turn' \in DOMAIN modules'
      BY <1>2, <2>1, <2>2, LoadStep DEF Turn
    <3>10. Writing'
      BY <2>1, <3>1, <3>9 DEF Writing, Working
    <3> QED
      BY <3>8, <3>10
  <2>3. CASE ~Parses(disk[at])
    <3>1. modules' = modules /\ pending' = pending /\ at <= NumFiles
      BY <1>2, <2>3 DEF Load
    <3>2. Places'
      BY <1>0, <1>x, <2>1, <3>1 DEF Places
    <3>3. Writing'
      BY <2>1, <3>1 DEF Writing
    <3> QED
      BY <3>2, <3>3
  <2> QED
    BY <2>2, <2>3
<1>3. CASE Analyse \/ EndPass
  <2>1. /\ step' \in {"taint", "range", "done"} /\ at' = 1
        /\ modules' = modules /\ pending' = pending /\ out' = out
    BY <1>3 DEF Analyse, EndPass
  <2>2. ~pending /\ out = 0
    BY <1>3 DEF Analyse, EndPass, Idle
  <2> QED
    BY <1>0, <2>1, <2>2 DEF Places, Writing
<1>4. CASE Finalize
  <2>1. /\ step \in {"taint", "range"} /\ step' = step /\ at' = at + 1 /\ out' = out
        /\ noWriteback' = noWriteback /\ out = 0 /\ pending' = ~noWriteback
    BY <1>4 DEF Finalize, Idle
  <2>2. Places'
    BY <1>0, <1>4, <2>1, FinalizeStep DEF Places
  <2>3. Turn' \in DOMAIN modules'
    BY <1>0, <1>4, <2>1, FinalizeStep DEF Turn
  <2>4. Writing'
    BY <2>1, <2>3 DEF Writing, Working
  <2> QED
    BY <2>2, <2>4
<1>5. CASE Open \/ OpenFails \/ Keep
  <2>1. UNCHANGED <<noWriteback, step, at, modules>>
    BY <1>5 DEF Open, OpenFails, Keep
  <2>2. Places'
    BY <2>1 DEF Places
  <2>3. Turn' = Turn /\ (Working' <=> Working)
    BY <2>1 DEF Turn, Working
  <2>4. ~pending' /\ (out' = 0 \/ out' = Handled.file)
    BY <1>5 DEF Open, OpenFails, Keep, Writing
  <2>5. pending \/ out # 0
    BY <1>5 DEF Open, OpenFails, Keep
  <2>6. Working' /\ Turn' \in DOMAIN modules' /\ ~noWriteback'
    BY <2>1, <2>3, <2>5 DEF Writing
  <2>7. Handled.file = modules'[Turn'].file
    BY <2>1, <2>3, HandledTurn
  <2>8. Writing'
    BY <2>4, <2>6, <2>7 DEF Writing
  <2> QED
    BY <2>2, <2>8
<1>6. CASE Crash
  <2>1. step' = "off" /\ at' = 1 /\ modules' = <<>> /\ ~pending' /\ out' = 0
    BY <1>6 DEF Crash
  <2> QED
    BY <2>1 DEF Places, Writing
<1>7. CASE Recompile
  <2>1. step' = "off" /\ modules' = modules /\ pending' = pending /\ out' = out /\ ~pending /\ out = 0
    BY <1>7 DEF Recompile, Writing, Working
  <2> QED
    BY <2>1 DEF Places, Writing
<1>8. CASE UNCHANGED vars
  BY <1>8 DEF vars, Places, Writing, Working, Turn
<1> QED
  BY <1>1, <1>2, <1>3, <1>4, <1>5, <1>6, <1>7, <1>8 DEF Next, Finished

(* Whose code the modules and files have.                                  *)
LEMMA ModulesTyped ==
  ASSUME FilesTypeOK
  PROVE  /\ Len(modules) \in Nat /\ DOMAIN modules = 1 .. Len(modules)
         /\ \A n \in DOMAIN modules : /\ modules[n] \in Loaded /\ modules[n].mod \in Texts
                                      /\ modules[n].file \in FileNames
         /\ 0 \notin FileNames /\ FileNames \subseteq Nat
<1>1. Len(modules) \in Nat /\ DOMAIN modules = 1 .. Len(modules)
  BY DEF FilesTypeOK
<1>2. \A n \in DOMAIN modules : modules[n] \in Loaded
  BY DEF FilesTypeOK
<1>3. \A t \in Loaded : t.mod \in Texts /\ t.file \in FileNames
  BY DEF Loaded
<1>4. 0 \notin FileNames /\ FileNames \subseteq Nat
  BY DEF FileNames
<1> QED
  BY <1>1, <1>2, <1>3, <1>4

LEMMA OneModulePerFile ==
  ASSUME FilesTypeOK, Places,
         NEW a \in DOMAIN modules, NEW b \in DOMAIN modules, modules[a].file = modules[b].file
  PROVE  a = b
<1>1. a \in Nat /\ b \in Nat /\ modules[a].file \in Nat
  BY ModulesTyped
<1>2. ~(a < b) /\ ~(b < a)
  BY <1>1 DEF Places
<1> QED
  BY <1>1, <1>2

LEMMA ContentStep ==
  ASSUME FilesTypeOK, Places, Writing, ModuleCode, FromLost, FileCode, [Next]_vars
  PROVE  ModuleCode' /\ FromLost' /\ FileCode'
<1>1. source' = source
  BY DEF Next, vars, Start, Load, Analyse, Finalize, EndPass, Open, OpenFails, Keep, Crash,
         Recompile, Finished
<1>2. /\ \A f : Done(f)' = Done(f)
      /\ \A f : disk'[f] = disk[f] => Lost(f)' = Lost(f)
  BY <1>1, SourceStays DEF Lost
<1>3. ASSUME disk' = disk PROVE FileCode'
  BY <1>1, <1>2, <1>3 DEF FileCode
<1>4. ASSUME modules' = modules PROVE ModuleCode'
  BY <1>1, <1>2, <1>4 DEF ModuleCode
<1>5. CASE Start
  <2>1. modules' = <<>> /\ disk' = disk
    BY <1>5 DEF Start
  <2> QED
    BY <1>3, <2>1 DEF ModuleCode, FromLost
<1>6. CASE Load
  <2>1. disk' = disk /\ out' = out /\ step = "load" /\ step' = "load"
    BY <1>6 DEF Load
  <2>2. CASE Parses(disk[at])
    <3> DEFINE last == modules'[Len(modules')]
    <3>1. /\ at \in FileNames /\ Len(modules') = Len(modules) + 1
          /\ DOMAIN modules' = 1 .. Len(modules')
          /\ \A n \in DOMAIN modules : modules'[n] = modules[n]
          /\ last.file = at /\ last.mod = [disk[at] EXCEPT !.code = Annotate(@)]
      BY <1>6, <2>2, LoadStep
    <3>2. last.mod.code \in {NoCode} \cup Done(at) /\ (last.mod.code = NoCode => Lost(at))
      BY <2>2, <3>1, LoadedText
    <3> HIDE DEF last
    <3>3. \A n \in DOMAIN modules' : n \in DOMAIN modules \/ n = Len(modules')
      BY <3>1, ModulesTyped
    <3>4. ModuleCode'
      <4> SUFFICES ASSUME NEW n \in DOMAIN modules'
                   PROVE  modules'[n].mod.code \in {NoCode} \cup Done(modules'[n].file)
        BY <1>2 DEF ModuleCode
      <4>1. CASE n \in DOMAIN modules
        BY <3>1, <4>1 DEF ModuleCode
      <4>2. CASE n = Len(modules')
        BY <3>1, <3>2, <4>2 DEF last
      <4> QED
        BY <3>3, <4>1, <4>2
    <3>5. FromLost'
      <4> SUFFICES ASSUME NEW n \in DOMAIN modules', modules'[n].mod.code = NoCode,
                          modules'[n].file # out
                   PROVE  Lost(modules'[n].file)
        BY <1>2, <2>1 DEF FromLost
      <4>1. CASE n \in DOMAIN modules
        BY <2>1, <3>1, <4>1 DEF FromLost
      <4>2. CASE n = Len(modules')
        BY <3>1, <3>2, <4>2 DEF last
      <4> QED
        BY <3>3, <4>1, <4>2
    <3> QED
      BY <1>3, <2>1, <3>4, <3>5
  <2>3. CASE ~Parses(disk[at])
    <3>1. modules' = modules
      BY <1>6, <2>3 DEF Load
    <3>2. FromLost'
      BY <1>2, <2>1, <3>1 DEF FromLost
    <3> QED
      BY <1>3, <1>4, <2>1, <3>1, <3>2
  <2> QED
    BY <2>2, <2>3
<1>7. CASE Analyse \/ EndPass \/ OpenFails
  <2>1. disk' = disk /\ modules' = modules /\ out' = out
    BY <1>7 DEF Analyse, EndPass, OpenFails
  <2>2. step # "off"
    BY <1>7 DEF Analyse, EndPass, OpenFails, Writing, Working
  <2>3. FromLost'
    BY <1>2, <2>1, <2>2 DEF FromLost
  <2> QED
    BY <1>3, <1>4, <2>1, <2>3
<1>8. CASE Finalize
  <2>1. disk' = disk /\ out' = out /\ step # "off"
    BY <1>8 DEF Finalize
  <2>2. ModuleCode'
    BY <1>2, <1>8, FinalizeStep DEF ModuleCode
  <2>3. FromLost'
    BY <1>2, <1>8, <2>1, FinalizeStep DEF FromLost
  <2> QED
    BY <1>3, <2>1, <2>2, <2>3
<1>9. CASE Open
  <2>1. /\ pending /\ modules' = modules /\ step' = step
        /\ disk' = [disk EXCEPT ![out'] = Broken]
    BY <1>9 DEF Open
  <2>2. out = 0 /\ step # "off"
    BY <2>1 DEF Writing, Working
  <2>3. \A f \in FileNames : disk'[f] = IF f = out' THEN Broken ELSE disk[f]
    BY <2>1 DEF FilesTypeOK
  <2>4. FileCode'
    BY <1>1, <1>2, <2>3 DEF FileCode
  <2>5. FromLost'
    <3> SUFFICES ASSUME NEW n \in DOMAIN modules, modules[n].mod.code = NoCode,
                        modules[n].file # out'
                 PROVE  Lost(modules[n].file)'
      BY <2>1 DEF FromLost
    <3>1. modules[n].file \in FileNames /\ modules[n].file # out
      BY <2>2, ModulesTyped
    <3>2. Lost(modules[n].file)
      BY <2>2, <3>1 DEF FromLost
    <3>3. disk'[modules[n].file] = disk[modules[n].file]
      BY <2>3, <3>1
    <3> QED
      BY <2>1, <3>2, <3>3 DEF Lost
  <2> QED
    BY <1>4, <2>1, <2>4, <2>5
<1>10. CASE Keep
  <2>1. out # 0 /\ modules' = modules /\ step' = step /\ out' = 0
        /\ disk' = [disk EXCEPT ![out] = Handled.mod]
    BY <1>10 DEF Keep
  <2>2. /\ Turn \in DOMAIN modules /\ out = modules[Turn].file /\ step # "off"
        /\ Handled = modules[Turn]
    BY <2>1, HandledTurn DEF Writing, Working
  <2>3. \A f \in FileNames : disk'[f] = IF f = out THEN modules[Turn].mod ELSE disk[f]
    BY <2>1, <2>2 DEF FilesTypeOK
  <2>4. modules[Turn].mod.code \in {NoCode} \cup Done(out)
    BY <2>2 DEF ModuleCode
  <2>5. FileCode'
    BY <1>1, <1>2, <2>3, <2>4 DEF FileCode
  <2>6. FromLost'
    <3> SUFFICES ASSUME NEW n \in DOMAIN modules, modules[n].mod.code = NoCode
                 PROVE  Lost(modules[n].file)'
      BY <2>1 DEF FromLost
    <3>1. modules[n].file \in FileNames
      BY ModulesTyped
    <3>2. CASE modules[n].file = out
      <4>1. n = Turn
        BY <2>2, <3>2, OneModulePerFile
      <4>2. disk'[modules[n].file] = modules[n].mod
        BY <2>3, <3>1, <3>2, <4>1
      <4> QED
        BY <2>1, <4>2 DEF Lost
    <3>3. CASE modules[n].file # out
      <4>1. Lost(modules[n].file)
        BY <2>2, <3>3 DEF FromLost
      <4>2. disk'[modules[n].file] = disk[modules[n].file]
        BY <2>3, <3>1, <3>3
      <4> QED
        BY <2>1, <4>1, <4>2 DEF Lost
    <3> QED
      BY <3>2, <3>3
  <2> QED
    BY <1>4, <2>1, <2>5, <2>6
<1>11. CASE Crash
  <2>1. modules' = <<>> /\ step' = "off"
    BY <1>11 DEF Crash
  <2>2. \A f \in FileNames : disk'[f] = disk[f] \/ disk'[f] = Text(NoCode)
    BY <1>11 DEF Crash, FilesTypeOK
  <2>3. Text(NoCode).code = NoCode
    BY DEF Text
  <2>4. FileCode'
    BY <1>1, <1>2, <2>2, <2>3 DEF FileCode
  <2> QED
    BY <2>1, <2>4 DEF ModuleCode, FromLost
<1>12. CASE Recompile
  <2>1. modules' = modules /\ step' = "off"
    BY <1>12 DEF Recompile
  <2>2. \A f \in FileNames : disk'[f] = disk[f] \/ disk'[f] = Text(source[f])
    BY <1>12 DEF Recompile, FilesTypeOK
  <2>3. \A f \in FileNames : Text(source[f]).code = source[f]
    BY DEF Text
  <2>4. FileCode'
    BY <1>1, <1>2, <2>2, <2>3 DEF FileCode
  <2> QED
    BY <1>4, <2>1, <2>4 DEF FromLost
<1>13. CASE UNCHANGED vars
  <2>1. disk' = disk /\ modules' = modules /\ out' = out /\ step' = step
    BY <1>13 DEF vars
  <2>2. FromLost'
    BY <1>2, <2>1 DEF FromLost
  <2> QED
    BY <1>3, <1>4, <2>1, <2>2
<1> QED
  BY <1>5, <1>6, <1>7, <1>8, <1>9, <1>10, <1>11, <1>12, <1>13 DEF Next, Finished

(* A step loses no more files than the one a crash leaves unwritten.       *)
LEMMA LossesStep ==
  ASSUME FilesTypeOK, Places, Writing, FromLost, Losses, [Next]_vars
  PROVE  Losses'
<1>1. 0 \notin FileNames
  BY ModulesTyped
<1>2. ASSUME disk' = disk, crashes' = crashes, out = 0, out' = 0
      PROVE  Losses'
  <2>1. Missing' = Missing
    BY <1>1, <1>2 DEF Missing, Lost
  <2> QED
    BY <1>2, <2>1, KeepsLosses
<1>3. CASE Start
  BY <1>2, <1>3 DEF Start, Writing, Working
<1>4. CASE Load \/ Analyse \/ Finalize \/ EndPass
  <2>1. disk' = disk /\ crashes' = crashes /\ out = 0 /\ out' = out
    BY <1>4 DEF Load, Analyse, Finalize, EndPass, Idle
  <2> QED
    BY <1>2, <2>1
<1>5. CASE Open
  <2>1. /\ pending /\ modules' = modules /\ step' = step /\ at' = at /\ crashes' = crashes
        /\ out' = Handled.file /\ disk' = [disk EXCEPT ![out'] = Broken]
    BY <1>5 DEF Open
  <2>2. out = 0 /\ step # "off" /\ Turn \in DOMAIN modules /\ Handled = modules[Turn]
    BY <2>1, HandledTurn DEF Writing, Working
  <2>3. Handled' = Handled
    BY <2>1 DEF Handled
  <2>4. \A f \in FileNames : f # out' => disk'[f] = disk[f]
    BY <2>1 DEF FilesTypeOK
  <2>5. Handled.mod.code = NoCode => Lost(Handled.file)
    BY <1>1, <2>2, ModulesTyped DEF FromLost
  <2>6. Missing' \subseteq Missing
    <3> SUFFICES ASSUME NEW f \in FileNames,
                        IF f = out' THEN Handled.mod.code = NoCode ELSE Lost(f)'
                 PROVE  Lost(f)
      BY <1>1, <2>2, <2>3 DEF Missing
    <3>1. CASE f = out'
      BY <2>1, <2>5, <3>1
    <3>2. CASE f # out'
      BY <2>4, <3>2 DEF Lost
    <3> QED
      BY <3>1, <3>2
  <2> QED
    BY <2>1, <2>6, KeepsLosses
<1>6. CASE OpenFails
  <2>1. pending /\ disk' = disk /\ crashes' = crashes /\ out' = out
    BY <1>6 DEF OpenFails
  <2> QED
    BY <1>2, <2>1 DEF Writing
<1>7. CASE Keep
  <2>1. /\ out # 0 /\ out' = 0 /\ crashes' = crashes
        /\ disk' = [disk EXCEPT ![out] = Handled.mod]
    BY <1>7 DEF Keep
  <2>2. Handled \in Loaded /\ Handled.mod \in Texts /\ Handled.mod # Broken
    BY <2>1, HandledTurn, ModulesTyped, TextParses DEF Writing
  <2>3. \A f \in FileNames : disk'[f] = IF f = out THEN Handled.mod ELSE disk[f]
    BY <2>1 DEF FilesTypeOK
  <2>4. Missing' \subseteq Missing
    BY <1>1, <2>1, <2>2, <2>3 DEF Missing, Lost
  <2> QED
    BY <2>1, <2>4, KeepsLosses
<1>8. CASE Crash
  <2>1. /\ crashes' = crashes + 1 /\ out' = 0
        /\ \A f \in FileNames : f # out => disk'[f] = disk[f]
    BY <1>8 DEF Crash, FilesTypeOK
  <2>2. Missing' \subseteq Missing \cup {out}
    BY <1>1, <2>1 DEF Missing, Lost
  <2>3. Missing \in SUBSET FileNames
    BY DEF Missing
  <2>4. /\ Cardinality(Missing) \in Nat /\ Cardinality(Missing') \in Nat
        /\ Cardinality(Missing') <= Cardinality(Missing) + 1
    BY <2>2, <2>3, Fewer
  <2> QED
    BY <2>1, <2>4 DEF Losses, FilesTypeOK
<1>9. CASE Recompile
  <2>1. out = 0 /\ out' = 0 /\ crashes' = crashes
    BY <1>9 DEF Recompile, Writing, Working
  <2>2. PICK g \in FileNames : disk' = [disk EXCEPT ![g] = Text(source[g])]
    BY <1>9 DEF Recompile
  <2>3. \A f \in FileNames : disk'[f] = IF f = g THEN Text(source[g]) ELSE disk[f]
    BY <2>2 DEF FilesTypeOK
  <2>4. Text(source[g]) # Broken /\ Text(source[g]).code # NoCode
    <3>1. Text(source[g]) \in Texts /\ Text(source[g]).code = source[g]
      BY DEF Texts, Text, Contents
    <3> QED
      BY <3>1, TextParses, Settled DEF FilesTypeOK
  <2>5. Missing' \subseteq Missing
    BY <1>1, <2>1, <2>3, <2>4 DEF Missing, Lost
  <2> QED
    BY <2>1, <2>5, KeepsLosses
<1>10. CASE UNCHANGED vars
  <2>1. Missing' = Missing /\ crashes' = crashes
    BY <1>10 DEF vars, Missing, Lost, Handled
  <2> QED
    BY <2>1, KeepsLosses
<1> QED
  BY <1>3, <1>4, <1>5, <1>6, <1>7, <1>8, <1>9, <1>10 DEF Next, Finished

(* Files and modules agree but for what is being written.                  *)
LEMMA ReflectedStep ==
  ASSUME FilesTypeOK, Places, Writing, Reflected, [Next]_vars
  PROVE  Reflected'
<1> SUFFICES ASSUME ~noWriteback', failed' = {}, step' # "off"
             PROVE  /\ Len(modules') = IF step' = "load" THEN at' - 1 ELSE NumFiles
                    /\ \A n \in DOMAIN modules' :
                         /\ modules'[n].file = n
                         /\ disk'[n] = modules'[n].mod \/ (n = Turn' /\ (pending' \/ out' # 0))
  BY Zenon DEF Reflected
<1>1. /\ Len(modules) \in Nat /\ DOMAIN modules = 1 .. Len(modules) /\ at \in Nat
      /\ 0 \notin FileNames
  BY ModulesTyped DEF FilesTypeOK
<1>2. CASE Start
  BY <1>2 DEF Start
<1>3. CASE Load
  <2>1. /\ step = "load" /\ step' = "load" /\ at' = at + 1 /\ disk' = disk
        /\ ~pending /\ out = 0 /\ noWriteback' = noWriteback
    BY <1>3, Zenon DEF Load, Idle
  <2>2. Parses(disk[at])
    BY <1>3 DEF Load
  <2>3. failed' = failed /\ pending' = ~noWriteback
    BY <1>3, <2>2 DEF Load
  <2>4. /\ Len(modules) = at - 1
        /\ \A n \in DOMAIN modules : modules[n].file = n /\ disk[n] = modules[n].mod
    BY <2>1, <2>3 DEF Reflected
  <2>5. /\ Len(modules') = Len(modules) + 1
        /\ DOMAIN modules' = 1 .. Len(modules')
        /\ \A n \in DOMAIN modules : modules'[n] = modules[n]
        /\ modules'[Len(modules')].file = at
    BY <1>3, <2>2, LoadStep
  <2>6. Turn' = Len(modules') /\ Len(modules') = at
    BY <1>1, <2>1, <2>4, <2>5 DEF Turn
  <2>7. pending'
    BY <2>1, <2>3
  <2>8. \A n \in DOMAIN modules' : n \in DOMAIN modules \/ n = Len(modules')
    BY <1>1, <2>5
  <2> QED
    BY <1>1, <2>1, <2>4, <2>5, <2>6, <2>7, <2>8
<1>4. CASE Analyse
  <2>1. /\ step = "load" /\ at > NumFiles /\ ~pending /\ out = 0 /\ step' = "taint"
        /\ UNCHANGED <<disk, noWriteback, modules, failed>>
    BY <1>4, Zenon DEF Analyse, Idle
  <2>2. at = NumFiles + 1
    BY <1>1, <2>1 DEF Places
  <2>3. /\ Len(modules) = at - 1
        /\ \A n \in DOMAIN modules : modules[n].file = n /\ disk[n] = modules[n].mod
    BY <2>1 DEF Reflected
  <2>4. Len(modules) = NumFiles
    BY <1>1, <2>2, <2>3
  <2> QED
    BY <2>1, <2>3, <2>4
<1>5. CASE Finalize
  <2>1. /\ step \in {"taint", "range"} /\ step' = step /\ at' = at + 1 /\ ~pending /\ out = 0
        /\ pending' = ~noWriteback
        /\ UNCHANGED <<disk, noWriteback, failed>>
    BY <1>5, Zenon DEF Finalize, Idle
  <2>2. /\ Len(modules) = NumFiles
        /\ \A n \in DOMAIN modules : modules[n].file = n /\ disk[n] = modules[n].mod
    BY <2>1 DEF Reflected
  <2>3. pending'
    BY <2>1
  <2>4. Turn' = at
    BY <1>1, <2>1 DEF Turn
  <2> QED
    BY <1>5, <2>1, <2>2, <2>3, <2>4, FinalizeStep
<1>6. CASE EndPass
  <2>1. /\ step \in {"taint", "range"} /\ step' \in {"range", "done"} /\ ~pending /\ out = 0
        /\ UNCHANGED <<disk, noWriteback, modules, failed>>
    BY <1>6, Zenon DEF EndPass, Idle
  <2> QED
    BY <2>1 DEF Reflected
<1>7. CASE Open
  <2>1. /\ pending /\ out' = Handled.file /\ disk' = [disk EXCEPT ![out'] = Broken]
        /\ UNCHANGED <<noWriteback, step, at, modules, failed>>
    BY <1>7, Zenon DEF Open
  <2>2. /\ out = 0 /\ Turn \in DOMAIN modules /\ Turn' = Turn /\ Handled = modules[Turn]
    BY <2>1, HandledTurn DEF Writing, Turn
  <2>3. /\ Len(modules) = IF step = "load" THEN at - 1 ELSE NumFiles
        /\ \A n \in DOMAIN modules :
             modules[n].file = n /\ (disk[n] = modules[n].mod \/ n = Turn)
    BY <2>1 DEF Reflected
  <2>4. out' = Turn /\ out' # 0
    BY <1>1, <2>1, <2>2, <2>3
  <2>5. \A n \in DOMAIN modules : n \in FileNames /\ (n # out' => disk'[n] = disk[n])
    BY <2>1, <2>3, ModulesTyped DEF FilesTypeOK
  <2> QED
    BY <2>1, <2>2, <2>3, <2>4, <2>5
<1>8. CASE OpenFails
  BY <1>8 DEF OpenFails
<1>9. CASE Keep
  <2>1. /\ out # 0 /\ disk' = [disk EXCEPT ![out] = Handled.mod]
        /\ UNCHANGED <<noWriteback, step, at, modules, failed>>
    BY <1>9, Zenon DEF Keep
  <2>2. /\ out = modules[Turn].file /\ Turn \in DOMAIN modules /\ Handled = modules[Turn]
    BY <2>1, HandledTurn DEF Writing
  <2>3. /\ Len(modules) = IF step = "load" THEN at - 1 ELSE NumFiles
        /\ \A n \in DOMAIN modules :
             modules[n].file = n /\ (disk[n] = modules[n].mod \/ n = Turn)
    BY <2>1 DEF Reflected
  <2>4. out = Turn
    BY <2>2, <2>3
  <2>5. \A n \in DOMAIN modules : disk'[n] = IF n = out THEN Handled.mod ELSE disk[n]
    BY <2>1, <2>3, ModulesTyped DEF FilesTypeOK
  <2> QED
    BY <2>1, <2>2, <2>3, <2>4, <2>5
<1>10. CASE Crash \/ Recompile
  BY <1>10 DEF Crash, Recompile
<1>11. CASE UNCHANGED vars
  <2>1. UNCHANGED <<disk, noWriteback, step, at, modules, pending, out, failed>>
    BY <1>11, Zenon DEF vars
  <2>2. Turn' = Turn
    BY <2>1 DEF Turn
  <2> QED
    BY <2>1, <2>2 DEF Reflected
<1> QED
  BY <1>2, <1>3, <1>4, <1>5, <1>6, <1>7, <1>8, <1>9, <1>10, <1>11 DEF Next, Finished

(* The results are for all modules.                                        *)
LEMMA ResultsStep ==
  ASSUME FilesTypeOK, Places, Writing, Results, [Next]_vars
  PROVE  Results'
<1>1. /\ Len(modules) \in Nat /\ DOMAIN modules = 1 .. Len(modules) /\ at \in Nat
      /\ \A n \in DOMAIN modules : modules[n].mod \in Texts
  BY ModulesTyped DEF FilesTypeOK
<1>2. ASSUME step' \in {"off", "load"} PROVE Results'
  BY <1>2 DEF Results
<1>3. ASSUME modules' = modules PROVE Code' = Code
  BY <1>3 DEF Code
<1>4. CASE Start \/ Load \/ Crash \/ Recompile
  BY <1>2, <1>4 DEF Start, Load, Crash, Recompile
<1>5. CASE Analyse
  <2>1. step' = "taint" /\ at' = 1 /\ DOMAIN modules' = DOMAIN modules
    BY <1>5 DEF Analyse
  <2>2. \A n \in DOMAIN modules' : ~(n < at')
    BY <1>1, <2>1
  <2> QED
    BY <2>1, <2>2 DEF Results
<1>6. CASE Finalize
  <2>1. step \in {"taint", "range"} /\ step' = step /\ at' = at + 1
    BY <1>6 DEF Finalize
  <2>2. at \in DOMAIN modules /\ modules[at].mod \in Texts
    BY <1>1, <1>6, FinalizeStep
  <2>3. /\ step = "taint" => /\ modules'[at].mod.taint = Code
                             /\ modules'[at].mod.range = modules[at].mod.range
        /\ step = "range" => /\ modules'[at].mod.range = Code
                             /\ modules'[at].mod.taint = modules[at].mod.taint
    BY <1>6, <2>1, <2>2, FinalizeStep, FinalizedText
  <2>4. /\ DOMAIN modules' = DOMAIN modules /\ Code' = Code
        /\ \A n \in DOMAIN modules : n # at => modules'[n] = modules[n]
    BY <1>6, FinalizeStep
  <2>5. \A n \in DOMAIN modules : n < at' => n < at \/ n = at
    BY <1>1, <2>1
  <2>6. CASE step = "taint"
    BY <2>1, <2>3, <2>4, <2>5, <2>6 DEF Results
  <2>7. CASE step = "range"
    BY <2>1, <2>2, <2>3, <2>4, <2>5, <2>7 DEF Results
  <2> QED
    BY <2>1, <2>6, <2>7
<1>7. CASE EndPass
  <2>1. /\ step \in {"taint", "range"} /\ at > Len(modules) /\ at' = 1 /\ modules' = modules
        /\ step' = IF step = "taint" THEN "range" ELSE "done"
    BY <1>7 DEF EndPass
  <2>2. \A n \in DOMAIN modules : n < at /\ ~(n < at')
    BY <1>1, <2>1
  <2> QED
    BY <1>3, <2>1, <2>2 DEF Results
<1>8. CASE Open \/ OpenFails \/ Keep \/ UNCHANGED vars
  <2>1. modules' = modules /\ step' = step /\ at' = at
    BY <1>8 DEF Open, OpenFails, Keep, vars
  <2> QED
    BY <1>3, <2>1 DEF Results
<1> QED
  BY <1>4, <1>5, <1>6, <1>7, <1>8 DEF Next, Finished

-----------------------------------------------------------------------------
LEMMA InitFilesInv == Init => FilesInv
<1> SUFFICES ASSUME Init PROVE FilesInv
  OBVIOUS
<1>1. /\ modules = <<>> /\ step = "off" /\ out = 0 /\ pending = FALSE /\ crashes = 0
      /\ disk = [f \in FileNames |-> Text(source[f])]
  BY Zenon DEF Init
<1>2. \A f \in FileNames : /\ Text(source[f]) \in Texts
                           /\ Text(source[f]).code = source[f]
                           /\ source[f] # NoCode
  <2>1. \A f \in FileNames : Text(source[f]) \in Texts /\ Text(source[f]).code = source[f]
    BY DEF Texts, Text, Contents
  <2> QED
    BY <2>1, Settled DEF Init
<1>3. FilesTypeOK
  <2>1. source \in Programs /\ disk \in [FileNames -> Texts \cup {Broken}]
    BY <1>1, <1>2 DEF Init
  <2>2. /\ noWriteback \in BOOLEAN /\ pending \in BOOLEAN
        /\ step \in {"off", "load", "taint", "range", "done"}
    BY Zenon DEF Init
  <2>3. at \in Nat \ {0} /\ out \in FileNames \cup {0} /\ failed \subseteq FileNames
        /\ runs \in Nat /\ crashes \in Nat
    BY DEF Init
  <2>4. modules \in Seq(Loaded)
    <3>1. <<>> \in Seq(Loaded)
      OBVIOUS
    <3> QED
      BY <1>1, <3>1
  <2> QED
    BY <2>1, <2>2, <2>3, <2>4 DEF FilesTypeOK
<1>4. Places /\ Writing /\ ModuleCode /\ FromLost /\ Results
  BY <1>1 DEF Places, Writing, ModuleCode, FromLost, Results
<1>5. FileCode
  BY <1>1, <1>2 DEF FileCode
<1>6. Losses
  <2>1. \A f \in FileNames : ~Lost(f) /\ f # out
    BY <1>1, <1>2, TextParses, ModulesTyped, <1>3 DEF Lost
  <2>2. Missing = {}
    BY <2>1 DEF Missing
  <2> QED
    BY <1>1, <2>2, FS_EmptySet DEF Losses
<1>7. Reflected
  BY <1>1 DEF Reflected
<1> QED
  BY <1>3, <1>4, <1>5, <1>6, <1>7 DEF FilesInv

LEMMA NextFilesInv == FilesInv /\ [Next]_vars => FilesInv'
  BY TypeStep, WritingStep, ContentStep, LossesStep, ReflectedStep, ResultsStep DEF FilesInv

(* What the invariant says of the files, and of the end of a run.          *)
LEMMA FilesIntact == FilesInv => Intact
<1> SUFFICES ASSUME FilesInv PROVE Intact
  OBVIOUS
<1> USE DEF FilesInv
<1>1. \A f \in FileNames : Lost(f) \/ Own(f)
  <2> SUFFICES ASSUME NEW f \in FileNames, ~Lost(f) PROVE Own(f)
    OBVIOUS
  <2>1. disk[f].code \in {source[f]} \cup Done(f)
    BY DEF FileCode, Lost
  <2> QED
    BY <2>1, Settled DEF Own, FilesTypeOK
<1>2. Cardinality({ f \in FileNames \ {out} : Lost(f) }) <= crashes
  <2> DEFINE lost == { f \in FileNames \ {out} : Lost(f) }
  <2>1. lost \subseteq Missing /\ Missing \in SUBSET FileNames
    BY DEF Missing
  <2>2. /\ Cardinality(lost) <= Cardinality(Missing)
        /\ Cardinality(lost) \in Nat /\ Cardinality(Missing) \in Nat
    BY <2>1, Fewer
  <2> QED
    BY <2>2 DEF Losses, FilesTypeOK
<1> QED
  BY <1>1, <1>2 DEF Intact

LEMMA FilesConverged == FilesInv => Converged
<1> SUFFICES ASSUME FilesInv, AllRead, NEW f \in FileNames PROVE Analysed(f)
  BY DEF Converged
<1> USE DEF FilesInv
<1>1. /\ Len(modules) = NumFiles /\ ~pending /\ out = 0
      /\ \A n \in DOMAIN modules : modules[n].file = n /\ disk[n] = modules[n].mod
  BY DEF AllRead, Reflected, Writing, Working
<1>2. DOMAIN modules = FileNames
  BY <1>1, ModulesTyped DEF FileNames
<1>3. \A g \in FileNames : Undescribed(modules[g].mod.code) = Annotated(g)
  <2> SUFFICES ASSUME NEW g \in FileNames
               PROVE  Undescribed(modules[g].mod.code) = Annotated(g)
    OBVIOUS
  <2>1. modules[g].mod.code # NoCode
    BY <1>2 DEF AllRead, Code
  <2>2. modules[g].mod.code \in Done(g)
    BY <1>1, <1>2, <2>1 DEF ModuleCode
  <2> QED
    BY <2>2, Settled DEF FilesTypeOK
<1>4. { Undescribed(c) : c \in Code } = { Annotated(g) : g \in FileNames }
  BY <1>2, <1>3 DEF Code
<1>5. disk[f] = modules[f].mod /\ disk[f].taint = Code /\ disk[f].range = Code
  BY <1>1, <1>2 DEF AllRead, Results
<1> QED
  BY <1>3, <1>4, <1>5 DEF Analysed

(* No crash loses more than the file being written: whatever the order of  *)
(* runs, crashes, failures to open and compilations, every file has its    *)
(* own code as compiled or as annotated once, but for at most one file for *)
(* each crash and the one that is open.                                    *)
THEOREM FilesStayIntact == Spec => []Intact
<1>1. Spec => []FilesInv
  BY InitFilesInv, NextFilesInv, PTL DEF Spec
<1> QED
  BY <1>1, FilesIntact, PTL

(* A run that read and opened all files leaves each annotated once, with   *)
(* the metadata of both passes for the code of all of them, whatever was   *)
(* there before.                                                           *)
THEOREM RunsConverge == Spec => []Converged
<1>1. Spec => []FilesInv
  BY InitFilesInv, NextFilesInv, PTL DEF Spec
<1> QED
  BY <1>1, FilesConverged, PTL

=============================================================================
