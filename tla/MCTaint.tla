------------------------------- MODULE MCTaint -------------------------------
(***************************************************************************)
(* Taint on two modules, with what derives from the sources of each        *)
(* program.                                                                *)
(*                                                                         *)
(* Module 1 holds function f, which reads a source, passes it on to g, and *)
(* keeps what it gets back; module 2 holds g, and a function that calls f  *)
(* or g through a pointer.                                                 *)
(***************************************************************************)
EXTENDS Derivation, FiniteSets

CONSTANTS Family,        \* which of the families of programs below
          d1, d2         \* descriptions

IdTable == {"x", "y", "z", "m", "argf", "argp", "argg", "retg"}

(* Values and their names; those not listed have none.                     *)
ValueTable ==
  {"l1", "b1", "s1", "q1", "p1", "c1", "h1", "s2", "u1", "v1", "w1",
   "a2", "ly", "lz", "lm", "b2", "r2", "c2", "s3"}

NameTable ==
  [ v \in ValueTable |->
      CASE v = "l1" -> "x" [] v = "s1" -> "y" [] v = "p1" -> "argf" [] v = "c1" -> "retg"
        [] v = "s2" -> "z" [] v = "a2" -> "argg" [] v = "ly" -> "y" [] v = "lz" -> "z"
        [] v = "lm" -> "m" [] v = "s3" -> "x" [] OTHER -> NoId ]

StripTable == [ v \in ValueTable |-> IF v = "q1" THEN "p1" ELSE v ]

ReturnTable == [ v \in ValueTable |-> IF v \in {"c1", "c2"} THEN {"retg"} ELSE {} ]

From(v, ops, to) ==
  [op |-> "other", val |-> v, source |-> NoDesc, members |-> {}, ops |-> ops, to |-> to]

Op(v, ops) == From(v, ops, NoId)

Source(v, d, members) ==
  [op |-> "other", val |-> v, source |-> d, members |-> members, ops |-> {}, to |-> NoId]

Call(v, args, passes) ==
  [op |-> "call", val |-> v, source |-> NoDesc, members |-> {}, args |-> args, passes |-> passes]

Pool1 == << Source("l1", d1, {}), Op("q1", {"p1"}), Op("b1", {"l1"}), From("s1", {"b1"}, "y"),
            Call("c1", <<"b1", "q1">>, {<<"argg", "argp">>}), Op("h1", {"c1", "b1"}),
            From("s2", {"h1", "p1"}, "z") >>

Pool2 == << Call("a2", << >>, {}), Op("ly", {}), Source("lz", d2, {"m"}), Op("lm", {}),
            Op("b2", {"a2", "lz"}), From("r2", {"b2"}, "retg"),
            Call("c2", <<"ly", "b2">>, {<<"argf", "argg">>, <<"argg", "argf">>}),
            From("s3", {"lm", "c2"}, "x") >>

(* Some of the instructions of a pool, in its order or in the reverse.     *)
Pick(pool, I, backward) ==
  LET nth(k) == CHOOSE i \in I : Cardinality({ j \in I : j < i }) = k - 1
      n == Cardinality(I)
  IN  [k \in 1 .. n |-> pool[nth(IF backward THEN n + 1 - k ELSE k)]]

Subsets(n, k) == { I \in SUBSET (1 .. n) : Cardinality(I) = k }

(* A delay line in a loop, a = b; b = c; c = input + 1: each phi takes the *)
(* next one over the back edge.                                            *)
DelayLine ==
  << << Op("u1", {"v1"}), Op("v1", {"w1"}), Op("w1", {"b1"}), From("s2", {"u1"}, "z"),
        Source("l1", d1, {}), Op("b1", {"l1"}) >>, << Op("lz", {}) >> >>

ProgramTable ==
  IF Family = "loops" THEN {DelayLine}
  ELSE { <<Pick(Pool1, I, b), Pick(Pool2, J, b)>> :
           I \in Subsets(7, 3), J \in Subsets(8, 3), b \in BOOLEAN }
       \cup { <<Pick(Pool1, 1 .. 7, b), Pick(Pool2, J, c)>> :
                J \in Subsets(8, 6), b, c \in BOOLEAN }
       \cup {DelayLine}

MCIds      == IdTable
MCDescs    == {d1, d2}
MCValues   == ValueTable
MCStrip    == StripTable
MCNameOf   == NameTable
MCReturns  == ReturnTable
MCPrograms == ProgramTable

=============================================================================
