------------------------------ MODULE MCIntSat ------------------------------
(***************************************************************************)
(* IntSat on programs of one or two functions: in the first function every *)
(* sequence of up to three calls over two values, the second one repeats a *)
(* value of the first.                                                     *)
(***************************************************************************)
EXTENDS IntSat

CONSTANTS v, w

CallTable ==
  { [val |-> x, asked |-> TRUE, sat |-> s] : x \in {v, w}, s \in BOOLEAN }
    \cup { [val |-> v, asked |-> FALSE, sat |-> TRUE] }

Functions == UNION { [1 .. n -> CallTable] : n \in 1 .. 3 }

Second == << [val |-> v, asked |-> TRUE, sat |-> TRUE] >>

ProgramTable == { <<f>> : f \in Functions } \cup { <<f, Second>> : f \in [1 .. 1 -> CallTable] }

MCVals     == {v, w}
MCPrograms == ProgramTable

=============================================================================
