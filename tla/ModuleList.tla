----------------------------- MODULE ModuleList -----------------------------
(***************************************************************************)
(* The modules given to intglobal, in the order of the command line        *)
(* (ModuleList, src/IntGlobal.h; filled by main, src/IntGlobal.cc).        *)
(***************************************************************************)
EXTENDS Naturals

CONSTANT NumModules

ASSUME NumModulesAssumption == NumModules \in Nat \ {0}

Modules == 1 .. NumModules

=============================================================================
