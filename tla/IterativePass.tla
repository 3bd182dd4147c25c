---------------------------- MODULE IterativePass ----------------------------
(***************************************************************************)
(* The driver shared by the passes of intglobal (IterativeModulePass::run, *)
(* src/IntGlobal.cc) with the inner loop the call graph and taint passes   *)
(* give it (doModulePass, src/CallGraph.cc and src/Taint.cc).  The module  *)
(* holds the driver's state and the parts of the passes' actions that      *)
(* touch it; a pass EXTENDS it and adds its own state.                     *)
(***************************************************************************)
EXTENDS ModuleList

VARIABLES
  phase,    \* where run() is; "aborted" once report_fatal_error ended the process
  mod,      \* the module of the current loop (i->first)
  updated,  \* run()'s changed: the modules that changed something this round
  changed,  \* doModulePass's Changed: this sweep changed something
  ret       \* doModulePass's ret: some sweep of this call changed something

driverVars == <<phase, mod, updated, changed, ret>>

Phases == {"init", "sweep", "final", "done", "aborted"}

DriverTypeOK ==
  /\ phase \in Phases
  /\ mod \in Modules
  /\ updated \in 0 .. mod - 1
  /\ phase = "final" => updated = 0
  /\ changed \in BOOLEAN
  /\ ret \in BOOLEAN

DriverInit ==
  /\ phase = "init"
  /\ mod = 1
  /\ updated = 0
  /\ changed = FALSE
  /\ ret = FALSE

(* Every call of doModulePass starts with a sweep and with both flags      *)
(* clear.                                                                  *)
EnterModule(m) ==
  /\ mod' = m
  /\ changed' = FALSE
  /\ ret' = FALSE

(* doInitialization returned for this module.                              *)
InitializedModule ==
  /\ updated' = 0
  /\ IF mod < NumModules
     THEN phase' = phase /\ EnterModule(mod + 1)
     ELSE phase' = "sweep" /\ EnterModule(1)

(* A sweep over the module that changed something is followed by another.  *)
SweepAgainForgets ==   \* faulty: ret holds only what the last sweep changed
  /\ changed
  /\ changed' = FALSE
  /\ UNCHANGED <<phase, mod, updated, ret>>

SweepAgain ==
  /\ changed
  /\ ret' = TRUE
  /\ changed' = FALSE
  /\ UNCHANGED <<phase, mod, updated>>

(* doModulePass returned: count the module if it changed something; after  *)
(* the last module start a round, or leave the loop if no module changed.  *)
CountedNever == updated   \* faulty: no ++changed

CountedAlways == updated + 1   \* faulty: a module that changed nothing counts

Counted == IF ret THEN updated + 1 ELSE updated

ReturnFromModule ==
  /\ ~changed
  /\ \/ /\ mod < NumModules
        /\ updated' = Counted
        /\ EnterModule(mod + 1)
        /\ UNCHANGED phase
     \/ /\ mod = NumModules
        /\ updated' = 0
        /\ EnterModule(1)
        /\ phase' = IF Counted > 0 THEN "sweep" ELSE "final"

(* doFinalization returned for this module.                                *)
FinalizedModule ==
  /\ UNCHANGED updated
  /\ IF mod < NumModules
     THEN phase' = phase /\ EnterModule(mod + 1)
     ELSE phase' = "done" /\ EnterModule(1)

(* report_fatal_error: the process exits.                                  *)
Abort ==
  /\ phase' = "aborted"
  /\ UNCHANGED <<mod, updated, changed, ret>>

=============================================================================
