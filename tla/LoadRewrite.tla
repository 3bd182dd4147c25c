----------------------------- MODULE LoadRewrite -----------------------------
(***************************************************************************)
(* What load-rewrite does to the loads of one address (LoadRewrite::hoist, *)
(* src/LoadRewrite.cc): a load is inserted where the address is known      *)
(* first, and every other load is replaced by the value last stored, or by *)
(* that load.  An execution of the rewritten function is followed together *)
(* with the one it had before.                                             *)
(*                                                                         *)
(* As in the code, stores to the address and of the type are all there are *)
(* to change what is loaded; other stores and calls are taken not to.      *)
(***************************************************************************)
EXTENDS Naturals, Sequences

CONSTANTS
  NumBlocks,   \* blocks are numbered, the entry is 1
  MaxTime,     \* the length of an execution
  Functions    \* the functions considered, a set for each control flow graph

(* A function has per block the successors ("succ") and the instructions   *)
(* ("code") that concern the address: "base" computes it, and is the first *)
(* of the function if it is an argument or a global; "store" and "load"    *)
(* access it; "use" and "phi" use the load, a phi when control comes from  *)
(* "pred".                                                                 *)
Blocks == 1 .. NumBlocks
Entry  == 1

None == 0

(* Values are the times at which they came to be.                          *)
VARIABLES
  fun,     \* the function
  bb, pc,  \* the block and the next instruction in it
  from,    \* the block before
  time,
  memory,  \* what the address holds
  loaded,  \* what the load returned
  stored,  \* the address was stored to since, before this block
  here,    \* the value available so far in this block (V)
  live,    \* the value available at its beginning
  direct,  \* what replaced the load at once, None if its uses are rewritten
  bad      \* the last use had another value than the load

hoistVars == <<fun, bb, pc, from, time, memory, loaded, stored, here, live, direct, bad>>

HoistInit ==
  /\ \E F \in Functions : fun \in F
  /\ bb = Entry /\ pc = 1 /\ from = None /\ time = 1
  /\ memory = None /\ loaded = None /\ stored = FALSE
  /\ here = None /\ live = None /\ direct = None /\ bad = FALSE

-----------------------------------------------------------------------------
At(op) == pc <= Len(fun.code[bb]) /\ fun.code[bb][pc].op = op

Tick == time < MaxTime /\ time' = time + 1

Step == pc' = pc + 1 /\ UNCHANGED <<fun, bb, from, live>>

(* What is available once the block has the value v: the last one counts.  *)
AvailableFirst(v) == IF here = None THEN v ELSE here   \* faulty: the first one counts

Available(v) == v

(* The address is computed and loaded from, at once.                       *)
Base ==
  /\ At("base") /\ Tick /\ Step
  /\ memory' = time /\ here' = Available(time)
  /\ bad' = FALSE
  /\ UNCHANGED <<loaded, stored, direct>>

Store ==
  /\ At("store") /\ Tick /\ Step
  /\ memory' = time /\ here' = Available(time)
  /\ bad' = FALSE
  /\ UNCHANGED <<loaded, stored, direct>>

(* A load after a store or the inserted load in its block is replaced.     *)
Load ==
  /\ At("load") /\ Step
  /\ loaded' = memory /\ stored' = FALSE
  /\ direct' = here /\ bad' = FALSE
  /\ UNCHANGED <<time, memory, here>>

(* Any other use gets the value live into its block (SSAUpdater).          *)
Replaced == IF direct # None THEN direct ELSE live

Use ==
  /\ At("use") /\ Step
  /\ bad' = (Replaced # loaded)
  /\ UNCHANGED <<time, memory, loaded, stored, here, direct>>

Phi ==
  /\ At("phi") /\ Step
  /\ bad' = (fun.code[bb][pc].pred = from /\ Replaced # loaded)
  /\ UNCHANGED <<time, memory, loaded, stored, here, direct>>

(* AddAvailableValue: a block that has a value passes it on, any other the *)
(* one that reached it.                                                    *)
Leave ==
  /\ pc > Len(fun.code[bb]) /\ Tick
  /\ bb' \in fun.succ[bb]
  /\ from' = bb /\ pc' = 1
  /\ live' = IF here # None THEN here ELSE live
  /\ stored' = (stored \/ here # None)
  /\ here' = None /\ bad' = FALSE
  /\ UNCHANGED <<fun, memory, loaded, direct>>

HoistEnded ==
  /\ time = MaxTime \/ (pc > Len(fun.code[bb]) /\ fun.succ[bb] = {})
  /\ UNCHANGED hoistVars

HoistNext == Base \/ Store \/ Load \/ Use \/ Phi \/ Leave \/ HoistEnded

HoistSpec == HoistInit /\ [][HoistNext]_hoistVars

-----------------------------------------------------------------------------
(* Every use has the value the load returned, on every path and in every   *)
(* turn of a loop, unless the address was stored to between the load and   *)
(* the block of the use: hoist (src/LoadRewrite.cc:153-157) takes what     *)
(* reaches that block, not what reached the load.                          *)
UsesKept == bad => stored /\ direct = None

=============================================================================
