------------------------------ MODULE Saturation ------------------------------
(***************************************************************************)
(* What the call graph pass promises, whatever order it works in: starting *)
(* from the initialisers it only ever adds a function to a name when some  *)
(* instruction calls for it, and it stops only when every instruction is   *)
(* satisfied.  The result is then the least solution, the same for every   *)
(* order of modules and instructions.                                      *)
(***************************************************************************)
EXTENDS FuncPtrs

VARIABLES prog, funcs, ptrs, status

saturationVars == <<prog, funcs, ptrs, status>>

(* The functions the instructions call for under each name.                *)
Derivable(links, map, p) ==
  [id \in Ids |->
     { f \in Functions : \E m \in Modules : \E i \in 1 .. Len(p.code[m]) :
         LET ins == p.code[m][i]
         IN  \/ /\ ins.op \in {"store", "ret"}
                /\ Target(ins) = id
                /\ f \in Find(links, map, ins.val)
             \/ /\ ins.op = "call" /\ ~ins.ignored
                /\ \E no \in 1 .. Len(ins.args), k \in Find(links, map, ins.callee) :
                     /\ ArgId(k, no) = id
                     /\ ins.args[no] # NoValue
                     /\ f \in Find(links, map, ins.args[no]) } ]

Init ==
  /\ prog \in Programs
  /\ funcs = << >>
  /\ ptrs = [id \in Ids |-> {}]
  /\ status = "seeding"

Between(low, high) ==
  /\ Below(low, ptrs')
  /\ \A id \in Ids : ptrs'[id] \subseteq low[id] \cup high[id]

Seed ==
  /\ status = "seeding"
  /\ Between(ptrs, Inits(prog, Modules))
  /\ \/ status' = "seeding"
     \/ status' = "solving" /\ Below(Inits(prog, Modules), ptrs')
  /\ funcs' \in LinkTables
  /\ UNCHANGED prog

Derive ==
  /\ status = "solving"
  /\ Between(ptrs, Derivable(funcs, ptrs, prog))
  /\ UNCHANGED <<prog, funcs, status>>

Finish ==
  /\ status = "solving"
  /\ Closed(funcs, ptrs, prog)
  /\ status' = "solved"
  /\ UNCHANGED <<prog, funcs, ptrs>>

Fail ==
  /\ status' = "failed"
  /\ UNCHANGED <<prog, funcs, ptrs>>

Next == Seed \/ Derive \/ Finish \/ Fail

Spec == Init /\ [][Next]_saturationVars

=============================================================================
