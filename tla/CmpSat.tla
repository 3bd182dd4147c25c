-------------------------------- MODULE CmpSat --------------------------------
(***************************************************************************)
(* The checker of conditional branches (src/CmpSat.cc) on one function,    *)
(* followed by an execution of the function.  Path conditions are right if *)
(* they hold in every execution, and what the checker reports as always    *)
(* false or always true is so in every execution.                          *)
(***************************************************************************)
EXTENDS PathGen

CMP_FALSE == "comparison always false"
CMP_TRUE  == "comparison always true"

VARIABLES
  fun,      \* the function
  next,     \* the block whose terminator is checked next, NumBlocks + 1 after the last
  reasons,  \* per block, what the checker reports of its terminator, if anything
  bb,       \* the block the execution is in, 0 before it starts
  start,    \* the values chosen for the execution at its start
  env,      \* the values in the execution
  visited,  \* the blocks the execution has been in
  looped    \* the execution has taken a back edge

vars == <<fun, next, reasons, bb, start, env, visited, looped>>
execVars == <<bb, start, env, visited, looped>>

Envs == [Values -> Word]

(* Before it starts the execution has no values; any stand for them.       *)
Init ==
  /\ fun \in Functions
  /\ next = 1
  /\ reasons = [b \in Blocks |-> {}]
  /\ bb = 0
  /\ start = [v \in Values |-> 0] /\ env = start
  /\ visited = {}
  /\ looped = FALSE

-----------------------------------------------------------------------------
(* check(BI): the query for the condition, and if it can be satisfied the  *)
(* one for its negation.  The solver may not know the answer to a query.    *)
SatisfiableOnce(b, outcome) ==   \* faulty: path conditions without a dominator tree
  \E e \in Envs : /\ Holds(fun.term[b], e) <=> outcome
                  /\ Guards(fun, FALSE, e)[b]

Satisfiable(b, outcome) ==
  \E e \in Envs : /\ Holds(fun.term[b], e) <=> outcome
                  /\ Guards(fun, TRUE, e)[b]

Unsat(b, outcome, answered) == outcome \in answered /\ ~Satisfiable(b, outcome)

Reason(b, answered) ==
  CASE Unsat(b, TRUE, answered) -> {CMP_FALSE}
    [] ~Unsat(b, TRUE, answered) /\ Unsat(b, FALSE, answered) -> {CMP_TRUE}
    [] OTHER -> {}

Check ==
  /\ next \in Blocks
  /\ next' = next + 1
  /\ IF fun.term[next].kind = "cond"
     THEN \E answered \in SUBSET BOOLEAN :
            reasons' = [reasons EXCEPT ![next] = Reason(next, answered)]
     ELSE UNCHANGED reasons
  /\ UNCHANGED <<fun, execVars>>

-----------------------------------------------------------------------------
(* The execution: what a block computes on its first visit is chosen at    *)
(* the start, later visits choose anew.                                    *)
Start ==
  /\ next = NumBlocks + 1 /\ bb = 0
  /\ bb' = Entry
  /\ start' \in Envs /\ env' = start'
  /\ visited' = {Entry}
  /\ UNCHANGED <<fun, next, reasons, looped>>

(* The successors control may go on to.                                    *)
Targets(t) ==
  CASE t.kind = "cond"   -> {IF Holds(t, env) THEN t.yes ELSE t.no}
    [] t.kind = "switch" -> {IF env[t.val] \in DOMAIN t.cases THEN t.cases[env[t.val]] ELSE t.default}
    [] OTHER             -> Succs(t)

(* The values a block may give to what it computes, coming from p.         *)
Incoming(b, p, x) ==
  IF x \in DOMAIN fun.phis[b] /\ fun.phis[b][x][p] # Undef
  THEN {Operand(fun.phis[b][x][p], env)}
  ELSE IF b \in visited THEN Word ELSE {env[x]}

Step ==
  /\ bb # 0
  /\ \E b \in Targets(fun.term[bb]) :
       /\ bb' = b
       /\ \E new \in { g \in [Computed(fun, b) -> Word] :
                         \A x \in Computed(fun, b) : g[x] \in Incoming(b, bb, x) } :
            env' = [x \in Values |-> IF x \in Computed(fun, b) THEN new[x] ELSE env[x]]
       /\ visited' = visited \cup {b}
       /\ looped' = (looped \/ <<bb, b>> \in fun.back)
  /\ UNCHANGED <<fun, next, reasons, start>>

Returned == bb # 0 /\ fun.term[bb].kind = "ret"

Ended == Returned /\ UNCHANGED vars

Next == Check \/ Start \/ Step \/ Ended

Spec == Init /\ [][Next]_vars

-----------------------------------------------------------------------------
(* The condition IntSat conjoins to its query (src/IntSat.cc:118-127, no   *)
(* dominator tree) holds of every execution that reaches the block without *)
(* a back edge: no overflow on a first turn of a loop is lost.             *)
PathHolds == bb # 0 /\ ~looped => Guards(fun, FALSE, env)[bb]

(* The condition CmpSat conjoins holds of every execution whatever turns   *)
(* its loops have taken: the dominator's condition still holds of the      *)
(* values as they are now (src/PathGen.cc:40-47).                          *)
PathHoldsInLoops == bb # 0 => Guards(fun, TRUE, env)[bb]

(* Without loops a condition is not only necessary: if the solver can      *)
(* satisfy it, the execution that starts from its values comes to the      *)
(* block.                                                                  *)
Determined == fun.back = {} /\ \A b \in Blocks : fun.term[b].kind # "any"

PathFeasible ==
  Returned /\ Determined =>
    \A b \in Blocks : Guards(fun, FALSE, start)[b] => b \in visited

(* A branch reported as always false is never true, one reported as always *)
(* true never false, and none is reported as both, also where no path      *)
(* leads and neither query can be satisfied (src/CmpSat.cc:66-82).         *)
ReportsHold ==
  /\ \A b \in Blocks : \A r, q \in reasons[b] : r = q
  /\ bb # 0 /\ fun.term[bb].kind = "cond" =>
    /\ CMP_FALSE \in reasons[bb] => ~Holds(fun.term[bb], env)
    /\ CMP_TRUE \in reasons[bb] => Holds(fun.term[bb], env)

=============================================================================
