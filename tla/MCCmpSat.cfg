SPECIFICATION Spec
CONSTANTS
  NumBlocks = 5
  Undef = Undef
  a = a
  p = p
  q = q
  d = d
  Values <- MCValues
  Word <- MCWord
  Functions <- MCFunctions
INVARIANTS PathHolds PathHoldsInLoops PathFeasible ReportsHold
