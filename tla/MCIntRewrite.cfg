SPECIFICATION Spec
CONSTANTS
  NumBlocks = 4
  MaxTurns = 3
  Functions <- MCFunctions
INVARIANTS ObservedIsTold CheckHasValue NothingIdle
