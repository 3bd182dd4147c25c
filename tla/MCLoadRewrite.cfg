SPECIFICATION HoistSpec
CONSTANTS
  NumBlocks = 4
  MaxTime = 10
  Functions <- MCFunctions
INVARIANT UsesKept
