SPECIFICATION Spec
CONSTANTS
  NumFiles = 2
  Programs <- MCPrograms
  MaxRuns = 3
  MaxCrashes = 1
INVARIANTS Intact Converged
