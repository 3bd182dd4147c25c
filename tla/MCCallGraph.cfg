SPECIFICATION FairSpec
CONSTANTS
  NumModules = 2
  MaxArgs = 2
  Mems = {"x", "y"}
  Depth = 8
  NoId = NoId
  NoValue = NoValue
  Breadth = TRUE
  WeakLinkage = "external"
  Stem <- MCStem
  Functions <- MCFunctions
  Values <- MCValues
  Node <- MCNode
  Programs <- MCPrograms
INVARIANTS
  TypeOK
  Fixpoint
  FixpointInv
  LinkedCallees
PROPERTIES
  Termination
  Saturates
  Monotone
