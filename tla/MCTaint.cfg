SPECIFICATION FairSpec
CONSTANTS
  NumModules = 2
  Depth = 12
  NoId = NoId
  NoDesc = NoDesc
  d1 = d1
  d2 = d2
  Family = "pools"
  Ids <- MCIds
  Descs <- MCDescs
  Values <- MCValues
  Strip <- MCStrip
  NameOf <- MCNameOf
  Returns <- MCReturns
  Programs <- MCPrograms
INVARIANTS TypeOK OnlyDerived DerivedMarked
PROPERTIES Monotone Termination
