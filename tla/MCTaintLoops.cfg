SPECIFICATION Spec
CONSTANTS
  NumModules = 2
  Depth = 12
  NoId = NoId
  NoDesc = NoDesc
  d1 = d1
  d2 = d2
  Family = "loops"
  Ids <- MCIds
  Descs <- MCDescs
  Values <- MCValues
  Strip <- MCStrip
  NameOf <- MCNameOf
  Returns <- MCReturns
  Programs <- MCPrograms
INVARIANT InputsMarked
