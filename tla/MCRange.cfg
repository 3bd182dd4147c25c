SPECIFICATION FairSpec
CONSTANTS
  NumModules = 2
  Modulus = 8
  MaxIterations = 2
  Depth = 64
  NoId = NoId
  NoRange = NoRange
  a = a
  l = l
  s = s
  c = c
  j = j
  b = b
  t = t
  y = y
  k = k
  i = i
  n = n
  z = z
  Family = "pools"
  Ids <- MCIds
  Values <- MCValues
  NameOf <- MCNameOf
  Returns <- MCReturns
  Sources <- MCSources
  Programs <- MCPrograms
INVARIANTS TypeOK SweepsBounded 
PROPERTY Termination
