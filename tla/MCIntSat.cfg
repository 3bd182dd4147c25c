SPECIFICATION FairSpec
CONSTANTS
  v = v
  w = w
  Vals <- MCVals
  Programs <- MCPrograms
INVARIANTS TypeOK SavedWasReported NothingMissed OnceUnlessKilled Orderly
PROPERTY Ends
