SPECIFICATION IdiomSpec
CONSTANTS
  Moduli = {2, 4, 8, 16, 32}
  IdiomModuli = {4, 8}
INVARIANTS OverflowKept NoneMissed IdiomKept
