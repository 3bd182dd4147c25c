SPECIFICATION GenSpec
CONSTANTS
  PtrSize = 3
  Programs <- MCPrograms
INVARIANTS TermsExact AsksExactly RangesExact CallsLegal Balanced
