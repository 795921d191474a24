SPECIFICATION Spec
CONSTANTS
  Requests = {r1, r2, r3}
  Texts = {first}
  None = None
  MaxOverlap = 2
  RecursionLimit = 10
INVARIANTS LowConfidenceIsReviewed ReleasedIsGenerated
CHECK_DEADLOCK FALSE
SYMMETRY Symmetry
