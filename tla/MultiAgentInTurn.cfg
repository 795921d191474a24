SPECIFICATION FairSpec
CONSTANTS
  Requests = {r1, r2, r3}
  Texts = {first, second}
  None = None
  MaxOverlap = 1
  RecursionLimit = 12
INVARIANTS TypeOK
PROPERTIES DecisionSticks RejectionSticks RequestsAreAnswered
CHECK_DEADLOCK FALSE
