SPECIFICATION Spec
CONSTANTS
  Ids = {1, 2, 3, 4}
  Profiles <- MCProfiles
  Corpora <- MCCorpora
  Late = {1}
  TopK = 2
  RecallK = 3
  Threshold = 6
  RrfK = 60
  Weight <- MCWeight
  NoHours = NoHours
INVARIANTS TypeOK FusionIsFair NothingBetterIsLeftOut HoursAreGrounded
CHECK_DEADLOCK FALSE
