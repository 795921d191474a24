SPECIFICATION FairSpec
CONSTANTS
  Legs = {l1}
  Tasks = {login}
  Nameless = {}
  Trees <- EveryTree
  Texts = {first, second}
  None = None
  ProposalEnabled = TRUE
  Reused = TRUE
INVARIANTS TypeOK CompletedIsReviewed HoursAreSearched
PROPERTIES LegsComeToRest
CHECK_DEADLOCK FALSE
