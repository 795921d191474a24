SPECIFICATION Spec
CONSTANTS
  Legs = {l1, l2}
  Tasks = {login}
  Nameless = {}
  Trees <- EveryTree
  Texts = {first}
  None = None
  ProposalEnabled = TRUE
  Reused = TRUE
PROPERTY FinalReviewIsItsOwn
CHECK_DEADLOCK FALSE
