SPECIFICATION Spec
CONSTANTS
  Legs = {l1, l2, l3}
  Tasks = {login, search, untitled}
  Nameless = {untitled}
  Trees <- SomeTrees
  Texts = {first}
  None = None
  ProposalEnabled = FALSE
  Reused = FALSE
INVARIANTS HoursAreSearched GatesTakeTheirAnswers
CHECK_DEADLOCK FALSE
SYMMETRY Symmetry
