SPECIFICATION Spec
CONSTANTS
  Turns = {t1, t2, t3}
  first = first
  second = second
  alpha = alpha
  beta = beta
  queue = queue
  table = table
  v2 = v2
  v9 = v9
  Texts = {first, second}
  Options = {NoOption, table}
  NoOption = NoOption
  Versions = {v2, v9}
  Templates = {v2}
  DefaultVersion = v2
  Asked <- MCAsked
  Drafts <- MCDrafts
  Techs = {queue}
  Names = {alpha, beta}
  None = None
  NameIn <- MCNameIn
  TechsIn <- MCTechsIn
  Blocked = {}
  Near <- MCNear
  UsesRedis = TRUE
  MaxTurns = 1
  MaxOverlap = 2
INVARIANT PromptVersionKept
CHECK_DEADLOCK FALSE
