SPECIFICATION FairSpec
CONSTANTS
  Components = {api}
  Levels = {9}
  TotalIssues = {0}
  Penalties = {0, 4}
  MaxSteps = 5
  Sandboxing <- EitherWay
  LlmAnswers = TRUE
  MaxRuns = 3
INVARIANTS TypeOK DispatchOrder StepBudget UnattendedEstimateIsSound
PROPERTIES TrailOnlyGrows WritesAreReviewed RunsComeToRest
CHECK_DEADLOCK FALSE
