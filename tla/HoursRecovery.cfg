SPECIFICATION FairSpec
CONSTANTS
  k1 = k1
  k2 = k2
  Keys = {k1, k2}
  Asked <- MCAsked
  HasClient = TRUE
  MaxIterations = 3
  MaxCalls = 2
INVARIANTS TypeOK CallsAreAnswered HoursAreNotLost RowsAreTheirTasks
PROPERTIES RunEnds
CHECK_DEADLOCK FALSE
