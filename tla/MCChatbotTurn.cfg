CONSTANTS
  Turns = {t1, t2}
  StaleAfter = 2
  RecentLimit = 2
  MaxTime = 7
  MaxCrashes = 1
SPECIFICATION Spec
INVARIANT OneTurnAtATime
INVARIANT AssessmentsStand
PROPERTY SummaryAdvances
SYMMETRY Symmetric
CHECK_DEADLOCK FALSE
