CONSTANTS
  MaxSessions = 2
  MaxEvents = 2
  Starts = {c1, c2}
  Deliveries = {d1, d2}
  MaxOn = 2
  MaxFailures = 1
SPECIFICATION FairSpec
INVARIANT ResultStands
INVARIANT ApprovalStands
PROPERTY ResultActsOnce
PROPERTY ResultsArrive
CHECK_DEADLOCK FALSE
