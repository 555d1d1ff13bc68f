CONSTANTS
  Proposals = {p1}
  Payments = {y1, y2}
  Requests = {r1, r2}
  Reports = {c1}
  NoReport = NoReport
  None = None
  MaxIntents = 2
  MaxTime = 3
  MaxFailures = 1
  CheckoutValidity = 1
  BookingDeadline = 2
  MaxInt64 = 2147483647
  ScheduledOn = 3
SPECIFICATION FairSpec
PROPERTY ApprovedIsRecorded
CHECK_DEADLOCK FALSE
