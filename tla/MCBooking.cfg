CONSTANTS
  Proposals = {p1}
  Payments = {y1, y2}
  Requests = {r1, r2}
  Reports = {c1}
  NoReport = NoReport
  None = None
  MaxIntents = 3
  MaxTime = 4
  MaxFailures = 2
  CheckoutValidity = 1
  BookingDeadline = 3
  MaxInt64 = 2147483647
  ScheduledOn = 4
SPECIFICATION Spec
INVARIANT BookedByOneDeposit
INVARIANT IntentsAgree
PROPERTY ImplementsContract
SYMMETRY Symmetric
CHECK_DEADLOCK FALSE
