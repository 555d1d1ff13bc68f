CONSTANTS
  Proposals = {p1}
  Payments = {y1, y2, y3}
  Requests = {r1, r2}
  Reports = {c1, c2}
  NoReport = NoReport
  None = None
  MaxIntents = 3
  MaxTime = 6
  MaxFailures = 1
  CheckoutValidity = 1
  BookingDeadline = 3
  MaxInt64 = 2147483647
  ScheduledOn = 4
SPECIFICATION BookedSpec
INVARIANT PaymentsAreBacked
PROPERTY EvidencePersists
SYMMETRY Symmetric
CHECK_DEADLOCK FALSE
