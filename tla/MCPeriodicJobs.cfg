SPECIFICATION MCSpec
CONSTANTS
  Users = {u1, u2}
  Attempts = {1, 2}
  Callbacks = {c1, c2}
  Accounts = {x1}
  MaxGrants = 2
  None = None
  Replicas = {r1, r2}
  Participants <- Pair
  MaxFailures = 1
INVARIANT AttemptSettlesOnce
INVARIANT ShownOncePerFailure
INVARIANT NoticeOnce
CHECK_DEADLOCK FALSE
PROPERTY ConnectedIsRecorded
