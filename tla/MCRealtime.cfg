SPECIFICATION MCSpec
CONSTANTS
  Replicas = {r1, r2}
  Events = {1, 2, 3}
  SeenSize = 1
  QueueLength = 1
  MaxFailures = 1
  Connections = {c1, c2}
  Tickets = {t1, t2}
  Buffer = 1
  Handlers = {h1, h2}
  MaxLogins = 2
  MaxTokens = 2
  MaxRevision = 4
  None = None
INVARIANT RepeatsAreFar
INVARIANT OnlyOpenIsListed
INVARIANT EndedStaysOut
PROPERTY CurrentStays
PROPERTY QueuedIsDelivered
PROPERTY PumpsEndTogether
CHECK_DEADLOCK FALSE
