SPECIFICATION MCSpec
CONSTANTS
  Ids = {i1}
  Pairs = {p1}
  Calls = {c1, c2}
  None = None
  Limit = 1
  MaxSent = 2
  MaxFailures = 0
  Instances = {s1, s2}
  Callers = {a1, a2, a3}
  LockKeys = {k1}
  MaxOpenConns = 2
  MaxQueries = 1
  Nobody = Nobody
PROPERTY AcceptanceCompletes
PROPERTY CallsEnd
CHECK_DEADLOCK FALSE
