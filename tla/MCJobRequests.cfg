CONSTANTS
  Ids = {i1, i2}
  Pairs = {p1, p2}
  Calls = {c1, c2, c3}
  None = None
  Limit = 1
  MaxSent = 2
  MaxFailures = 1
SPECIFICATION Spec
INVARIANT OneOpenRequest
INVARIANT NothingBeforeActivation
INVARIANT OvershootIsBounded
SYMMETRY Symmetric
CHECK_DEADLOCK FALSE
