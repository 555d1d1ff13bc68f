SPECIFICATION MCSpec
CONSTANTS
  Calls = {c1, c2}
  Keys = {k1, k2}
  Operations = {o1, o2}
  Files = {1, 2}
  MaxClaims = 2
  MaxFiles = 2
  MaxFailures = 1
  None = None
  Moderators = {m1, m2, m3}
  MaxDecisions = 3
  Editors = {e1, e2}
  Joiners = {j1, j2}
  Names = {n1, n2}
  MaxVersion = 4
  FileIds = {f1, f2}
  Uploads = {u1, u2}
  Contents = {good, better, bad}
  Acceptable = {good, better}
  Purposes = {"evidence", "recording", "picture"}
  NoContent = NoContent
INVARIANT SubmissionsExclude
INVARIANT SomeoneProceeds
INVARIANT DecisionsAgree
INVARIANT ModerationIsInformed
INVARIANT EvidenceStands
PROPERTY RetryIsAnswered
PROPERTY NoneJoinsDisabled
SYMMETRY Symmetric
CHECK_DEADLOCK FALSE
