\* Two API calls at once on one account: logins, refreshes, logouts and resets,
\* enough tokens for one to be rotated more often than there are calls.
SPECIFICATION Spec
CONSTANTS
  User = {u1}
  Token = {t1, t2, t3, t4}
  MaxResets = 1
  ResetCandidates = 1
  StatusChanges = {"ACTIVE", "SUSPENDED"}
  Call = {c1, c2}
  None = None
SYMMETRY SessionsSymmetry
INVARIANTS
  RotationsBounded
  SessionsEnd
  ResetUsesBounded
CHECK_DEADLOCK FALSE
