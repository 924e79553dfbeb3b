SPECIFICATION Spec
CONSTANTS
  r1 = r1
  r2 = r2
  r3 = r3
  s1 = s1
  s2 = s2
  None = None
  Requests = {r1, r2}
  Scripts = {s1, s2}
  Retries = 1
  MaxKeys = 1
  MaxStats = 1
  MayFail = FALSE
PROPERTY
  AssignmentStays
CHECK_DEADLOCK FALSE
