SPECIFICATION Spec
CONSTANTS
  r1 = r1
  r2 = r2
  r3 = r3
  s1 = s1
  s2 = s2
  None = None
  Requests = {r1, r2}
  Scripts = {s1}
  Retries = 1
  MaxKeys = 2
  MaxStats = 1
  MayFail = TRUE
INVARIANTS
  KeysAgree
  CountedOnce
PROPERTY
  OnlyCreateMakes
SYMMETRY Symmetry
CHECK_DEADLOCK FALSE
