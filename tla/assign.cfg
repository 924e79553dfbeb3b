\* Two requests on a script, one body of it too big, and a device that it is
\* assigned to; anything may fail.
SPECIFICATION ASpec
CONSTANTS
  b1 = b1
  b2 = b2
  b3 = b3
  Requests = {r1, r2}
  Scripts = {s1}
  Bodies = {b1, b2, b3}
  Sha <- NoSha
  Oversize = {b3}
  MayFail = TRUE
  None = None
  MaxVersion = 2
SYMMETRY Symmetry
INVARIANTS LatestCanBeLoaded SameEveryTime
CHECK_DEADLOCK FALSE
