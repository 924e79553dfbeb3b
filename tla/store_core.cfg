\* Three requests on a script; a body with a program, one without and one over the
\* limit; anything may fail.
SPECIFICATION Spec
CONSTANTS
  b1 = b1
  b2 = b2
  b3 = b3
  Requests = {r1, r2, r3}
  Scripts = {s1}
  Bodies = {b1, b2, b3}
  Sha <- MCSha
  Oversize = {b3}
  MayFail = TRUE
  None = None
  MaxVersion = 3
SYMMETRY Symmetry
INVARIANTS
  HeadComplete
  ClaimExclusive
  ShaIndexSound
PROPERTY
  ImplementsLog
CHECK_DEADLOCK FALSE
