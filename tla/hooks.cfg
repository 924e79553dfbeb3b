\* Two hooks, three requests; each row may fail to be written or deleted.
SPECIFICATION Spec
CONSTANTS
  Requests = {r1, r2, r3}
  Devices = {d1}
  Methods = {m1, m2}
  Wild = Wild
  MaxHooks = 2
  MayFail = TRUE
SYMMETRY Symmetry
INVARIANTS AddedIsFound FoundIsListed DeletedIsGone
