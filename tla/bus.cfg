SPECIFICATION FairSpec
CONSTANTS
  p1 = p1
  p2 = p2
  c1 = c1
  c2 = c2
  Callers = {p1, p2}
  Conns = {c1, c2}
  MaxPings = 2
INVARIANTS Reached LostUnheard
PROPERTY CallEnds
