SPECIFICATION FairSpec
CONSTANTS
  v1 = v1
  v2 = v2
  s1 = s1
  s2 = s2
  Versions = {v1, v2}
  Size <- OneChunk
  None = None
  Slots = {s1, s2}
  MaxUpdates = 1
  BackoffBase = 0
  BackoffCap = 1
  MaxLate = 0
  MaxFaults = 1
  MaxOldCalls = 1
PROPERTIES
  NeverGivesUp
  HashConverges
INVARIANT
  OneOutstanding
