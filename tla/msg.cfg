\* All sinks and two connections of the device, with messages both ways.
SPECIFICATION Spec
CONSTANTS
  f1 = f1
  f2 = f2
  Uplinks = {u1}
  Downlinks = {d1}
  Conns = {c1, c2}
  Sinks = {"env", "telemetry", "mqtt", "hub", "queue"}
  Fields = {f1, f2}
  FieldSize <- SmallAndBig
  MAX_WSSK_SIZE = 3
  MaxPatches = 2
SYMMETRY Symmetry
INVARIANTS TypeOK CurrentUnlessPatched LostOnlyInBetween
