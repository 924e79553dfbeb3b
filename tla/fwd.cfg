SPECIFICATION FFairSpec
CONSTANTS
  v1 = v1
  v2 = v2
  v3 = v3
  Viewers = {v1, v2, v3}
  DevFwd = {v1, v2}
INVARIANTS
  StreamsForSomeone
  NoListenerLeft
PROPERTY Streams
