SPECIFICATION Spec
CONSTANTS
  Bytes = 3
  Top = 2
  MaxFrames = 4
INVARIANTS
  InStep
  LeftoversOnlyIfLate
  NonceOnce
  CarryIsAddition
PROPERTY
  HonestHeard
CHECK_DEADLOCK FALSE
