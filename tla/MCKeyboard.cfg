SPECIFICATION KeySpec
CONSTANTS
  Keys <- MCKeys
  BufferSize = 2
  WireMax = 2
  PressMax = 4
  DisturbMax = 1
INVARIANTS
  KeysAreUnderstood
  TapsResynchronise
CHECK_DEADLOCK FALSE
