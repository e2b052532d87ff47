\* Four bytes against a buffer of two: it fills, drops, and its indices wrap.
CONSTANTS
  SCANCODE_BUFFER_SIZE = 2
  Scancode = {k1, k2}
  NoScancode = NoScancode
  U64_MAX = 1
  PS2_QUEUE = 2
  KeyHorizon = 4
SPECIFICATION FairSpec
INVARIANTS
  HandlersNeverSpin
  ScancodesAreAccountedFor
PROPERTIES
  IsFifo
  QueuedIsTaken
