SPECIFICATION Spec
CONSTANTS
  None = None
  PAGE_SIZE = 2
  ENTRIES = 4
  MIN_ALLOCATABLE_PHYS_ADDR = 8
  CR3 = 0
  Regions <- MCRegions
  BootEntries <- MCBootEntries
  HEAP_PAGES = 3
  TICK_TARGET = 2
  MAX_SPINS = 3
INVARIANTS
  FramesAreAccountedFor
  WalkFindsWhatWasMapped
  NeverResets
  ReadyMeansReady
PROPERTY
  BootEnds
CHECK_DEADLOCK FALSE
