SPECIFICATION MCSpec
CONSTANTS
  U64_MAX = 499
  ArgLists <- MCArgLists
  Files <- MCFiles
  Marker <- MCMarker
  Noise <- MCNoise
  ReadMax = 2
  PipeMax = 3
INVARIANTS
  OptionsAreTheCommandLine
  MarkerIsSeenInAnyCut
  
  OrphanOnlyOfBadScript
PROPERTIES
  OutcomeIsReported
  ScriptEnds
CHECK_DEADLOCK FALSE
