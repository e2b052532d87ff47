\* Three launches may follow one another; 3 ticks let the clock move before,
\* between and after the two calls of a session.
CONSTANTS
  U64 = 63
  FRAME_SIZE = 4
  NoSummary = NoSummary
  None = None
  USER_FAST_SYSCALL_UNKNOWN_NUMBER = 60
  PIT_HZ = 2
  UsableBytes = 8
  Garbage = {0, 42, 63}
  TickHorizon = 3
SPECIFICATION FairSpec
INVARIANTS
  ReportIsOfThisSession
  MachineIsSound
  SessionsEndWell
PROPERTY
  KeepsPromise
\* A machine lost to an invalid opcode stays lost.
CHECK_DEADLOCK FALSE
