\* Words of six bits: the sums reach and pass u64::MAX.  The PIT divides six by
\* one to six, and the divisors from three up need the second byte.
CONSTANTS
  U64 = 63
  FRAME_SIZE = 4
  NoSummary = NoSummary
  UsableBytes = 9
  PIT_INPUT_HZ = 6
  PIT_MIN_HZ = 1
  PIT_MAX_HZ = 6
  BYTE = 3
  U32_MAX = 7
  BOOT_HZ = 3
  Requests = {0, 3, 4, 8}
  Numbers = {0, 1, 2, 3, 4, 5, 63}
  Args = {0, 1, 62, 63}
  TickHorizon = 4
SPECIFICATION Spec
INVARIANTS
  AnswerIsDispatch
  DemoIsCoherent
  ReportedRateIsAFixpoint
PROPERTY
  UptimeGoesBackOnlyByTimerhz
