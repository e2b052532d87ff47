\* Three slots, priorities 0 and 1, ids 1 to 4, so that a full table can lose a
\* task and get another; ticks 0 to 1; u64::MAX is 5, so that sleeping for
\* u64::MAX ticks saturates.  run_count is saturated from the start.
CONSTANTS
  MAX_TASKS = 3
  DEFAULT_TASK_PRIORITY = 1
  U8_MAX = 1
  U64_MAX = 5
  RUN_COUNT_MAX = 0
  KernelMonitor = KernelMonitor
  TaskKind = {KernelMonitor}
  None = None
  TickHorizon = 1
  IdHorizon = 5
  SleepArgs = {0, 1, 5}
  PriorityArgs = {0, 2}
SPECIFICATION Spec
INVARIANT
  TableIsSound
PROPERTIES
  WakesAreOnTime
  StepIsFair
  CallsAreLocal
