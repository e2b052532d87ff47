\* Three slots that can all be filled; the clock runs to 1, a sleep lasts one
\* tick, taskprio lowers a task to 0.  run_count is saturated from the start.
CONSTANTS
  MAX_TASKS = 3
  DEFAULT_TASK_PRIORITY = 1
  U8_MAX = 1
  U64_MAX = 4
  RUN_COUNT_MAX = 0
  KernelMonitor = KernelMonitor
  TaskKind = {KernelMonitor}
  None = None
  TickHorizon = 1
  IdHorizon = 4
  SleepArgs = {1}
  PriorityArgs = {0}
SPECIFICATION FairSpec
PROPERTIES
  TopTaskRuns
  SleepersWake
