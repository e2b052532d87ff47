CONSTANTS
  MAX_TASKS = 2
  DEFAULT_TASK_PRIORITY = 0
  U8_MAX = 1
  U64_MAX = 9
  RUN_COUNT_MAX = 0
  KernelMonitor = KernelMonitor
  None = None
  TaskKind = {KernelMonitor, FastSyscall}
  FastKinds = {FastSyscall}
  TickHorizon = 3
  IdHorizon = 3
  SleepArgs = {1}
  PriorityArgs = {0}
  INPUT_WINDOW_TICKS = 2
  DEFAULT_INTERVAL_TICKS = 1
  IntervalArgs = {1}
  StepArgs = {2}
  InputHorizon = 2
SPECIFICATION MonitorFairSpec
INVARIANTS
  WindowIsQuiet
  OneUnattendedSession
PROPERTIES
  AutoStepsAreSpaced
  SchedulerSurvives
  AutoRunsOnTime
  OverdueWindowCloses
CHECK_DEADLOCK FALSE
