\* A line of two bytes, two past lines, and rows that prompt and line fill exactly.
SPECIFICATION PromptSpec
CONSTANTS
  INPUT_LINE_MAX = 2
  Bytes = {"0", "a", " "}
  WordBytes = {"a"}
  Zero = "0"
  Space = " "
  HISTORY_CAPACITY = 2
  CommandNames <- MCNames
  MaxColumns = 3
  MaxRows = 2
  BlankCell = " "
  MONITOR_PROMPT <- MCPromptText
  Words <- MCWords
INVARIANT
  RowIsThePromptAndLine
PROPERTY
  ImplementsTextBuffer
CHECK_DEADLOCK FALSE
