SPECIFICATION Spec
CONSTANTS
  MaxColumns = 3
  MaxRows = 2
  BlankCell = "_"
  Chars = {"a", "b", "LF", "CR", "BS", "TAB"}
  PrintMax = 7
INVARIANT
  ScreenIsTheWindow
CHECK_DEADLOCK FALSE
