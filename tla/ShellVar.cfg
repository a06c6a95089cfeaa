SPECIFICATION Spec
CONSTANTS
  NSHELL = 3
  Names = {"x"}
  Values = {"1", "2"}
  MAX_VAR_NUM = 3
PROPERTIES
  ShellsApart
  ReadOnlyStays
CHECK_DEADLOCK FALSE
