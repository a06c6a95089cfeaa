SPECIFICATION MCSpec
CONSTANTS
  NENV = 8
  NPIPES = 3
  PIPE_SIZE = 1
  Lines <- MCLines
  Vars <- MCVars
  MaxLines = 1
  PAGE_SIZE = 16
  WORD = 4
  MaxSegment = 40
  MaxArg = 5
  Chars = {"x", " "}
  MaxText = 4
  Commands <- MCCommands
INVARIANTS
  TypeOK
  AloneAtPrompt
  ListRuns
  PathsResolve
  SegmentLoaded
  StackBuilt
  LineShown
  HistoryRecalled
PROPERTY
  LineEnds
CHECK_DEADLOCK FALSE
