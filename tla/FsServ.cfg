SPECIFICATION ServSpec
CONSTANTS
  NBLOCKS = 6
  FILE2BLK = 2
  NDIRECT = 2
  NINDIRECT = 3
  Names = {"a", "b"}
  NoName = ""
  Paths <- MCPaths
  MAXOPEN = 2
  MaxRequests = 99
  Clients = {c1, c2}
  NoClient = NoClient
  MAXFD = 2
  Sizes = {0, 2}
  MaxCalls = 4
INVARIANTS
  ServTypeOK
  PagesOfFile
PROPERTIES
  EntryKept
  CallsReturn
CHECK_DEADLOCK FALSE
