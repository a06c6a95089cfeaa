SPECIFICATION MCSpec
CONSTANTS
  NBLOCKS = 7
  FILE2BLK = 2
  NDIRECT = 1
  NINDIRECT = 2
  Names = {"a", "b"}
  NoName = ""
  Paths <- MCPaths
  MAXOPEN = 1
  MaxRequests = 7
  IMAGE_BLOCKS = 32
  MaxEntries = 4
INVARIANTS
  TypeOK
  BlocksOwned
  NeverReadsFree
  ImageSound
PROPERTY
  CloseWrites
CHECK_DEADLOCK FALSE
