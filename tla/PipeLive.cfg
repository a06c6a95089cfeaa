SPECIFICATION FairSpec
CONSTANTS
  N = 2
  NFD = 2
  PIPE_SIZE = 2
  WORD = 8
  MaxBytes = 3
  MaxCall = 2
  MaxDup = 0
  MinSlice = 6
  CopyOrders = {"byte_first"}
PROPERTIES
  ImplementsChannel
  ReaderReleased
  WriterReleased
