SPECIFICATION Spec
CONSTANTS
  N = 2
  NFD = 2
  PIPE_SIZE = 2
  WORD = 8
  MaxBytes = 1
  MaxCall = 1
  MaxDup = 0
  MinSlice = 0
  CopyOrders = {"byte_first"}
PROPERTY
  EofMeansDrained
