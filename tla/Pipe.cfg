SPECIFICATION Spec
CONSTANTS
  N = 2
  NFD = 3
  PIPE_SIZE = 2
  WORD = 8
  MaxBytes = 1
  MaxCall = 1
  MaxDup = 1
  MinSlice = 0
  CopyOrders = {"byte_first", "pos_first"}
INVARIANTS
  NoFalseClosed
