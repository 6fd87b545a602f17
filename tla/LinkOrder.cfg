CONSTANTS
  Mod = 3
  N200 = 2
  RcvBuf = 1
  Data = {1, 2, 3, 4}
  NoData = nodata
  K = 2
  Load <- NtSends3TeSends1
  MaxConnect = 1
  Readers = {"TE"}
  Closers = {"NT", "TE"}
  MaxLoss = 1
  WireCap = 3
SPECIFICATION Spec
CONSTRAINT UntilBroken
CHECK_DEADLOCK FALSE
INVARIANTS NoSequenceError
PROPERTIES InOrder
