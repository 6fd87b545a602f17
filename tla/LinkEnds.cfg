CONSTANTS
  Mod = 3
  N200 = 1
  RcvBuf = 9
  Data = {1, 2}
  NoData = nodata
  K = 2
  Load <- NtSends2
  MaxConnect = 1
  Readers = {}
  Closers = {"TE"}
  MaxLoss = 1
  WireCap = 2
SPECIFICATION FairSpec
PROPERTIES EventuallyUnhashed EventuallyDelivered
CHECK_DEADLOCK FALSE
