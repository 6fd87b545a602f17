CONSTANTS
  Mod = 2
  N200 = 1
  RcvBuf = 1
  Data = {x}
  NoData = nodata
  Te = TRUE
  K = 1
  MaxWq = 1
  MaxUq = 1
  MaxRx = 1
SPECIFICATION FairSpec
PROPERTIES ReleaseEnds
INVARIANTS TypeOK Supervised RetransBounded NoDataOutsideLink
CHECK_DEADLOCK FALSE
