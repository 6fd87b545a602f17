CONSTANTS
  Mod = 4
  N200 = 1
  RcvBuf = 1
  Data = {x}
  NoData = nodata
  Te = FALSE
  K = 2
  MaxWq = 2
  MaxUq = 0
  MaxRx = 1
SPECIFICATION Spec
CHECK_DEADLOCK FALSE
VIEW ButForReceived
CONSTRAINT WhileOpen
INVARIANTS WindowRespected Retransmittable
