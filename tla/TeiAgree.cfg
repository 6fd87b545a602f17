CONSTANTS
  Terminals = {a, b}
  MinDynTei = 1
  MaxDynTei = 2
  Ri = {r1, r2}
  N202 = 2
  Smp = FALSE
  MaxAudits = 1
  MaxFaults = 1
  MaxLoss = 0
  WireCap = 1
SPECIFICATION FairSpec
CHECK_DEADLOCK FALSE
INVARIANTS AnswersForItsTei
PROPERTIES WaitEnds
