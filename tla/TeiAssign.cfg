CONSTANTS
  Terminals = {a, b}
  MinDynTei = 1
  MaxDynTei = 2
  Ri = {r1, r2, r3}
  N202 = 2
  Smp = TRUE
  MaxAudits = 0
  MaxFaults = 0
  MaxLoss = 1
  WireCap = 2
SPECIFICATION Spec
SYMMETRY Symmetric
CHECK_DEADLOCK FALSE
INVARIANTS UniqueTei 
