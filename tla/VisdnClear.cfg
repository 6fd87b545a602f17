CONSTANTS
  Channels = {1, 2}
  NoChan = 0
  TEs = {}
  NoTe = note
  Multipoint = FALSE
  Tones = TRUE
  SenqMax = 4
  Services = {"SETUP"}
  Conditions = {"ANSWER"}
  Occupied <- AllFree
  MaxOps = 1
  MaxFail = 1
SPECIFICATION Spec
INVARIANTS StatesMirror
PROPERTIES  HangupClearsCall
CHECK_DEADLOCK FALSE
