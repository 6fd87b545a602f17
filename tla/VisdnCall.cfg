CONSTANTS
  Channels = {1, 2}
  NoChan = 0
  TEs = {}
  NoTe = note
  Multipoint = FALSE
  Tones = TRUE
  SenqMax = 4
  Services = {"SETUP", "RESUME"}
  Conditions = {"ANSWER", "RINGING", "BUSY", "PROCEEDING", "PROGRESS", "DIGIT"}
  Occupied <- SomeBusy
  MaxOps = 1
  MaxFail = 0
SPECIFICATION Spec
CHECK_DEADLOCK FALSE
INVARIANTS ChannelsAgree StatesMirror
