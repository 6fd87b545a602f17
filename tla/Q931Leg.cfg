CONSTANTS
  Channels = {1, 2}
  NoChan = 0
  TEs = {}
  NoTe = note
  Multipoint = FALSE
  Tones = TRUE
  SenqMax = 4
  CcbRequests <- AllReq
VIEW ButForOutput
SPECIFICATION Spec
CHECK_DEADLOCK FALSE
INVARIANTS CallIsSupervised NetworkChannelTied
PROPERTIES EndIsFinal EndIsReported 
