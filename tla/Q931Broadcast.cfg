CONSTANTS
  Channels = {1, 2}
  NoChan = 0
  TEs = {a, b}
  NoTe = note
  Multipoint = TRUE
  Tones = FALSE
  SenqMax = 1
  CcbRequests <- Asterisk
  Junk <- Dirty
VIEW ButForOutput
SYMMETRY AnyTerminal
SPECIFICATION Spec
CHECK_DEADLOCK FALSE
INVARIANTS OneTerminalWins GivingUpIsSupervised ChannelTied
PROPERTIES EndIsFinal
