SPECIFICATION Spec
CONSTANTS
  CallerReqs = {"a"}
  HandlerReqs = {"h"}
  Attempts = 2
  MaxOpens = 2
  MaxUrcs = 1
CHECK_DEADLOCK FALSE
INVARIANTS WaitIsSupervised HoldersCounted  EndInOrder
PROPERTIES RequestsEnd CloseReturnsOrHandlerWaits
