SPECIFICATION AencSpec
CONSTANTS
  AUser = {u1}
  RingLen = 2
  MaxAge = 2
  MaxAencUser = 2
  MaxPcm = 2
  MaxRequest = 2
PROPERTIES
  AencCancelReturns
CHECK_DEADLOCK FALSE
