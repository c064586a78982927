SPECIFICATION FairSpec
CONSTANTS
  ClientByte <- MCSubnegotiations
  CharIsSigned = FALSE
  MaxRead = 5
  MaxBytes = 5
PROPERTIES
  HandlerReturns
CHECK_DEADLOCK FALSE
