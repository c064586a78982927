SPECIFICATION SpecConnection
CONSTANTS
  ClientByte <- MCByte
  CharIsSigned = TRUE
  MaxRead = 4
  MaxBytes = 4
  Capacity = 9
  Garbage = Garbage
  Scripts <- MCScripts
  Options = {}
  StartWill = {}
  StartDo = {}
INVARIANTS
  EveryCommandDelivered
CHECK_DEADLOCK FALSE
