SPECIFICATION Spec
CONSTANTS
  ClientByte <- MCOffers
  CharIsSigned = TRUE
  MaxRead = 3
  MaxBytes = 6
INVARIANTS
  DataStopsAtIAC
CHECK_DEADLOCK FALSE
