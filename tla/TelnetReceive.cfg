SPECIFICATION FairSpec
CONSTANTS
  ClientByte <- MCBytes
  CharIsSigned = FALSE
  MaxRead = 3
  MaxBytes = 6
INVARIANTS
  TypeOK
  NothingLost
  DecodedAsTelnet
  CommandsAreLines
PROPERTIES
  OnlySubnegotiationKeepsThread
CHECK_DEADLOCK FALSE
