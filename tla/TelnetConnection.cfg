SPECIFICATION FairSpecConnection
CONSTANTS
  ClientByte <- MCByte
  CharIsSigned = FALSE
  MaxRead = 3
  MaxBytes = 10
  Capacity = 7
  Garbage = Garbage
  Scripts <- MCScripts
  Options <- MCOptions
  StartWill <- MCOptions
  StartDo = {}
INVARIANTS
  TypeOKConnection
  AnswersInOrder
  DeliveredInOrder
PROPERTIES
  ImplementsReadiness
  ReceivesAsSpecified
  WritesAsSpecified
CHECK_DEADLOCK FALSE
