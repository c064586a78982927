SPECIFICATION FairSpec
CONSTANTS
  Capacity = 7
  MaxBytes = 15
  Commands <- MCCommands
  Options <- MCOptions
  Garbage = Garbage
INVARIANTS
  TypeOK
  OneWrite
  NothingWaitsIdle
PROPERTIES
  StallIsFinal
  UnfinishedWriteStalls
  ImplementsChannel
CHECK_DEADLOCK FALSE
