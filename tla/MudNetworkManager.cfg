SPECIFICATION FairSpec
CONSTANTS
  Names <- MCNames
  Addresses <- MCAddresses
  IdCount = 2
  MaxAccepts = 3
  MaxStarts = 3
  MaxHangups = 1
INVARIANTS
  TypeOK
  RunningListens
  PendingHoldsAll
  ReadyAreListed
  ListedAreReady
PROPERTIES
  StoppedListenerRunsOut
  ImplementsReadiness
CHECK_DEADLOCK FALSE
