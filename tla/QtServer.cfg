SPECIFICATION Spec
CONSTANTS
  Names <- MCNames
  Ports <- MCPorts
  MaxListeners = 3
  MaxSockets = 2
INVARIANTS
  TypeOK
  HandedOnce
  DeletedOnce
PROPERTIES
  HaltedForGood
CHECK_DEADLOCK FALSE
