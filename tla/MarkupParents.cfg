CONSTANTS
  Char <- MCChar
  Letters <- MCLetters
  Sources <- MCSources
  Repeated = {}
  Plains = {}
  MaxOps = 1
SPECIFICATION Spec
INVARIANT
  ParentEncloses
CHECK_DEADLOCK FALSE
