CONSTANTS
  Char <- MCChar
  Letters <- MCLetters
  Sources <- MCSources
  Repeated <- MCRepeated
  Plains <- MCPlains
  MaxOps = 5
SPECIFICATION Spec
INVARIANTS
  TypeOK
  TextMatchesIdx
  MarkupOfSource
  TagsAreStripped
  FailsOnlyUnbalanced
  RejectedForCodes
CHECK_DEADLOCK FALSE
