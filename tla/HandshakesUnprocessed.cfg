CONSTANTS
  Options = {MSSP}
  StartWill = {MSSP}
  StartDo = {}
  SupportLocal = {MSSP}
  SupportRemote = {MSSP}
  Dispatches = {"negotiate"}
  MaxChanges = 1
SPECIFICATION FairSpec
INVARIANT
  ReadyWhenAnswered
CHECK_DEADLOCK FALSE
