CONSTANTS
  Options = {TTYPE, MSSP, SGA}
  StartWill = {TTYPE, MSSP}
  StartDo = {TTYPE}
  SupportLocal = {TTYPE, MSSP}
  SupportRemote = {TTYPE, MSSP}
  Dispatches = {"negotiate", "receiveNegotiate"}
  MaxChanges = 2
SPECIFICATION FairSpec
INVARIANTS
  TypeOK
  ReadyAfterHandshakes
  ReadyWhenProcessed
  AgreementKept
PROPERTIES
  ImplementsReadiness
  NegotiationSettles
CHECK_DEADLOCK FALSE
