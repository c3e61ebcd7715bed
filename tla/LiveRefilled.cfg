SPECIFICATION Spec
CONSTANTS
  Symbols <- OneSymbol
  Orders <- OrdersOne
  Exit = Exit
  NoOrder = NoOrder
  Opening <- OpeningOne
  Refused <- NoneRefused
  MaxSent = 3
  Faults = 1
  FaultKinds = {"error"}
INVARIANTS
  FilledOnce
CHECK_DEADLOCK FALSE
