SPECIFICATION Spec
CONSTANTS
  Symbols <- TwoSymbols
  Orders <- OrdersTwo
  Exit = Exit
  NoOrder = NoOrder
  Opening <- OpeningTwo
  Refused <- NoneRefused
  MaxSent = 3
  Faults = 0
  FaultKinds = {}
INVARIANTS
  ProfitAddsUp
CHECK_DEADLOCK FALSE
