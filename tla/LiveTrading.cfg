SPECIFICATION FairSpec
CONSTANTS
  Symbols <- OneSymbol
  Orders <- OrdersOne
  Exit = Exit
  NoOrder = NoOrder
  Opening <- OpeningOne
  Refused <- NoneRefused
  MaxSent = 3
  Faults = 1
  FaultKinds = {"error", "lost", "unsent", "blind", "crash"}
INVARIANTS
  TradesWereFilled
  PositionsFollowTrades
  FlatOrHalted
CHECK_DEADLOCK FALSE
PROPERTIES
  OrdersAnswered
