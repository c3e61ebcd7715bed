SPECIFICATION Spec
CONSTANTS
  Symbols <- MCSymbols
  OrderIds <- MCOrderIds
  SignalIds <- MCSignalIds
  NoSignal = NoSignal
  TradeIds <- MCIds
  Quantities <- MCQuantities
  Prices <- MCPrices
  Times <- MCTimes
  Plans <- MCPlans
  NoPosition = NoPosition
  Orders <- OrdersDay
  Books <- BooksDay
  NoBook = NoBook
  NoCall = NoCall
  NoReply = NoReply
  NoItem = NoItem
  MaxAge = 0
  MaxSkew = 0
  CacheTTL = 3
  CloseoutAt = 2
  OpeningAt = 9
  CloseoutRetries = 1
  Attempts = 2
  MaxTime = 3
  Faults = 1
  FaultKinds = {"timeout", "error", "redelivery"}
INVARIANTS
  CompleteCloseoutIsFlat
