SPECIFICATION Spec
CONSTANTS
  Symbols <- MCSymbols
  OrderIds <- MCOrderIds
  SignalIds <- MCSignalIds
  NoSignal = NoSignal
  TradeIds <- MCIds
  Quantities <- MCQuantities
  Prices <- MCPrices
  Times <- MCTimes
  Plans <- MCPlans
  NoPosition = NoPosition
  Orders <- OrdersDue
  Books <- BooksDue
  NoBook = NoBook
  NoCall = NoCall
  NoReply = NoReply
  NoItem = NoItem
  MaxAge = 2
  MaxSkew = 0
  CacheTTL = 3
  CloseoutAt = 9
  OpeningAt = 2
  CloseoutRetries = 1
  Attempts = 2
  MaxTime = 2
  Faults = 1
  FaultKinds = {"timeout", "crash"}
PROPERTIES
  DecisionsHitTheirGeneration
