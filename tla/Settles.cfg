SPECIFICATION SettlesSpec
CONSTANTS
  Symbols <- MCSymbols
  OrderIds <- MCOrderIds
  SignalIds <- MCSignalIds
  NoSignal = NoSignal
  TradeIds <- MCIds
  Quantities <- MCQuantities
  Prices <- MCPrices
  Times <- MCTimes
  Plans <- MCPlans
  NoPosition = NoPosition
  Orders <- OrdersFew
  Books <- BooksFew
  NoBook = NoBook
  NoCall = NoCall
  NoReply = NoReply
  NoItem = NoItem
  MaxAge = 2
  MaxSkew = 0
  CacheTTL = 3
  CloseoutAt = 1
  OpeningAt = 9
  CloseoutRetries = 1
  Attempts = 1
  MaxTime = 2
  Faults = 1
  FaultKinds = {"error", "crash", "redelivery"}
  Instruments <- MCInstruments
  Pushes <- MCPushes
  MaxSends = 2
  Relistings = 2
  Disturbances = 3
INVARIANTS
  OpenedAtIdentifiesGeneration
  BrokerFollows
  CleanCloseKeepsRecords
PROPERTIES
  PaperOrdersSettle
  PaperCloseoutEnds
  WatchlistServed
