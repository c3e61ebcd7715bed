SPECIFICATION StoresSpec
CONSTANTS
  Symbols <- MCSymbols
  OrderIds <- MCOrderIds
  SignalIds <- MCSignalIds
  NoSignal = NoSignal
  TradeIds <- MCTradeIds
  Quantities <- MCQuantities
  Prices <- MCPrices
  Times <- MCTimes
  Plans <- MCPlans
  NoPosition = NoPosition
  Requests <- MCRequests
  StopRequests <- MCStopRequests
  Runs <- MCRuns
  Quotes <- MCQuotes
  TimeOf <- MCTimeOf
  None = None
  Policy <- MCPolicy
  Population <- MCPopulation
  Cohorts <- MCCohorts
  NoPlaybook = NoPlaybook
  NoRule = NoRule
  NoLimit = NoLimit
  NoSector = NoSector
  Torn = Torn
  Joined = Joined
  WriteBreaks = 2
  Workers = {w1, w2}
  Signals <- MCSignals
  Risk <- MCRisk
  Periods <- MCPeriods
  LossLimit <- MCLossLimit
  StartPnl <- MCStartPnl
  Troubles = 1
  Tickers <- MCOneSymbol
  TradeTypes <- MCTradeTypes
  Rows <- RowsMixed
  NoRow = NoRow
  Ticks <- TicksOne
  NoTick = NoTick
  MaxHold = 2
  RetryAfter = 2
  Writes = 2
  Faults = 1
  FaultKinds = {"process", "crash"}
INVARIANTS
  LedgerTypeOK
  NoDoubleFill
  Lineage
  Conserved
  EntryBetweenBuys
  RiskTypeOK
  ReservedWithinLimit
  StopsAtOnce
  OneMessagePerCandidate
  ReceiptsAreTrue
  ReturnedIsKept
  EntriesAreTheBest
  ExitTypeOK
  OneExitPerCondition
  PeakIsHighest
PROPERTIES
  StopsOnlyRise
  ImplementsAccount
CHECK_DEADLOCK FALSE
