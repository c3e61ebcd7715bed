SPECIFICATION Spec
CONSTANTS
  Tickers <- MCTwoSymbols
  TradeTypes <- MCOneType
  Rows <- RowsTarget
  NoRow = NoRow
  Ticks <- TicksTwo
  NoTick = NoTick
  MaxHold = 0
  RetryAfter = 2
  Writes = 1
  Faults = 0
  FaultKinds = {}
INVARIANTS
  OneExitPerCondition
CHECK_DEADLOCK FALSE
