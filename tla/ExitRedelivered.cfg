SPECIFICATION Spec
CONSTANTS
  Tickers <- MCOneSymbol
  TradeTypes <- MCOneType
  Rows <- RowsTarget
  NoRow = NoRow
  Ticks <- TicksOne
  NoTick = NoTick
  MaxHold = 0
  RetryAfter = 2
  Writes = 1
  Faults = 1
  FaultKinds = {"process"}
INVARIANTS
  AcknowledgedWasProcessed
CHECK_DEADLOCK FALSE
