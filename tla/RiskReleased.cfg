SPECIFICATION RiskSpec
CONSTANTS
  Workers = {w1, w2}
  Signals <- MCSignals
  Risk <- MCRisk
  Periods <- MCPeriods
  LossLimit <- MCLossLimit
  StartPnl <- MCStartPnl
  Troubles = 1
INVARIANT WorstCaseWithinLimit
CHECK_DEADLOCK FALSE
