SPECIFICATION AggregatorSpec
CONSTANTS
  Signals = {s1}
  Payloads <- MCPayloads
  Merges <- MCMerges
  Orders <- MCOrders
  NoPayload = NoPayload
  NoRow = NoRow
  NoMessage = NoMessage
  Workers <- MCWorkers
  StageOf <- MCStageOf
  Tries = 2
  Faults = 2
  FaultKinds = {"timeout", "error", "crash", "redelivery"}
  Halves <- MCHalves
  AloneMin = 2
  ConsensusMin = 1
  NoHalf = NoHalf
  Breaks = 1
  Features <- MCFeatures
  Enabled <- MCEnabled
  Reclaim = FALSE
  RangeMinutes = 15
  MaxRisk = 5
  TriggerMin = 2
  MinInterval = 2
  Hitches = 1
INVARIANTS
  DispatchTypeOK
  ConfirmedWasPublished
  AcknowledgedWasAttempted
  ReplayAgrees
  AckedWasDecided
  AckedWasSaid
  ModelFollowsRules
PROPERTIES
  KeepsPromise
  EventuallyAcknowledged
  HalvesAcknowledged
  FeaturesAnswered
CHECK_DEADLOCK FALSE
