SPECIFICATION Spec
CONSTANTS
  Signals = {s1}
  Payloads <- MCPayloads
  Merges <- MCMerges
  Orders <- MCOrders
  NoPayload = NoPayload
  NoRow = NoRow
  NoMessage = NoMessage
  Workers <- MCWorkers
  StageOf <- MCStageOf
  Tries = 2
  Faults = 1
  FaultKinds = {"timeout"}
INVARIANTS
  PublishedOnce
CHECK_DEADLOCK FALSE
