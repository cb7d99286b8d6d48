CONSTANTS
  Groups = {g1}
  Tasks = {}
  MaxConcurrent = 1
  MaxRetries = 0
  MaxTimers = 0
  Kinds = {"text"}
  MentionGroups = {}
  MaxMessages = 2
  MaxCrashes = 0
  SaveFailures = FALSE
  LateArrivals = TRUE
  Handoffs = FALSE
SPECIFICATION PSpec
INVARIANTS RecoveredIsProcessed
CHECK_DEADLOCK FALSE
