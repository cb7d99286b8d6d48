CONSTANTS
  Groups = {g1}
  Tasks = {}
  MaxConcurrent = 1
  MaxRetries = 0
  MaxTimers = 0
  Kinds = {"text", "redeploy"}
  MentionGroups = {}
  MaxMessages = 2
  MaxCrashes = 0
  SaveFailures = FALSE
  LateArrivals = FALSE
  Handoffs = FALSE
SPECIFICATION PSpec
INVARIANTS RedeployCursorDurable
CHECK_DEADLOCK FALSE
