\* Commands between texts, failing saves and handoffs: three messages.
CONSTANTS
  Groups = {g1}
  Tasks = {}
  MaxConcurrent = 1
  MaxRetries = 0
  MaxTimers = 0
  Kinds = {"text", "chatter", "reset", "redeploy", "command"}
  MentionGroups = {g1}
  MaxMessages = 3
  MaxCrashes = 0
  SaveFailures = TRUE
  LateArrivals = FALSE
  Handoffs = TRUE
SPECIFICATION PSpec
INVARIANTS PipelineSafe
CHECK_DEADLOCK FALSE
