\* Two groups share one slot and one iteration of the router; the channel drops messages.
CONSTANTS
  Groups = {g1, g2}
  Tasks = {t1}
  MaxConcurrent = 1
  MaxRetries = 0
  MaxTimers = 0
  Kinds = {"text", "btw", "notice"}
  MentionGroups = {g2}
  MaxMessages = 2
  MaxCrashes = 0
  SaveFailures = TRUE
  LateArrivals = TRUE
  Handoffs = FALSE
SPECIFICATION PSpec
INVARIANTS PipelineSafe
CHECK_DEADLOCK FALSE
