\* One group with a task, one crash and one retry: every path a message can take.
CONSTANTS
  Groups = {g1}
  Tasks = {t1}
  MaxConcurrent = 1
  MaxRetries = 1
  MaxTimers = 1
  Kinds = {"text", "todo"}
  MentionGroups = {}
  MaxMessages = 2
  MaxCrashes = 1
  SaveFailures = FALSE
  LateArrivals = FALSE
  Handoffs = FALSE
SPECIFICATION PFairSpec
INVARIANTS PTypeOK NoMessageStranded 
PROPERTIES MessagesAnswered
CHECK_DEADLOCK FALSE
