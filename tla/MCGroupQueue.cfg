\* Two groups compete for one slot, with a task, a retry and its timer: a group waits
\* while the other runs, and slots are handed over.
CONSTANTS
  Groups = {g1, g2}
  Tasks = {t1}
  MaxConcurrent = 1
  MaxRetries = 1
  MaxTimers = 1
SPECIFICATION FairSpec
INVARIANTS TypeOK RunsSound WorkIsOwed
PROPERTIES StartOrder ImplementsLedger QueueLives
CHECK_DEADLOCK FALSE
