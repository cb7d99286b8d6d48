SPECIFICATION SFairSpec
CONSTANTS
  RunKinds = {"message", "task"}
  MaxRuns = 2
  MaxFollowUps = 1
  MaxFaults = 1
INVARIANTS STypeOK SessionSound InputReachesItsContainer
PROPERTIES DeathEndsQuery
\* The bounds run out.
CHECK_DEADLOCK FALSE
