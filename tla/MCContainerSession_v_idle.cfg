SPECIFICATION SFairSpec
CONSTANTS
  RunKinds = {"message"}
  MaxRuns = 2
  MaxFollowUps = 0
  MaxFaults = 0
PROPERTIES IdleTeardownSparesQuery
\* The bounds run out.
CHECK_DEADLOCK FALSE
