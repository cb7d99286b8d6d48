SPECIFICATION SFairSpec
CONSTANTS
  RunKinds = {"message"}
  MaxRuns = 1
  MaxFollowUps = 1
  MaxFaults = 0
PROPERTIES AnswersFindHandler
\* The bounds run out.
CHECK_DEADLOCK FALSE
