SPECIFICATION FairSpec
CONSTANTS
  Messages = 3
  RetryCap = 2
  ClaimLimit = 2
  Budget <- SomeTrouble
INVARIANTS
  RunningRowsClaimed
  DoneMeansAnswered
  GivenUpAfterOwnFailures
PROPERTIES
  EveryMessageSettles
CHECK_DEADLOCK FALSE
