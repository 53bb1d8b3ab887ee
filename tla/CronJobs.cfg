SPECIFICATION FairCronSpec
CONSTANTS
  Slots = 1
  MaxStrays = 1
  Week = 1
  Top = 2
  Step <- FibTable
  None = None
  MaxRetry = 1
  MaxFlights = 2
  MaxEdits = 1
INVARIANTS
  BackoffBoundedByRuns
  RetriesBounded
  ScheduleKept
PROPERTIES
  HoldsEnd
  OneShotEnds
CHECK_DEADLOCK FALSE
