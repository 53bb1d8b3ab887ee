SPECIFICATION Spec
CONSTANTS
  m1 = m1  m2 = m2  m3 = m3
  r1 = r1  w1 = w1
  review = review  work = work  cve = cve
  Msg = {m1, m2, m3}
  Thread = {r1, w1}
  Job = {review, work, cve}
  ThreadOf <- SharedThread
  JobOf <- SharedJob
  ReviewJob = review
  Rank <- Ranks
  Continuation = {m3}
  MaxDrains = 1
  MaxPreflights = 1
  RetryCap = 1
  LoadBased = TRUE
  Budget <- SafeBudget
  Rivals <- OneBesideACrash
INVARIANTS
  TypeOK
  RunningRowsOwned
  OneBatchPerThread
  PoolBounds
PROPERTIES
  GivenUpEarlyOnlyIfMissing
  ImplementsSerialDelivery
