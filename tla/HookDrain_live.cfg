SPECIFICATION StuckModelsSpec
CONSTANTS
  m1 = m1  m2 = m2  m3 = m3
  r1 = r1  w1 = w1
  review = review  work = work  cve = cve
  Msg = {m1, m2}
  Thread = {r1, w1}
  Job = {review, work, cve}
  ThreadOf <- LiveThread
  JobOf <- LiveJob
  ReviewJob = review
  Rank <- Ranks
  Continuation = {}
  MaxDrains = 1
  MaxPreflights = 1
  RetryCap = 1
  LoadBased = FALSE
  Budget <- LiveBudget
  Rivals <- LiveRivals
PROPERTIES
  SettlesIfRunsEnd
  ReviewsInspectedRegardless
