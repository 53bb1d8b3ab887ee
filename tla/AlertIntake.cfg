SPECIFICATION FairSpec
CONSTANTS
  Routine = {triage, digest}
  FirstSeen = {triage}
  Issues = 2
  Page = 1
  MaxHooks = 1
  MaxRevision = 2
  MaxTroubles = 1
INVARIANTS
  TriagedOnce
  ReceiptAfterRows
PROPERTIES
  EveryIssueQueued
