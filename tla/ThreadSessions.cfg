SPECIFICATION Spec
CONSTANTS
  Thread = {t1, t2}
  MaxSessions = 2
  MaxCalls = 2
  MaxWrites = 1
  MaxTroubles = 2
  Torn = TRUE
INVARIANTS
  LogAgreesWithMemory
  StagedRestartStartsFresh
SYMMETRY Symmetry
