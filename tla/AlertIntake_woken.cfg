SPECIFICATION Spec
CONSTANTS
  Routine = {triage, audit}
  FirstSeen = {triage, audit}
  Issues = 1
  Page = 1
  MaxHooks = 2
  MaxRevision = 2
  MaxTroubles = 0
PROPERTIES
  AllWokenAreQueued
