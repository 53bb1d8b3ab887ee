SPECIFICATION MixedSpec
CONSTANTS
  Session = {1, 2, 3, 4, 5, 6, 7}
  None = 0
  Capped = {FALSE, TRUE}
  MaxWaiting = 1
INVARIANTS
  NotRepeatedAfterSuccess
  StoresApart
  UnusableIsDropped
PROPERTIES
  EveryRunEnds
  NotStuck
