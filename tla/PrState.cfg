SPECIFICATION FairSpec
CONSTANTS
  PR = {1}
  Known = {1}
  MaxChanges = 2
  MaxTroubles = 2
  Legacy = {"closed"}
PROPERTIES
  MergedIsFinal
  NeverBackwards
  Converges
