SPECIFICATION FairSpec
CONSTANTS
  x = x  y = y
  Advisory = {x, y}
  Routines = 1
  Accepts <- Everything
  MaxCommits = 2
  MaxTroubles = 1
INVARIANTS
  EpisodeTracksAffected
PROPERTIES
  WorkedUntilGone
  QuietOnceGone
