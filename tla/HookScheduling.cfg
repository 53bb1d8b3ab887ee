SPECIFICATION PoolSpec
CONSTANTS
  a = a  b = b  c = c  d = d  e = e
  Thread = {a, b, c, d, e}
  Rank <- Ranks
  Reviews = {a, b, c}
  Updated <- Updates
  Limit = 3
  Reserve = TRUE
  Places = 5
INVARIANTS
  CeilingKept
PROPERTIES
  StartsInOrder
  NoIdleSlot
  LaneForEachKind
