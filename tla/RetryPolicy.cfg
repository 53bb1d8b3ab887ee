SPECIFICATION RetrySpec
CONSTANTS
  Row = {a, b}
  Cap = 5
  Tries = 9
INVARIANTS
  CapacityHoldIsFibonacci
  FailedRowsExhausted
  BackoffCoversEveryRow
CHECK_DEADLOCK FALSE
