SPECIFICATION Spec
CONSTANTS
  Producers = {p1, p2}
  Capacity = 2
  MaxCalls = 6
INVARIANTS  QueuedExact CallsAnswered FailureIsExplained
PROPERTY CancelledEnds
CHECK_DEADLOCK FALSE
