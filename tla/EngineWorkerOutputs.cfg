SPECIFICATION Spec
CONSTANTS
  c1 = c1
  c2 = c2
  MaxAttempts = 2
  Callers = {c1, c2}
  QueueCapacity = 1
  EventCapacity = 1
  Requests <- OutputRequests
INVARIANTS QueuedFramesExact PhaseMatchesOutput EventsConclude QuietSnapshot
CHECK_DEADLOCK FALSE
