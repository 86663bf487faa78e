SPECIFICATION Spec
CONSTANTS
  Faults <- SyncFault
  MaxFrames = 3
  MaxRecords = 3
  Times <- MCTimes
  MaxRecordings = 2
  RenameDurable = TRUE
INVARIANT FileHoldsAccepted
CHECK_DEADLOCK FALSE
