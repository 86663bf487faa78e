SPECIFICATION RecordingsSpec
CONSTANTS
  Faults <- AllButSync
  MaxFrames = 2
  MaxRecords = 3
  Times <- MCTimes
  MaxRecordings = 2
  RenameDurable = FALSE
  SegmentFrames = 6
  SegmentRecords = 1
  MaxSegmentPackets = 2
  MaxSegmentDuration = 1
  MaxSegments = 3
  MaxPackets = 6
INVARIANTS FileHoldsAccepted CommittedSurvives NothingLost SegmentsPlayable SegmentsWithinTarget
PROPERTIES CommitsAccepted
CHECK_DEADLOCK FALSE
