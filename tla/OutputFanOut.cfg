SPECIFICATION FanOutSpec
CONSTANTS
  ReplayBytes = 4
  ReplayDuration = 1
  ReplayPackets = 3
  StreamCapacity = 3
  VideoSizes = {2, 5}
  MaxAudio = 1
  MaxTime = 2
  MaxPackets = 4
INVARIANTS RetainsLongestEnd StreamedIsRecorded
PROPERTY FramesInOrderAndWhole
CHECK_DEADLOCK FALSE
