SPECIFICATION DesktopFairSpec
CONSTANTS
  MaxAttempts = 1
  Callers = {gui}
  QueueCapacity = 1
  EventCapacity = 2
  Requests <- NoRequests
  AutoRecord = TRUE
  Toggles = {"Recording", "Streaming", "Replay", "SaveReplay", "Mixer", "Close"}
  MaxPresses = 2
PROPERTIES StaleClaimsClear PhasesSettle CallsReturn ReconciledClaimsHold
CHECK_DEADLOCK FALSE
