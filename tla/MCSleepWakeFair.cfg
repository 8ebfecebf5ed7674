SPECIFICATION FairSpec
CONSTANTS
  QueueSize  = 4
  DebounceMs = 0
  HoldMs     = 1
  GuardMs    = 1
  TimeMod    = 2
  PollMs     = 1
  MaxGapMs   = 1
  HostActs   = {"suspend", "reset", "fail", "refuse"}
PROPERTIES DeliversGesturesFairly QueuedWakeResumesHost
