SPECIFICATION Spec
CONSTANTS
  QueueSize  = 4
  DebounceMs = 1
  HoldMs     = 2
  GuardMs    = 1
  TimeMod    = 4
  PollMs     = 1
  MaxGapMs   = 1
  HostActs   = {"suspend", "reset", "fail", "refuse", "deny"}
INVARIANTS TypeOK QueuePaired InFlightMatchesEndpoint NoStuckKey GetReportAgrees
PROPERTY DeliversGestures
