SPECIFICATION HSpec
CONSTANTS
  QueueSize  = 2
  DebounceMs = 2
  HoldMs     = 4
  GuardMs    = 1
  TimeMod    = 8
  PollMs     = 1
  MaxGapMs   = 2
  MaxPressMs = 5
  HostActs   = {"suspend", "reset"}
INVARIANT RequestsAreOwed
PROPERTIES LengthDecidesCommand LedKeepsItsPromise RestedBeforeGesture DebounceBothWays
