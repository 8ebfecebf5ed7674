CONSTANTS
    Cap = 40
    MaxItems = 6
    MaxRun = 12
    Count = 3
SPECIFICATION Spec
INVARIANTS InsideBuffer CountsFit
CHECK_DEADLOCK FALSE
