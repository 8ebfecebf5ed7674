SPECIFICATION PSpec
CONSTANTS
    MIN_BLOCK = 4
    MaxBytes = 4
    MaxLines = 3
INVARIANT UnreadIsRefused
CHECK_DEADLOCK FALSE
