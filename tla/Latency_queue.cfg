SPECIFICATION Spec
CONSTANTS
    Border = 1
    MaxLen = 3
    MaxTime = 4
INVARIANTS TypeOK DelayIsOverdue
CHECK_DEADLOCK FALSE
