SPECIFICATION BatchesSpec
CONSTANTS
    Size = {1, 2}
    ChunkSize = 2
    Border = 2
    MaxLen = 5
    MaxRestarts = 1
INVARIANTS BatchesTypeOK WindowOfLog FilterSelects PageIsLongestFit
CHECK_DEADLOCK FALSE
