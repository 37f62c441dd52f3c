SPECIFICATION FairSpec
CONSTANTS
    ChunkSize = 2
    PageSize = 3
    Border = 2
    MaxLen = 7
    MaxErrors = 1
    MaxStops = 1
INVARIANTS TypeOK PageContiguous PageProgress PrunedIsWritten FilesGapless
PROPERTY ReadEnds
CHECK_DEADLOCK FALSE
