SPECIFICATION FairSpec
CONSTANTS
    App = {a1, a2}
    PageSize = 1
    Border = 2
    MaxLen = 2
    MaxChunks = 1
    MaxFaults = 1
INVARIANTS TypeOK FinalizedIsTheSequencers
PROPERTIES SyncedIsCaughtUp FinalizedReachesFollowers
CHECK_DEADLOCK FALSE
