SPECIFICATION FairRateSpec
CONSTANTS
    Window = 2
    Limits = {3, 4}
    FirstLimit = 3
    Sizes = {1, 2}
    MaxPosts = 3
    MaxLost = 1
    MaxBack = 1
    MaxChanges = 2
INVARIANTS RateTypeOK NoneRefused
PROPERTIES TakenWithinLimit PoolIsSent
CHECK_DEADLOCK FALSE
