SPECIFICATION FairSpec
CONSTANTS
    Mine = {m1}
    Others = {o1}
    PageSize = 1
    Faults = {"lost", "raise", "dead", "censor", "behind"}
    CanLead = TRUE
    MaxLog = 2
    MaxSwitches = 1
INVARIANTS TypeOK NoBodyLost
PROPERTIES SequencedOrDisputed DownIsDisputed
CHECK_DEADLOCK FALSE
