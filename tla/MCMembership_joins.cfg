SPECIFICATION FairSpec
CONSTANTS
    n1 = n1
    n2 = n2
    n3 = n3
    n4 = n4
    Node <- Four
    Ring <- FourRing
    Leader = n1
    First <- Equal
    Threshold = 70
    Stakes = {1, 3}
    Joining = {n4}
    Leaving = {n1, n2}
    Restaking = {n3}
    MaxTag = 3
    MaxSigs = 1
INVARIANTS TagIsNewest SignatureVerifies SameVerdict
PROPERTY OfflineIsLeft
CHECK_DEADLOCK FALSE
