SPECIFICATION FairSpec
CONSTANTS
    n1 = n1
    n2 = n2
    n3 = n3
    Threshold = 67
    Node = {n1, n2, n3}
    Ring <- RingOfThree
    Support <- HalfOfThreshold
    Quorum <- WholeThreshold
    HttpTime = 1
    GatherTime = 1
    Validity = 1
    SetupTime = 2
    Inactivity = 2
    MaxFaults <- OneGoneOneRaised
PROPERTIES LeavesDisputed NoRepeatedSwitch LeavesTheGone
CHECK_DEADLOCK FALSE
