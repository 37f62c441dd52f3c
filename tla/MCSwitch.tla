------------------------------ MODULE MCSwitch ------------------------------
(***************************************************************************)
(* A small instance of Switch: the sets of nodes that can dispute and that *)
(* can finalize follow from stakes and a threshold.                        *)
(***************************************************************************)
EXTENDS Switch

CONSTANTS
    n1, n2, n3,
    Threshold       \* THRESHOLD_PERCENT

RingOfThree == <<n1, n2, n3>>

(* Of 10; with a threshold of 67, the third node can dispute alone, the    *)
(* others need a confirmation, and any one with it is a quorum.            *)
Stake == n1 :> 3 @@ n2 :> 3 @@ n3 :> 4
Percent(nodes) == 10 * MapThenSumSet(LAMBDA n : Stake[n], nodes)

HalfOfThreshold == {S \in SUBSET Node : 2 * Percent(S) >= Threshold}
WholeThreshold == {S \in SUBSET Node : Percent(S) >= Threshold}

OneGoneOneRaised == [gone |-> 1, missed |-> 0, raised |-> 1]
=============================================================================
