------------------------ MODULE MCZSequencerRestart ------------------------
(* Small instances of ZSequencerRestart: three nodes. *)
EXTENDS ZSequencerRestart, TLC

CONSTANTS n1, n2, n3

Three == {n1, n2, n3}
ThreeRing == <<n1, n3, n2>>

(* With 75 per cent, every quorum is n2 and one other node. *)
SecondHeavy == [n \in Three |-> IF n = n2 THEN 20 ELSE 10]

BatchSymmetry == Permutations(Batch)
=============================================================================
