--------------------------- MODULE MCZSequencer ---------------------------
(* Small instances of ZSequencer: three nodes. *)
EXTENDS ZSequencer, TLC

CONSTANTS n1, n2, n3

Three == {n1, n2, n3}
ThreeRing == <<n1, n2, n3>>
ThreeEqual == [n \in Three |-> 10]

(* With 75 per cent, every quorum is n1 and one other node. *)
FirstHeavy == [n \in Three |-> IF n = n1 THEN 20 ELSE 10]

BatchSymmetry == Permutations(Batch)
=============================================================================
