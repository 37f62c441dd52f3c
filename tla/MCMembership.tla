---------------------------- MODULE MCMembership ----------------------------
(* Small instances of Membership: a sequencer and two or three others. *)
EXTENDS Membership

CONSTANTS n1, n2, n3, n4

Three == {n1, n2, n3}
ThreeRing == <<n1, n2, n3>>
Four == {n1, n2, n3, n4}
FourRing == <<n1, n2, n3, n4>>
(* Three nodes of equal stake; n4 joins. *)
Equal == [n \in Three |-> 2]
=============================================================================
