----------------------------- MODULE SyncPoint -----------------------------
(***************************************************************************)
(* The rules of zsequencer that decide about sync points: who is a quorum, *)
(* which indices the sequencer proposes, what a node signs, what a node    *)
(* locks and finalizes, and what it keeps when the sequencer changes.      *)
(* They are stated on one app's batch sequence.                            *)
(*                                                                         *)
(* A batch sequence is a sequence of bodies, the index of a batch is its   *)
(* position.  The chaining hash of index i is a collision-free digest of   *)
(* the first i bodies, so it is modelled by that prefix; the index of a    *)
(* chaining hash is its length, and << >> is "no batch".                   *)
(*                                                                         *)
(* An aggregated signature is the message its signers signed: the chaining *)
(* hash and the parent index.  Its state ("sequenced" for a lock, "locked" *)
(* for a finalization) is told by where it is stored.  Locks are signed    *)
(* over timestamp 0; finalization timestamps come from synchronised clocks *)
(* and increase, so they are left out.                                     *)
(***************************************************************************)
EXTENDS Integers, Sequences, FiniteSets, FiniteSetsExt

CONSTANTS
    Node,       \* attesting nodes, all honest
    Stake,      \* zconfig.NODES[n]["stake"]
    Threshold   \* zconfig.THRESHOLD_PERCENT

(* The stake of a set of nodes. *)
StakeOf(S) == MapThenSumSet(LAMBDA n : Stake[n], S)

(* Enough stake for a lock or a finalization. *)
Quorum == {S \in SUBSET Node : 100 * StakeOf(S) >= Threshold * StakeOf(Node)}

(* Enough stake to replace a sequencer: half of the threshold. *)
DisputeQuorum == {S \in SUBSET Node : 200 * StakeOf(S) >= Threshold * StakeOf(Node)}

ASSUME NodeAssumption == IsFiniteSet(Node)
ASSUME StakeAssumption == Stake \in [Node -> Nat] /\ Threshold \in 0..100
(* With THRESHOLD_PERCENT above 50 two quorums share a node. *)
ASSUME QuorumAssumption == \A Q1, Q2 \in Quorum : Q1 \cap Q2 # {}

-----------------------------------------------------------------------------
(* The first i batches of a log: the chaining hash of index i. *)
Prefix(l, i) == SubSeq(l, 1, i)

(* Index c is a chaining hash of log l. *)
Contains(l, c) == Len(c) <= Len(l) /\ Prefix(l, Len(c)) = c

(* The index of the last of a sequence of finalization signatures, which *)
(* is the last finalized index; 0 if there is none. *)
LastIndex(cs) == IF cs = << >> THEN 0 ELSE Len(cs[Len(cs)].chain)

(* promote_batches with a signature of state "sequenced": it verifies over *)
(* the parent index it was received with, it is newer than the last lock,  *)
(* its parent is the last finalized index, the last lock is finalized, and *)
(* the target batch is there with the same chaining hash.                  *)
CanLock(l, lck, cs, sig, parent) ==
    /\ sig.parent = parent
    /\ Len(sig.chain) > lck
    /\ LastIndex(cs) # 0 => parent = LastIndex(cs)
    /\ lck # 0 => lck = LastIndex(cs)
    /\ Contains(l, sig.chain)

(* Mutant of CanFinalize: the chaining hash is not compared. *)
CanFinalizeAnyChain(l, cs, sig) ==
    /\ Len(sig.chain) > LastIndex(cs)
    /\ LastIndex(cs) # 0 => sig.parent = LastIndex(cs)
    /\ Len(sig.chain) <= Len(l)

(* promote_batches with a signature of state "locked".  Signatures of this *)
(* state always travel with the parent index they were made for.           *)
CanFinalize(l, cs, sig) ==
    /\ Len(sig.chain) > LastIndex(cs)
    /\ LastIndex(cs) # 0 => sig.parent = LastIndex(cs)
    /\ Contains(l, sig.chain)

(* sign_sync_point: the parent index matches this node's last finalized    *)
(* batch, the chaining hash matches, and the batch is at least in the      *)
(* state of the sync point (kind "fin" wants it locked).                   *)
CanSign(kind, l, lck, cs, chain, parent) ==
    /\ LastIndex(cs) # 0 => parent = LastIndex(cs)
    /\ Contains(l, chain)
    /\ kind = "fin" => Len(chain) <= lck

(* Mutant of Reinitialized: only finalized batches stay. *)
ReinitializedToFinalized(l, lck, cs) == Prefix(l, LastIndex(cs))

(* reinitialize_sequenced_batches: what stays in the operational sequence. *)
Reinitialized(l, lck, cs) == Prefix(l, lck)

(* The finalization point of cs at this index. *)
PointAt(cs, index) == {k \in 1..Len(cs) : Len(cs[k].chain) = index}

(* The finalized signatures after a known index, of a node whose           *)
(* first_finalized_index is None; also the mutant of FinalizedAfter.       *)
FinalizedAfterKnown(cs, index) ==
    IF PointAt(cs, index) = {} THEN << >>
    ELSE SubSeq(cs, (CHOOSE k \in PointAt(cs, index) : TRUE) + 1, Len(cs))

(* The finalized signatures that a PUT answers with: those after the       *)
(* finalized index of the requester, followed along next_index; none if    *)
(* that index is not one of this node's finalization points.               *)
FinalizedAfter(cs, index) ==
    IF index = 0 THEN cs
    ELSE IF PointAt(cs, index) = {} THEN << >>
    ELSE SubSeq(cs, (CHOOSE k \in PointAt(cs, index) : TRUE) + 1, Len(cs))

-----------------------------------------------------------------------------
(* The nodes that reported an index at least as high as m's. *)
Party(reported, m) == {k \in Node : Len(reported[k]) >= Len(reported[m])}

(* find_locked_sync_point and find_finalized_sync_point: the nodes whose   *)
(* report is the highest one, above the last sync point, that a quorum of  *)
(* the reporting nodes and the sequencer itself has reached.               *)
SyncPoints(reported, last, s) ==
    LET Reached == {m \in Node : /\ Len(reported[m]) > Len(last)
                                 /\ Party(reported, m) \cup {s} \in Quorum}
    IN  {m \in Reached : \A k \in Reached : Len(reported[k]) <= Len(reported[m])}
=============================================================================
