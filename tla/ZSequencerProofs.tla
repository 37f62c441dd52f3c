-------------------------- MODULE ZSequencerProofs --------------------------
(***************************************************************************)
(* What holds of ZSequencer for every network, stake distribution with     *)
(* intersecting quorums, set of batches and bound; that it implements the  *)
(* one growing log of FinalizedLog; and what restarts leave of it.         *)
(***************************************************************************)
EXTENDS ZSequencerRestart, SequenceTheorems, FiniteSetTheorems, TLAPS

Lemmas == INSTANCE SequenceLemmas

-----------------------------------------------------------------------------
(************************* The rules of SyncPoint *************************)

(* A prefix of a log is a log. *)
LEMMA PrefixProperties ==
    ASSUME NEW S, NEW l \in Seq(S), NEW i \in 0..Len(l)
    PROVE  /\ Prefix(l, i) \in Seq(S)
           /\ Len(Prefix(l, i)) = i
           /\ \A j \in 1..i : Prefix(l, i)[j] = l[j]
<1>1. \A j \in 1..i : l[j] \in S
    BY ElementOfSeq
<1> QED
    BY <1>1, SubSeqProperties DEF Prefix

(* A chaining hash matches a log when the batches below it are the same. *)
LEMMA ContainsPointwise ==
    ASSUME NEW S, NEW l \in Seq(S), NEW c \in Seq(S)
    PROVE  Contains(l, c) <=> /\ Len(c) <= Len(l)
                              /\ \A j \in 1..Len(c) : l[j] = c[j]
<1>1. CASE Len(c) <= Len(l)
  <2>1. Len(c) \in 0..Len(l)
    BY <1>1, LenProperties
  <2>2. /\ Prefix(l, Len(c)) \in Seq(S)
        /\ Len(Prefix(l, Len(c))) = Len(c)
        /\ \A j \in 1..Len(c) : Prefix(l, Len(c))[j] = l[j]
    BY <2>1, PrefixProperties
  <2>3. Prefix(l, Len(c)) = c <=> \A j \in 1..Len(c) : Prefix(l, Len(c))[j] = c[j]
    BY <2>2, SeqEqual
  <2> QED
    BY <1>1, <2>2, <2>3 DEF Contains
<1>2. CASE ~ (Len(c) <= Len(l))
    BY <1>2 DEF Contains
<1> QED
    BY <1>1, <1>2

(* A log contains its prefixes. *)
LEMMA ContainsPrefix ==
    ASSUME NEW S, NEW l \in Seq(S), NEW i \in 0..Len(l)
    PROVE  Contains(l, Prefix(l, i))
BY PrefixProperties, ContainsPointwise, LenProperties

(* Appending batches keeps what a log contains. *)
LEMMA ContainsConcat ==
    ASSUME NEW S, NEW l \in Seq(S), NEW b \in Seq(S), NEW c \in Seq(S),
           Contains(l, c)
    PROVE  Contains(l \o b, c)
<1>1. Len(c) <= Len(l) /\ \A j \in 1..Len(c) : l[j] = c[j]
    BY ContainsPointwise
<1>2. /\ l \o b \in Seq(S)
      /\ Len(l \o b) = Len(l) + Len(b)
      /\ \A j \in 1..Len(l) : (l \o b)[j] = l[j]
    BY ConcatProperties
<1>3. Len(l) \in Nat /\ Len(b) \in Nat /\ Len(c) \in Nat
    BY LenProperties
<1>4. Len(c) <= Len(l \o b) /\ \A j \in 1..Len(c) : (l \o b)[j] = c[j]
    BY <1>1, <1>2, <1>3
<1> QED
    BY <1>2, <1>4, ContainsPointwise

(* A log only grows when batches are appended to it. *)
LEMMA ConcatLength ==
    ASSUME NEW S, NEW l \in Seq(S), NEW b \in Seq(S)
    PROVE  Len(l) \in Nat /\ Len(l \o b) \in Nat /\ Len(l \o b) >= Len(l)
<1>1. Len(l \o b) = Len(l) + Len(b) /\ Len(l) \in Nat /\ Len(b) \in Nat
    BY ConcatProperties, LenProperties
<1> QED
    BY <1>1

(* What a part of a log contains, the log contains. *)
LEMMA ContainsTransitive ==
    ASSUME NEW S, NEW l \in Seq(S), NEW p \in Seq(S), NEW c \in Seq(S),
           Contains(l, p), Contains(p, c)
    PROVE  Contains(l, c)
<1>1. Len(l) \in Nat /\ Len(p) \in Nat /\ Len(c) \in Nat
    BY LenProperties
<1> QED
    BY <1>1, ContainsPointwise

(* Of two chaining hashes of one log, the longer contains the shorter. *)
LEMMA ContainsComparable ==
    ASSUME NEW S, NEW l \in Seq(S), NEW p \in Seq(S), NEW c \in Seq(S),
           Contains(l, p), Contains(l, c), Len(c) <= Len(p)
    PROVE  Contains(p, c)
<1>1. Len(l) \in Nat /\ Len(p) \in Nat /\ Len(c) \in Nat
    BY LenProperties
<1> QED
    BY <1>1, ContainsPointwise

(* Two chaining hashes of one length that match one log are the same. *)
LEMMA ContainsSameLength ==
    ASSUME NEW S, NEW p \in Seq(S), NEW c \in Seq(S),
           Contains(p, c), Len(c) = Len(p)
    PROVE  p = c
BY SubSeqFull DEF Contains, Prefix

-----------------------------------------------------------------------------
(* The last finalized index is a natural number, and that of the last      *)
(* signature if there is one.                                              *)
LEMMA LastIndexProperties ==
    ASSUME NEW B, NEW cs \in Seq([chain : Seq(B), parent : Nat])
    PROVE  /\ LastIndex(cs) \in Nat
           /\ cs # << >> => /\ Len(cs) \in 1..Len(cs)
                            /\ LastIndex(cs) = Len(cs[Len(cs)].chain)
           /\ LastIndex(cs) # 0 => cs # << >>
<1>1. CASE cs = << >>
    BY <1>1 DEF LastIndex
<1>2. CASE cs # << >>
  <2>1. Len(cs) \in 1..Len(cs)
    BY <1>2, LenProperties, EmptySeq
  <2>2. cs[Len(cs)] \in [chain : Seq(B), parent : Nat]
    BY <2>1, ElementOfSeq
  <2>3. cs[Len(cs)].chain \in Seq(B)
    BY <2>2
  <2>4. Len(cs[Len(cs)].chain) \in Nat
    BY <2>3, LenProperties
  <2>5. LastIndex(cs) = Len(cs[Len(cs)].chain)
    BY <1>2 DEF LastIndex
  <2> QED
    BY <1>2, <2>1, <2>4, <2>5
<1> QED
    BY <1>1, <1>2

(* The last index of the first k signatures is that of the k-th. *)
LEMMA LastIndexOfPrefix ==
    ASSUME NEW B, NEW cs \in Seq([chain : Seq(B), parent : Nat]),
           NEW k \in 1..Len(cs)
    PROVE  LastIndex(SubSeq(cs, 1, k)) = Len(cs[k].chain)
<1> DEFINE first == Prefix(cs, k)
<1>1. k \in 0..Len(cs) /\ k \in 1..k
    BY LenProperties
<1>2. /\ first \in Seq([chain : Seq(B), parent : Nat])
      /\ Len(first) = k
      /\ first[k] = cs[k]
    BY <1>1, PrefixProperties
<1> HIDE DEF first
<1>3. first # << >>
    BY <1>2, EmptySeq
<1> QED
    BY <1>2, <1>3 DEF LastIndex, first, Prefix

(* An answer's finalized signatures are some of those of the sequencer. *)
LEMMA FinalizedAfterKnownProperties ==
    ASSUME NEW S, NEW cs \in Seq(S), NEW index \in Nat
    PROVE  /\ FinalizedAfterKnown(cs, index) \in Seq(S)
           /\ \A k \in 1..Len(FinalizedAfterKnown(cs, index)) :
                 \E j \in 1..Len(cs) : FinalizedAfterKnown(cs, index)[k] = cs[j]
<1>1. CASE PointAt(cs, index) = {}
    BY <1>1, EmptySeq DEF FinalizedAfterKnown
<1>2. CASE PointAt(cs, index) # {}
  <2> DEFINE at == CHOOSE k \in PointAt(cs, index) : TRUE
             fins == SubSeq(cs, at + 1, Len(cs))
  <2>1. at \in 1..Len(cs)
    BY <1>2 DEF PointAt
  <2>2. \A i \in at + 1 .. Len(cs) : cs[i] \in S
    BY <2>1, ElementOfSeq, LenProperties
  <2>3. Len(cs) \in Nat
    BY LenProperties
  <2> HIDE DEF at
  <2>4. /\ fins \in Seq(S)
        /\ Len(fins) = IF at + 1 <= Len(cs) THEN Len(cs) - at ELSE 0
        /\ \A i \in 1..Len(cs) - at : fins[i] = cs[at + i]
    BY <2>1, <2>2, <2>3, SubSeqProperties
  <2>5. \A k \in 1..Len(fins) : at + k \in 1..Len(cs) /\ fins[k] = cs[at + k]
    BY <2>1, <2>3, <2>4
  <2>6. FinalizedAfterKnown(cs, index) = fins
    BY <1>2 DEF FinalizedAfterKnown, at
  <2> QED
    BY <2>4, <2>5, <2>6
<1> QED
    BY <1>1, <1>2

LEMMA FinalizedAfterProperties ==
    ASSUME NEW S, NEW cs \in Seq(S), NEW index \in Nat
    PROVE  /\ FinalizedAfter(cs, index) \in Seq(S)
           /\ \A k \in 1..Len(FinalizedAfter(cs, index)) :
                 \E j \in 1..Len(cs) : FinalizedAfter(cs, index)[k] = cs[j]
<1>1. FinalizedAfter(cs, index) = cs
      \/ FinalizedAfter(cs, index) = FinalizedAfterKnown(cs, index)
    BY DEF FinalizedAfter, FinalizedAfterKnown
<1>2. CASE FinalizedAfter(cs, index) = cs
    BY <1>2, LenProperties
<1>3. CASE FinalizedAfter(cs, index) = FinalizedAfterKnown(cs, index)
    BY <1>3, FinalizedAfterKnownProperties
<1> QED
    BY <1>1, <1>2, <1>3

(* When signatures from first on each reach beyond the one before, the     *)
(* last one reaches beyond all of them: none of cs goes beyond both the    *)
(* last index and a bound on the earlier ones.                             *)
LEMMA LastIndexBounds ==
    ASSUME NEW B, NEW cs \in Seq([chain : Seq(B), parent : Nat]),
           NEW first \in Nat, NEW bound \in Nat,
           \A k \in 1..Len(cs) : k <= first => Len(cs[k].chain) <= bound,
           \A k \in 1..Len(cs) : k > first /\ k > 1 =>
               Len(cs[k].chain) > LastIndex(SubSeq(cs, 1, k - 1))
    PROVE  \A k \in 1..Len(cs) : Len(cs[k].chain) <= bound
                                  \/ Len(cs[k].chain) <= LastIndex(cs)
<1> DEFINE Index(k) == Len(cs[k].chain)
           Beyond == {k \in 1..Len(cs) : Index(k) > bound /\ Index(k) > LastIndex(cs)}
<1>1. Len(cs) \in Nat /\ LastIndex(cs) \in Nat
    BY LenProperties, LastIndexProperties
<1>2. ASSUME NEW k \in 1..Len(cs) PROVE Index(k) \in Nat
  <2>1. cs[k] \in [chain : Seq(B), parent : Nat]
    BY ElementOfSeq
  <2>2. cs[k].chain \in Seq(B)
    BY <2>1
  <2> QED
    BY <2>2, LenProperties
<1>3. SUFFICES ASSUME Beyond # {} PROVE FALSE
  <2>1. \A k \in 1..Len(cs) : ~ (Index(k) > bound /\ Index(k) > LastIndex(cs))
                               => Index(k) <= bound \/ Index(k) <= LastIndex(cs)
    <3> HIDE DEF Index
    <3> QED
      BY <1>1, <1>2
  <2> QED
    BY <2>1
<1>4. PICK k \in Beyond : \A j \in Beyond : j <= k
    BY <1>1, <1>3, Lemmas!GreatestNat
<1>5. k \in 1..Len(cs) /\ Index(k) > bound /\ Index(k) > LastIndex(cs)
    BY <1>4
<1>6. k # Len(cs)
  <2>1. cs # << >>
    BY <1>1, <1>5, EmptySeq
  <2>2. LastIndex(cs) = Index(Len(cs))
    BY <2>1, LastIndexProperties
  <2> HIDE DEF Index
  <2> QED
    BY <1>1, <1>2, <1>5, <2>2
<1>7. ~ (k <= first)
  <2> HIDE DEF Index
  <2> QED
    BY <1>2, <1>5 DEF Index
<1>8. LastIndex(SubSeq(cs, 1, k)) = Index(k)
    BY <1>5, LastIndexOfPrefix
<1>9. k + 1 \in 1..Len(cs) /\ k + 1 > first /\ k + 1 > 1 /\ (k + 1) - 1 = k
    BY <1>1, <1>5, <1>6, <1>7
<1>10. Index(k + 1) > Index(k)
  <2>1. Index(k + 1) > LastIndex(SubSeq(cs, 1, (k + 1) - 1))
    BY <1>9
  <2> QED
    BY <2>1, <1>8, <1>9
<1>11. k + 1 \in Beyond
  <2>1. Index(k) \in Nat /\ Index(k + 1) \in Nat
    BY <1>2, <1>5, <1>9
  <2> HIDE DEF Index
  <2> QED
    BY <1>1, <1>5, <1>9, <1>10, <2>1
<1> QED
    BY <1>4, <1>5, <1>11

-----------------------------------------------------------------------------
(************************ Locks, quorums, agreement ***********************)

(* A node's lock is about batches that it has, and it is locked on every   *)
(* batch that it has finalized.                                            *)
LogInv ==
    \A n \in Node :
        /\ locked[n] <= Len(log[n])
        /\ \A k \in 1..Len(certs[n]) : Holds(n, certs[n][k].chain)

(* What a step never does: see LockedPreserved. *)
Keeps ==
    \A n \in Node : /\ locked'[n] >= locked[n]
                    /\ Contains(log'[n], LockedChain(n))

(* A quorum is locked on c, not counting its members outside S. *)
HeldIn(S, c) == \E Q \in Quorum : \A m \in Q \cap S : Holds(m, c)

(* The finalized signatures of a node are held by a quorum. *)
CertsHeld(S) ==
    \A n \in Node : \A k \in 1..Len(certs[n]) : HeldIn(S, certs[n][k].chain)

(* So is a finalized signature under way to a node. *)
ReplyHeld(S) ==
    \A n \in Node : reply[n] # NoReply =>
        \A k \in 1..Len(reply[n].fins) : HeldIn(S, reply[n].fins[k].chain)

(* Whoever signed a finalization round has locked what it is about. *)
SignersHold(S) ==
    \A s \in Node : task[s] # Idle /\ task[s].kind = "fin" =>
        \A m \in task[s].signers \cap S : Holds(m, task[s].chain)

QuorumInv(S) == CertsHeld(S) /\ ReplyHeld(S) /\ SignersHold(S)

(* The inductive invariant behind FinalizedAgreement. *)
IInv == TypeOK /\ LogInv /\ QuorumInv(Node)

-----------------------------------------------------------------------------
(******************** The values that actions compute **********************)

(* The batches that a node is locked on are a log of that length. *)
LEMMA LockedChainProperties ==
    ASSUME TypeOK, LogInv, NEW n \in Node
    PROVE  /\ LockedChain(n) \in Chain
           /\ Len(LockedChain(n)) = locked[n]
           /\ Contains(log[n], LockedChain(n))
<1>1. log[n] \in Seq(Batch) /\ locked[n] \in 0..Len(log[n])
    BY LenProperties DEF TypeOK, LogInv, Chain
<1> QED
    BY <1>1, PrefixProperties, ContainsPrefix DEF LockedChain, Chain

(* A switch leaves just those. *)
LEMMA KeptLogIsLockedChain ==
    ASSUME NEW n \in Node
    PROVE  KeptLog(n) = LockedChain(n)
BY DEF KeptLog, Reinitialized, LockedChain

(* The sequencer after a node is a node. *)
LEMMA NextSequencerType ==
    ASSUME NEW s \in Node
    PROVE  NextSequencer(s) \in Node
<1> DEFINE At == {i \in 1..Len(Ring) : Ring[i] = s}
           at == CHOOSE i \in At : TRUE
<1>1. /\ Len(Ring) \in Nat /\ Len(Ring) >= 1
      /\ \A i \in 1..Len(Ring) : Ring[i] \in Node
    BY RingAssumption, LenProperties, EmptySeq, ElementOfSeq
<1>2. CASE At = {}
  <2>1. Ring[1] \in Node
    BY <1>1
  <2> QED
    BY <1>2, <2>1 DEF NextSequencer
<1>3. CASE At # {}
  <2>1. at \in 1..Len(Ring)
    BY <1>3
  <2> HIDE DEF at
  <2>2. (at % Len(Ring)) + 1 \in 1..Len(Ring)
    BY <1>1, <2>1
  <2>3. NextSequencer(s) = Ring[(at % Len(Ring)) + 1]
    BY <1>3 DEF NextSequencer, at
  <2> QED
    BY <1>1, <2>2, <2>3
<1> QED
    BY <1>2, <1>3

(* A new round has the parent it was started with and no signer. *)
LEMMA FinTasksType ==
    ASSUME TypeOK, NEW s \in Node, NEW parent \in Nat,
           NEW t \in FinTasks(s, parent)
    PROVE  t = Idle \/ (t \in Round /\ t.signers = {})
<1>1. \A m \in SyncPoints(lckState[s], finPoint[s], s) :
          m \in Node /\ lckState[s][m] \in Chain
    BY DEF SyncPoints, TypeOK
<1> QED
    BY <1>1 DEF FinTasks, Task, Round, Party

LEMMA FirstTasksType ==
    ASSUME TypeOK, NEW s \in Node, Finalized(s) \in Nat,
           NEW t \in FirstTasks(s)
    PROVE  t = Idle \/ (t \in Round /\ t.signers = {})
<1> DEFINE points == SyncPoints(seqState[s], lockPoint[s], s)
<1>1. \A m \in points : m \in Node /\ seqState[s][m] \in Chain
    BY DEF SyncPoints, TypeOK
<1>2. CASE points # {} /\ locked[s] = Finalized(s)
    BY <1>1, <1>2 DEF FirstTasks, Task, Round, Party
<1>3. CASE ~ (points # {} /\ locked[s] = Finalized(s))
    BY <1>3, FinTasksType DEF FirstTasks
<1> QED
    BY <1>2, <1>3

(* The last finalized index is a number, and no higher than the lock. *)
LEMMA FinalizedProperties ==
    ASSUME TypeOK, LogInv, NEW n \in Node
    PROVE  Finalized(n) \in Nat /\ Finalized(n) <= locked[n]
<1>1. certs[n] \in Seq([chain : Seq(Batch), parent : Nat])
    BY DEF TypeOK, Sig, Chain
<1>2. /\ Finalized(n) \in Nat
      /\ certs[n] # << >> => /\ Len(certs[n]) \in 1..Len(certs[n])
                             /\ Finalized(n) = Len(certs[n][Len(certs[n])].chain)
      /\ Finalized(n) # 0 => certs[n] # << >>
    BY <1>1, LastIndexProperties DEF Finalized
<1>3. locked[n] \in Nat
    BY DEF TypeOK
<1>4. CASE certs[n] = << >>
    BY <1>2, <1>3, <1>4
<1>5. CASE certs[n] # << >>
    BY <1>2, <1>5 DEF LogInv, Holds
<1> QED
    BY <1>4, <1>5

(* The signatures that a node has after an answer: those it had, and some  *)
(* of the answer that match its log, each beyond the one before.           *)
LEMMA AcceptedProperties ==
    ASSUME NEW l, NEW cs \in Seq(Sig), NEW fins \in Seq(Sig),
           NEW new \in Accepted(l, cs, fins)
    PROVE  /\ new \in Seq(Sig)
           /\ Len(new) >= Len(cs)
           /\ \A k \in 1..Len(cs) : new[k] = cs[k]
           /\ \A k \in Len(cs) + 1 .. Len(new) :
                /\ \E j \in 1..Len(fins) : new[k] = fins[j]
                /\ Contains(l, new[k].chain)
                /\ Len(new[k].chain) > LastIndex(SubSeq(new, 1, k - 1))
<1> DEFINE all == cs \o fins
           Fits(k) == CanFinalize(l, SubSeq(all, 1, k - 1), all[k])
<1>1. PICK last \in Len(cs)..Len(all) :
          /\ new = SubSeq(all, 1, last)
          /\ \A j \in Len(cs) + 1 .. last : Fits(j)
    BY DEF Accepted
<1>2. /\ Len(cs) \in Nat /\ Len(fins) \in Nat
      /\ all \in Seq(Sig)
      /\ Len(all) = Len(cs) + Len(fins)
      /\ \A k \in 1..Len(cs) : all[k] = cs[k]
      /\ \A k \in Len(cs) + 1 .. Len(cs) + Len(fins) : all[k] = fins[k - Len(cs)]
    BY LenProperties, ConcatProperties
<1> HIDE DEF all
<1>3. last \in 0..Len(all) /\ last \in Nat
    BY <1>1, <1>2
<1>4. /\ new \in Seq(Sig) /\ Len(new) = last
      /\ \A j \in 1..last : new[j] = all[j]
    BY <1>1, <1>2, <1>3, PrefixProperties DEF Prefix
<1>5. ASSUME NEW k \in Len(cs) + 1 .. last
      PROVE  /\ \E j \in 1..Len(fins) : new[k] = fins[j]
             /\ Contains(l, new[k].chain)
             /\ Len(new[k].chain) > LastIndex(SubSeq(new, 1, k - 1))
  <2>1. /\ k \in 1..last /\ k - 1 \in 0..last /\ k - 1 \in 0..Len(all)
        /\ k - Len(cs) \in 1..Len(fins)
        /\ k \in Len(cs) + 1 .. Len(cs) + Len(fins)
    BY <1>1, <1>2, <1>3
  <2>2. new[k] = all[k] /\ new[k] = fins[k - Len(cs)]
    BY <1>2, <1>4, <2>1
  <2>3. Fits(k)
    BY <1>1
  <2>4. SubSeq(new, 1, k - 1) = SubSeq(all, 1, k - 1)
    <3>1. /\ Prefix(new, k - 1) \in Seq(Sig) /\ Len(Prefix(new, k - 1)) = k - 1
          /\ \A j \in 1..k - 1 : Prefix(new, k - 1)[j] = new[j]
      BY <1>4, <2>1, PrefixProperties
    <3>2. /\ Prefix(all, k - 1) \in Seq(Sig) /\ Len(Prefix(all, k - 1)) = k - 1
          /\ \A j \in 1..k - 1 : Prefix(all, k - 1)[j] = all[j]
      BY <1>2, <2>1, PrefixProperties
    <3>3. \A j \in 1..k - 1 : new[j] = all[j]
      BY <1>3, <1>4, <2>1
    <3>4. Prefix(new, k - 1) = Prefix(all, k - 1)
      BY <3>1, <3>2, <3>3, SeqEqual
    <3> QED
      BY <3>4 DEF Prefix
  <2> QED
    BY <2>1, <2>2, <2>3, <2>4 DEF CanFinalize
<1> QED
    BY <1>1, <1>2, <1>3, <1>4, <1>5

-----------------------------------------------------------------------------
(**************** Steps of one node on its log and locks *******************)

(* A step that changes only n's log, lock and signatures keeps LogInv if   *)
(* the batches n was locked on stay, and new signatures are about batches  *)
(* that n has and is locked on.                                            *)
LEMMA NodeStep ==
    ASSUME TypeOK, LogInv, NEW n \in Node,
           NEW l \in Chain, NEW lck \in Nat, NEW cs \in Seq(Sig),
           log' = [log EXCEPT ![n] = l],
           locked' = [locked EXCEPT ![n] = lck],
           certs' = [certs EXCEPT ![n] = cs],
           lck >= locked[n], lck <= Len(l),
           Contains(l, LockedChain(n)),
           \A k \in 1..Len(cs) :
               \/ k \in 1..Len(certs[n]) /\ cs[k] = certs[n][k]
               \/ Len(cs[k].chain) <= lck /\ Contains(l, cs[k].chain)
    PROVE  LogInv' /\ Keeps
<1>1. /\ log \in [Node -> Chain] /\ locked \in [Node -> Nat]
      /\ certs \in [Node -> Seq(Sig)]
    BY DEF TypeOK
<1>2. \A m \in Node : m # n => /\ log'[m] = log[m]
                               /\ locked'[m] = locked[m]
                               /\ certs'[m] = certs[m]
    BY <1>1
<1>3. log'[n] = l /\ locked'[n] = lck /\ certs'[n] = cs
    BY <1>1
<1>4. ASSUME NEW k \in 1..Len(certs[n])
      PROVE  Len(certs[n][k].chain) <= lck /\ Contains(l, certs[n][k].chain)
  <2>1. certs[n][k] \in Sig
    BY <1>1, ElementOfSeq
  <2>2. certs[n][k].chain \in Seq(Batch)
    BY <2>1 DEF Sig, Chain
  <2>3. Len(certs[n][k].chain) <= locked[n] /\ Contains(log[n], certs[n][k].chain)
    BY DEF LogInv, Holds
  <2>4. /\ LockedChain(n) \in Seq(Batch) /\ Len(LockedChain(n)) = locked[n]
        /\ Contains(log[n], LockedChain(n))
    BY LockedChainProperties DEF Chain
  <2>5. l \in Seq(Batch) /\ log[n] \in Seq(Batch)
    BY <1>1 DEF Chain
  <2>6. Contains(LockedChain(n), certs[n][k].chain)
    BY <2>2, <2>3, <2>4, <2>5, ContainsComparable
  <2>7. Contains(l, certs[n][k].chain)
    BY <2>2, <2>4, <2>5, <2>6, ContainsTransitive
  <2>8. Len(certs[n][k].chain) \in Nat /\ locked[n] \in Nat
    BY <1>1, <2>2, LenProperties
  <2> QED
    BY <2>3, <2>7, <2>8
<1>5. \A k \in 1..Len(cs) : Len(cs[k].chain) <= lck /\ Contains(l, cs[k].chain)
    BY <1>4
<1>6. LogInv'
  <2>1. ASSUME NEW m \in Node
        PROVE  /\ locked'[m] <= Len(log'[m])
               /\ \A k \in 1..Len(certs'[m]) :
                    /\ Len(certs'[m][k].chain) <= locked'[m]
                    /\ Contains(log'[m], certs'[m][k].chain)
    <3>1. CASE m = n
      BY <1>3, <1>5, <3>1
    <3>2. CASE m # n
      BY <1>2, <3>2 DEF LogInv, Holds
    <3> QED
      BY <3>1, <3>2
  <2> QED
    BY <2>1 DEF LogInv, Holds
<1>7. Keeps
  <2>1. \A m \in Node : locked[m] >= locked[m] /\ Contains(log[m], LockedChain(m))
    BY <1>1, LockedChainProperties
  <2> QED
    BY <1>2, <1>3, <2>1 DEF Keeps
<1> QED
    BY <1>6, <1>7

(* Nothing happens to the logs, locks and signatures. *)
LEMMA NodeStutter ==
    ASSUME TypeOK, LogInv, UNCHANGED nodeVars
    PROVE  LogInv' /\ Keeps
<1>1. LogInv'
    BY DEF nodeVars, LogInv, Holds
<1>2. \A m \in Node : locked[m] >= locked[m] /\ Contains(log[m], LockedChain(m))
    BY LockedChainProperties DEF TypeOK
<1> QED
    BY <1>1, <1>2 DEF Keeps, nodeVars

(* Appending bodies to a log disturbs nothing that is locked. *)
LEMMA AppendStep ==
    ASSUME TypeOK, LogInv, NEW s \in Node, NEW bodies \in Chain,
           log' = [log EXCEPT ![s] = @ \o bodies],
           UNCHANGED <<locked, certs>>
    PROVE  /\ log' \in [Node -> Chain]
           /\ LogInv' /\ Keeps
<1> DEFINE l == log[s] \o bodies
<1>1. /\ log \in [Node -> Chain] /\ locked \in [Node -> Nat]
      /\ certs \in [Node -> Seq(Sig)]
    BY DEF TypeOK
<1>2. /\ l \in Chain /\ Len(l) = Len(log[s]) + Len(bodies)
      /\ Len(log[s]) \in Nat /\ Len(bodies) \in Nat
    BY <1>1, ConcatProperties, LenProperties DEF Chain
<1>3. log' = [log EXCEPT ![s] = l]
    BY <1>1
<1>4. locked' = [locked EXCEPT ![s] = locked[s]] /\ certs' = [certs EXCEPT ![s] = certs[s]]
    BY <1>1
<1>5. Contains(l, LockedChain(s))
    BY <1>1, LockedChainProperties, ContainsConcat DEF Chain
<1>6. locked[s] >= locked[s] /\ locked[s] <= Len(l) /\ locked[s] \in Nat
    BY <1>1, <1>2 DEF LogInv
<1> HIDE DEF l
<1>7. LogInv' /\ Keeps
    BY <1>1, <1>2, <1>3, <1>4, <1>5, <1>6, NodeStep
<1> QED
    BY <1>1, <1>2, <1>3, <1>7

(* Cutting a log to what is locked, and appending bodies to it. *)
LEMMA CutStep ==
    ASSUME TypeOK, LogInv, NEW n \in Node, NEW bodies \in Chain,
           log' = [log EXCEPT ![n] = KeptLog(n) \o bodies],
           UNCHANGED <<locked, certs>>
    PROVE  /\ log' \in [Node -> Chain]
           /\ LogInv' /\ Keeps
<1> DEFINE l == LockedChain(n) \o bodies
<1>1. /\ log \in [Node -> Chain] /\ locked \in [Node -> Nat]
      /\ certs \in [Node -> Seq(Sig)]
    BY DEF TypeOK
<1>2. LockedChain(n) \in Chain /\ Len(LockedChain(n)) = locked[n]
    BY LockedChainProperties
<1>3. l \in Chain /\ Len(l) = locked[n] + Len(bodies) /\ Len(bodies) \in Nat
    BY <1>2, ConcatProperties, LenProperties DEF Chain
<1>4. log' = [log EXCEPT ![n] = l]
    BY KeptLogIsLockedChain
<1>5. locked' = [locked EXCEPT ![n] = locked[n]] /\ certs' = [certs EXCEPT ![n] = certs[n]]
    BY <1>1
<1>6. Contains(l, LockedChain(n))
  <2>1. Contains(LockedChain(n), LockedChain(n))
    BY <1>2, SubSeqFull, LenProperties DEF Contains, Prefix, Chain
  <2> QED
    BY <1>2, <2>1, ContainsConcat DEF Chain
<1>7. locked[n] >= locked[n] /\ locked[n] <= Len(l) /\ locked[n] \in Nat
    BY <1>1, <1>3
<1> HIDE DEF l
<1>8. LogInv' /\ Keeps
    BY <1>1, <1>3, <1>4, <1>5, <1>6, <1>7, NodeStep
<1> QED
    BY <1>1, <1>3, <1>4, <1>8

(* Cutting it and appending nothing. *)
LEMMA CutOnlyStep ==
    ASSUME TypeOK, LogInv, NEW n \in Node,
           log' = [log EXCEPT ![n] = KeptLog(n)],
           UNCHANGED <<locked, certs>>
    PROVE  /\ log' \in [Node -> Chain]
           /\ LogInv' /\ Keeps
<1>1. KeptLog(n) \in Chain
    BY LockedChainProperties, KeptLogIsLockedChain
<1>2. KeptLog(n) = KeptLog(n) \o << >>
    BY <1>1, ConcatEmptySeq DEF Chain
<1>3. log' = [log EXCEPT ![n] = KeptLog(n) \o << >>] /\ << >> \in Chain
    BY <1>2, EmptySeq DEF Chain
<1> QED
    BY <1>3, CutStep

-----------------------------------------------------------------------------
(******************************* The actions *******************************)

LEMMA PostToSequencerStep ==
    ASSUME TypeOK, LogInv, NEW s \in Node, NEW b \in Batch, PostToSequencer(s, b)
    PROVE  TypeOK' /\ LogInv' /\ Keeps
<1>1. log[s] \in Seq(Batch) /\ <<b>> \in Seq(Batch)
    BY DEF TypeOK, Chain
<1>2. log' = [log EXCEPT ![s] = @ \o <<b>>] /\ <<b>> \in Chain
    BY <1>1, AppendIsConcat DEF PostToSequencer, Chain
<1>3. log' \in [Node -> Chain] /\ LogInv' /\ Keeps
    BY <1>2, AppendStep DEF PostToSequencer
<1>4. TypeOK'
    BY <1>3 DEF TypeOK, PostToSequencer, syncVars, switchVars
<1> QED
    BY <1>3, <1>4

(* What is posted is a sequence of bodies. *)
LEMMA BodiesAreChains ==
    ASSUME NEW bodies \in Bodies
    PROVE  bodies \in Chain
<1>1. PICK k \in 0..MaxPost : bodies \in [1..k -> Batch]
    BY DEF Bodies
<1>2. k \in Nat
    BY BoundAssumption
<1> QED
    BY <1>1, <1>2, SeqDef DEF Chain

LEMMA PutFailsStep ==
    ASSUME TypeOK, LogInv, NEW n \in Node, NEW bodies \in Bodies, PutFails(n, bodies)
    PROVE  TypeOK' /\ LogInv' /\ Keeps
<1>1. bodies \in Chain /\ sequencer[n] \in Node
    BY BodiesAreChains DEF TypeOK
<1>2. log' \in [Node -> Chain] /\ LogInv' /\ Keeps
    BY <1>1, AppendStep DEF PutFails
<1>3. TypeOK'
    BY <1>2 DEF TypeOK, PutFails, syncVars, switchVars
<1> QED
    BY <1>2, <1>3

(* The answer to a PUT has its type. *)
LEMMA PutAnsweredStep ==
    ASSUME TypeOK, LogInv, NEW n \in Node, NEW bodies \in Bodies, NEW fins \in Seq(Sig),
           PutAnswered(n, bodies, fins)
    PROVE  TypeOK' /\ LogInv' /\ Keeps
<1> DEFINE s == sequencer[n]
           l == log[s] \o bodies
           answer == reply'[n]
<1>1. bodies \in Chain /\ s \in Node
    BY BodiesAreChains DEF TypeOK
<1>2. log' \in [Node -> Chain] /\ LogInv' /\ Keeps
  <2>1. log' = [log EXCEPT ![s] = @ \o bodies] /\ UNCHANGED <<locked, certs>>
    BY DEF PutAnswered, TypeOK
  <2> QED
    BY <1>1, <2>1, AppendStep
<1>3. answer \in Answer
  <2>1. l \in Chain /\ Len(l) \in Nat /\ Len(log[n]) \in Nat
    BY <1>1, ConcatProperties, LenProperties DEF TypeOK, Chain
  <2>2. SubSeq(l, Len(log[n]) + 1, Len(l)) \in Chain
    <3>1. \A i \in Len(log[n]) + 1 .. Len(l) : l[i] \in Batch
      BY <2>1, ElementOfSeq DEF Chain
    <3> HIDE DEF l
    <3> QED
      BY <2>1, <3>1, SubSeqProperties DEF Chain
  <2>3. lockSig[s] \in Sig
    BY <1>1 DEF TypeOK
  <2>4. (IF locked[s] = 0 THEN 0 ELSE LockParent(s)) \in Nat
    <3>1. CASE locked[s] # 0 /\ Finalized(s) = locked[s]
      <4>1. certs[s] \in Seq([chain : Seq(Batch), parent : Nat])
        BY <1>1 DEF TypeOK, Sig, Chain
      <4>2. Len(certs[s]) \in 1..Len(certs[s])
        BY <3>1, <4>1, LastIndexProperties DEF Finalized
      <4>3. certs[s][Len(certs[s])] \in [chain : Seq(Batch), parent : Nat]
        BY <4>1, <4>2, ElementOfSeq
      <4> QED
        BY <3>1, <4>3 DEF LockParent
    <3>2. CASE Finalized(s) # locked[s]
      BY <2>3, <3>2 DEF LockParent, Sig
    <3>3. CASE locked[s] = 0
      BY <3>3
    <3> QED
      BY <3>1, <3>2, <3>3
  <2>5. answer = [kind   |-> "put",
                  after  |-> Len(log[n]),
                  bodies |-> SubSeq(l, Len(log[n]) + 1, Len(l)),
                  lock   |-> lockSig[s],
                  parent |-> IF locked[s] = 0 THEN 0 ELSE LockParent(s),
                  fins   |-> fins]
    BY DEF PutAnswered, TypeOK
  <2> HIDE DEF l, answer
  <2> QED
    BY <2>1, <2>2, <2>3, <2>4, <2>5 DEF Answer
<1>4. reply' \in [Node -> {NoReply} \cup Answer]
  <2>1. reply' = [reply EXCEPT ![n] = answer]
    BY DEF PutAnswered, TypeOK
  <2> HIDE DEF answer
  <2> QED
    BY <1>3, <2>1 DEF TypeOK
<1>5. seqState' \in [Node -> [Node -> Chain]] /\ lckState' \in [Node -> [Node -> Chain]]
  <2>1. log[n] \in Chain /\ LockedChain(n) \in Chain
    BY LockedChainProperties DEF TypeOK
  <2> QED
    BY <1>1, <2>1 DEF PutAnswered, TypeOK
<1>6. TypeOK'
    BY <1>2, <1>4, <1>5 DEF TypeOK, PutAnswered, switchVars
<1> QED
    BY <1>2, <1>6

LEMMA PutStep ==
    ASSUME TypeOK, LogInv, NEW n \in Node, NEW bodies \in Bodies, Put(n, bodies)
    PROVE  TypeOK' /\ LogInv' /\ Keeps
<1> DEFINE fins == FinalizedAfter(certs[sequencer[n]], Finalized(n))
<1>1. fins \in Seq(Sig)
    BY FinalizedProperties, FinalizedAfterProperties DEF TypeOK
<1>2. PutAnswered(n, bodies, fins)
    BY DEF Put
<1> QED
    BY <1>1, <1>2, PutAnsweredStep

(* A lock that is accepted is about batches of the log, above the last one. *)
LEMMA CanLockProperties ==
    ASSUME NEW l \in Chain, NEW lck \in Nat, NEW cs, NEW sig \in Sig, NEW parent,
           CanLock(l, lck, cs, sig, parent)
    PROVE  Len(sig.chain) \in Nat /\ Len(sig.chain) > lck /\ Len(sig.chain) <= Len(l)
<1>1. sig.chain \in Seq(Batch)
    BY DEF Sig, Chain
<1> QED
    BY <1>1, LenProperties DEF CanLock, Contains

(* After an answer: everything finalized is part of the log, and at or     *)
(* below the last finalized index or the lock that the node had.           *)
LEMMA AcceptedBounds ==
    ASSUME TypeOK, LogInv, NEW n \in Node, NEW l \in Chain, Contains(l, LockedChain(n)),
           NEW fins \in Seq(Sig), NEW cs \in Accepted(l, certs[n], fins)
    PROVE  /\ LastIndex(cs) \in Nat
           /\ LastIndex(cs) <= locked[n] \/ LastIndex(cs) <= Len(l)
           /\ \A k \in 1..Len(cs) : Len(cs[k].chain) <= locked[n]
                                   \/ Len(cs[k].chain) <= LastIndex(cs)
<1> DEFINE old == certs[n]
<1>1. old \in Seq(Sig) /\ locked[n] \in Nat /\ Len(old) \in Nat
    BY LenProperties DEF TypeOK
<1>2. /\ cs \in Seq(Sig)
      /\ Len(cs) >= Len(old)
      /\ \A k \in 1..Len(old) : cs[k] = old[k]
      /\ \A k \in Len(old) + 1 .. Len(cs) :
           /\ Contains(l, cs[k].chain)
           /\ Len(cs[k].chain) > LastIndex(SubSeq(cs, 1, k - 1))
  <2>1. old \in Seq(Sig) /\ fins \in Seq(Sig) /\ cs \in Accepted(l, old, fins)
    BY <1>1
  <2> HIDE DEF old
  <2>2. /\ cs \in Seq(Sig)
        /\ Len(cs) >= Len(old)
        /\ \A k \in 1..Len(old) : cs[k] = old[k]
        /\ \A k \in Len(old) + 1 .. Len(cs) :
             /\ \E j \in 1..Len(fins) : cs[k] = fins[j]
             /\ Contains(l, cs[k].chain)
             /\ Len(cs[k].chain) > LastIndex(SubSeq(cs, 1, k - 1))
    BY <2>1, AcceptedProperties, Zenon
  <2> QED
    BY <2>2
<1>3. cs \in Seq([chain : Seq(Batch), parent : Nat]) /\ Len(cs) \in Nat
    BY <1>2, LenProperties DEF Sig, Chain
<1>4. \A k \in 1..Len(old) : Len(old[k].chain) <= locked[n]
    BY DEF LogInv, Holds
<1> HIDE DEF old
<1>5. /\ LastIndex(cs) \in Nat
      /\ cs # << >> => /\ Len(cs) \in 1..Len(cs)
                       /\ LastIndex(cs) = Len(cs[Len(cs)].chain)
      /\ LastIndex(cs) # 0 => cs # << >>
    BY <1>3, LastIndexProperties
<1>6. LastIndex(cs) <= locked[n] \/ LastIndex(cs) <= Len(l)
  <2>1. CASE LastIndex(cs) = 0
    BY <1>1, <2>1
  <2>2. CASE LastIndex(cs) # 0 /\ Len(cs) \in 1..Len(old)
    BY <1>2, <1>4, <1>5, <2>2
  <2>3. CASE LastIndex(cs) # 0 /\ Len(cs) \notin 1..Len(old)
    <3>1. Len(cs) \in Len(old) + 1 .. Len(cs)
      BY <1>1, <1>3, <1>5, <2>3
    <3> QED
      BY <1>2, <1>5, <2>3, <3>1 DEF Contains
  <2> QED
    BY <2>1, <2>2, <2>3
<1>7. \A k \in 1..Len(cs) : k <= Len(old) => Len(cs[k].chain) <= locked[n]
    BY <1>1, <1>2, <1>3, <1>4
<1>8. \A k \in 1..Len(cs) : k > Len(old) /\ k > 1 =>
          Len(cs[k].chain) > LastIndex(SubSeq(cs, 1, k - 1))
  <2>1. \A k \in 1..Len(cs) : k > Len(old) => k \in Len(old) + 1 .. Len(cs)
    BY <1>1, <1>3
  <2> QED
    BY <1>2, <2>1
<1>9. \A k \in 1..Len(cs) : Len(cs[k].chain) <= locked[n]
                            \/ Len(cs[k].chain) <= LastIndex(cs)
    BY <1>1, <1>3, <1>7, <1>8, LastIndexBounds
<1> QED
    BY <1>5, <1>6, <1>9

LEMMA ReceiveReplyStep ==
    ASSUME TypeOK, LogInv, NEW n \in Node, ReceiveReply(n)
    PROVE  TypeOK' /\ LogInv' /\ Keeps
<1> DEFINE r == reply[n]
           l == log[n] \o r.bodies
           locks == r.lock # NoSig /\ CanLock(l, locked[n], certs[n], r.lock, r.parent)
           lck == IF locks THEN Len(r.lock.chain) ELSE locked[n]
           sig == IF locks THEN r.lock ELSE lockSig[n]
<1>1. r \in Answer
    BY DEF ReceiveReply, TypeOK
<1>2. /\ r.bodies \in Chain /\ r.lock \in Sig /\ r.fins \in Seq(Sig)
      /\ log[n] \in Chain /\ locked[n] \in Nat /\ certs[n] \in Seq(Sig)
      /\ lockSig[n] \in Sig
    BY <1>1 DEF Answer, TypeOK
<1>3. PICK cs \in Accepted(l, certs[n], r.fins) :
          /\ certs' = [certs EXCEPT ![n] = cs]
          /\ locked' = [locked EXCEPT ![n] = IF LastIndex(cs) > lck
                                             THEN LastIndex(cs) ELSE lck]
          /\ lockSig' = [lockSig EXCEPT ![n] = IF LastIndex(cs) > lck
                                               THEN NoSig ELSE sig]
    BY DEF ReceiveReply
<1>4. /\ log' = [log EXCEPT ![n] = l]
      /\ reply' = [reply EXCEPT ![n] = NoReply]
      /\ UNCHANGED <<sequencer, phase, task, syncVars, switchVars>>
    BY DEF ReceiveReply
<1>5. /\ l \in Chain /\ Len(l) \in Nat /\ Len(log[n]) \in Nat
      /\ Len(l) >= Len(log[n])
  <2>1. log[n] \in Seq(Batch) /\ r.bodies \in Seq(Batch)
    BY <1>2 DEF Chain
  <2>2. l \in Seq(Batch)
    BY <2>1, ConcatProperties
  <2>3. Len(log[n]) \in Nat /\ Len(l) \in Nat /\ Len(l) >= Len(log[n])
    BY <2>1, ConcatLength
  <2> QED
    BY <2>2, <2>3 DEF Chain
<1>6. Contains(l, LockedChain(n))
    BY <1>2, LockedChainProperties, ContainsConcat DEF Chain
<1>7. lck \in Nat /\ lck >= locked[n] /\ lck <= Len(l)
  <2>1. CASE locks
    <3>1. Len(r.lock.chain) \in Nat /\ Len(r.lock.chain) > locked[n]
          /\ Len(r.lock.chain) <= Len(l)
      BY <1>2, <1>5, <2>1, CanLockProperties
    <3>2. lck = Len(r.lock.chain)
      BY <2>1
    <3> HIDE DEF lck, locks, l
    <3> QED
      BY <1>2, <3>1, <3>2
  <2>2. CASE ~ locks
    <3>1. lck = locked[n]
      BY <2>2
    <3>2. locked[n] <= Len(log[n])
      BY DEF LogInv
    <3> HIDE DEF lck, locks, l
    <3> QED
      BY <1>2, <1>5, <3>1, <3>2
  <2> QED
    BY <2>1, <2>2
<1>8. sig \in Sig /\ NoSig \in Sig
    BY <1>2, EmptySeq DEF Sig, NoSig, Chain
<1> HIDE DEF l, lck, sig, locks
<1>9. /\ cs \in Seq(Sig)
      /\ \A k \in 1..Len(certs[n]) : cs[k] = certs[n][k]
      /\ \A k \in Len(certs[n]) + 1 .. Len(cs) : Contains(l, cs[k].chain)
  <2>1. /\ cs \in Seq(Sig)
        /\ Len(cs) >= Len(certs[n])
        /\ \A k \in 1..Len(certs[n]) : cs[k] = certs[n][k]
        /\ \A k \in Len(certs[n]) + 1 .. Len(cs) :
             /\ \E j \in 1..Len(r.fins) : cs[k] = r.fins[j]
             /\ Contains(l, cs[k].chain)
             /\ Len(cs[k].chain) > LastIndex(SubSeq(cs, 1, k - 1))
    BY <1>2, AcceptedProperties, Zenon
  <2> QED
    BY <2>1
<1>10. /\ LastIndex(cs) \in Nat
       /\ LastIndex(cs) <= locked[n] \/ LastIndex(cs) <= Len(l)
       /\ \A k \in 1..Len(cs) : Len(cs[k].chain) <= locked[n]
                                \/ Len(cs[k].chain) <= LastIndex(cs)
    BY <1>2, <1>5, <1>6, AcceptedBounds
<1> DEFINE new == IF LastIndex(cs) > lck THEN LastIndex(cs) ELSE lck
<1>11. new \in Nat /\ new >= locked[n] /\ new <= Len(l) /\ new >= LastIndex(cs)
    BY <1>2, <1>5, <1>7, <1>10
<1>12. ASSUME NEW k \in 1..Len(cs)
       PROVE  \/ k \in 1..Len(certs[n]) /\ cs[k] = certs[n][k]
              \/ Len(cs[k].chain) <= new /\ Contains(l, cs[k].chain)
  <2>1. CASE k \in 1..Len(certs[n])
    BY <1>9, <2>1
  <2>2. CASE k \notin 1..Len(certs[n])
    <3>1. k \in Len(certs[n]) + 1 .. Len(cs)
      BY <1>2, <2>2, LenProperties
    <3>2. Len(cs[k].chain) \in Nat
      <4>1. cs[k] \in [chain : Seq(Batch), parent : Nat]
        BY <1>9, ElementOfSeq DEF Sig, Chain
      <4>2. cs[k].chain \in Seq(Batch)
        BY <4>1
      <4> QED
        BY <4>2, LenProperties
    <3>3. Len(cs[k].chain) <= new
      <4> HIDE DEF new
      <4> QED
        BY <1>2, <1>10, <1>11, <3>2
    <3> QED
      BY <1>9, <3>1, <3>3
  <2> QED
    BY <2>1, <2>2
<1>13. locked' = [locked EXCEPT ![n] = new]
    BY <1>3
<1> HIDE DEF new
<1>14. LogInv' /\ Keeps
    BY <1>3, <1>4, <1>5, <1>6, <1>9, <1>11, <1>12, <1>13, NodeStep
<1>15. TypeOK'
  <2>1. lockSig' \in [Node -> Sig]
    BY <1>3, <1>8 DEF TypeOK
  <2>2. /\ log' \in [Node -> Chain] /\ locked' \in [Node -> Nat]
        /\ certs' \in [Node -> Seq(Sig)]
        /\ reply' \in [Node -> {NoReply} \cup Answer]
    BY <1>3, <1>4, <1>5, <1>9, <1>11, <1>13 DEF TypeOK
  <2> QED
    BY <1>4, <2>1, <2>2 DEF TypeOK, syncVars, switchVars
<1> QED
    BY <1>14, <1>15

LEMMA SyncAppStep ==
    ASSUME TypeOK, LogInv, NEW s \in Node, SyncApp(s)
    PROVE  TypeOK' /\ LogInv' /\ Keeps
<1>1. PICK t \in FirstTasks(s) : t # Idle /\ task' = [task EXCEPT ![s] = t]
    BY DEF SyncApp
<1>2. t \in {Idle} \cup Round
    BY FinalizedProperties, FirstTasksType
<1>3. LogInv' /\ Keeps
    BY NodeStutter DEF SyncApp
<1>4. TypeOK'
    BY <1>1, <1>2 DEF TypeOK, SyncApp, nodeVars, syncVars, switchVars
<1> QED
    BY <1>3, <1>4

LEMMA SignSyncPointStep ==
    ASSUME TypeOK, LogInv, NEW s \in Node, NEW m \in Node, SignSyncPoint(s, m)
    PROVE  TypeOK' /\ LogInv' /\ Keeps
<1>1. task[s] \in Round
    BY DEF SignSyncPoint, TypeOK
<1>2. task' = [task EXCEPT ![s] = [task[s] EXCEPT !.signers = task[s].signers \cup {m}]]
    BY DEF SignSyncPoint, TypeOK
<1>3. [task[s] EXCEPT !.signers = task[s].signers \cup {m}] \in Round
    BY <1>1 DEF Round
<1>4. LogInv' /\ Keeps
    BY NodeStutter DEF SignSyncPoint
<1>5. TypeOK'
    BY <1>2, <1>3 DEF TypeOK, SignSyncPoint, nodeVars, syncVars, switchVars
<1> QED
    BY <1>4, <1>5

LEMMA GatherFailsStep ==
    ASSUME TypeOK, LogInv, NEW s \in Node, GatherFails(s)
    PROVE  TypeOK' /\ LogInv' /\ Keeps
<1>1. task[s] \in Round
    BY DEF GatherFails, TypeOK
<1>2. PICK t \in IF task[s].kind = "lock" THEN FinTasks(s, task[s].parent)
                                          ELSE {Idle} :
          task' = [task EXCEPT ![s] = t]
    BY DEF GatherFails
<1>3. task[s].parent \in Nat
    BY <1>1 DEF Round
<1>4. t \in {Idle} \cup Round
    BY <1>3, FinTasksType
<1>5. LogInv' /\ Keeps
    BY NodeStutter DEF GatherFails
<1>6. TypeOK'
    BY <1>2, <1>4 DEF TypeOK, GatherFails, nodeVars, syncVars, switchVars
<1> QED
    BY <1>5, <1>6

LEMMA AggregateLockStep ==
    ASSUME TypeOK, LogInv, NEW s \in Node, AggregateLock(s)
    PROVE  TypeOK' /\ LogInv' /\ Keeps
<1> DEFINE sig == [chain |-> task[s].chain, parent |-> task[s].parent]
           locks == CanLock(log[s], locked[s], certs[s], sig, sig.parent)
           lck == IF locks THEN Len(sig.chain) ELSE locked[s]
<1>1. task[s] \in Round /\ sig \in Sig
    BY DEF AggregateLock, Aggregated, TypeOK, Round, Sig
<1>2. /\ lockPoint' = [lockPoint EXCEPT ![s] = sig.chain]
      /\ locked' = [locked EXCEPT ![s] = lck]
      /\ lockSig' = [lockSig EXCEPT ![s] = IF locks THEN sig ELSE lockSig[s]]
      /\ UNCHANGED <<log, certs, sequencer, phase, reply, seqState, lckState,
                     finPoint, switchVars>>
    BY DEF AggregateLock, TypeOK
<1>3. PICK t \in FinTasks(s, sig.parent) : task' = [task EXCEPT ![s] = t]
    BY DEF AggregateLock
<1>4. t \in {Idle} \cup Round
  <2>1. sig.parent \in Nat
    BY <1>1 DEF Sig
  <2> QED
    BY <2>1, FinTasksType
<1>5. log[s] \in Chain /\ locked[s] \in Nat /\ certs[s] \in Seq(Sig)
    BY DEF TypeOK
<1>6. lck \in Nat /\ lck >= locked[s] /\ lck <= Len(log[s])
  <2>1. CASE locks
    <3>1. Len(sig.chain) \in Nat /\ Len(sig.chain) > locked[s]
          /\ Len(sig.chain) <= Len(log[s])
      <4> HIDE DEF sig
      <4> QED
        BY <1>1, <1>5, <2>1, CanLockProperties
    <3>2. lck = Len(sig.chain)
      BY <2>1
    <3> HIDE DEF lck, sig, locks
    <3> QED
      BY <1>5, <3>1, <3>2
  <2>2. CASE ~ locks
    <3>1. lck = locked[s] /\ locked[s] <= Len(log[s])
      BY <2>2 DEF LogInv
    <3> HIDE DEF lck, sig, locks
    <3> QED
      BY <1>5, <3>1
  <2> QED
    BY <2>1, <2>2
<1>7. Contains(log[s], LockedChain(s))
    BY LockedChainProperties
<1>8. log' = [log EXCEPT ![s] = log[s]] /\ certs' = [certs EXCEPT ![s] = certs[s]]
    BY <1>2 DEF TypeOK
<1> HIDE DEF lck, sig, locks
<1>9. LogInv' /\ Keeps
    BY <1>2, <1>5, <1>6, <1>7, <1>8, NodeStep
<1>10. TypeOK'
  <2>1. sig.chain \in Chain /\ (IF locks THEN sig ELSE lockSig[s]) \in Sig
    BY <1>1 DEF Sig, TypeOK
  <2> QED
    BY <1>2, <1>3, <1>4, <1>6, <2>1 DEF TypeOK, switchVars
<1> QED
    BY <1>9, <1>10

LEMMA AggregateFinStep ==
    ASSUME TypeOK, LogInv, NEW s \in Node, AggregateFin(s)
    PROVE  TypeOK' /\ LogInv' /\ Keeps
<1> DEFINE sig == [chain |-> task[s].chain, parent |-> task[s].parent]
           fits == CanFinalize(log[s], certs[s], sig)
           lck == IF fits /\ Len(sig.chain) > locked[s] THEN Len(sig.chain) ELSE locked[s]
           cs == IF fits THEN Append(certs[s], sig) ELSE certs[s]
<1>1. task[s] \in Round /\ sig \in Sig
    BY DEF AggregateFin, Aggregated, TypeOK, Round, Sig
<1>2. /\ finPoint' = [finPoint EXCEPT ![s] = sig.chain]
      /\ certs' = [certs EXCEPT ![s] = cs]
      /\ locked' = [locked EXCEPT ![s] = lck]
      /\ lockSig' = [lockSig EXCEPT ![s] = IF fits /\ Len(sig.chain) > locked[s]
                                           THEN NoSig ELSE lockSig[s]]
      /\ task' = [task EXCEPT ![s] = Idle]
      /\ UNCHANGED <<log, sequencer, phase, reply, seqState, lckState,
                     lockPoint, switchVars>>
    BY DEF AggregateFin, TypeOK
<1>3. log[s] \in Chain /\ locked[s] \in Nat /\ certs[s] \in Seq(Sig)
    BY DEF TypeOK
<1>4. sig.chain \in Chain /\ Len(sig.chain) \in Nat
    BY <1>1, LenProperties DEF Sig, Chain
<1>5. fits => Contains(log[s], sig.chain) /\ Len(sig.chain) <= Len(log[s])
    BY DEF CanFinalize, Contains
<1>6. lck \in Nat /\ lck >= locked[s] /\ lck <= Len(log[s])
      /\ (fits => Len(sig.chain) <= lck)
  <2>1. locked[s] <= Len(log[s])
    BY DEF LogInv
  <2> HIDE DEF sig, fits
  <2> QED
    BY <1>3, <1>4, <1>5, <2>1
<1>7. /\ cs \in Seq(Sig)
      /\ \A k \in 1..Len(cs) : \/ k \in 1..Len(certs[s]) /\ cs[k] = certs[s][k]
                               \/ fits /\ cs[k] = sig
  <2>1. CASE fits
    <3>1. /\ cs \in Seq(Sig) /\ Len(cs) = Len(certs[s]) + 1 /\ Len(certs[s]) \in Nat
          /\ \A k \in 1..Len(certs[s]) : cs[k] = certs[s][k]
          /\ cs[Len(certs[s]) + 1] = sig
      BY <1>1, <1>3, <2>1, AppendProperties, LenProperties
    <3> HIDE DEF cs, sig, fits
    <3> QED
      BY <2>1, <3>1
  <2>2. CASE ~ fits
    BY <1>3, <2>2
  <2> QED
    BY <2>1, <2>2
<1>8. Contains(log[s], LockedChain(s))
    BY LockedChainProperties
<1>9. log' = [log EXCEPT ![s] = log[s]]
    BY <1>2 DEF TypeOK
<1> HIDE DEF lck, sig, fits, cs
<1>10. \A k \in 1..Len(cs) :
           \/ k \in 1..Len(certs[s]) /\ cs[k] = certs[s][k]
           \/ Len(cs[k].chain) <= lck /\ Contains(log[s], cs[k].chain)
    BY <1>5, <1>6, <1>7
<1>11. LogInv' /\ Keeps
    BY <1>2, <1>3, <1>6, <1>7, <1>8, <1>9, <1>10, NodeStep
<1>12. TypeOK'
  <2>1. NoSig \in Sig
    BY EmptySeq DEF Sig, NoSig, Chain
  <2> QED
    BY <1>2, <1>4, <1>6, <1>7, <2>1 DEF TypeOK, switchVars
<1> QED
    BY <1>11, <1>12

LEMMA LoseReplyStep ==
    ASSUME TypeOK, LogInv, NEW n \in Node, LoseReply(n)
    PROVE  TypeOK' /\ LogInv' /\ Keeps
<1>1. LogInv' /\ Keeps
    BY NodeStutter DEF LoseReply
<1>2. TypeOK'
    BY DEF TypeOK, LoseReply, nodeVars, syncVars, switchVars
<1> QED
    BY <1>1, <1>2

LEMMA BeginSwitchStep ==
    ASSUME TypeOK, LogInv, NEW n \in Node, Dispute(n) \/ PostSwitch(n)
    PROVE  TypeOK' /\ LogInv' /\ Keeps
<1>1. BeginSwitch(n)
    BY DEF Dispute, PostSwitch
<1>2. NextSequencer(sequencer[n]) \in Node /\ sequencer[n] \in Node
    BY NextSequencerType DEF TypeOK
<1>3. LogInv' /\ Keeps
    BY <1>1, NodeStutter DEF BeginSwitch
<1>4. sequencer' \in [Node -> Node] /\ phase' \in [Node -> {"run", "query", "wait"}]
    BY <1>1, <1>2 DEF BeginSwitch, TypeOK
<1>5. disputed' \in SUBSET Node /\ inbox' \in [Node -> SUBSET Node]
  <2>1. CASE Dispute(n)
    BY <1>2, <2>1 DEF Dispute, TypeOK
  <2>2. CASE PostSwitch(n)
    BY <2>2 DEF PostSwitch, TypeOK
  <2> QED
    BY <2>1, <2>2
<1>6. TypeOK'
    BY <1>1, <1>4, <1>5 DEF TypeOK, BeginSwitch, nodeVars, syncVars
<1> QED
    BY <1>3, <1>6

LEMMA SwitchAdoptStep ==
    ASSUME TypeOK, LogInv, NEW n \in Node, NEW m \in Node, SwitchAdopt(n, m)
    PROVE  TypeOK' /\ LogInv' /\ Keeps
<1> DEFINE bodies == SubSeq(log[m], locked[n] + 1, Len(log[m]))
<1>1. bodies \in Chain
  <2>1. log[m] \in Seq(Batch) /\ Len(log[m]) \in Nat /\ locked[n] \in Nat
    BY LenProperties DEF TypeOK, Chain
  <2>2. \A i \in locked[n] + 1 .. Len(log[m]) : log[m][i] \in Batch
    BY <2>1, ElementOfSeq
  <2> QED
    BY <2>1, <2>2, SubSeqProperties DEF Chain
<1>2. log' = [log EXCEPT ![n] = KeptLog(n) \o bodies] /\ UNCHANGED <<locked, certs>>
    BY DEF SwitchAdopt
<1> HIDE DEF bodies
<1>3. log' \in [Node -> Chain] /\ LogInv' /\ Keeps
    BY <1>1, <1>2, CutStep
<1>4. TypeOK'
    BY <1>3 DEF TypeOK, SwitchAdopt, syncVars, switchVars
<1> QED
    BY <1>3, <1>4

(* Forgetting the reports leaves empty ones. *)
LEMMA ForgetNodesStateType ==
    ASSUME TypeOK, NEW n \in Node, ForgetNodesState(n)
    PROVE  /\ seqState' \in [Node -> [Node -> Chain]]
           /\ lckState' \in [Node -> [Node -> Chain]]
           /\ lockPoint' \in [Node -> Chain]
           /\ finPoint' \in [Node -> Chain]
<1>1. << >> \in Chain
    BY EmptySeq DEF Chain
<1> QED
    BY <1>1 DEF ForgetNodesState, TypeOK

LEMMA SwitchCutStep ==
    ASSUME TypeOK, LogInv, NEW n \in Node,
           \/ \E m \in Node : SwitchAbort(n, m)
           \/ SwitchReinit(n)
    PROVE  TypeOK' /\ LogInv' /\ Keeps
<1>1. log' = [log EXCEPT ![n] = KeptLog(n)] /\ UNCHANGED <<locked, certs>>
    BY DEF SwitchAbort, SwitchReinit
<1>2. log' \in [Node -> Chain] /\ LogInv' /\ Keeps
    BY <1>1, CutOnlyStep
<1>3. CASE \E m \in Node : SwitchAbort(n, m)
    BY <1>2, <1>3 DEF TypeOK, SwitchAbort, syncVars, switchVars
<1>4. CASE SwitchReinit(n)
  <2>1. /\ seqState' \in [Node -> [Node -> Chain]]
        /\ lckState' \in [Node -> [Node -> Chain]]
        /\ lockPoint' \in [Node -> Chain]
        /\ finPoint' \in [Node -> Chain]
        /\ phase' \in [Node -> {"run", "query", "wait"}]
    <3>1. CASE sequencer[n] = n
      BY <1>4, <3>1, ForgetNodesStateType DEF SwitchReinit, TypeOK
    <3>2. CASE sequencer[n] # n
      BY <1>4, <3>2 DEF SwitchReinit, TypeOK, syncVars
    <3> QED
      BY <3>1, <3>2
  <2> QED
    BY <1>2, <1>4, <2>1 DEF TypeOK, SwitchReinit, switchVars
<1> QED
    BY <1>2, <1>3, <1>4

LEMMA SwitchResumeStep ==
    ASSUME TypeOK, LogInv, NEW n \in Node, SwitchResume(n)
    PROVE  TypeOK' /\ LogInv' /\ Keeps
<1>1. LogInv' /\ Keeps
    BY NodeStutter DEF SwitchResume
<1>2. /\ seqState' \in [Node -> [Node -> Chain]]
      /\ lckState' \in [Node -> [Node -> Chain]]
      /\ lockPoint' \in [Node -> Chain]
      /\ finPoint' \in [Node -> Chain]
    BY ForgetNodesStateType DEF SwitchResume
<1>3. TypeOK'
    BY <1>2 DEF TypeOK, SwitchResume, nodeVars, switchVars
<1> QED
    BY <1>1, <1>3

LEMMA ResetSequencerStep ==
    ASSUME TypeOK, LogInv, NEW n \in Node, NEW c \in Node, ResetSequencer(n, c)
    PROVE  TypeOK' /\ LogInv' /\ Keeps
<1>1. log' = [log EXCEPT ![n] = KeptLog(n)] /\ UNCHANGED <<locked, certs>>
    BY DEF ResetSequencer
<1>2. log' \in [Node -> Chain] /\ LogInv' /\ Keeps
    BY <1>1, CutOnlyStep
<1>3. /\ seqState' \in [Node -> [Node -> Chain]]
      /\ lckState' \in [Node -> [Node -> Chain]]
      /\ lockPoint' \in [Node -> Chain]
      /\ finPoint' \in [Node -> Chain]
    BY ForgetNodesStateType DEF ResetSequencer
<1>4. sequencer' \in [Node -> Node]
    BY DEF ResetSequencer, TypeOK
<1>5. TypeOK'
    BY <1>2, <1>3, <1>4 DEF TypeOK, ResetSequencer, switchVars
<1> QED
    BY <1>2, <1>5

-----------------------------------------------------------------------------
(************************ Types and locked batches *************************)

LEMMA InitLog == Init => TypeOK /\ LogInv
<1> SUFFICES ASSUME Init PROVE TypeOK /\ LogInv
    OBVIOUS
<1>1. << >> \in Seq(Batch) /\ << >> \in Seq(Sig) /\ Len(<< >>) = 0
    BY EmptySeq
<1>2. InitSequencer \in Node
    BY RingAssumption
<1>3. TypeOK
    BY <1>1, <1>2 DEF Init, TypeOK, Chain, Sig, NoSig
<1>4. LogInv
    BY <1>1 DEF Init, LogInv
<1> QED
    BY <1>3, <1>4

(* One step of one node, or none. *)
LEMMA NextLog ==
    ASSUME TypeOK, LogInv, [Next]_vars
    PROVE  TypeOK' /\ LogInv' /\ Keeps
<1>1. CASE UNCHANGED vars
  <2>1. LogInv' /\ Keeps
    BY <1>1, NodeStutter DEF vars
  <2>2. TypeOK'
    BY <1>1 DEF TypeOK, vars, nodeVars, syncVars, switchVars
  <2> QED
    BY <2>1, <2>2
<1>2. ASSUME NEW n \in Node, NEW b \in Batch, PostToSequencer(n, b)
      PROVE  TypeOK' /\ LogInv' /\ Keeps
    BY <1>2, PostToSequencerStep
<1>3. ASSUME NEW n \in Node, NEW bodies \in Bodies, Put(n, bodies)
      PROVE  TypeOK' /\ LogInv' /\ Keeps
    BY <1>3, PutStep
<1>4. ASSUME NEW n \in Node, NEW bodies \in Bodies, PutFails(n, bodies)
      PROVE  TypeOK' /\ LogInv' /\ Keeps
    BY <1>4, PutFailsStep
<1>5. ASSUME NEW s \in Node, NEW m \in Node, SignSyncPoint(s, m)
      PROVE  TypeOK' /\ LogInv' /\ Keeps
    BY <1>5, SignSyncPointStep
<1>6. ASSUME NEW n \in Node, NEW m \in Node, SwitchAdopt(n, m)
      PROVE  TypeOK' /\ LogInv' /\ Keeps
    BY <1>6, SwitchAdoptStep
<1>7. ASSUME NEW n \in Node, (\E m \in Node : SwitchAbort(n, m)) \/ SwitchReinit(n)
      PROVE  TypeOK' /\ LogInv' /\ Keeps
    BY <1>7, SwitchCutStep
<1>8. ASSUME NEW n \in Node, NEW c \in Node, ResetSequencer(n, c)
      PROVE  TypeOK' /\ LogInv' /\ Keeps
    BY <1>8, ResetSequencerStep
<1>9. ASSUME NEW n \in Node,
             \/ ReceiveReply(n) \/ LoseReply(n) \/ SyncApp(n)
             \/ AggregateLock(n) \/ AggregateFin(n) \/ GatherFails(n)
             \/ Dispute(n) \/ PostSwitch(n) \/ SwitchResume(n)
      PROVE  TypeOK' /\ LogInv' /\ Keeps
    BY <1>9, ReceiveReplyStep, LoseReplyStep, SyncAppStep, AggregateLockStep,
       AggregateFinStep, GatherFailsStep, BeginSwitchStep, SwitchResumeStep
<1>10. CASE Next
    BY <1>2, <1>3, <1>4, <1>5, <1>6, <1>7, <1>8, <1>9, <1>10 DEF Next
<1> QED
    BY <1>1, <1>10

(* The variables always hold values of their types, and what a node has    *)
(* locked and finalized is always part of its log.                         *)
THEOREM TypeCorrect == Spec => [](TypeOK /\ LogInv)
<1>1. Init => TypeOK /\ LogInv
    BY InitLog
<1>2. (TypeOK /\ LogInv) /\ [Next]_vars => (TypeOK /\ LogInv)'
    BY NextLog
<1> QED
    BY <1>1, <1>2, PTL DEF Spec

(* No step of a node, of a sequencer or of a switch takes away a batch     *)
(* that a node has locked, or changes one.                                 *)
THEOREM LocksKept == Spec => LockedPreserved
<1>1. TypeOK /\ LogInv /\ [Next]_vars => [Keeps]_vars
    BY NextLog
<1>2. [Keeps]_vars <=> [\A n \in Node : /\ locked'[n] >= locked[n]
                                        /\ Contains(log'[n], LockedChain(n))]_vars
    BY DEF Keeps
<1> QED
    BY <1>1, <1>2, TypeCorrect, PTL DEF Spec, LockedPreserved

-----------------------------------------------------------------------------
(************************* Finalized batches stay ***************************)

(* Node m, or a quorum, is locked on c after a step. *)
HoldsNext(m, c) == Len(c) <= locked'[m] /\ Contains(log'[m], c)
HeldNext(S, c) == \E Q \in Quorum : \A m \in Q \cap S : HoldsNext(m, c)

(* How a step may change the signatures of a node, the answer that it      *)
(* waits for and the round of a sequencer: an answer has signatures of the *)
(* node that gives it, and a round that starts has no signers.             *)
CertsStep(n) == certs'[n] = certs[n] \/ ReceiveReply(n) \/ AggregateFin(n)

FinsOf(s, n) == {FinalizedAfter(certs[s], Finalized(n)),
                 FinalizedAfterKnown(certs[s], Finalized(n))}

ReplyStep(n) ==
    \/ reply'[n] = reply[n] \/ reply'[n] = NoReply
    \/ \E s \in Node : reply'[n].fins \in FinsOf(s, n)

TaskStep(s) ==
    \/ task'[s] = task[s] \/ task'[s] = Idle \/ task'[s].signers = {}
    \/ \E m \in Node : SignSyncPoint(s, m)

(* What a node holds, it still holds after a step. *)
LEMMA HoldsStable ==
    ASSUME TypeOK, TypeOK', LogInv, Keeps, NEW m \in Node, NEW c \in Chain, Holds(m, c)
    PROVE  HoldsNext(m, c)
<1>1. /\ log[m] \in Seq(Batch) /\ log'[m] \in Seq(Batch) /\ c \in Seq(Batch)
      /\ locked[m] \in Nat /\ locked'[m] \in Nat
    BY DEF TypeOK, Chain
<1>2. /\ LockedChain(m) \in Seq(Batch) /\ Len(LockedChain(m)) = locked[m]
      /\ Contains(log[m], LockedChain(m))
    BY LockedChainProperties DEF Chain
<1>3. Len(c) <= locked[m] /\ Contains(log[m], c) /\ Len(c) \in Nat
    BY <1>1, LenProperties DEF Holds
<1>4. Contains(LockedChain(m), c)
    BY <1>1, <1>2, <1>3, ContainsComparable
<1>5. locked'[m] >= locked[m] /\ Contains(log'[m], LockedChain(m))
    BY DEF Keeps
<1>6. Contains(log'[m], c)
    BY <1>1, <1>2, <1>4, <1>5, ContainsTransitive
<1> QED
    BY <1>1, <1>3, <1>5, <1>6 DEF HoldsNext

(* Quorums are sets of nodes. *)
LEMMA QuorumMembers ==
    ASSUME NEW Q \in Quorum, NEW m \in Q
    PROVE  m \in Node
BY DEF Quorum

(* What a quorum holds, it still holds after a step. *)
LEMMA HeldStable ==
    ASSUME TypeOK, TypeOK', LogInv, Keeps, NEW S, NEW c \in Chain, HeldIn(S, c)
    PROVE  HeldNext(S, c)
<1>1. PICK Q \in Quorum : \A m \in Q \cap S : Holds(m, c)
    BY DEF HeldIn
<1>2. \A m \in Q \cap S : HoldsNext(m, c)
    BY <1>1, HoldsStable, QuorumMembers
<1> QED
    BY <1>2 DEF HeldNext

(* The signatures of a node and of an answer are about chaining hashes. *)
LEMMA SignatureChains ==
    ASSUME NEW cs \in Seq(Sig), NEW k \in 1..Len(cs)
    PROVE  cs[k] \in Sig /\ cs[k].chain \in Chain
<1>1. cs[k] \in Sig
    BY ElementOfSeq
<1> QED
    BY <1>1 DEF Sig

(* A finalization signature that a sequencer aggregates and stores is held *)
(* by its signers and by the sequencer itself, which does not look at its  *)
(* own lock but has one on all that it finalizes afterwards.               *)
LEMMA AggregateFinHeld ==
    ASSUME TypeOK, LogInv, NEW S, QuorumInv(S), TypeOK', LogInv', Keeps,
           NEW s \in Node, AggregateFin(s), NEW k \in 1..Len(certs'[s])
    PROVE  HeldNext(S, certs'[s][k].chain)
<1> DEFINE sig == [chain |-> task[s].chain, parent |-> task[s].parent]
           fits == CanFinalize(log[s], certs[s], sig)
           Q == task[s].signers \cup {s}
<1>1. /\ task[s] \in Round /\ task[s].kind = "fin" /\ task[s] # Idle
      /\ Q \in Quorum /\ task[s].signers \subseteq Node
      /\ task[s].chain \in Chain
    BY DEF AggregateFin, Aggregated, TypeOK, Round
<1>2. certs[s] \in Seq(Sig) /\ certs'[s] \in Seq(Sig) /\ sig \in Sig
    BY <1>1 DEF TypeOK, Round, Sig
<1>3. certs'[s] = IF fits THEN Append(certs[s], sig) ELSE certs[s]
    BY DEF AggregateFin, TypeOK
<1>4. CASE k \in 1..Len(certs[s]) /\ certs'[s][k] = certs[s][k]
  <2>1. HeldIn(S, certs[s][k].chain) /\ certs[s][k].chain \in Chain
    BY <1>2, <1>4, SignatureChains DEF QuorumInv, CertsHeld, TypeOK
  <2> QED
    BY <1>4, <2>1, HeldStable
<1>5. CASE fits /\ certs'[s][k] = sig
  <2>1. \A m \in task[s].signers \cap S : Holds(m, task[s].chain)
    BY <1>1 DEF QuorumInv, SignersHold
  <2>2. \A m \in task[s].signers \cap S : HoldsNext(m, task[s].chain)
    BY <1>1, <2>1, HoldsStable
  <2>3. HoldsNext(s, certs'[s][k].chain)
    BY DEF LogInv, Holds, HoldsNext
  <2>4. certs'[s][k].chain = task[s].chain
    BY <1>5
  <2> QED
    BY <1>1, <2>2, <2>3, <2>4 DEF HeldNext
<1>6. \/ k \in 1..Len(certs[s]) /\ certs'[s][k] = certs[s][k]
      \/ fits /\ certs'[s][k] = sig
  <2>1. CASE fits
    <3>1. /\ Len(certs'[s]) = Len(certs[s]) + 1 /\ Len(certs[s]) \in Nat
          /\ \A j \in 1..Len(certs[s]) : certs'[s][j] = certs[s][j]
          /\ certs'[s][Len(certs[s]) + 1] = sig
      BY <1>2, <1>3, <2>1, AppendProperties, LenProperties
    <3> HIDE DEF sig, fits
    <3> QED
      BY <2>1, <3>1
  <2>2. CASE ~ fits
    BY <1>3, <2>2
  <2> QED
    BY <2>1, <2>2
<1> QED
    BY <1>4, <1>5, <1>6

(* Every signature that a node has after an answer is held by a quorum. *)
LEMMA ReceiveReplyHeld ==
    ASSUME TypeOK, LogInv, NEW S, QuorumInv(S), TypeOK', Keeps,
           NEW n \in Node, ReceiveReply(n), NEW k \in 1..Len(certs'[n])
    PROVE  HeldNext(S, certs'[n][k].chain)
<1> DEFINE r == reply[n]
           l == log[n] \o r.bodies
<1>1. /\ r \in Answer /\ r # NoReply /\ r.fins \in Seq(Sig)
      /\ certs[n] \in Seq(Sig) /\ certs'[n] \in Seq(Sig)
    BY DEF ReceiveReply, TypeOK, Answer
<1>2. certs'[n] \in Accepted(l, certs[n], r.fins)
    BY DEF ReceiveReply, TypeOK
<1> DEFINE new == certs'[n]
<1> HIDE DEF l, r, new
<1>3. /\ new \in Seq(Sig)
      /\ Len(new) >= Len(certs[n])
      /\ \A j \in 1..Len(certs[n]) : new[j] = certs[n][j]
      /\ \A j \in Len(certs[n]) + 1 .. Len(new) :
           /\ \E i \in 1..Len(r.fins) : new[j] = r.fins[i]
           /\ Contains(l, new[j].chain)
           /\ Len(new[j].chain) > LastIndex(SubSeq(new, 1, j - 1))
  <2>1. new \in Accepted(l, certs[n], r.fins)
    BY <1>2 DEF new
  <2> QED
    BY <1>1, <2>1, AcceptedProperties, Zenon
<1>4. CASE k \in 1..Len(certs[n])
  <2>1. HeldIn(S, certs[n][k].chain) /\ certs[n][k].chain \in Chain
    BY <1>1, <1>4, SignatureChains DEF QuorumInv, CertsHeld
  <2>2. certs'[n][k] = certs[n][k]
    BY <1>3, <1>4 DEF new
  <2> QED
    BY <2>1, <2>2, HeldStable
<1>5. CASE k \notin 1..Len(certs[n])
  <2>1. k \in Len(certs[n]) + 1 .. Len(new)
    BY <1>1, <1>5, LenProperties DEF new
  <2>2. PICK i \in 1..Len(r.fins) : new[k] = r.fins[i]
    BY <1>3, <2>1
  <2>3. HeldIn(S, r.fins[i].chain) /\ r.fins[i].chain \in Chain
    BY <1>1, SignatureChains DEF QuorumInv, ReplyHeld, r
  <2> QED
    BY <2>2, <2>3, HeldStable DEF new
<1> QED
    BY <1>4, <1>5

(* A step that stores no signature. *)
LEMMA CertsStutterHeld ==
    ASSUME TypeOK, LogInv, NEW S, QuorumInv(S), TypeOK', Keeps,
           NEW n \in Node, certs'[n] = certs[n], NEW k \in 1..Len(certs'[n])
    PROVE  HeldNext(S, certs'[n][k].chain)
<1>1. HeldIn(S, certs[n][k].chain) /\ certs[n][k].chain \in Chain
    BY SignatureChains DEF QuorumInv, CertsHeld, TypeOK
<1> QED
    BY <1>1, HeldStable

(* An answer has signatures that were held before. *)
LEMMA ReplyStepHeld ==
    ASSUME TypeOK, LogInv, NEW S, QuorumInv(S), TypeOK', Keeps,
           NEW n \in Node, ReplyStep(n), reply'[n] # NoReply,
           NEW k \in 1..Len(reply'[n].fins)
    PROVE  HeldNext(S, reply'[n].fins[k].chain)
<1>1. CASE reply'[n] = reply[n]
  <2>1. reply[n] # NoReply /\ reply[n].fins \in Seq(Sig)
    BY <1>1 DEF TypeOK, Answer
  <2>2. k \in 1..Len(reply[n].fins)
    BY <1>1
  <2>3. HeldIn(S, reply[n].fins[k].chain) /\ reply[n].fins[k].chain \in Chain
    BY <2>1, <2>2, SignatureChains DEF QuorumInv, ReplyHeld
  <2> QED
    BY <1>1, <2>3, HeldStable
<1>2. CASE \E s \in Node : reply'[n].fins \in FinsOf(s, n)
  <2>1. PICK s \in Node : reply'[n].fins \in FinsOf(s, n)
    BY <1>2
  <2>2. certs[s] \in Seq(Sig) /\ Finalized(n) \in Nat
    BY FinalizedProperties DEF TypeOK
  <2>3. PICK j \in 1..Len(certs[s]) : reply'[n].fins[k] = certs[s][j]
    BY <2>1, <2>2, FinalizedAfterProperties, FinalizedAfterKnownProperties DEF FinsOf
  <2>4. HeldIn(S, certs[s][j].chain) /\ certs[s][j].chain \in Chain
    BY <2>2, SignatureChains DEF QuorumInv, CertsHeld
  <2> QED
    BY <2>3, <2>4, HeldStable
<1> QED
    BY <1>1, <1>2 DEF ReplyStep

(* A signer of a finalization round was locked when it signed. *)
LEMMA TaskStepHeld ==
    ASSUME TypeOK, LogInv, NEW S, QuorumInv(S), TypeOK', Keeps,
           NEW s \in Node, TaskStep(s), task'[s] # Idle, task'[s].kind = "fin",
           NEW m \in task'[s].signers \cap S
    PROVE  HoldsNext(m, task'[s].chain)
<1>1. CASE task'[s] = task[s]
  <2>1. task[s] \in Round /\ task[s].chain \in Chain /\ m \in Node
    BY <1>1 DEF TypeOK, Round
  <2>2. Holds(m, task[s].chain)
    BY <1>1 DEF QuorumInv, SignersHold
  <2> QED
    BY <1>1, <2>1, <2>2, HoldsStable
<1>2. CASE \E k \in Node : SignSyncPoint(s, k)
  <2>1. PICK k \in Node : SignSyncPoint(s, k)
    BY <1>2
  <2>2. task[s] # Idle /\ task[s] \in Round
    BY <2>1 DEF SignSyncPoint, TypeOK
  <2>3. /\ task'[s].kind = task[s].kind
        /\ task'[s].chain = task[s].chain
        /\ task'[s].signers = task[s].signers \cup {k}
    BY <2>1, <2>2 DEF SignSyncPoint, TypeOK, Round
  <2>4. task[s].chain \in Chain /\ task[s].signers \subseteq Node
    BY <2>2 DEF Round
  <2>5. CASE m \in task[s].signers
    BY <2>2, <2>3, <2>4, <2>5, HoldsStable DEF QuorumInv, SignersHold
  <2>6. CASE m = k
    <3>1. Holds(k, task[s].chain)
      BY <2>1, <2>3 DEF SignSyncPoint, CanSign, Holds
    <3> QED
      BY <2>3, <2>4, <2>6, <3>1, HoldsStable
  <2> QED
    BY <2>3, <2>5, <2>6
<1> QED
    BY <1>1, <1>2 DEF TaskStep

(* Steps that keep locks keep what is held. *)
LEMMA QuorumInvStep ==
    ASSUME TypeOK, LogInv, NEW S, QuorumInv(S), TypeOK', LogInv', Keeps,
           \A n \in Node : CertsStep(n) /\ ReplyStep(n) /\ TaskStep(n)
    PROVE  QuorumInv(S)'
<1>1. ASSUME NEW n \in Node, NEW k \in 1..Len(certs'[n])
      PROVE  HeldNext(S, certs'[n][k].chain)
    BY CertsStutterHeld, ReceiveReplyHeld, AggregateFinHeld DEF CertsStep
<1>2. CertsHeld(S)'
    BY <1>1 DEF CertsHeld, HeldIn, Holds, HeldNext, HoldsNext
<1>3. ReplyHeld(S)'
    BY ReplyStepHeld DEF ReplyHeld, HeldIn, Holds, HeldNext, HoldsNext
<1>4. SignersHold(S)'
    BY TaskStepHeld DEF SignersHold, Holds, HoldsNext
<1> QED
    BY <1>2, <1>3, <1>4 DEF QuorumInv

(* Which actions store signatures, answer a PUT, or change a round: at n   *)
(* itself, and of the others none at all.                                  *)
LEMMA CertsChange ==
    ASSUME TypeOK, LogInv, [Next]_vars, NEW n \in Node
    PROVE  CertsStep(n)
<1>1. CASE UNCHANGED vars
    BY <1>1 DEF vars, nodeVars, CertsStep
<1>2. ASSUME NEW m \in Node, ReceiveReply(m) \/ AggregateFin(m)
      PROVE  m = n \/ certs'[n] = certs[n]
  <2>1. \E cs : certs' = [certs EXCEPT ![m] = cs]
    BY <1>2 DEF ReceiveReply, AggregateFin, TypeOK
  <2> QED
    BY <2>1 DEF TypeOK
<1>3. ASSUME NEW m \in Node,
             \/ \E b \in Batch : PostToSequencer(m, b)
             \/ \E bodies \in Bodies : Put(m, bodies)
             \/ \E bodies \in Bodies : PutFails(m, bodies)
      PROVE  certs' = certs
    BY <1>3 DEF PostToSequencer, PutAnswered, Put, PutFails
<1>4. ASSUME NEW m \in Node,
             \/ LoseReply(m) \/ SyncApp(m) \/ (\E k \in Node : SignSyncPoint(m, k))
             \/ AggregateLock(m) \/ GatherFails(m)
      PROVE  certs' = certs
    BY <1>4 DEF nodeVars, LoseReply, SyncApp, SignSyncPoint, AggregateLock, GatherFails
<1>5. ASSUME NEW m \in Node,
             \/ Dispute(m) \/ PostSwitch(m) \/ SwitchReinit(m) \/ SwitchResume(m)
             \/ \E k \in Node : \/ SwitchAdopt(m, k) \/ SwitchAbort(m, k)
                               \/ ResetSequencer(m, k)
      PROVE  certs' = certs
    BY <1>5 DEF nodeVars, Dispute, PostSwitch, BeginSwitch, SwitchReinit,
                SwitchResume, SwitchAdopt, SwitchAbort, ResetSequencer
<1>6. CASE Next
    BY <1>2, <1>3, <1>4, <1>5, <1>6 DEF Next, CertsStep
<1> QED
    BY <1>1, <1>6

(* A PUT is answered to one node, from the signatures of its sequencer. *)
LEMMA AnsweredStep ==
    ASSUME TypeOK, NEW m \in Node, NEW bodies, NEW fins \in FinsOf(sequencer[m], m),
           PutAnswered(m, bodies, fins), NEW n \in Node
    PROVE  ReplyStep(n)
<1>1. CASE m = n
  <2>1. reply'[n].fins = fins /\ sequencer[n] \in Node
    BY <1>1 DEF PutAnswered, TypeOK
  <2> QED
    BY <1>1, <2>1 DEF ReplyStep
<1>2. CASE m # n
    BY <1>2 DEF PutAnswered, TypeOK, ReplyStep
<1> QED
    BY <1>1, <1>2

LEMMA ReplyChange ==
    ASSUME TypeOK, LogInv, [Next]_vars, NEW n \in Node
    PROVE  ReplyStep(n)
<1>1. CASE UNCHANGED vars
    BY <1>1 DEF vars, ReplyStep
<1>2. ASSUME NEW m \in Node, NEW bodies \in Bodies, Put(m, bodies)
      PROVE  ReplyStep(n)
    BY <1>2, AnsweredStep DEF Put, FinsOf
<1>3. ASSUME NEW m \in Node, ReceiveReply(m) \/ LoseReply(m)
      PROVE  reply'[n] = NoReply \/ reply'[n] = reply[n]
  <2>1. reply' = [reply EXCEPT ![m] = NoReply]
    BY <1>3 DEF ReceiveReply, LoseReply
  <2> QED
    BY <2>1 DEF TypeOK
<1>4. ASSUME NEW m \in Node,
             \/ \E b \in Batch : PostToSequencer(m, b)
             \/ \E bodies \in Bodies : PutFails(m, bodies)
             \/ SyncApp(m) \/ (\E k \in Node : SignSyncPoint(m, k))
             \/ AggregateLock(m) \/ AggregateFin(m) \/ GatherFails(m)
      PROVE  reply' = reply
    BY <1>4 DEF PostToSequencer, PutFails, SyncApp, SignSyncPoint, AggregateLock,
                AggregateFin, GatherFails
<1>5. ASSUME NEW m \in Node,
             \/ Dispute(m) \/ PostSwitch(m) \/ SwitchReinit(m) \/ SwitchResume(m)
             \/ \E k \in Node : \/ SwitchAdopt(m, k) \/ SwitchAbort(m, k)
                               \/ ResetSequencer(m, k)
      PROVE  reply' = reply
    BY <1>5 DEF Dispute, PostSwitch, BeginSwitch, SwitchReinit,
                SwitchResume, SwitchAdopt, SwitchAbort, ResetSequencer
<1>6. CASE Next
    BY <1>2, <1>3, <1>4, <1>5, <1>6 DEF Next, ReplyStep
<1> QED
    BY <1>1, <1>6

LEMMA TaskChange ==
    ASSUME TypeOK, LogInv, [Next]_vars, NEW s \in Node
    PROVE  TaskStep(s)
<1>1. CASE UNCHANGED vars
    BY <1>1 DEF vars, TaskStep
<1>2. ASSUME NEW m \in Node, SyncApp(m)
      PROVE  task'[s] = task[s] \/ task'[s] = Idle \/ task'[s].signers = {}
  <2>1. PICK t \in FirstTasks(m) : task' = [task EXCEPT ![m] = t]
    BY <1>2 DEF SyncApp
  <2>2. t = Idle \/ t.signers = {}
    BY FinalizedProperties, FirstTasksType
  <2> QED
    BY <2>1, <2>2 DEF TypeOK
<1>3. ASSUME NEW m \in Node, AggregateLock(m) \/ GatherFails(m)
      PROVE  task'[s] = task[s] \/ task'[s] = Idle \/ task'[s].signers = {}
  <2>1. task[m] \in Round /\ task[m].parent \in Nat
    BY <1>3 DEF AggregateLock, Aggregated, GatherFails, TypeOK, Round
  <2>2. PICK t \in FinTasks(m, task[m].parent) \cup {Idle} :
            task' = [task EXCEPT ![m] = t]
    BY <1>3 DEF AggregateLock, GatherFails
  <2>3. t = Idle \/ t.signers = {}
    BY <2>1, FinTasksType
  <2> QED
    BY <2>2, <2>3 DEF TypeOK
<1>4. ASSUME NEW m \in Node, AggregateFin(m)
      PROVE  task'[s] = task[s] \/ task'[s] = Idle
    BY <1>4 DEF AggregateFin, TypeOK
<1>5. ASSUME NEW m \in Node, NEW k \in Node, SignSyncPoint(m, k)
      PROVE  m = s \/ task'[s] = task[s]
    BY <1>5 DEF SignSyncPoint, TypeOK
<1>6. ASSUME NEW m \in Node,
             \/ \E b \in Batch : PostToSequencer(m, b)
             \/ \E bodies \in Bodies : Put(m, bodies)
             \/ \E bodies \in Bodies : PutFails(m, bodies)
             \/ ReceiveReply(m) \/ LoseReply(m)
      PROVE  task' = task
    BY <1>6 DEF PostToSequencer, PutAnswered, Put, PutFails, ReceiveReply, LoseReply
<1>7. ASSUME NEW m \in Node,
             \/ Dispute(m) \/ PostSwitch(m) \/ SwitchReinit(m) \/ SwitchResume(m)
             \/ \E k \in Node : \/ SwitchAdopt(m, k) \/ SwitchAbort(m, k)
                               \/ ResetSequencer(m, k)
      PROVE  task' = task
    BY <1>7 DEF Dispute, PostSwitch, BeginSwitch, SwitchReinit,
                SwitchResume, SwitchAdopt, SwitchAbort, ResetSequencer
<1>8. CASE Next
    BY <1>2, <1>3, <1>4, <1>5, <1>6, <1>7, <1>8 DEF Next, TaskStep
<1> QED
    BY <1>1, <1>8

-----------------------------------------------------------------------------
(************************** Agreement on finality ***************************)

LEMMA InitIInv == Init => IInv
<1> SUFFICES ASSUME Init PROVE IInv
    OBVIOUS
<1>1. TypeOK /\ LogInv
    BY InitLog
<1>2. QuorumInv(Node)
    BY EmptySeq DEF Init, QuorumInv, CertsHeld, ReplyHeld, SignersHold
<1> QED
    BY <1>1, <1>2 DEF IInv

LEMMA NextIInv ==
    ASSUME IInv, [Next]_vars
    PROVE  IInv'
<1>1. TypeOK' /\ LogInv' /\ Keeps
    BY NextLog DEF IInv
<1>2. \A n \in Node : CertsStep(n) /\ ReplyStep(n) /\ TaskStep(n)
    BY CertsChange, ReplyChange, TaskChange DEF IInv
<1>3. QuorumInv(Node)'
    BY <1>1, <1>2, QuorumInvStep DEF IInv
<1> QED
    BY <1>1, <1>3 DEF IInv

(* Every finalization signature that a node has stored is held, as locked  *)
(* batches, by a quorum.                                                   *)
THEOREM HeldByQuorums == Spec => []FinalizedHeldByQuorum
<1>1. IInv /\ [Next]_vars => IInv'
    BY NextIInv
<1>2. IInv => FinalizedHeldByQuorum
  <2>1. \A c : HeldIn(Node, c) => HeldByQuorum(c)
    BY QuorumMembers DEF HeldIn, HeldByQuorum
  <2> QED
    BY <2>1 DEF IInv, QuorumInv, CertsHeld, FinalizedHeldByQuorum
<1> QED
    BY <1>1, <1>2, InitIInv, PTL DEF Spec

(* What n finalized last is the prefix of its log up to that index.        *)
LEMMA FinalizedPrefix ==
    ASSUME TypeOK, LogInv, NEW S, CertsHeld(S), NEW n \in Node, Finalized(n) # 0
    PROVE  /\ Prefix(log[n], Finalized(n)) \in Chain
           /\ Len(Prefix(log[n], Finalized(n))) = Finalized(n)
           /\ HeldIn(S, Prefix(log[n], Finalized(n)))
<1>1. certs[n] \in Seq(Sig) /\ certs[n] \in Seq([chain : Seq(Batch), parent : Nat])
    BY DEF TypeOK, Sig, Chain
<1>2. Len(certs[n]) \in 1..Len(certs[n]) /\ Finalized(n) = Len(certs[n][Len(certs[n])].chain)
    BY <1>1, LastIndexProperties DEF Finalized
<1> DEFINE c == certs[n][Len(certs[n])].chain
<1>3. Contains(log[n], c) /\ HeldIn(S, c) /\ c \in Chain
    BY <1>1, <1>2, SignatureChains DEF LogInv, Holds, CertsHeld
<1>4. Prefix(log[n], Finalized(n)) = c
    BY <1>2, <1>3 DEF Contains
<1> QED
    BY <1>2, <1>3, <1>4

(* Two quorums share a node of S, and that node has one log.               *)
LEMMA HeldAgreement ==
    ASSUME TypeOK, LogInv, NEW S, CertsHeld(S),
           \A Q1, Q2 \in Quorum : Q1 \cap Q2 \cap S # {}
    PROVE  FinalizedAgreement
<1> SUFFICES ASSUME NEW n \in Node, NEW m \in Node, Finalized(n) <= Finalized(m)
             PROVE  Prefix(log[n], Finalized(n)) = Prefix(log[m], Finalized(n))
    BY DEF FinalizedAgreement
<1>1. Finalized(n) \in Nat /\ Finalized(m) \in Nat
    BY FinalizedProperties
<1>2. CASE Finalized(n) = 0
    BY <1>2, SubSeqEmpty DEF Prefix
<1>3. CASE Finalized(n) # 0
  <2> DEFINE c == Prefix(log[n], Finalized(n))
             d == Prefix(log[m], Finalized(m))
  <2>1. Finalized(m) # 0
    BY <1>1, <1>3
  <2>2. /\ c \in Seq(Batch) /\ Len(c) = Finalized(n) /\ HeldIn(S, c)
        /\ d \in Seq(Batch) /\ Len(d) = Finalized(m) /\ HeldIn(S, d)
    BY <1>3, <2>1, FinalizedPrefix DEF Chain
  <2>3. PICK Q \in Quorum : \A x \in Q \cap S : Holds(x, c)
    BY <2>2 DEF HeldIn
  <2>4. PICK R \in Quorum : \A x \in R \cap S : Holds(x, d)
    BY <2>2 DEF HeldIn
  <2>5. PICK x \in Q \cap R \cap S : TRUE
    OBVIOUS
  <2>6. x \in Node /\ Contains(log[x], c) /\ Contains(log[x], d) /\ log[x] \in Seq(Batch)
    BY <2>3, <2>4, QuorumMembers DEF Holds, TypeOK, Chain
  <2>7. /\ log[m] \in Seq(Batch) /\ locked[m] \in Nat
        /\ Finalized(m) \in 0..Len(log[m])
    <3>1. Len(log[m]) \in Nat /\ locked[m] \in Nat /\ log[m] \in Seq(Batch)
      BY LenProperties DEF TypeOK, Chain
    <3>2. Finalized(m) <= locked[m] /\ locked[m] <= Len(log[m])
      BY FinalizedProperties DEF LogInv
    <3> QED
      BY <1>1, <3>1, <3>2
  <2>8. Contains(log[m], d)
    BY <2>7, ContainsPrefix
  <2> HIDE DEF c, d
  <2>9. Contains(d, c)
    BY <2>2, <2>6, ContainsComparable
  <2>10. Contains(log[m], c)
    BY <2>2, <2>7, <2>8, <2>9, ContainsTransitive
  <2> QED
    BY <2>2, <2>10 DEF Contains, c
<1> QED
    BY <1>2, <1>3

LEMMA IInvAgreement == IInv => FinalizedAgreement
<1>1. \A Q1, Q2 \in Quorum : Q1 \cap Q2 \cap Node # {}
    BY QuorumAssumption, QuorumMembers
<1> QED
    BY <1>1, HeldAgreement DEF IInv, QuorumInv

(* Whatever sequencers succeeded each other and whatever answers were lost *)
(* or late, two nodes agree on the batches that both have finalized.       *)
THEOREM Agreement == Spec => []FinalizedAgreement
<1>1. IInv /\ [Next]_vars => IInv'
    BY NextIInv
<1> QED
    BY <1>1, InitIInv, IInvAgreement, PTL DEF Spec

-----------------------------------------------------------------------------
(************************ The finalized indices only grow *******************)

(* The signatures that follow one another raise the last finalized index. *)
LEMMA ExtendedIndex ==
    ASSUME NEW old \in Seq(Sig), NEW cs \in Seq(Sig), Len(cs) >= Len(old),
           \A k \in 1..Len(old) : cs[k] = old[k],
           \A k \in Len(old) + 1 .. Len(cs) :
               Len(cs[k].chain) > LastIndex(SubSeq(cs, 1, k - 1))
    PROVE  LastIndex(cs) >= LastIndex(old)
<1> DEFINE Upto(k) == LastIndex(SubSeq(cs, 1, k))
           Below == {k \in Len(old)..Len(cs) : ~ (Upto(k) >= LastIndex(old))}
<1>1. Len(old) \in Nat /\ Len(cs) \in Nat
    BY LenProperties
<1>2. \A k \in 0..Len(cs) : SubSeq(cs, 1, k) \in Seq(Sig)
    BY PrefixProperties DEF Prefix
<1>3. LastIndex(old) \in Nat /\ \A k \in 0..Len(cs) : Upto(k) \in Nat
    BY <1>2, LastIndexProperties DEF Sig, Chain
<1>4. Upto(Len(old)) = LastIndex(old)
  <2>1. Len(old) \in 0..Len(cs)
    BY <1>1
  <2>2. Len(SubSeq(cs, 1, Len(old))) = Len(old)
    BY <2>1, PrefixProperties DEF Prefix
  <2>3. \A j \in 1..Len(old) : SubSeq(cs, 1, Len(old))[j] = old[j]
    BY <2>1, PrefixProperties DEF Prefix
  <2>4. SubSeq(cs, 1, Len(old)) = old
    BY <1>2, <2>1, <2>2, <2>3, SeqEqual
  <2> QED
    BY <2>4
<1>5. Upto(Len(cs)) = LastIndex(cs)
    BY SubSeqFull
<1>6. ASSUME Below # {}
      PROVE  FALSE
  <2>1. PICK k \in Below : \A j \in Below : k <= j
    <3>1. Below \in SUBSET Nat
      BY <1>1
    <3> QED
      BY <1>6, <3>1, Lemmas!LeastNat
  <2>2. k \in Len(old) + 1 .. Len(cs) /\ k - 1 \in Len(old)..Len(cs)
    BY <1>1, <1>3, <1>4
  <2>3. Upto(k - 1) >= LastIndex(old)
    BY <1>1, <2>1, <2>2
  <2>4. Upto(k) = Len(cs[k].chain)
    <3>1. k \in 1..Len(cs) /\ cs \in Seq([chain : Seq(Batch), parent : Nat])
      BY <1>1, <2>2 DEF Sig, Chain
    <3> QED
      BY <3>1, LastIndexOfPrefix
  <2>5. Upto(k) > Upto(k - 1) /\ k - 1 \in 0..Len(cs) /\ k \in 0..Len(cs)
    BY <1>1, <2>2, <2>4
  <2> QED
    BY <1>3, <2>1, <2>3, <2>5
<1> QED
    BY <1>1, <1>4, <1>5, <1>6

(* A node's last finalized index never goes back. *)
LEMMA FinalizedGrows ==
    ASSUME TypeOK, LogInv, NEW n \in Node, CertsStep(n)
    PROVE  Finalized(n)' >= Finalized(n)
<1>1. certs[n] \in Seq(Sig) /\ Finalized(n) \in Nat
    BY FinalizedProperties DEF TypeOK
<1>2. CASE certs'[n] = certs[n]
    BY <1>1, <1>2 DEF Finalized
<1>3. CASE ReceiveReply(n)
  <2> DEFINE r == reply[n]
             l == log[n] \o r.bodies
  <2>1. r.fins \in Seq(Sig)
    BY <1>3 DEF ReceiveReply, TypeOK, Answer
  <2>2. PICK cs \in Accepted(l, certs[n], r.fins) : certs' = [certs EXCEPT ![n] = cs]
    BY <1>3 DEF ReceiveReply
  <2>3. certs'[n] = cs
    BY <2>2 DEF TypeOK
  <2> HIDE DEF l
  <2>4. /\ cs \in Seq(Sig)
        /\ Len(cs) >= Len(certs[n])
        /\ \A k \in 1..Len(certs[n]) : cs[k] = certs[n][k]
        /\ \A k \in Len(certs[n]) + 1 .. Len(cs) :
             /\ \E j \in 1..Len(r.fins) : cs[k] = r.fins[j]
             /\ Contains(l, cs[k].chain)
             /\ Len(cs[k].chain) > LastIndex(SubSeq(cs, 1, k - 1))
    BY <1>1, <2>1, <2>2, AcceptedProperties, Zenon
  <2>5. LastIndex(cs) >= LastIndex(certs[n])
    BY <1>1, <2>4, ExtendedIndex
  <2> QED
    BY <2>3, <2>5 DEF Finalized
<1>4. CASE AggregateFin(n)
  <2> DEFINE sig == [chain |-> task[n].chain, parent |-> task[n].parent]
  <2>1. CASE certs'[n] = certs[n]
    BY <1>1, <2>1 DEF Finalized
  <2>2. CASE certs'[n] # certs[n]
    <3>1. certs'[n] = Append(certs[n], sig) /\ CanFinalize(log[n], certs[n], sig)
      BY <1>4, <2>2 DEF AggregateFin, TypeOK
    <3>2. sig \in Sig
      BY <1>4 DEF AggregateFin, Aggregated, TypeOK, Round, Sig
    <3>3. Len(sig.chain) > Finalized(n)
      BY <3>1 DEF CanFinalize, Finalized
    <3> HIDE DEF sig
    <3>4. /\ Append(certs[n], sig) # << >>
          /\ Append(certs[n], sig)[Len(Append(certs[n], sig))] = sig
      BY <1>1, <3>2, AppendProperties, LenProperties
    <3>5. Finalized(n)' = Len(sig.chain)
      BY <3>1, <3>4 DEF Finalized, LastIndex
    <3>6. Len(sig.chain) \in Nat
      BY <3>2, LenProperties DEF Sig, Chain
    <3> QED
      BY <1>1, <3>3, <3>5, <3>6
  <2> QED
    BY <2>1, <2>2
<1> QED
    BY <1>2, <1>3, <1>4 DEF CertsStep

-----------------------------------------------------------------------------
(******************** The chain of finalization signatures ****************)

(* Each signature was made for the index of the one before it. *)
Linked(cs) ==
    \A k \in 1..Len(cs) : /\ cs[k].parent = LastIndex(SubSeq(cs, 1, k - 1))
                          /\ Len(cs[k].chain) > cs[k].parent

AllLinked == \A n \in Node : Linked(certs[n])

(* The first signature under way to a node continues at most from where    *)
(* the node is, and so does the round that a sequencer started.            *)
ReplyParent ==
    \A n \in Node : reply[n] # NoReply /\ reply[n].fins # << >>
                        => reply[n].fins[1].parent <= Finalized(n)
TaskParent ==
    \A s \in Node : task[s] # Idle => task[s].parent <= Finalized(s)

(* The inductive invariant behind CheckpointChain. *)
LinkInv == TypeOK /\ LogInv /\ AllLinked /\ ReplyParent /\ TaskParent

-----------------------------------------------------------------------------
(* Only an empty chain of signatures has the last index 0. *)
LEMMA LinkedIndex ==
    ASSUME NEW cs \in Seq(Sig), Linked(cs), LastIndex(cs) = 0
    PROVE  cs = << >>
<1>1. cs \in Seq([chain : Seq(Batch), parent : Nat])
    BY DEF Sig, Chain
<1>2. cs # << >> => Len(cs) \in 1..Len(cs) /\ LastIndex(cs) = Len(cs[Len(cs)].chain)
    BY <1>1, LastIndexProperties
<1>3. ASSUME cs # << >>
      PROVE  FALSE
  <2>1. cs[Len(cs)] \in [chain : Seq(Batch), parent : Nat]
    BY <1>1, <1>2, <1>3, ElementOfSeq
  <2>2. cs[Len(cs)].parent \in Nat /\ Len(cs[Len(cs)].chain) > cs[Len(cs)].parent
    BY <1>2, <1>3, <2>1 DEF Linked
  <2> QED
    BY <1>2, <1>3, <2>2
<1> QED
    BY <1>3

(* A part of a linked chain from its start is linked. *)
LEMMA LinkedPrefix ==
    ASSUME NEW cs \in Seq(Sig), Linked(cs), NEW i \in 0..Len(cs)
    PROVE  Linked(SubSeq(cs, 1, i))
<1> DEFINE p == SubSeq(cs, 1, i)
<1>1. p \in Seq(Sig) /\ Len(p) = i /\ \A k \in 1..i : p[k] = cs[k]
    BY PrefixProperties DEF Prefix
<1>2. ASSUME NEW k \in 1..i
      PROVE  SubSeq(p, 1, k - 1) = SubSeq(cs, 1, k - 1)
  <2>1. k - 1 \in 0..i /\ k - 1 \in 0..Len(cs) /\ k \in 1..Len(cs)
    BY LenProperties
  <2>2. /\ Prefix(p, k - 1) \in Seq(Sig) /\ Len(Prefix(p, k - 1)) = k - 1
        /\ \A j \in 1..k - 1 : Prefix(p, k - 1)[j] = p[j]
    <3> HIDE DEF p
    <3> QED
      BY <1>1, <2>1, PrefixProperties
  <2>3. /\ Prefix(cs, k - 1) \in Seq(Sig) /\ Len(Prefix(cs, k - 1)) = k - 1
        /\ \A j \in 1..k - 1 : Prefix(cs, k - 1)[j] = cs[j]
    BY <2>1, PrefixProperties
  <2>4. \A j \in 1..k - 1 : p[j] = cs[j]
    BY <1>1, <2>1
  <2> HIDE DEF p
  <2>5. Prefix(p, k - 1) = Prefix(cs, k - 1)
    BY <2>2, <2>3, <2>4, SeqEqual
  <2> QED
    BY <2>5 DEF Prefix
<1>3. \A k \in 1..i : k \in 1..Len(cs)
    BY LenProperties
<1> HIDE DEF p
<1>4. Linked(p)
    BY <1>1, <1>2, <1>3 DEF Linked
<1> QED
    BY <1>4 DEF p

(* A chain to which a fitting signature is added stays linked, if the      *)
(* signature of an empty chain has no parent.                              *)
LEMMA LinkedAppend ==
    ASSUME NEW cs \in Seq(Sig), Linked(cs), NEW sig \in Sig, NEW l,
           CanFinalize(l, cs, sig), cs = << >> => sig.parent = 0
    PROVE  Linked(Append(cs, sig))
<1> DEFINE new == Append(cs, sig)
<1>1. /\ new \in Seq(Sig) /\ Len(new) = Len(cs) + 1 /\ Len(cs) \in Nat
      /\ \A k \in 1..Len(cs) : new[k] = cs[k]
      /\ new[Len(cs) + 1] = sig
    BY AppendProperties, LenProperties
<1>2. LastIndex(cs) \in Nat
    BY LastIndexProperties DEF Sig, Chain
<1>3. sig.parent = LastIndex(cs) /\ Len(sig.chain) > sig.parent
    BY <1>2, LinkedIndex DEF CanFinalize, LastIndex
<1> HIDE DEF new
<1>4. ASSUME NEW k \in 1..Len(cs) + 1
      PROVE  SubSeq(new, 1, k - 1) = SubSeq(cs, 1, k - 1)
  <2>1. k - 1 \in 0..Len(cs) /\ k - 1 \in 0..Len(new)
    BY <1>1
  <2>2. /\ Prefix(new, k - 1) \in Seq(Sig) /\ Len(Prefix(new, k - 1)) = k - 1
        /\ \A j \in 1..k - 1 : Prefix(new, k - 1)[j] = new[j]
    BY <1>1, <2>1, PrefixProperties
  <2>3. /\ Prefix(cs, k - 1) \in Seq(Sig) /\ Len(Prefix(cs, k - 1)) = k - 1
        /\ \A j \in 1..k - 1 : Prefix(cs, k - 1)[j] = cs[j]
    BY <2>1, PrefixProperties
  <2>4. \A j \in 1..k - 1 : new[j] = cs[j]
    BY <1>1, <2>1
  <2>5. Prefix(new, k - 1) = Prefix(cs, k - 1)
    BY <2>2, <2>3, <2>4, SeqEqual
  <2> QED
    BY <2>5 DEF Prefix
<1>5. SubSeq(cs, 1, Len(cs)) = cs
    BY SubSeqFull
<1>6. ASSUME NEW k \in 1..Len(new)
      PROVE  /\ new[k].parent = LastIndex(SubSeq(new, 1, k - 1))
             /\ Len(new[k].chain) > new[k].parent
  <2>1. k \in 1..Len(cs) + 1
    BY <1>1
  <2>2. SubSeq(new, 1, k - 1) = SubSeq(cs, 1, k - 1)
    BY <1>4, <2>1
  <2>3. CASE k \in 1..Len(cs)
    BY <1>1, <2>2, <2>3 DEF Linked
  <2>4. CASE k = Len(cs) + 1
    <3>1. k - 1 = Len(cs)
      BY <1>1, <2>4
    <3> QED
      BY <1>1, <1>3, <1>5, <2>2, <2>4, <3>1
  <2> QED
    BY <1>1, <2>1, <2>3, <2>4
<1>7. Linked(new)
    BY <1>6 DEF Linked
<1> QED
    BY <1>7 DEF new

(* What a sequencer answers after an index continues from that index. *)
LEMMA FinalizedAfterKnownFirst ==
    ASSUME NEW cs \in Seq(Sig), Linked(cs), NEW index \in Nat,
           FinalizedAfterKnown(cs, index) # << >>
    PROVE  FinalizedAfterKnown(cs, index)[1].parent = index
<1> DEFINE at == CHOOSE k \in PointAt(cs, index) : TRUE
           fins == SubSeq(cs, at + 1, Len(cs))
<1>1. Len(cs) \in Nat
    BY LenProperties
<1>2. at \in 1..Len(cs) /\ Len(cs[at].chain) = index /\ FinalizedAfterKnown(cs, index) = fins
    BY DEF FinalizedAfterKnown, PointAt
<1> HIDE DEF at
<1>3. \A i \in at + 1 .. Len(cs) : cs[i] \in Sig
    BY <1>1, <1>2, ElementOfSeq
<1>4. /\ Len(fins) = IF at + 1 <= Len(cs) THEN Len(cs) - at ELSE 0
      /\ \A i \in 1..Len(cs) - at : fins[i] = cs[at + i]
      /\ fins \in Seq(Sig)
    BY <1>1, <1>2, <1>3, SubSeqProperties
<1>5. at + 1 \in 1..Len(cs) /\ fins[1] = cs[at + 1]
  <2>1. Len(fins) # 0
    BY <1>2, <1>4, EmptySeq
  <2> QED
    BY <1>1, <1>2, <1>4, <2>1
<1>6. LastIndex(SubSeq(cs, 1, at)) = index
    BY <1>2, LastIndexOfPrefix DEF Sig, Chain
<1>7. cs[at + 1].parent = LastIndex(SubSeq(cs, 1, (at + 1) - 1))
    BY <1>5 DEF Linked
<1>8. (at + 1) - 1 = at
    BY <1>1, <1>2
<1> QED
    BY <1>2, <1>5, <1>6, <1>7, <1>8

LEMMA FinalizedAfterFirst ==
    ASSUME NEW cs \in Seq(Sig), Linked(cs), NEW index \in Nat,
           FinalizedAfter(cs, index) # << >>
    PROVE  FinalizedAfter(cs, index)[1].parent = index
<1>1. CASE index = 0
  <2>1. FinalizedAfter(cs, index) = cs /\ 1 \in 1..Len(cs)
    BY <1>1, EmptySeq, LenProperties DEF FinalizedAfter
  <2>2. SubSeq(cs, 1, 0) = << >>
    BY SubSeqEmpty
  <2> QED
    BY <1>1, <2>1, <2>2 DEF Linked, LastIndex
<1>2. CASE index # 0
  <2>1. FinalizedAfter(cs, index) = FinalizedAfterKnown(cs, index)
    BY <1>2 DEF FinalizedAfter, FinalizedAfterKnown
  <2> QED
    BY <2>1, FinalizedAfterKnownFirst
<1> QED
    BY <1>1, <1>2

(* What promote_batches accepts of an answer stays linked, if the answer   *)
(* to a node without signatures starts from none.                          *)
LEMMA AcceptedLinked ==
    ASSUME NEW l, NEW cs \in Seq(Sig), Linked(cs), NEW fins \in Seq(Sig),
           cs = << >> /\ fins # << >> => fins[1].parent = 0,
           NEW new \in Accepted(l, cs, fins)
    PROVE  Linked(new)
<1> DEFINE all == cs \o fins
           Fits(k) == CanFinalize(l, SubSeq(all, 1, k - 1), all[k])
           Bad == {k \in Len(cs)..Len(all) :
                     /\ \A j \in Len(cs) + 1 .. k : Fits(j)
                     /\ ~ Linked(SubSeq(all, 1, k))}
<1>1. PICK last \in Len(cs)..Len(all) :
          /\ new = SubSeq(all, 1, last)
          /\ \A j \in Len(cs) + 1 .. last : Fits(j)
    BY DEF Accepted
<1>2. /\ Len(cs) \in Nat /\ Len(fins) \in Nat
      /\ all \in Seq(Sig)
      /\ Len(all) = Len(cs) + Len(fins)
      /\ \A k \in 1..Len(cs) : all[k] = cs[k]
      /\ \A k \in Len(cs) + 1 .. Len(cs) + Len(fins) : all[k] = fins[k - Len(cs)]
    BY LenProperties, ConcatProperties
<1> HIDE DEF all
<1>3. SubSeq(all, 1, Len(cs)) = cs
  <2>1. Len(cs) \in 0..Len(all)
    BY <1>2
  <2>2. /\ Prefix(all, Len(cs)) \in Seq(Sig) /\ Len(Prefix(all, Len(cs))) = Len(cs)
        /\ \A j \in 1..Len(cs) : Prefix(all, Len(cs))[j] = all[j]
    BY <1>2, <2>1, PrefixProperties
  <2>3. Prefix(all, Len(cs)) = cs
    BY <1>2, <2>2, SeqEqual
  <2> QED
    BY <2>3 DEF Prefix
<1>4. ASSUME Bad # {}
      PROVE  FALSE
  <2>1. PICK k \in Bad : \A j \in Bad : k <= j
    <3>1. Bad \in SUBSET Nat
      BY <1>2
    <3> QED
      BY <1>4, <3>1, Lemmas!LeastNat
  <2>2. /\ k \in Len(cs) + 1 .. Len(all) /\ Fits(k) /\ k - 1 \in Len(cs)..Len(all)
        /\ \A j \in Len(cs) + 1 .. k - 1 : Fits(j)
    <3>1. k # Len(cs)
      BY <1>3, <2>1
    <3> HIDE DEF Fits
    <3>2. k \in Len(cs)..Len(all) /\ \A j \in Len(cs) + 1 .. k : Fits(j)
      BY <2>1
    <3> QED
      BY <1>2, <3>1, <3>2
  <2> DEFINE before == SubSeq(all, 1, k - 1)
  <2>3. Linked(before)
    <3> HIDE DEF Fits
    <3>1. k - 1 \notin Bad
      <4>1. k \in Nat /\ ~ (k <= k - 1)
        BY <1>2, <2>2
      <4> HIDE DEF Bad
      <4> QED
        BY <2>1, <4>1
    <3> QED
      BY <2>2, <3>1
  <2>4. /\ k - 1 \in 0..Len(all) /\ k \in 0..Len(all) /\ k \in 1..Len(all)
        /\ k \in Len(cs) + 1 .. Len(cs) + Len(fins)
    BY <1>2, <2>2
  <2>5. /\ before \in Seq(Sig) /\ Len(before) = k - 1
        /\ \A j \in 1..k - 1 : before[j] = all[j]
    BY <1>2, <2>4, PrefixProperties DEF Prefix
  <2>6. /\ SubSeq(all, 1, k) \in Seq(Sig) /\ Len(SubSeq(all, 1, k)) = k
        /\ \A j \in 1..k : SubSeq(all, 1, k)[j] = all[j]
    BY <1>2, <2>4, PrefixProperties DEF Prefix
  <2>7. all[k] \in Sig
    BY <1>2, <2>4, ElementOfSeq
  <2> HIDE DEF before
  <2>8. /\ Append(before, all[k]) \in Seq(Sig)
        /\ Len(Append(before, all[k])) = k
        /\ \A j \in 1..k - 1 : Append(before, all[k])[j] = all[j]
        /\ Append(before, all[k])[k] = all[k]
    BY <2>4, <2>5, <2>7, AppendProperties
  <2>9. SubSeq(all, 1, k) = Append(before, all[k])
    <3>1. \A j \in 1..k : Append(before, all[k])[j] = all[j]
      <4>1. \A j \in 1..k : j \in 1..k - 1 \/ j = k
        BY <2>4
      <4> QED
        BY <2>8, <4>1
    <3> QED
      BY <2>6, <2>8, <3>1, SeqEqual
  <2>10. before = << >> => all[k].parent = 0
    <3> SUFFICES ASSUME before = << >> PROVE all[k].parent = 0
        OBVIOUS
    <3>1. k = 1 /\ Len(cs) = 0 /\ k - Len(cs) = 1 /\ Len(fins) # 0
      <4>1. k - 1 = 0
        BY <2>5, EmptySeq
      <4> QED
        BY <1>2, <2>4, <4>1
    <3>2. cs = << >> /\ fins # << >> /\ all[k] = fins[1]
      BY <1>2, <2>4, <3>1, EmptySeq
    <3> QED
      BY <3>2
  <2>11. CanFinalize(l, before, all[k])
    BY <2>2 DEF before
  <2>12. Linked(Append(before, all[k]))
    BY <2>3, <2>5, <2>7, <2>10, <2>11, LinkedAppend
  <2> QED
    BY <2>1, <2>9, <2>12
<1>5. last \notin Bad
    BY <1>4
<1> HIDE DEF Fits
<1> QED
    BY <1>1, <1>5

-----------------------------------------------------------------------------
(******************** Steps keep the chains linked **************************)

LEMMA ReceiveReplyLinked ==
    ASSUME LinkInv, NEW n \in Node, ReceiveReply(n)
    PROVE  Linked(certs'[n])
<1> DEFINE r == reply[n]
           l == log[n] \o r.bodies
<1>1. r # NoReply /\ r.fins \in Seq(Sig) /\ certs[n] \in Seq(Sig) /\ Linked(certs[n])
    BY DEF ReceiveReply, LinkInv, AllLinked, TypeOK, Answer
<1>2. PICK cs \in Accepted(l, certs[n], r.fins) : certs' = [certs EXCEPT ![n] = cs]
    BY DEF ReceiveReply
<1>3. certs[n] = << >> /\ r.fins # << >> => r.fins[1].parent = 0
  <2>1. certs[n] = << >> => Finalized(n) = 0
    BY DEF Finalized, LastIndex
  <2>2. r.fins # << >> => r.fins[1].parent <= Finalized(n) /\ r.fins[1].parent \in Nat
    <3> SUFFICES ASSUME r.fins # << >>
                 PROVE  r.fins[1].parent <= Finalized(n) /\ r.fins[1].parent \in Nat
        OBVIOUS
    <3>1. r.fins[1] \in Sig
      BY <1>1, HeadTailProperties, ElementOfSeq, LenProperties, EmptySeq
    <3> QED
      BY <1>1, <3>1 DEF LinkInv, ReplyParent, Sig
  <2> QED
    BY <2>1, <2>2
<1> HIDE DEF l
<1>4. Linked(cs)
    BY <1>1, <1>2, <1>3, AcceptedLinked
<1> QED
    BY <1>2, <1>4 DEF LinkInv, TypeOK

LEMMA AggregateFinLinked ==
    ASSUME LinkInv, NEW s \in Node, AggregateFin(s)
    PROVE  Linked(certs'[s])
<1> DEFINE sig == [chain |-> task[s].chain, parent |-> task[s].parent]
<1>1. task[s] # Idle /\ task[s] \in Round /\ sig \in Sig
    BY DEF AggregateFin, Aggregated, LinkInv, TypeOK, Round, Sig
<1>2. certs[s] \in Seq(Sig) /\ Linked(certs[s])
    BY DEF LinkInv, AllLinked, TypeOK
<1>3. CASE certs'[s] = certs[s]
    BY <1>2, <1>3
<1>4. CASE certs'[s] # certs[s]
  <2>1. certs'[s] = Append(certs[s], sig) /\ CanFinalize(log[s], certs[s], sig)
    BY <1>4 DEF AggregateFin, LinkInv, TypeOK
  <2>2. certs[s] = << >> => sig.parent = 0
    <3>1. sig.parent <= Finalized(s) /\ sig.parent \in Nat
      BY <1>1 DEF LinkInv, TaskParent, Round
    <3> QED
      BY <3>1 DEF Finalized, LastIndex
  <2> HIDE DEF sig
  <2> QED
    BY <1>1, <1>2, <2>1, <2>2, LinkedAppend
<1> QED
    BY <1>3, <1>4

(* A round is the one before it, or one that SyncApp starts with the last  *)
(* finalized index, or one that follows with the same parent.              *)
LEMMA TaskParents ==
    ASSUME LinkInv, [Next]_vars, NEW s \in Node, task'[s] # Idle
    PROVE  task'[s].parent <= Finalized(s)
<1>1. Finalized(s) \in Nat
    BY FinalizedProperties DEF LinkInv
<1>2. \A n \in Node : task[n] # Idle => task[n].parent <= Finalized(n)
    BY DEF LinkInv, TaskParent
<1>3. CASE task'[s] = task[s]
    BY <1>2, <1>3
<1>4. ASSUME NEW m \in Node, SyncApp(m), task'[s] # task[s]
      PROVE  task'[s].parent <= Finalized(s)
  <2>1. PICK t \in FirstTasks(m) : task' = [task EXCEPT ![m] = t]
    BY <1>4 DEF SyncApp
  <2>2. m = s /\ task'[s] = t
    BY <1>4, <2>1 DEF LinkInv, TypeOK
  <2>3. t = Idle \/ t.parent = Finalized(m)
    BY DEF FirstTasks, FinTasks, Task
  <2> QED
    BY <1>1, <2>2, <2>3
<1>5. ASSUME NEW m \in Node, AggregateLock(m) \/ GatherFails(m), task'[s] # task[s]
      PROVE  task'[s].parent <= Finalized(s)
  <2>1. task[m] # Idle
    BY <1>5 DEF AggregateLock, Aggregated, GatherFails
  <2>2. PICK t \in FinTasks(m, task[m].parent) \cup {Idle} :
            task' = [task EXCEPT ![m] = t]
    BY <1>5 DEF AggregateLock, GatherFails
  <2>3. m = s /\ task'[s] = t
    BY <1>5, <2>2 DEF LinkInv, TypeOK
  <2>4. t = Idle \/ t.parent = task[m].parent
    BY DEF FinTasks, Task
  <2> QED
    BY <1>2, <2>1, <2>3, <2>4
<1>6. ASSUME NEW m \in Node, AggregateFin(m)
      PROVE  task'[s] = task[s]
    BY <1>6 DEF AggregateFin, LinkInv, TypeOK
<1>7. ASSUME NEW m \in Node, NEW k \in Node, SignSyncPoint(m, k), task'[s] # task[s]
      PROVE  task'[s].parent <= Finalized(s)
  <2>1. m = s /\ task[s] # Idle /\ task[s] \in Round
    BY <1>7 DEF SignSyncPoint, LinkInv, TypeOK
  <2>2. task'[s].parent = task[s].parent
    BY <1>7, <2>1 DEF SignSyncPoint, LinkInv, TypeOK, Round
  <2> QED
    BY <1>2, <2>1, <2>2
<1>8. ASSUME NEW m \in Node,
             \/ \E b \in Batch : PostToSequencer(m, b)
             \/ \E bodies \in Bodies : Put(m, bodies)
             \/ \E bodies \in Bodies : PutFails(m, bodies)
             \/ ReceiveReply(m) \/ LoseReply(m)
      PROVE  task' = task
    BY <1>8 DEF PostToSequencer, PutAnswered, Put, PutFails, ReceiveReply, LoseReply
<1>9. ASSUME NEW m \in Node,
             \/ Dispute(m) \/ PostSwitch(m) \/ SwitchReinit(m) \/ SwitchResume(m)
             \/ \E k \in Node : \/ SwitchAdopt(m, k) \/ SwitchAbort(m, k)
                               \/ ResetSequencer(m, k)
      PROVE  task' = task
    BY <1>9 DEF Dispute, PostSwitch, BeginSwitch, SwitchReinit,
                SwitchResume, SwitchAdopt, SwitchAbort, ResetSequencer
<1>10. CASE UNCHANGED vars
    BY <1>3, <1>10 DEF vars
<1>11. CASE Next
    BY <1>3, <1>4, <1>5, <1>6, <1>7, <1>8, <1>9, <1>11 DEF Next
<1> QED
    BY <1>10, <1>11

LEMMA InitLinkInv == Init => LinkInv
<1> SUFFICES ASSUME Init PROVE LinkInv
    OBVIOUS
<1>1. AllLinked
    BY EmptySeq DEF Init, AllLinked, Linked
<1>2. ReplyParent /\ TaskParent
    BY DEF Init, ReplyParent, TaskParent
<1> QED
    BY <1>1, <1>2, InitLog DEF LinkInv

(* Signatures that only grow stay linked, if answers and rounds continue   *)
(* from where their node was before the step.                              *)
LEMMA LinkStep ==
    ASSUME LinkInv, TypeOK', LogInv',
           \A n \in Node : CertsStep(n) /\ ReplyStep(n),
           \A s \in Node : task'[s] # Idle => task'[s].parent <= Finalized(s)
    PROVE  LinkInv'
<1>1. TypeOK /\ LogInv
    BY DEF LinkInv
<1>2. ASSUME NEW n \in Node
      PROVE  /\ Finalized(n) \in Nat /\ Finalized(n)' \in Nat
             /\ Finalized(n)' >= Finalized(n)
  <2>1. Finalized(n) \in Nat /\ Finalized(n)' >= Finalized(n)
    BY <1>1, FinalizedProperties, FinalizedGrows
  <2>2. certs'[n] \in Seq([chain : Seq(Batch), parent : Nat])
    BY DEF TypeOK, Sig, Chain
  <2>3. Finalized(n)' \in Nat
    BY <2>2, LastIndexProperties DEF Finalized
  <2> QED
    BY <2>1, <2>3
<1>3. AllLinked'
  <2>1. ASSUME NEW n \in Node
        PROVE  Linked(certs'[n])
    <3>1. Linked(certs[n])
      BY DEF LinkInv, AllLinked
    <3> QED
      BY <3>1, ReceiveReplyLinked, AggregateFinLinked DEF CertsStep
  <2> QED
    BY <2>1 DEF AllLinked, Linked
<1>4. ReplyParent'
  <2>1. ASSUME NEW n \in Node, reply'[n] # NoReply, reply'[n].fins # << >>
        PROVE  reply'[n].fins[1].parent <= Finalized(n)'
    <3>1. CASE reply'[n] = reply[n]
      <4>1. reply[n].fins[1].parent <= Finalized(n)
        BY <2>1, <3>1 DEF LinkInv, ReplyParent
      <4>2. reply[n].fins[1].parent \in Nat
        <5>1. reply[n].fins \in Seq(Sig) /\ reply[n].fins # << >>
          BY <1>1, <2>1, <3>1 DEF TypeOK, Answer
        <5>2. reply[n].fins[1] \in Sig
          BY <5>1, ElementOfSeq, LenProperties, EmptySeq
        <5> QED
          BY <5>2 DEF Sig
      <4> QED
        BY <1>2, <3>1, <4>1, <4>2
    <3>2. CASE \E s \in Node : reply'[n].fins \in FinsOf(s, n)
      <4>1. PICK s \in Node : reply'[n].fins \in FinsOf(s, n)
        BY <3>2
      <4>2. certs[s] \in Seq(Sig) /\ Linked(certs[s])
        BY <1>1 DEF LinkInv, AllLinked, TypeOK
      <4>3. reply'[n].fins[1].parent = Finalized(n)
        BY <1>2, <2>1, <4>1, <4>2, FinalizedAfterFirst,
           FinalizedAfterKnownFirst DEF FinsOf
      <4> QED
        BY <1>2, <4>3
    <3> QED
      BY <2>1, <3>1, <3>2 DEF ReplyStep
  <2> QED
    BY <2>1 DEF ReplyParent
<1>5. TaskParent'
  <2>1. ASSUME NEW s \in Node, task'[s] # Idle
        PROVE  task'[s].parent <= Finalized(s)'
    <3>1. task'[s].parent \in Nat
      BY <2>1 DEF TypeOK, Round
    <3> QED
      BY <1>2, <2>1, <3>1
  <2> QED
    BY <2>1 DEF TaskParent
<1> QED
    BY <1>3, <1>4, <1>5 DEF LinkInv

LEMMA NextLinkInv ==
    ASSUME LinkInv, [Next]_vars
    PROVE  LinkInv'
<1>1. TypeOK' /\ LogInv'
    BY NextLog DEF LinkInv
<1>2. \A n \in Node : CertsStep(n) /\ ReplyStep(n)
    BY CertsChange, ReplyChange DEF LinkInv
<1> QED
    BY <1>1, <1>2, TaskParents, LinkStep

(* Across late answers, rounds that outlive a switch and changes of the    *)
(* sequencer, the finalization signatures of a node form one chain from    *)
(* index 0, about batches that the node has.                               *)
THEOREM CheckpointsChained == Spec => []CheckpointChain
<1>1. LinkInv /\ [Next]_vars => LinkInv'
    BY NextLinkInv
<1>2. LinkInv => CheckpointChain
    BY DEF LinkInv, LogInv, Holds, AllLinked, Linked, CheckpointChain
<1> QED
    BY <1>1, <1>2, InitLinkInv, PTL DEF Spec

-----------------------------------------------------------------------------
(************************ The finalized log *******************************)

(* Node m has finalized at least as much as any other. *)
IsAhead(m) == \A n \in Node : Finalized(n) <= Finalized(m)

(* The common log is what a node that is ahead has finalized, and no node  *)
(* has finalized more.                                                     *)
LongestFacts ==
    /\ Longest \in Seq(Batch)
    /\ \E m \in Node : /\ IsAhead(m)
                       /\ Len(Longest) = Finalized(m)
                       /\ Longest = Prefix(log[m], Finalized(m))
    /\ \A n \in Node : Finalized(n) \in Nat /\ Finalized(n) <= Len(Longest)

(* What a node has finalized it has locked, and has. *)
LockedFinalized ==
    \A n \in Node : Finalized(n) <= locked[n] /\ locked[n] <= Len(log[n])

(* What a step does to the finalized indices: it lowers none and raises at *)
(* most that of one node.                                                  *)
OneFinalizes ==
    /\ \A n \in Node : Finalized(n)' >= Finalized(n)
    /\ \E n \in Node : \A m \in Node : m # n => Finalized(m)' = Finalized(m)

-----------------------------------------------------------------------------
(* A node whose set of better ones is minimal has none better. *)
LEMMA AheadExists ==
    ASSUME IInv
    PROVE  \E m \in Node : IsAhead(m)
<1> DEFINE Better(m) == {k \in Node : Finalized(k) > Finalized(m)}
           All == {Better(m) : m \in Node}
<1>1. \A n \in Node : Finalized(n) \in Nat
    BY FinalizedProperties DEF IInv
<1>2. All \subseteq FiniteSubsetsOf(Node) /\ All # {}
  <2>1. \A m \in Node : Better(m) \subseteq Node /\ IsFiniteSet(Better(m))
    BY NodeAssumption, FS_Subset
  <2>2. Node # {}
    BY RingAssumption
  <2> QED
    BY <2>1, <2>2 DEF FiniteSubsetsOf
<1>3. IsWellFoundedOn(StrictSubsetOrdering(Node), FiniteSubsetsOf(Node))
    BY FS_StrictSubsetOrderingWellFounded
<1>4. PICK least \in All : \A B \in All : <<B, least>> \notin StrictSubsetOrdering(Node)
    BY <1>2, <1>3, WFMin
<1>5. PICK m \in Node : least = Better(m)
    BY <1>4
<1>6. ASSUME NEW k \in Better(m)
      PROVE  FALSE
  <2>1. k \in Node /\ Finalized(k) > Finalized(m)
    OBVIOUS
  <2>2. Better(k) \in All /\ Better(k) \subseteq Better(m) /\ k \notin Better(k)
    BY <1>1, <2>1
  <2>3. <<Better(k), least>> \in StrictSubsetOrdering(Node)
    BY <1>5, <1>6, <2>2 DEF StrictSubsetOrdering
  <2> QED
    BY <1>4, <2>2, <2>3
<1> QED
    BY <1>1, <1>6 DEF IsAhead

LEMMA LongestProperties == IInv => LongestFacts
<1> SUFFICES ASSUME IInv PROVE LongestFacts
    OBVIOUS
<1> DEFINE m == CHOOSE m \in Node : \A n \in Node : Finalized(n) <= Finalized(m)
<1>1. m \in Node /\ IsAhead(m)
    BY AheadExists DEF IsAhead
<1>2. \A n \in Node : Finalized(n) \in Nat
    BY FinalizedProperties DEF IInv
<1>3. Longest = Prefix(log[m], Finalized(m))
    BY DEF Longest
<1> HIDE DEF m
<1>4. log[m] \in Seq(Batch) /\ Finalized(m) \in 0..Len(log[m])
  <2>1. Len(log[m]) \in Nat /\ locked[m] \in Nat /\ log[m] \in Seq(Batch)
    BY <1>1, LenProperties DEF IInv, TypeOK, Chain
  <2>2. Finalized(m) <= locked[m] /\ locked[m] <= Len(log[m])
    BY <1>1, FinalizedProperties DEF IInv, LogInv
  <2> QED
    BY <1>1, <1>2, <2>1, <2>2
<1>5. Longest \in Seq(Batch) /\ Len(Longest) = Finalized(m)
    BY <1>3, <1>4, PrefixProperties
<1> QED
    BY <1>1, <1>2, <1>3, <1>5 DEF IsAhead, LongestFacts

LEMMA LongestNext == IInv' => LongestFacts'
BY LongestProperties, PTL

LEMMA FinalizedIsLocked == IInv => LockedFinalized
BY FinalizedProperties DEF IInv, LogInv, LockedFinalized

LEMMA LockedFinalizedNext == IInv' => LockedFinalized'
BY FinalizedIsLocked, PTL

LEMMA AgreementNext == IInv' => FinalizedAgreement'
BY IInvAgreement, PTL

-----------------------------------------------------------------------------
(* Only a node that takes an answer or aggregates a finalization changes   *)
(* its signatures, and one node moves at a time.                           *)
LEMMA OneNodeSigns ==
    ASSUME IInv, [Next]_vars
    PROVE  \E n \in Node : \A m \in Node : m # n => certs'[m] = certs[m]
<1>1. \A n, m \in Node : ReceiveReply(n) \/ AggregateFin(n)
                            => m = n \/ certs'[m] = certs[m]
  <2> SUFFICES ASSUME NEW n \in Node, NEW m \in Node,
                      ReceiveReply(n) \/ AggregateFin(n)
               PROVE  m = n \/ certs'[m] = certs[m]
      OBVIOUS
  <2>1. \E cs : certs' = [certs EXCEPT ![n] = cs]
    BY DEF ReceiveReply, AggregateFin
  <2> QED
    BY <2>1 DEF IInv, TypeOK
<1>2. CASE \E n \in Node : ReceiveReply(n) \/ AggregateFin(n)
    BY <1>1, <1>2
<1>3. CASE ~ \E n \in Node : ReceiveReply(n) \/ AggregateFin(n)
  <2>1. \A m \in Node : certs'[m] = certs[m]
    BY <1>3, CertsChange DEF IInv, CertsStep
  <2> QED
    BY <2>1, RingAssumption
<1> QED
    BY <1>2, <1>3

LEMMA StepOneFinalizes ==
    ASSUME IInv, [Next]_vars
    PROVE  OneFinalizes
<1>1. PICK n \in Node : \A m \in Node : m # n => certs'[m] = certs[m]
    BY OneNodeSigns
<1>2. \A m \in Node : m # n => Finalized(m)' = Finalized(m)
    BY <1>1 DEF Finalized
<1> QED
    BY <1>2, CertsChange, FinalizedGrows DEF IInv, OneFinalizes

-----------------------------------------------------------------------------
(***************************** The refinement *******************************)

(* No step changes a batch of the common log: the batches of a node that   *)
(* was ahead stay locked there, and after the step all agree on them.      *)
LEMMA LongestGrows ==
    ASSUME IInv, [Next]_vars
    PROVE  Contains(Longest', Longest)
<1>1. IInv' /\ Keeps /\ TypeOK /\ TypeOK' /\ LogInv
    BY NextIInv, NextLog DEF IInv
<1>2. LongestFacts /\ LongestFacts' /\ FinalizedAgreement'
    BY <1>1, LongestProperties, LongestNext, AgreementNext
<1>3. PICK m \in Node : /\ Len(Longest) = Finalized(m)
                       /\ Longest = Prefix(log[m], Finalized(m))
    BY <1>2 DEF LongestFacts
<1>4. PICK k \in Node : /\ \A n \in Node : Finalized(n)' <= Finalized(k)'
                       /\ Len(Longest') = Finalized(k)'
                       /\ Longest' = Prefix(log'[k], Finalized(k)')
    BY <1>2 DEF LongestFacts, IsAhead
<1>5. /\ Longest \in Seq(Batch) /\ Longest' \in Seq(Batch)
      /\ log[m] \in Seq(Batch) /\ log'[m] \in Seq(Batch) /\ log'[k] \in Seq(Batch)
      /\ Finalized(m) \in Nat /\ Finalized(m)' \in Nat /\ Finalized(k)' \in Nat
    BY <1>1, <1>2 DEF LongestFacts, TypeOK, Chain
<1>6. Finalized(m) <= locked[m] /\ locked[m] <= Len(log[m])
    BY <1>1, FinalizedProperties DEF LogInv
<1>7. Finalized(m)' >= Finalized(m) /\ Finalized(m)' <= Finalized(k)'
    BY <1>1, <1>4, CertsChange, FinalizedGrows
<1>8. Holds(m, Longest)
  <2>1. Finalized(m) \in 0..Len(log[m])
    BY <1>1, <1>5, <1>6, LenProperties DEF TypeOK
  <2> QED
    BY <1>3, <1>5, <1>6, <2>1, ContainsPrefix DEF Holds
<1>9. Contains(log'[m], Longest)
    BY <1>1, <1>5, <1>8, HoldsStable DEF HoldsNext, Chain
<1>10. Prefix(log'[m], Finalized(m)') = Prefix(log'[k], Finalized(m)')
    BY <1>2, <1>7 DEF FinalizedAgreement
<1>11. /\ Finalized(m)' \in 0..Len(log'[m]) /\ Finalized(k)' \in 0..Len(log'[k])
       /\ Finalized(m)' \in 0..Len(log'[k])
  <2>1. \A n \in Node : Finalized(n)' <= locked'[n] /\ locked'[n] <= Len(log'[n])
    <3>1. LockedFinalized'
      BY <1>1, LockedFinalizedNext
    <3> QED
      BY <3>1 DEF LockedFinalized
  <2>2. Len(log'[m]) \in Nat /\ Len(log'[k]) \in Nat /\ locked'[m] \in Nat
        /\ locked'[k] \in Nat
    BY <1>1, <1>5, LenProperties DEF TypeOK
  <2> QED
    BY <1>5, <1>7, <2>1, <2>2
<1> DEFINE p == Prefix(log'[k], Finalized(m)')
<1>12. p \in Seq(Batch) /\ Len(p) = Finalized(m)'
    BY <1>5, <1>11, PrefixProperties
<1>13. Contains(log'[m], p) /\ Contains(log'[k], p) /\ Contains(log'[k], Longest')
    BY <1>4, <1>5, <1>10, <1>11, ContainsPrefix
<1> HIDE DEF p
<1>14. Contains(p, Longest)
    BY <1>3, <1>5, <1>7, <1>9, <1>12, <1>13, ContainsComparable
<1>15. Contains(Longest', p)
    BY <1>4, <1>5, <1>7, <1>12, <1>13, ContainsComparable
<1> QED
    BY <1>5, <1>12, <1>14, <1>15, ContainsTransitive

(* A step after which all indices are the same leaves the common log; one  *)
(* that raises the index of a node finalizes up to there.                  *)
LEMMA StepImplements ==
    ASSUME IInv, [Next]_vars
    PROVE  [Abstract!Next]_Abstract!vars
<1> DEFINE upto == [n \in Node |-> Finalized(n)]
<1>1. IInv'
    BY NextIInv
<1>2. LongestFacts /\ LongestFacts'
    BY <1>1, LongestProperties, LongestNext
<1>3. /\ Longest \in Seq(Batch) /\ Longest' \in Seq(Batch)
      /\ Len(Longest) \in Nat /\ Len(Longest') \in Nat
      /\ \A m \in Node : Finalized(m) \in Nat /\ Finalized(m) <= Len(Longest)
      /\ \A m \in Node : Finalized(m)' \in Nat /\ Finalized(m)' <= Len(Longest')
    BY <1>2, LenProperties DEF LongestFacts
<1>4. PICK a \in Node : Len(Longest) = Finalized(a)
    BY <1>2 DEF LongestFacts
<1>5. PICK b \in Node : Len(Longest') = Finalized(b)'
    BY <1>2 DEF LongestFacts
<1>6. /\ Contains(Longest', Longest)
      /\ Len(Longest) <= Len(Longest')
      /\ Prefix(Longest', Len(Longest)) = Longest
    BY LongestGrows DEF Contains
<1>7. PICK n \in Node : \A m \in Node : m # n => Finalized(m)' = Finalized(m)
    BY StepOneFinalizes DEF OneFinalizes
<1>8. Finalized(n)' >= Finalized(n)
    BY CertsChange, FinalizedGrows DEF IInv
<1>9. ASSUME Len(Longest') = Len(Longest)
      PROVE  Longest' = Longest
    BY <1>3, <1>6, <1>9, ContainsSameLength
<1>10. CASE Finalized(n)' = Finalized(n)
  <2>1. \A m \in Node : Finalized(m)' = Finalized(m)
    BY <1>7, <1>10
  <2>2. upto' = upto
    BY <2>1
  <2>3. Len(Longest') = Len(Longest)
    BY <1>3, <1>5, <1>6, <2>1
  <2> QED
    BY <1>9, <2>2, <2>3 DEF Abstract!vars
<1>11. CASE Finalized(n)' # Finalized(n)
  <2> DEFINE k == Finalized(n)'
  <2>1. k \in Nat /\ k > Finalized(n) /\ upto[n] = Finalized(n) /\ upto'[n] = k
    BY <1>3, <1>8, <1>11
  <2>2. upto' = [upto EXCEPT ![n] = k]
    BY <1>7
  <2>3. ASSUME k <= Len(Longest)
        PROVE  Longest' = Longest
    <3>1. Len(Longest') = Len(Longest)
      BY <1>3, <1>5, <1>6, <1>7, <2>3
    <3> QED
      BY <1>9, <3>1
  <2>4. ASSUME ~ (k <= Len(Longest))
        PROVE  Len(Longest') = k
    BY <1>3, <1>5, <1>7, <2>1, <2>4
  <2>5. Abstract!Finalize(n, k)
    BY <1>3, <1>6, <2>1, <2>2, <2>3, <2>4 DEF Abstract!Finalize, Prefix
  <2> QED
    BY <2>1, <2>5 DEF Abstract!Next
<1> QED
    BY <1>10, <1>11

(* At first no node has finalized anything. *)
LEMMA InitLongest == Init => Abstract!Init
<1> SUFFICES ASSUME Init PROVE Abstract!Init
    OBVIOUS
<1>1. \A n \in Node : Finalized(n) = 0
    BY DEF Init, Finalized, LastIndex
<1>2. LongestFacts
    BY InitIInv, LongestProperties
<1>3. Longest \in Seq(Batch) /\ Len(Longest) = 0
    BY <1>1, <1>2 DEF LongestFacts
<1>4. Longest = << >>
    BY <1>3, EmptySeq
<1> QED
    BY <1>1, <1>4 DEF Abstract!Init

(* Every behaviour of the protocol, with its lost answers, disputes and    *)
(* switches, is one of a single log that only grows and of which each node *)
(* finalizes a growing prefix.                                             *)
THEOREM Implements == Spec => FinalizedLogSpec
<1>1. Init => Abstract!Init
    BY InitLongest
<1>2. IInv /\ [Next]_vars => IInv'
    BY NextIInv
<1>3. IInv /\ [Next]_vars => [Abstract!Next]_Abstract!vars
    BY StepImplements
<1> QED
    BY <1>1, <1>2, <1>3, InitIInv, PTL DEF Spec, FinalizedLogSpec, Abstract!Spec

-----------------------------------------------------------------------------
(********************************* Restarts *********************************)

(* The nodes that keep their locks. *)
Steady == Node \ Restarting

(* The inductive invariant behind agreement: what was signed is held by a  *)
(* quorum, of which only the steady nodes count.                           *)
SteadyInv == LinkInv /\ QuorumInv(Steady)

-----------------------------------------------------------------------------
(*********************** Steps that are no restart **************************)

(* An answer of a sequencer that forgot its first finalized index.         *)
LEMMA PutForgottenStep ==
    ASSUME LinkInv, NEW n \in Node, NEW bodies \in Bodies, PutForgotten(n, bodies)
    PROVE  /\ TypeOK' /\ LogInv' /\ Keeps
           /\ UNCHANGED <<certs, task>>
           /\ \A m \in Node : ReplyStep(m)
<1> DEFINE fins == FinalizedAfterKnown(certs[sequencer[n]], Finalized(n))
<1>1. TypeOK /\ LogInv /\ sequencer[n] \in Node
    BY DEF LinkInv, TypeOK
<1>2. PutAnswered(n, bodies, fins)
    BY DEF PutForgotten
<1>3. fins \in Seq(Sig)
    BY <1>1, FinalizedProperties, FinalizedAfterKnownProperties DEF TypeOK
<1>4. fins \in FinsOf(sequencer[n], n)
    BY DEF FinsOf
<1> HIDE DEF fins
<1>5. TypeOK' /\ LogInv' /\ Keeps
    BY <1>1, <1>2, <1>3, PutAnsweredStep
<1>6. \A m \in Node : ReplyStep(m)
    BY <1>1, <1>2, <1>4, AnsweredStep
<1>7. UNCHANGED <<certs, task>>
    BY <1>2 DEF PutAnswered
<1> QED
    BY <1>5, <1>6, <1>7

(* What LinkStep and QuorumInvStep ask of a step.                          *)
LEMMA WorksStep ==
    ASSUME LinkInv, Works \/ UNCHANGED vars
    PROVE  /\ TypeOK' /\ LogInv' /\ Keeps
           /\ \A n \in Node : CertsStep(n) /\ ReplyStep(n) /\ TaskStep(n)
           /\ \A s \in Node : task'[s] # Idle => task'[s].parent <= Finalized(s)
<1>1. CASE [Next]_vars
  <2>1. TypeOK' /\ LogInv' /\ Keeps
    BY <1>1, NextLog DEF LinkInv
  <2>2. \A n \in Node : CertsStep(n) /\ ReplyStep(n) /\ TaskStep(n)
    BY <1>1, CertsChange, ReplyChange, TaskChange DEF LinkInv
  <2>3. \A s \in Node : task'[s] # Idle => task'[s].parent <= Finalized(s)
    BY <1>1, TaskParents
  <2> QED
    BY <2>1, <2>2, <2>3
<1>2. ASSUME NEW n \in Node, NEW bodies \in Bodies, PutForgotten(n, bodies)
      PROVE  /\ TypeOK' /\ LogInv' /\ Keeps
             /\ \A m \in Node : CertsStep(m) /\ ReplyStep(m) /\ TaskStep(m)
             /\ \A s \in Node : task'[s] # Idle => task'[s].parent <= Finalized(s)
  <2>1. /\ TypeOK' /\ LogInv' /\ Keeps
        /\ UNCHANGED <<certs, task>>
        /\ \A m \in Node : ReplyStep(m)
    BY <1>2, PutForgottenStep
  <2>2. \A m \in Node : CertsStep(m) /\ TaskStep(m)
    BY <2>1 DEF CertsStep, TaskStep
  <2>3. \A s \in Node : task'[s] # Idle => task'[s].parent <= Finalized(s)
    BY <2>1 DEF LinkInv, TaskParent
  <2> QED
    BY <2>1, <2>2, <2>3
<1> QED
    BY <1>1, <1>2 DEF Works

-----------------------------------------------------------------------------
(******************************** Restarts **********************************)

(* The last signature of a linked chain is the one for most batches.       *)
LEMMA LinkedBounds ==
    ASSUME NEW cs \in Seq(Sig), Linked(cs), NEW k \in 1..Len(cs)
    PROVE  Len(cs[k].chain) <= LastIndex(cs)
<1> DEFINE Above == {j \in 1..Len(cs) : Len(cs[j].chain) > LastIndex(cs)}
<1>1. /\ Len(cs) \in Nat /\ cs # << >>
      /\ cs \in Seq([chain : Seq(Batch), parent : Nat])
    BY LenProperties, EmptySeq DEF Sig, Chain
<1>2. LastIndex(cs) \in Nat /\ LastIndex(cs) = Len(cs[Len(cs)].chain)
    BY <1>1, LastIndexProperties
<1>3. \A j \in 1..Len(cs) : Len(cs[j].chain) \in Nat
  <2> SUFFICES ASSUME NEW j \in 1..Len(cs) PROVE Len(cs[j].chain) \in Nat
      OBVIOUS
  <2>1. cs[j].chain \in Seq(Batch)
    BY SignatureChains DEF Chain
  <2> QED
    BY <2>1, LenProperties
<1>4. ASSUME Above # {}
      PROVE  FALSE
  <2>1. PICK j \in Above : \A i \in Above : i <= j
    <3>1. Above \in SUBSET (1..Len(cs))
      OBVIOUS
    <3> QED
      BY <1>1, <1>4, <3>1, Lemmas!GreatestNat
  <2>2. j \in 1..Len(cs) /\ j # Len(cs) /\ j + 1 \in 1..Len(cs)
    BY <1>1, <1>2, <2>1
  <2>3. Len(cs[j + 1].chain) > LastIndex(SubSeq(cs, 1, (j + 1) - 1))
    <3>1. /\ cs[j + 1].parent = LastIndex(SubSeq(cs, 1, (j + 1) - 1))
          /\ Len(cs[j + 1].chain) > cs[j + 1].parent
      BY <2>2 DEF Linked
    <3> QED
      BY <3>1
  <2>4. LastIndex(SubSeq(cs, 1, j)) = Len(cs[j].chain)
    BY <1>1, <2>2, LastIndexOfPrefix, Zenon
  <2>5. j + 1 \notin Above
    BY <1>1, <2>1, <2>2
  <2>6. (j + 1) - 1 = j
    BY <2>2
  <2> QED
    BY <1>2, <1>3, <2>1, <2>2, <2>3, <2>4, <2>5, <2>6
<1>5. k \notin Above
    BY <1>4
<1> QED
    BY <1>2, <1>3, <1>5

(* The sequencer that a node finds when it starts is a node. *)
LEMMA FoundType ==
    ASSUME NEW n \in Node, NEW c \in Found(n)
    PROVE  c \in Node
<1>1. InitSequencer \in Node /\ \A i \in DOMAIN Ring : Ring[i] \in Node
    BY RingAssumption, ElementOfSeq, LenProperties
<1> QED
    BY <1>1 DEF Found, Range

(* What a restarted node has: the batches up to a signature, all locked.   *)
LEMMA KeptProperties ==
    ASSUME LinkInv, NEW n \in Node, NEW cs \in Stored(n)
    PROVE  LET kept == Kept(n, cs)
           IN  /\ cs \in Seq(Sig) /\ Linked(cs)
               /\ \A k \in 1..Len(cs) : k \in 1..Len(certs[n]) /\ cs[k] = certs[n][k]
               /\ kept.log \in Chain /\ kept.locked \in Nat /\ kept.sig \in Sig
               /\ kept.locked <= Len(kept.log)
               /\ \A k \in 1..Len(cs) : /\ Len(cs[k].chain) <= kept.locked
                                        /\ Contains(kept.log, cs[k].chain)
<1> DEFINE kept == Kept(n, cs)
<1>1. /\ TypeOK /\ LogInv /\ Linked(certs[n]) /\ certs[n] \in Seq(Sig)
      /\ log[n] \in Seq(Batch) /\ Len(log[n]) \in Nat
    BY LenProperties DEF LinkInv, AllLinked, TypeOK, Chain
<1>2. PICK i \in 0..Len(certs[n]) : cs = SubSeq(certs[n], 1, i)
    BY DEF Stored
<1>3. /\ cs \in Seq(Sig) /\ Len(cs) = i
      /\ \A k \in 1..i : cs[k] = certs[n][k]
    BY <1>1, <1>2, PrefixProperties DEF Prefix
<1>4. Linked(cs)
    BY <1>1, <1>2, LinkedPrefix
<1>5. \A k \in 1..Len(cs) : k \in 1..Len(certs[n]) /\ cs[k] = certs[n][k]
    BY <1>1, <1>3, LenProperties
<1>6. /\ LastIndex(cs) \in Nat
      /\ cs # << >> => Len(cs) \in 1..Len(cs) /\ LastIndex(cs) = Len(cs[Len(cs)].chain)
    BY <1>3, LastIndexProperties DEF Sig, Chain
<1>7. LastIndex(cs) \in 0..Len(log[n])
  <2>1. CASE cs = << >>
    BY <1>1, <1>6, <2>1 DEF LastIndex
  <2>2. CASE cs # << >>
    <3>1. Contains(log[n], cs[Len(cs)].chain)
      BY <1>1, <1>5, <1>6, <2>2 DEF LogInv, Holds
    <3> QED
      BY <1>1, <1>6, <2>2, <3>1 DEF Contains
  <2> QED
    BY <2>1, <2>2
<1>8. /\ kept.log = Prefix(log[n], LastIndex(cs))
      /\ kept.locked = LastIndex(cs)
      /\ kept.sig \in {lockSig[n], NoSig}
    BY DEF Kept
<1>9. kept.log \in Seq(Batch) /\ Len(kept.log) = LastIndex(cs) /\ Contains(log[n], kept.log)
    BY <1>1, <1>7, <1>8, PrefixProperties, ContainsPrefix
<1>10. kept.sig \in Sig
  <2>1. NoSig \in Sig
    BY EmptySeq DEF NoSig, Sig, Chain
  <2>2. lockSig[n] \in Sig
    BY <1>1 DEF TypeOK
  <2> QED
    BY <1>8, <2>1, <2>2
<1> HIDE DEF kept
<1>11. ASSUME NEW k \in 1..Len(cs)
       PROVE  Len(cs[k].chain) <= kept.locked /\ Contains(kept.log, cs[k].chain)
  <2>1. Len(cs[k].chain) <= LastIndex(cs)
    BY <1>3, <1>4, LinkedBounds
  <2>2. Contains(log[n], cs[k].chain) /\ cs[k].chain \in Seq(Batch)
    BY <1>1, <1>3, <1>5, SignatureChains DEF LogInv, Holds, Chain
  <2>3. Contains(kept.log, cs[k].chain)
    BY <1>1, <1>9, <2>1, <2>2, ContainsComparable
  <2> QED
    BY <1>8, <2>1, <2>3
<1>12. kept.log \in Chain /\ kept.locked \in Nat /\ kept.locked <= Len(kept.log)
    BY <1>6, <1>8, <1>9 DEF Chain
<1> QED
    BY <1>3, <1>4, <1>5, <1>10, <1>11, <1>12 DEF kept

(* A restart changes one node, which then has no request and no round.     *)
LEMMA RestartOne ==
    ASSUME TypeOK, NEW n \in Node, Restart(n)
    PROVE  /\ \E cs \in Stored(n) : /\ log'[n] = Kept(n, cs).log
                                    /\ locked'[n] = Kept(n, cs).locked
                                    /\ certs'[n] = cs
           /\ \A m \in Node : m # n => /\ log'[m] = log[m] /\ locked'[m] = locked[m]
                                       /\ certs'[m] = certs[m]
                                       /\ reply'[m] = reply[m] /\ task'[m] = task[m]
           /\ reply'[n] = NoReply /\ task'[n] = Idle
<1>1. PICK cs \in Stored(n) :
          /\ log' = [log EXCEPT ![n] = Kept(n, cs).log]
          /\ locked' = [locked EXCEPT ![n] = Kept(n, cs).locked]
          /\ certs' = [certs EXCEPT ![n] = cs]
    BY DEF Restart
<1>2. reply' = [reply EXCEPT ![n] = NoReply] /\ task' = [task EXCEPT ![n] = Idle]
    BY DEF Restart
<1> QED
    BY <1>1, <1>2 DEF TypeOK

LEMMA RestartType ==
    ASSUME LinkInv, NEW n \in Node, Restart(n)
    PROVE  TypeOK'
<1>1. TypeOK
    BY DEF LinkInv
<1>2. PICK cs \in Stored(n) :
          /\ log' = [log EXCEPT ![n] = Kept(n, cs).log]
          /\ locked' = [locked EXCEPT ![n] = Kept(n, cs).locked]
          /\ lockSig' = [lockSig EXCEPT ![n] = Kept(n, cs).sig]
          /\ certs' = [certs EXCEPT ![n] = cs]
    BY DEF Restart
<1>3. /\ Kept(n, cs).log \in Chain /\ Kept(n, cs).locked \in Nat
      /\ Kept(n, cs).sig \in Sig /\ cs \in Seq(Sig)
    BY KeptProperties
<1>4. PICK c \in Node : sequencer' = [sequencer EXCEPT ![n] = c]
    BY FoundType DEF Restart
<1>5. /\ log' \in [Node -> Chain] /\ locked' \in [Node -> Nat]
      /\ lockSig' \in [Node -> Sig] /\ certs' \in [Node -> Seq(Sig)]
    BY <1>1, <1>2, <1>3 DEF TypeOK
<1>6. /\ sequencer' \in [Node -> Node]
      /\ phase' \in [Node -> {"run", "query", "wait"}]
      /\ reply' \in [Node -> {NoReply} \cup Answer]
      /\ task' \in [Node -> {Idle} \cup Round]
      /\ disputed' \in SUBSET Node
    BY <1>1, <1>4 DEF TypeOK, Restart
<1>7. inbox' \in [Node -> SUBSET Node]
    BY <1>1 DEF TypeOK, Restart
<1>8. /\ seqState' \in [Node -> [Node -> Chain]]
      /\ lckState' \in [Node -> [Node -> Chain]]
      /\ lockPoint' \in [Node -> Chain] /\ finPoint' \in [Node -> Chain]
    BY <1>1, ForgetNodesStateType DEF Restart
<1> QED
    BY <1>5, <1>6, <1>7, <1>8 DEF TypeOK

LEMMA RestartLink ==
    ASSUME LinkInv, NEW n \in Node, Restart(n)
    PROVE  LinkInv'
<1>1. TypeOK /\ LogInv /\ AllLinked /\ ReplyParent /\ TaskParent
    BY DEF LinkInv
<1>2. PICK cs \in Stored(n) : /\ log'[n] = Kept(n, cs).log
                             /\ locked'[n] = Kept(n, cs).locked
                             /\ certs'[n] = cs
    BY <1>1, RestartOne
<1>3. \A m \in Node : m # n => /\ log'[m] = log[m] /\ locked'[m] = locked[m]
                               /\ certs'[m] = certs[m]
                               /\ reply'[m] = reply[m] /\ task'[m] = task[m]
    BY <1>1, RestartOne
<1>4. reply'[n] = NoReply /\ task'[n] = Idle
    BY <1>1, RestartOne
<1>5. /\ Linked(cs)
      /\ Kept(n, cs).locked <= Len(Kept(n, cs).log)
      /\ \A k \in 1..Len(cs) : /\ Len(cs[k].chain) <= Kept(n, cs).locked
                               /\ Contains(Kept(n, cs).log, cs[k].chain)
    BY KeptProperties
<1>6. LogInv'
  <2>1. ASSUME NEW m \in Node
        PROVE  /\ locked'[m] <= Len(log'[m])
               /\ \A k \in 1..Len(certs'[m]) :
                    /\ Len(certs'[m][k].chain) <= locked'[m]
                    /\ Contains(log'[m], certs'[m][k].chain)
    <3>1. CASE m = n
      BY <1>2, <1>5, <3>1
    <3>2. CASE m # n
      BY <1>1, <1>3, <3>2 DEF LogInv, Holds
    <3> QED
      BY <3>1, <3>2
  <2> QED
    BY <2>1 DEF LogInv, Holds
<1>7. AllLinked'
  <2>1. \A m \in Node : Linked(certs'[m])
    BY <1>1, <1>2, <1>3, <1>5 DEF AllLinked
  <2> QED
    BY <2>1 DEF AllLinked, Linked
<1>8. \A m \in Node : m # n => Finalized(m)' = Finalized(m)
    BY <1>3 DEF Finalized
<1>9. ReplyParent' /\ TaskParent'
    BY <1>1, <1>3, <1>4, <1>8 DEF ReplyParent, TaskParent
<1> QED
    BY <1>6, <1>7, <1>9, RestartType DEF LinkInv

(* The steady nodes are not touched, and what a restarted node still has   *)
(* signatures of, it had before.                                           *)
LEMMA RestartHeld ==
    ASSUME LinkInv, QuorumInv(Steady), NEW n \in Restarting, n \in Node, Restart(n)
    PROVE  QuorumInv(Steady)'
<1>1. TypeOK /\ LogInv
    BY DEF LinkInv
<1>2. PICK cs \in Stored(n) : certs'[n] = cs
    BY <1>1, RestartOne
<1>3. \A m \in Node : m # n => /\ log'[m] = log[m] /\ locked'[m] = locked[m]
                               /\ certs'[m] = certs[m]
                               /\ reply'[m] = reply[m] /\ task'[m] = task[m]
    BY <1>1, RestartOne
<1>4. reply'[n] = NoReply /\ task'[n] = Idle
    BY <1>1, RestartOne
<1>5. \A k \in 1..Len(cs) : k \in 1..Len(certs[n]) /\ cs[k] = certs[n][k]
    BY KeptProperties
<1>6. \A m \in Node \cap Steady : \A c : Holds(m, c) => HoldsNext(m, c)
    BY <1>3 DEF Steady, Holds, HoldsNext
<1>7. ASSUME NEW c, HeldIn(Steady, c)
      PROVE  HeldNext(Steady, c)
  <2>1. PICK Q \in Quorum : \A m \in Q \cap Steady : Holds(m, c)
    BY <1>7 DEF HeldIn
  <2> QED
    BY <1>6, <2>1 DEF HeldNext, Steady
<1>8. CertsHeld(Steady)'
  <2>1. ASSUME NEW m \in Node, NEW k \in 1..Len(certs'[m])
        PROVE  HeldNext(Steady, certs'[m][k].chain)
    <3>1. k \in 1..Len(certs[m]) /\ certs'[m][k] = certs[m][k]
      BY <1>2, <1>3, <1>5
    <3>2. HeldIn(Steady, certs[m][k].chain)
      BY <3>1 DEF QuorumInv, CertsHeld
    <3> QED
      BY <1>7, <3>1, <3>2
  <2> QED
    BY <2>1 DEF CertsHeld, HeldIn, Holds, HeldNext, HoldsNext, Steady
<1>9. ReplyHeld(Steady)'
  <2>1. ASSUME NEW m \in Node, reply'[m] # NoReply, NEW k \in 1..Len(reply'[m].fins)
        PROVE  HeldNext(Steady, reply'[m].fins[k].chain)
    <3>1. reply'[m] = reply[m]
      BY <1>3, <1>4, <2>1
    <3>2. HeldIn(Steady, reply[m].fins[k].chain)
      BY <2>1, <3>1 DEF QuorumInv, ReplyHeld
    <3> QED
      BY <1>7, <3>1, <3>2
  <2> QED
    BY <2>1 DEF ReplyHeld, HeldIn, Holds, HeldNext, HoldsNext, Steady
<1>10. SignersHold(Steady)'
  <2>1. ASSUME NEW s \in Node, task'[s] # Idle, task'[s].kind = "fin",
               NEW m \in task'[s].signers \cap Steady
        PROVE  HoldsNext(m, task'[s].chain)
    <3>1. task'[s] = task[s]
      BY <1>3, <1>4, <2>1
    <3>2. Holds(m, task[s].chain)
      BY <2>1, <3>1 DEF QuorumInv, SignersHold
    <3> QED
      BY <1>6, <3>1, <3>2 DEF Steady
  <2> QED
    BY <2>1 DEF SignersHold, Holds, HoldsNext, Steady
<1> QED
    BY <1>8, <1>9, <1>10 DEF QuorumInv

-----------------------------------------------------------------------------
(******************************** Theorems **********************************)

LEMMA RestartNextLink ==
    ASSUME LinkInv, Restarting \subseteq Node, [NextRestart]_restartVars
    PROVE  LinkInv'
<1>1. CASE Works \/ UNCHANGED vars
    BY <1>1, WorksStep, LinkStep
<1>2. CASE \E n \in Restarting : Restart(n)
    BY <1>2, RestartLink
<1> QED
    BY <1>1, <1>2 DEF NextRestart, restartVars

LEMMA RestartNextInv ==
    ASSUME SteadyInv, Restarting \subseteq Node, [NextRestart]_restartVars
    PROVE  SteadyInv'
<1>1. CASE Works \/ UNCHANGED vars
  <2>1. TypeOK /\ LogInv
    BY DEF SteadyInv, LinkInv
  <2>2. QuorumInv(Steady)'
    BY <1>1, <2>1, WorksStep, QuorumInvStep DEF SteadyInv
  <2> QED
    BY <2>2, RestartNextLink DEF SteadyInv
<1>2. CASE \E n \in Restarting : Restart(n)
    BY <1>2, RestartNextLink, RestartHeld DEF SteadyInv
<1> QED
    BY <1>1, <1>2 DEF NextRestart, restartVars

LEMMA InitSteadyInv == InitRestart => SteadyInv
<1> SUFFICES ASSUME Init PROVE SteadyInv
    BY DEF InitRestart
<1>1. QuorumInv(Steady)
    BY EmptySeq DEF Init, QuorumInv, CertsHeld, ReplyHeld, SignersHold
<1> QED
    BY <1>1, InitLinkInv DEF SteadyInv

(* A restart that forgets locks, and signatures that were not yet written, *)
(* never breaks the chain of a node's finalization signatures: they link   *)
(* up by parent index from 0, and are about batches that the node has.     *)
THEOREM ChainedThroughRestarts ==
    ASSUME Restarting \subseteq Node
    PROVE  SpecRestart => []CheckpointChain
<1>1. InitRestart => LinkInv
    BY InitSteadyInv DEF SteadyInv
<1>2. LinkInv /\ [NextRestart]_restartVars => LinkInv'
    BY RestartNextLink
<1>3. LinkInv => CheckpointChain
    BY DEF LinkInv, LogInv, Holds, AllLinked, Linked, CheckpointChain
<1> QED
    BY <1>1, <1>2, <1>3, PTL DEF SpecRestart

(* Whatever restarts, any two nodes agree on what both have finalized, as  *)
(* long as any two quorums share a node that is never restarted.  (Without *)
(* the condition a restart of one node may break agreement.)               *)
THEOREM AgreementThroughRestarts ==
    ASSUME Restarting \subseteq Node,
           \A Q1, Q2 \in Quorum : (Q1 \cap Q2) \ Restarting # {}
    PROVE  SpecRestart => []FinalizedAgreement
<1>1. SteadyInv /\ [NextRestart]_restartVars => SteadyInv'
    BY RestartNextInv
<1>2. SteadyInv => FinalizedAgreement
  <2>1. \A Q1, Q2 \in Quorum : Q1 \cap Q2 \cap Steady # {}
    BY QuorumMembers DEF Steady
  <2> QED
    BY <2>1, HeldAgreement DEF SteadyInv, LinkInv, QuorumInv
<1> QED
    BY <1>1, <1>2, InitSteadyInv, PTL DEF SpecRestart
=============================================================================
