---------------------------- MODULE CatchUpProofs ----------------------------
(***************************************************************************)
(* What a follower that is behind may rely on, for all apps, page sizes    *)
(* and faults: what it finalizes its sequencer has finalized, and the      *)
(* round that sets the flag has brought it what was finalized when the     *)
(* round began.                                                            *)
(***************************************************************************)
EXTENDS CatchUp, SequenceLemmas

Shapes ==
    /\ last = [a \in App |-> last[a]] /\ points = [a \in App |-> points[a]]
    /\ linked = [a \in App |-> linked[a]] /\ ends = [a \in App |-> ends[a]]
    /\ have = [a \in App |-> have[a]] /\ shared = [a \in App |-> shared[a]]
    /\ fin = [a \in App |-> fin[a]]

Rounds == [todo : SUBSET App, app : App \cup {None}, single : BOOLEAN,
           due : [App -> Nat], active : BOOLEAN]

(* What is due was finalized already when the round began, and an app of   *)
(* which something is due is still to be polled, or its batches are not    *)
(* the sequencer's.                                                        *)
Due(a) ==
    /\ round.due[a] <= SeqFin(a)
    /\ round.due[a] = 0 \/ Diverged(a) \/ a \in round.todo \/ a = round.app

(* The inductive invariant. *)
CatchUpInv ==
    /\ TypeOK /\ FinalizedIsTheSequencers /\ Shapes
    /\ round \in Rounds
    /\ \A a \in App : Due(a)

-----------------------------------------------------------------------------
(* The greatest of some indices. *)
LEMMA MaxOf ==
    ASSUME NEW n \in Nat, NEW T \in SUBSET (0..n), T # {}
    PROVE  Max(T) \in T /\ \A k \in T : k <= Max(T)
<1> DEFINE U == {k + 1 : k \in T}
<1>1. \A k \in T : k + 1 \in 1..(n + 1)
    OBVIOUS
<1>6. \E k \in T : k + 1 \in U
    OBVIOUS
<1>7. \A u \in U : u \in 1..(n + 1)
    BY <1>1
<1>5. U \in SUBSET (1..(n + 1)) /\ U # {} /\ n + 1 \in Nat
  <2> HIDE DEF U
  <2> QED
    BY <1>6, <1>7
<1>2. PICK u \in U : \A k \in U : k <= u
    BY <1>5, GreatestNat
<1>3. PICK m \in T : u = m + 1
    BY <1>2
<1>4. \A k \in T : m >= k
    BY <1>2, <1>3
<1> QED
    BY <1>4 DEF Max

LEMMA MinOf ==
    ASSUME NEW T \in SUBSET Nat, T # {}
    PROVE  Min(T) \in T /\ \A k \in T : Min(T) <= k
<1>1. PICK m \in T : \A k \in T : m <= k
    BY LeastNat
<1> QED
    BY <1>1 DEF Min

(* The last finalized index. *)
SeqFinIsLast(a) ==
    /\ SeqFin(a) \in 0..last[a] /\ SeqFin(a) \in Nat
    /\ points[a] = {} => SeqFin(a) = 0
    /\ points[a] # {} => SeqFin(a) \in points[a]
    /\ \A p \in points[a] : p <= SeqFin(a)

LEMMA SeqFinProperties == TypeOK => \A a \in App : SeqFinIsLast(a)
<1> SUFFICES ASSUME TypeOK, NEW a \in App
             PROVE  SeqFinIsLast(a)
    OBVIOUS
<1> DEFINE T == points[a] \cup {0}
<1>1. last[a] \in Nat /\ points[a] \subseteq 1..last[a]
    BY LimitAssumption DEF TypeOK
<1>2. T \in SUBSET (0..last[a]) /\ T # {}
    BY <1>1
<1>3. Max(T) \in T /\ \A k \in T : k <= Max(T)
    BY <1>1, <1>2, MaxOf
<1>4. SeqFin(a) = Max(T)
    BY DEF SeqFin
<1> HIDE DEF T
<1>5. SeqFin(a) \in T /\ \A k \in T : k <= SeqFin(a)
    BY <1>3, <1>4
<1> QED
    BY <1>1, <1>2, <1>5 DEF T, SeqFinIsLast

LEMMA SeqFinNext == TypeOK' => (\A a \in App : SeqFinIsLast(a))'
BY SeqFinProperties, PTL

(* It is never less than before if no finalized index is dropped.          *)
LEMMA SeqFinGrows ==
    ASSUME TypeOK, TypeOK', NEW a \in App, points[a] \subseteq points'[a]
    PROVE  SeqFin(a) <= SeqFin(a)'
<1>1. SeqFinIsLast(a) /\ SeqFinIsLast(a)'
    BY SeqFinProperties, SeqFinNext
<1>2. PICK s : s = SeqFin(a)
    OBVIOUS
<1>3. s \in Nat /\ (s = 0 \/ s \in points[a])
    BY <1>1, <1>2 DEF SeqFinIsLast
<1>4. SeqFin(a)' \in Nat /\ \A p \in points'[a] : p <= SeqFin(a)'
    BY <1>1 DEF SeqFinIsLast
<1> QED
    BY <1>2, <1>3, <1>4

(* The page ends within what the sequencer has, and what is served is not  *)
(* above its end.                                                          *)
LEMMA PageProperties ==
    ASSUME TypeOK, NEW a \in App
    PROVE  /\ PageEnd(a) \in 0..MaxLen /\ have[a] <= PageEnd(a)
           /\ PageEnd(a) = have[a] \/ PageEnd(a) <= last[a]
           /\ Served(a) \subseteq points[a]
<1>1. last[a] \in 0..MaxLen /\ have[a] \in 0..MaxLen /\ MaxLen \in Nat
    BY LimitAssumption DEF TypeOK
<1>2. /\ PageEnd(a) \in 0..MaxLen /\ have[a] <= PageEnd(a)
      /\ PageEnd(a) = have[a] \/ PageEnd(a) <= last[a]
  <2>1. CASE have[a] >= last[a]
    BY <2>1, <1>1 DEF PageEnd
  <2>2. CASE ~ (have[a] >= last[a])
    <3>1. PageEnd(a) = Min({last[a], have[a] + PageSize})
      BY <2>2 DEF PageEnd
    <3>2. PageSize \in Nat /\ have[a] + PageSize \in Int
      BY <1>1, PageAssumption
    <3>3. Min({last[a], have[a] + PageSize})
            = IF last[a] <= have[a] + PageSize THEN last[a] ELSE have[a] + PageSize
      BY <1>1, <3>2, MinPair
    <3> QED
      BY <1>1, <2>2, <3>1, <3>2, <3>3
  <2> QED
    BY <2>1, <2>2
<1>3. Served(a) \subseteq points[a]
    BY DEF Served
<1> QED
    BY <1>2, <1>3

(* What the follower has, shares and finalizes with an answer. *)
LEMMA Polled ==
    ASSUME TypeOK, FinalizedIsTheSequencers, NEW a \in App, Shapes,
           have'[a] = PageEnd(a),
           shared'[a] = IF shared[a] = have[a] THEN PageEnd(a) ELSE shared[a],
           fin'[a] = Max(Promoted(a) \cup {fin[a]})
    PROVE  /\ have'[a] \in 0..MaxLen
           /\ shared'[a] \in 0..have'[a] /\ shared'[a] <= last[a]
           /\ fin'[a] \in 0..have'[a]
           /\ fin'[a] \in points[a] \cup {0} /\ fin'[a] <= shared'[a]
           /\ Diverged(a) => Diverged(a)'
<1>1. /\ PageEnd(a) \in 0..MaxLen /\ have[a] <= PageEnd(a)
      /\ PageEnd(a) = have[a] \/ PageEnd(a) <= last[a]
      /\ Served(a) \subseteq points[a]
    BY PageProperties
<1>2. /\ last[a] \in 0..MaxLen /\ have[a] \in 0..MaxLen /\ MaxLen \in Nat
      /\ shared[a] \in 0..have[a] /\ shared[a] <= last[a]
      /\ points[a] \subseteq 1..last[a]
      /\ fin[a] \in points[a] \cup {0} /\ fin[a] <= shared[a]
    BY LimitAssumption DEF TypeOK, FinalizedIsTheSequencers
<1>3. /\ have'[a] \in 0..MaxLen
      /\ shared'[a] \in 0..have'[a] /\ shared'[a] <= last[a]
      /\ shared[a] <= shared'[a]
      /\ shared[a] < have[a] => shared'[a] < have'[a]
    BY <1>1, <1>2
<1>4. \A p \in Promoted(a) : p \in points[a] /\ p <= shared'[a]
    BY <1>1 DEF Promoted
<1> DEFINE T == Promoted(a) \cup {fin[a]}
<1>5. T \in SUBSET (0..last[a]) /\ T # {} /\ last[a] \in Nat
    BY <1>2, <1>4
<1>6. fin'[a] \in T
    BY <1>5, MaxOf
<1>7. fin'[a] \in points[a] \cup {0} /\ fin'[a] <= shared'[a]
    BY <1>2, <1>3, <1>4, <1>6
<1>8. fin'[a] \in 0..have'[a]
    BY <1>2, <1>3, <1>7
<1>9. Diverged(a) => Diverged(a)'
    BY <1>3 DEF Diverged
<1> QED
    BY <1>3, <1>7, <1>8, <1>9

-----------------------------------------------------------------------------
(******************************** Steps ************************************)

(* TypeOK and FinalizedIsTheSequencers, for one app. *)
AppType(a) ==
    /\ last[a] \in 0..MaxLen /\ have[a] \in 0..MaxLen
    /\ shared[a] \in 0..have[a] /\ shared[a] <= last[a]
    /\ points[a] \subseteq 1..last[a]
    /\ linked[a] \subseteq points[a]
    /\ ends[a] \in Seq(points[a])
    /\ fin[a] \in 0..have[a]
    /\ fin[a] \in points[a] \cup {0}
    /\ fin[a] <= shared[a]

RestType ==
    /\ first \in 0..MaxLen
    /\ synced \in BOOLEAN
    /\ round.todo \subseteq App /\ round.app \in App \cup {None}

LEMMA TypeParts ==
    TypeOK /\ FinalizedIsTheSequencers <=> (\A a \in App : AppType(a)) /\ RestType
BY DEF TypeOK, FinalizedIsTheSequencers, AppType, RestType

LEMMA InitCatchUp == Init => CatchUpInv
<1> SUFFICES ASSUME Init
             PROVE  CatchUpInv
    OBVIOUS
<1>1. round \in Rounds /\ round.todo = {} /\ round.due = [a \in App |-> 0]
    BY DEF Init, NoRound, Rounds
<1>2. Shapes
    BY DEF Init, Shapes
<1>3. ASSUME NEW a \in App PROVE AppType(a)
  <2>1. last[a] = 0 /\ have[a] = 0 /\ shared[a] = 0 /\ fin[a] = 0 /\ points[a] = {} /\ linked[a] = {}
        /\ ends[a] = << >>
    BY DEF Init
  <2>2. << >> \in Seq(points[a]) /\ 0 \in 0..MaxLen
    BY LimitAssumption, EmptySeq
  <2> QED
    BY <2>1, <2>2 DEF AppType
<1>4. RestType
  <2>1. first = 0 /\ synced = FALSE /\ round.app = None
    BY DEF Init, NoRound
  <2> QED
    <3>1. first \in 0..MaxLen
      BY <2>1, LimitAssumption
    <3>2. synced \in BOOLEAN
      BY <2>1
    <3>3. round.todo \subseteq App /\ round.app \in App \cup {None}
      BY <1>1, <2>1
    <3> QED
      BY <3>1, <3>2, <3>3 DEF RestType
<1>5. TypeOK /\ FinalizedIsTheSequencers
    BY <1>3, <1>4, TypeParts
<1>6. ASSUME NEW a \in App PROVE Due(a)
  <2>1. SeqFin(a) \in Nat
    BY <1>5, SeqFinProperties DEF SeqFinIsLast
  <2> QED
    BY <1>1, <2>1 DEF Due
<1> QED
    BY <1>1, <1>2, <1>5, <1>6 DEF CatchUpInv

(* A step of the sequencer, of one app or of all. *)
LEMMA SequencerStep ==
    ASSUME CatchUpInv, Shapes',
           UNCHANGED <<have, fin, synced, round>>,
           first' \in 0..MaxLen,
           \A a \in App : points[a] \subseteq points'[a] /\ shared'[a] <= shared[a],
           \A a \in App : AppType(a)'
    PROVE  CatchUpInv'
<1>1. RestType'
    BY DEF CatchUpInv, TypeOK, RestType
<1>2. TypeOK' /\ FinalizedIsTheSequencers'
    BY <1>1 DEF TypeOK, FinalizedIsTheSequencers, AppType, RestType
<1>3. ASSUME NEW a \in App PROVE Due(a)'
  <2>1. SeqFinIsLast(a) /\ SeqFinIsLast(a)' /\ SeqFin(a) <= SeqFin(a)'
    BY <1>2, SeqFinProperties, SeqFinNext, SeqFinGrows DEF CatchUpInv
  <2>2. round.due[a] \in Nat
    BY DEF CatchUpInv, Rounds
  <2>3. Due(a)
    BY DEF CatchUpInv
  <2>4. round'.due[a] <= SeqFin(a)'
    BY <2>1, <2>2, <2>3 DEF Due, SeqFinIsLast
  <2>5. Diverged(a) => Diverged(a)'
    <3>1. shared[a] \in 0..have[a] /\ have[a] \in 0..MaxLen /\ shared'[a] \in 0..have[a]
      BY DEF CatchUpInv, TypeOK, AppType
    <3> QED
      BY <3>1, LimitAssumption DEF Diverged
  <2> QED
    BY <2>3, <2>4, <2>5 DEF Due
<1> QED
    BY <1>2, <1>3 DEF CatchUpInv

LEMMA AppendStep ==
    ASSUME CatchUpInv, NEW a \in App, Append1(a)
    PROVE  CatchUpInv'
<1>1. /\ last' = [last EXCEPT ![a] = @ + 1] /\ last[a] < MaxLen
      /\ UNCHANGED <<points, linked, ends, first, have, shared, fin, synced, round>>
    BY DEF Append1, followerVars
<1>2. Shapes' /\ last'[a] = last[a] + 1 /\ \A b \in App \ {a} : last'[b] = last[b]
    BY <1>1 DEF CatchUpInv, Shapes
<1>3. ASSUME NEW b \in App PROVE AppType(b)'
  <2>1. AppType(b)
    BY TypeParts DEF CatchUpInv
  <2>2. last[b] \in 0..MaxLen /\ last'[b] \in 0..MaxLen /\ last[b] <= last'[b]
    BY <1>1, <1>2, <2>1, LimitAssumption DEF AppType
  <2> QED
    BY <1>1, <2>1, <2>2, LimitAssumption DEF AppType
<1>4. \A b \in App : points[b] \subseteq points'[b] /\ shared'[b] <= shared[b]
    BY <1>1, LimitAssumption DEF CatchUpInv, TypeOK
<1> QED
    BY <1>1, <1>2, <1>3, <1>4, SequencerStep DEF CatchUpInv, TypeOK

LEMMA FinalizeStep ==
    ASSUME CatchUpInv, NEW a \in App, NEW i \in 1..MaxLen, Finalize(a, i)
    PROVE  CatchUpInv'
<1>1. /\ SeqFin(a) < i /\ i <= last[a]
      /\ points' = [points EXCEPT ![a] = @ \cup {i}]
      /\ UNCHANGED <<last, have, shared, fin, synced, round>>
    BY DEF Finalize, followerVars
<1>2. \/ first' = i /\ linked' = linked
      \/ /\ points[a] # {} /\ first' = first
         /\ linked' = [linked EXCEPT ![a] = @ \cup {SeqFin(a)}]
    BY DEF Finalize
<1>3. ends' = ends \/ ends' = [ends EXCEPT ![a] = Append(@, i)]
    BY DEF Finalize
<1>4. Shapes' /\ points'[a] = points[a] \cup {i} /\ \A b \in App \ {a} : points'[b] = points[b]
    BY <1>1, <1>2, <1>3 DEF CatchUpInv, Shapes
<1>5. SeqFinIsLast(a)
    BY SeqFinProperties DEF CatchUpInv
<1>6. ASSUME NEW b \in App PROVE AppType(b)'
  <2>1. AppType(b)
    BY TypeParts DEF CatchUpInv
  <2>2. CASE b # a
    <3>1. linked'[b] = linked[b] /\ ends'[b] = ends[b] /\ points'[b] = points[b]
      BY <1>2, <1>3, <1>4, <2>2 DEF CatchUpInv, Shapes
    <3> QED
      BY <1>1, <2>1, <3>1 DEF AppType
  <2>3. CASE b = a
    <3>1. points'[a] \subseteq 1..last[a] /\ points[a] \subseteq points'[a] /\ i \in points'[a]
      BY <1>1, <1>4, <2>1, <2>3, LimitAssumption DEF AppType
    <3>2. linked'[a] \subseteq linked[a] \cup {SeqFin(a)} /\ (linked'[a] = linked[a] \/ points[a] # {})
      BY <1>2 DEF CatchUpInv, Shapes
    <3>3. linked'[a] \subseteq points'[a]
      BY <2>1, <2>3, <3>1, <3>2, <1>5 DEF AppType, SeqFinIsLast
    <3>4. ends'[a] = ends[a] \/ ends'[a] = Append(ends[a], i)
      BY <1>3 DEF CatchUpInv, Shapes
    <3>5. ends[a] \in Seq(points'[a])
      BY <2>1, <2>3, <3>1 DEF AppType
    <3>6. ends'[a] \in Seq(points'[a])
      <4>1. PICK S, s : S = points'[a] /\ s = ends[a]
        OBVIOUS
      <4>2. s \in Seq(S) /\ Append(s, i) \in Seq(S)
        BY <3>1, <3>5, <4>1, AppendProperties
      <4> QED
        BY <3>4, <4>1, <4>2
    <3> QED
      BY <1>1, <2>1, <2>3, <3>1, <3>3, <3>6 DEF AppType
  <2> QED
    BY <2>2, <2>3
<1>7. first' \in 0..MaxLen
    BY <1>2, LimitAssumption DEF CatchUpInv, TypeOK
<1>8. \A b \in App : points[b] \subseteq points'[b] /\ shared'[b] <= shared[b]
    BY <1>1, <1>4, LimitAssumption DEF CatchUpInv, TypeOK
<1> QED
    BY <1>1, <1>4, <1>6, <1>7, <1>8, SequencerStep

LEMMA RestartStep ==
    ASSUME CatchUpInv, Restart
    PROVE  CatchUpInv'
<1>1. /\ shared' = [a \in App |-> Min({shared[a], SeqFin(a)})]
      /\ last' = [a \in App |-> SeqFin(a)]
      /\ ends' = [a \in App |-> IF points[a] = {} \/ (ends[a] # << >> /\ Last(ends[a]) = SeqFin(a))
                                THEN ends[a] ELSE Append(ends[a], SeqFin(a))]
      /\ first' = 0
      /\ UNCHANGED <<points, have, fin, synced, round>>
    BY DEF Restart
<1>2. PICK lost : linked' = [a \in App |-> linked[a] \ lost[a]]
    BY DEF Restart
<1>3. Shapes'
    BY <1>1, <1>2 DEF CatchUpInv, Shapes
<1>4. ASSUME NEW a \in App PROVE AppType(a)'
  <2>1. AppType(a) /\ SeqFinIsLast(a)
    BY TypeParts, SeqFinProperties DEF CatchUpInv
  <2>2. \/ ends'[a] = ends[a]
        \/ points[a] # {} /\ ends'[a] = Append(ends[a], SeqFin(a))
    BY <1>1
  <2>3. ends'[a] \in Seq(points[a])
    <3>1. PICK S, s : S = points[a] /\ s = ends[a]
      OBVIOUS
    <3>2. s \in Seq(S) /\ (points[a] # {} => SeqFin(a) \in S)
      BY <2>1, <3>1 DEF AppType, SeqFinIsLast
    <3>3. points[a] # {} => Append(s, SeqFin(a)) \in Seq(S)
      BY <3>2, AppendProperties
    <3> QED
      BY <2>2, <3>1, <3>2, <3>3
  <2>4. linked'[a] \subseteq points[a]
    BY <1>2, <2>1 DEF AppType
  <2>5. last'[a] = SeqFin(a) /\ last'[a] \in 0..MaxLen
    BY <1>1, <2>1, LimitAssumption DEF AppType, SeqFinIsLast
  <2>6. /\ shared'[a] \in 0..have[a] /\ shared'[a] <= last'[a]
        /\ shared'[a] <= shared[a] /\ fin[a] <= shared'[a]
    <3>1. /\ shared[a] \in Nat /\ have[a] \in Nat /\ SeqFin(a) \in Nat
          /\ shared[a] <= have[a] /\ fin[a] \in Nat
      BY <2>1, LimitAssumption DEF AppType, SeqFinIsLast
    <3>2. shared'[a] = IF shared[a] <= SeqFin(a) THEN shared[a] ELSE SeqFin(a)
      BY <1>1, <3>1, MinPair
    <3>3. fin[a] <= shared[a] /\ fin[a] <= SeqFin(a)
      BY <2>1, <3>1 DEF AppType, SeqFinIsLast
    <3> QED
      BY <2>5, <3>1, <3>2, <3>3
  <2>7. points[a] \subseteq 1..last'[a]
    BY <2>1, <2>5, LimitAssumption DEF AppType, SeqFinIsLast
  <2> QED
    BY <1>1, <2>1, <2>3, <2>4, <2>5, <2>6, <2>7 DEF AppType
<1>5. first' \in 0..MaxLen
    BY <1>1, LimitAssumption
<1>6. \A a \in App : points[a] \subseteq points'[a] /\ shared'[a] <= shared[a]
  <2> SUFFICES ASSUME NEW a \in App PROVE shared'[a] <= shared[a]
    BY <1>1
  <2>1. shared[a] \in Nat /\ SeqFin(a) \in Nat
    BY SeqFinProperties, LimitAssumption DEF CatchUpInv, TypeOK, SeqFinIsLast
  <2>2. shared'[a] = IF shared[a] <= SeqFin(a) THEN shared[a] ELSE SeqFin(a)
    BY <1>1, <2>1, MinPair
  <2> QED
    BY <2>1, <2>2
<1> QED
    BY <1>1, <1>3, <1>4, <1>5, <1>6, SequencerStep

(* A round goes on: nothing is due of an app that is finished with, unless *)
(* the follower has other batches than the sequencer.                      *)
LEMMA TurnStep ==
    ASSUME CatchUpInv, NEW a \in App, Turn(a),
           NEW finished \in BOOLEAN, NEW ok \in BOOLEAN, NextTurn(a, finished, ok),
           have'[a] \in Nat, shared'[a] \in 0..have'[a],
           finished /\ ok => SeqFin(a) <= have'[a],
           \A b \in App : Diverged(b) => Diverged(b)',
           UNCHANGED points
    PROVE  round' \in Rounds /\ \A b \in App : Due(b)'
<1>1. /\ round \in Rounds /\ round.due[a] \in Nat
      /\ round.todo \subseteq App
    BY DEF CatchUpInv, Rounds
<1> DEFINE due == IF ok /\ shared'[a] < round.due[a] THEN round.due[a] ELSE 0
           single == round.single /\ (finished \/ round.app = a)
<1>2. round' = [round EXCEPT !.todo = @ \ {a}, !.app = IF finished THEN None ELSE a,
                             !.single = single, !.due[a] = due]
    BY DEF NextTurn
<1>3. due \in Nat /\ (due = 0 \/ due = round.due[a])
    BY <1>1
<1>4. single \in BOOLEAN
    BY <1>1 DEF Rounds
<1>5. finished => due = 0 \/ Diverged(a)'
  <2>1. SeqFinIsLast(a) /\ round.due[a] <= SeqFin(a)
    BY SeqFinProperties DEF CatchUpInv, Due
  <2>2. finished /\ ok /\ ~ Diverged(a)' => round.due[a] <= shared'[a]
    BY <1>1, <2>1 DEF SeqFinIsLast, Diverged
  <2> QED
    BY <1>1, <2>2
<1> HIDE DEF due, single
<1>6. /\ round'.todo = round.todo \ {a}
      /\ round'.app = IF finished THEN None ELSE a
      /\ round'.due = [round.due EXCEPT ![a] = due]
    BY <1>1, <1>2 DEF Rounds
<1>7. round' \in Rounds
  <2>1. [round.due EXCEPT ![a] = due] \in [App -> Nat]
    BY <1>1, <1>3 DEF Rounds
  <2>2. /\ round.todo \ {a} \in SUBSET App
        /\ (IF finished THEN None ELSE a) \in App \cup {None}
    BY <1>1
  <2> QED
    BY <1>1, <1>2, <1>4, <2>1, <2>2 DEF Rounds
<1>8. ASSUME NEW b \in App PROVE Due(b)'
  <2>1. SeqFin(b)' = SeqFin(b) /\ SeqFinIsLast(b)
    BY SeqFinProperties DEF SeqFin, CatchUpInv
  <2>2. Due(b)
    BY DEF CatchUpInv
  <2>3. CASE b = a
    <3>1. round'.due[a] = due /\ (finished \/ round'.app = a)
      BY <1>1, <1>6 DEF Rounds
    <3> QED
      BY <1>3, <1>5, <2>1, <2>2, <2>3, <3>1 DEF Due, SeqFinIsLast
  <2>4. CASE b # a
    <3>1. round'.due[b] = round.due[b]
      BY <1>1, <1>6, <2>4 DEF Rounds
    <3>2. b # round.app
      BY <2>4, NoneAssumption DEF Turn
    <3> QED
      BY <1>6, <2>1, <2>2, <2>4, <3>1, <3>2 DEF Due
  <2> QED
    BY <2>3, <2>4
<1> QED
    BY <1>7, <1>8

LEMMA BeginRoundStep ==
    ASSUME CatchUpInv, BeginRound
    PROVE  CatchUpInv'
<1> DEFINE due == [a \in App |-> IF shared[a] >= SeqFin(a) THEN 0 ELSE SeqFin(a)]
<1>1. /\ round' = [NoRound EXCEPT !.active = TRUE, !.todo = App, !.due = due]
      /\ UNCHANGED <<last, points, linked, ends, first, have, shared, fin, synced>>
    BY DEF BeginRound, sequencerVars, followerVars
<1>2. \A a \in App : SeqFinIsLast(a)
    BY SeqFinProperties DEF CatchUpInv
<1>3. due \in [App -> Nat] /\ \A a \in App : due[a] <= SeqFin(a)
    BY <1>2 DEF SeqFinIsLast
<1> HIDE DEF due
<1>4. round' = [todo |-> App, app |-> None, single |-> TRUE, due |-> due, active |-> TRUE]
    BY <1>1 DEF NoRound
<1>5. round' \in Rounds
    BY <1>3, <1>4 DEF Rounds
<1>6. Shapes' /\ \A a \in App : SeqFin(a)' = SeqFin(a)
    BY <1>1 DEF CatchUpInv, Shapes, SeqFin
<1>7. \A a \in App : Due(a)'
    BY <1>3, <1>4, <1>6 DEF Due
<1>8. TypeOK' /\ FinalizedIsTheSequencers'
  <2>1. round'.todo \subseteq App /\ round'.app \in App \cup {None}
    BY <1>5 DEF Rounds
  <2>2. \A a \in App : AppType(a)'
    BY <1>1, TypeParts DEF CatchUpInv, AppType
  <2>3. first' \in 0..MaxLen /\ synced' \in BOOLEAN
    BY <1>1 DEF CatchUpInv, TypeOK
  <2> QED
    BY <2>1, <2>2, <2>3 DEF TypeOK, FinalizedIsTheSequencers, AppType
<1> QED
    BY <1>5, <1>6, <1>7, <1>8 DEF CatchUpInv

LEMMA EndRoundStep ==
    ASSUME CatchUpInv, EndRound
    PROVE  CatchUpInv' /\ \A a \in App : round.due[a] = 0 \/ Diverged(a)
<1>1. /\ round.todo = {} /\ round.app = None /\ round' = NoRound
      /\ synced' = (synced \/ round.single)
      /\ UNCHANGED <<last, points, linked, ends, first, have, shared, fin>>
    BY DEF EndRound, sequencerVars
<1>2. \A a \in App : round.due[a] = 0 \/ Diverged(a)
    BY <1>1, NoneAssumption DEF CatchUpInv, Due
<1>3. \A a \in App : SeqFin(a)' = SeqFin(a) /\ SeqFin(a) \in Nat
    BY <1>1, SeqFinProperties DEF CatchUpInv, SeqFin, SeqFinIsLast
<1>4. round' \in Rounds /\ \A a \in App : round'.due[a] = 0
    BY <1>1 DEF NoRound, Rounds
<1>5. Shapes' /\ \A a \in App : Due(a)'
    BY <1>1, <1>3, <1>4 DEF CatchUpInv, Shapes, Due
<1>6. synced' \in BOOLEAN
    BY <1>1
<1>7. \A a \in App : AppType(a)'
    BY <1>1, TypeParts DEF CatchUpInv, AppType
<1>8. TypeOK' /\ FinalizedIsTheSequencers'
  <2>1. first' \in 0..MaxLen
    BY <1>1 DEF CatchUpInv, TypeOK
  <2>2. round'.todo \subseteq App /\ round'.app \in App \cup {None}
    BY <1>4 DEF Rounds
  <2> QED
    BY <1>6, <1>7, <2>1, <2>2 DEF TypeOK, FinalizedIsTheSequencers, AppType
<1> QED
    BY <1>2, <1>4, <1>5, <1>8 DEF CatchUpInv

(* An answer that is taken. *)
LEMMA PollStep ==
    ASSUME CatchUpInv, NEW a \in App, Poll(a)
    PROVE  CatchUpInv'
<1>1. /\ Turn(a) /\ have' = [have EXCEPT ![a] = PageEnd(a)]
      /\ NextTurn(a, Finished(a), TRUE)
      /\ UNCHANGED <<last, points, linked, ends, first, synced>>
    BY DEF Poll, sequencerVars
<1>2. /\ shared' = [shared EXCEPT ![a] = IF @ = have[a] THEN PageEnd(a) ELSE @]
      /\ fin' = [fin EXCEPT ![a] = Max(Promoted(a) \cup {@})]
    BY DEF Poll
<1>3. /\ Shapes'
      /\ \A b \in App \ {a} : have'[b] = have[b] /\ shared'[b] = shared[b] /\ fin'[b] = fin[b]
    BY <1>1, <1>2 DEF CatchUpInv, Shapes
<1>4. /\ have'[a] = PageEnd(a)
      /\ shared'[a] = IF shared[a] = have[a] THEN PageEnd(a) ELSE shared[a]
      /\ fin'[a] = Max(Promoted(a) \cup {fin[a]})
    BY <1>1, <1>2 DEF CatchUpInv, Shapes
<1>5. /\ have'[a] \in 0..MaxLen
      /\ shared'[a] \in 0..have'[a] /\ shared'[a] <= last[a]
      /\ fin'[a] \in 0..have'[a]
      /\ fin'[a] \in points[a] \cup {0} /\ fin'[a] <= shared'[a]
      /\ Diverged(a) => Diverged(a)'
    BY <1>4, Polled DEF CatchUpInv
<1>6. \A b \in App : AppType(b)'
  <2> SUFFICES ASSUME NEW b \in App PROVE AppType(b)'
    OBVIOUS
  <2>1. AppType(b)
    BY TypeParts DEF CatchUpInv
  <2>2. CASE b = a
    BY <1>1, <1>5, <2>1, <2>2 DEF AppType
  <2>3. CASE b # a
    BY <1>1, <1>3, <2>1, <2>3 DEF AppType
  <2> QED
    BY <2>2, <2>3
<1>7. have'[a] \in Nat /\ \A b \in App : Diverged(b) => Diverged(b)'
    BY <1>3, <1>5, LimitAssumption DEF Diverged
<1>8. Finished(a) \in BOOLEAN /\ (Finished(a) => SeqFin(a) <= have'[a])
    BY <1>7 DEF Finished
<1>9. round' \in Rounds /\ \A b \in App : Due(b)'
    BY <1>1, <1>5, <1>7, <1>8, TurnStep
<1>10. TypeOK' /\ FinalizedIsTheSequencers'
    BY <1>1, <1>6, <1>9 DEF CatchUpInv, TypeOK, FinalizedIsTheSequencers, AppType, Rounds
<1> QED
    BY <1>3, <1>9, <1>10 DEF CatchUpInv

(* An error, or no answer. *)
LEMMA NoAnswerStep ==
    ASSUME CatchUpInv, NEW a \in App, PollRaises(a) \/ PollLost(a)
    PROVE  CatchUpInv'
<1>1. /\ Turn(a) /\ NextTurn(a, TRUE, FALSE)
      /\ UNCHANGED <<last, points, linked, ends, first, have, shared, fin, synced>>
    BY DEF PollRaises, PollLost, sequencerVars, followerVars
<1>2. /\ have'[a] \in Nat /\ shared'[a] \in 0..have'[a]
      /\ \A b \in App : Diverged(b) => Diverged(b)'
    BY <1>1, LimitAssumption DEF CatchUpInv, TypeOK, Diverged
<1>3. round' \in Rounds /\ \A b \in App : Due(b)'
    BY <1>1, <1>2, TurnStep
<1>4. Shapes'
    BY <1>1 DEF CatchUpInv, Shapes
<1>5. TypeOK' /\ FinalizedIsTheSequencers'
    BY <1>1, <1>3 DEF CatchUpInv, TypeOK, FinalizedIsTheSequencers, Rounds
<1> QED
    BY <1>3, <1>4, <1>5 DEF CatchUpInv

LEMMA NextCatchUp == CatchUpInv /\ [Next]_vars => CatchUpInv'
<1> SUFFICES ASSUME CatchUpInv, [Next]_vars
             PROVE  CatchUpInv'
    OBVIOUS
<1>1. CASE UNCHANGED vars
  <2>1. UNCHANGED <<last, points, linked, ends, first, have, shared, fin, synced, round>>
    BY <1>1 DEF vars, sequencerVars, followerVars
  <2> QED
    BY <2>1 DEF CatchUpInv, TypeOK, FinalizedIsTheSequencers, Shapes, Due, SeqFin, Diverged
<1> QED
    BY <1>1, AppendStep, FinalizeStep, RestartStep, BeginRoundStep, EndRoundStep, PollStep,
       NoAnswerStep DEF Next

(* Indices stay within their bounds, and nothing is finalized that is not  *)
(* there, whatever is pruned, lost or restarted.                           *)
THEOREM TypeCorrect == Spec => []TypeOK
<1>1. CatchUpInv => TypeOK
    BY DEF CatchUpInv
<1> QED
    BY <1>1, InitCatchUp, NextCatchUp, PTL DEF Spec

(* A follower finalizes only what its sequencer has finalized, the same    *)
(* batches at the same indices, even after a restart of the sequencer has  *)
(* lost batches that the follower holds.                                   *)
THEOREM FinalizedAgrees == Spec => []FinalizedIsTheSequencers
<1>1. CatchUpInv => FinalizedIsTheSequencers
    BY DEF CatchUpInv
<1> QED
    BY <1>1, InitCatchUp, NextCatchUp, PTL DEF Spec

(* A round of send_batches that sets the flag has brought the follower     *)
(* what was finalized when it began, of every app whose requests were      *)
(* answered, unless the follower has batches that the sequencer lost, in   *)
(* however many pages and whatever the sequencer did meanwhile.            *)
THEOREM FlagIsEarned == Spec => SyncedIsCaughtUp
<1>1. ASSUME CatchUpInv, [Next]_vars
      PROVE  ~ synced /\ synced' => \A a \in App : round.due[a] = 0 \/ Diverged(a)
  <2>1. synced' = synced \/ EndRound
    BY <1>1 DEF Next, Append1, Finalize, Poll, PollRaises, PollLost, Restart, BeginRound,
                vars, followerVars
  <2> QED
    BY <1>1, <2>1, EndRoundStep
<1> QED
    BY <1>1, InitCatchUp, NextCatchUp, PTL DEF Spec, SyncedIsCaughtUp
=============================================================================
