---------------------------- MODULE QuorumProofs -----------------------------
(***************************************************************************)
(* What enough signatures stand for.  Of the network states, which decide  *)
(* whose signatures are enough: the current one is the newest, all nodes   *)
(* verify a signature against the same state of its tag, and what the      *)
(* sequencer aggregates verifies there.  Of the monitoring service: the    *)
(* events that two thirds sign are real.                                   *)
(***************************************************************************)
EXTENDS Membership, Monitoring, SequenceLemmas

(******************************* Membership ********************************)
(* What the source of nodes may say. *)
Registries == UNION {[D -> Nat] : D \in SUBSET Node}

(* Some registry has k as the stake of m. *)
Recorded(m, k) == \E u \in 1..Len(registry) : m \in DOMAIN registry[u] /\ registry[u][m] = k

(* Whose records n may have updated in place: its own and those of its     *)
(* sequencers, of which the first is Leader.                               *)
Overwritten(n) == {n, Leader, sequencer[n].id}

(* State s is that of tag t, but for records that n has updated in place,  *)
(* with what a registry says of the same node.                             *)
StateOf(s, t, n) ==
    /\ s = [nodes |-> s.nodes, total |-> TotalOf(registry[t]), keys |-> Attesting(registry[t])]
    /\ s.nodes = [m \in DOMAIN registry[t] |-> s.nodes[m]]
    /\ \A m \in DOMAIN registry[t] :
         \/ s.nodes[m] = registry[t][m]
         \/ m \in Overwritten(n) /\ Recorded(m, s.nodes[m])

StatesOf(s, n) ==
    /\ s = [t \in DOMAIN s |-> s[t]]
    /\ DOMAIN s \subseteq 1..Len(registry)
    /\ \A t \in DOMAIN s : StateOf(s[t], t, n)

Shapes ==
    /\ registry \in Seq(Registries) /\ registry # << >>
    /\ states = [n \in Observer |-> states[n]]
    /\ lastTag = [n \in Observer |-> lastTag[n]]
    /\ sequencer = [n \in Observer |-> sequencer[n]]

(* The current tag is the newest one that there is a state of. *)
Newest(n) == lastTag[n] \in DOMAIN states[n] /\ \A t \in DOMAIN states[n] : t <= lastTag[n]

IsRound(r) ==
    /\ r = [tag |-> r.tag, all |-> r.all, pending |-> r.pending, signers |-> r.signers,
            percent |-> r.percent, calm |-> r.calm]
    /\ r.tag \in 1..Len(registry)

(* The inductive invariant. *)
StatesInv ==
    /\ Shapes
    /\ \A n \in Observer : StatesOf(states[n], n) /\ Newest(n)
    /\ round # Idle => IsRound(round)
    /\ \A sig \in sigs : sig.tag \in 1..Len(registry)

-----------------------------------------------------------------------------
LEMMA FetchedStateOf ==
    ASSUME Shapes, NEW n, NEW t \in 1..Len(registry)
    PROVE  StateOf(FetchedState(t), t, n)
<1>1. registry[t] \in Registries
    BY ElementOfSeq DEF Shapes
<1>2. registry[t] = [m \in DOMAIN registry[t] |-> registry[t][m]]
    BY <1>1 DEF Registries
<1> QED
    BY <1>2 DEF StateOf, FetchedState

LEMMA KnownProperties ==
    ASSUME Shapes, NEW n \in Observer, StatesOf(states[n], n), NEW t \in 1..Len(registry)
    PROVE  /\ DOMAIN Known(n, t) = DOMAIN states[n] \cup {t}
           /\ StatesOf(Known(n, t), n)
<1>1. StateOf(FetchedState(t), t, n)
    BY FetchedStateOf
<1> QED
    BY <1>1 DEF Known, StatesOf

(* An update in place of a record that may be updated.                     *)
LEMMA UpdatedProperties ==
    ASSUME NEW n \in Observer, NEW s, StatesOf(s, n), NEW tag, NEW m \in Overwritten(n), NEW fresh,
           m \in DOMAIN fresh => Recorded(m, fresh[m])
    PROVE  StatesOf(Updated(s, tag, m, fresh), n) /\ DOMAIN Updated(s, tag, m, fresh) = DOMAIN s
<1>1. CASE m \notin DOMAIN fresh
    BY <1>1 DEF Updated
<1>2. CASE m \in DOMAIN fresh
  <2> DEFINE u == Updated(s, tag, m, fresh)
  <2>1. u = [s EXCEPT ![tag].nodes[m] = fresh[m]]
    BY <1>2 DEF Updated
  <2>2. DOMAIN u = DOMAIN s /\ u = [t \in DOMAIN u |-> u[t]]
    BY <2>1 DEF StatesOf
  <2>3. ASSUME NEW t \in DOMAIN s
        PROVE  StateOf(u[t], t, n)
    <3>1. StateOf(s[t], t, n)
      BY DEF StatesOf
    <3>2. CASE t # tag
      <4>1. u[t] = s[t]
        BY <2>1, <3>2
      <4> QED
        BY <3>1, <4>1
    <3>3. CASE t = tag
      <4>1. u[t] = [s[t] EXCEPT !.nodes = [s[t].nodes EXCEPT ![m] = fresh[m]]]
        BY <2>1, <3>3
      <4>2. u[t] = [nodes |-> [s[t].nodes EXCEPT ![m] = fresh[m]],
                    total |-> TotalOf(registry[t]), keys |-> Attesting(registry[t])]
        BY <3>1, <4>1 DEF StateOf
      <4> DEFINE ns == [s[t].nodes EXCEPT ![m] = fresh[m]]
      <4>3. /\ ns = [k \in DOMAIN registry[t] |-> ns[k]]
            /\ \A k \in DOMAIN registry[t] : ns[k] = IF k = m THEN fresh[m] ELSE s[t].nodes[k]
        BY <3>1 DEF StateOf
      <4>4. u[t].nodes = ns /\ u[t] = [nodes |-> ns, total |-> TotalOf(registry[t]),
                                       keys |-> Attesting(registry[t])]
        BY <4>2
      <4> HIDE DEF ns, u
      <4> QED
        BY <1>2, <3>1, <4>3, <4>4 DEF StateOf
    <3> QED
      BY <3>2, <3>3
  <2> HIDE DEF u
  <2> QED
    BY <2>2, <2>3 DEF StatesOf, u
<1> QED
    BY <1>1, <1>2

(* What a state has for m comes from some registry.                        *)
LEMMA StakeRecorded ==
    ASSUME NEW n, NEW s, NEW t \in 1..Len(registry), StateOf(s, t, n), NEW m \in DOMAIN s.nodes
    PROVE  Recorded(m, s.nodes[m])
BY DEF StateOf, Recorded

-----------------------------------------------------------------------------
(******************************** Steps ************************************)

(* The registry as it was is a part of the one after the step.             *)
RegistryKept ==
    /\ Len(registry') >= Len(registry)
    /\ \A t \in 1..Len(registry) : registry'[t] = registry[t]

(* While n has its sequencer, or leaves the first one, what is true of its *)
(* states stays true.                                                      *)
LEMMA StatesOfKept ==
    ASSUME Shapes, RegistryKept, NEW n \in Observer, NEW s, StatesOf(s, n),
           Len(registry') \in Nat,
           sequencer'[n].id = sequencer[n].id \/ sequencer[n].id = Leader
    PROVE  StatesOf(s, n)'
<1>1. Len(registry) \in Nat
    BY LenProperties DEF Shapes
<1>2. 1..Len(registry) \subseteq 1..Len(registry')
    BY <1>1 DEF RegistryKept
<1>3. ASSUME NEW m, NEW k, Recorded(m, k)
      PROVE  Recorded(m, k)'
    BY <1>2, <1>3 DEF Recorded, RegistryKept
<1>4. Overwritten(n) \subseteq Overwritten(n)'
    BY DEF Overwritten
<1> QED
    BY <1>2, <1>3, <1>4 DEF StatesOf, StateOf, RegistryKept

(* Nodes whose states a step leaves as they are. *)
LEMMA StatesStep ==
    ASSUME StatesInv, Shapes', RegistryKept,
           NEW kept \in SUBSET Observer,
           \A m \in kept : states'[m] = states[m] /\ lastTag'[m] = lastTag[m],
           \A m \in kept : sequencer'[m].id = sequencer[m].id \/ sequencer[m].id = Leader
    PROVE  \A m \in kept : (StatesOf(states[m], m) /\ Newest(m))'
<1>1. Len(registry') \in Nat
    BY LenProperties DEF Shapes
<1>2. ASSUME NEW m \in kept
      PROVE  (StatesOf(states[m], m) /\ Newest(m))'
  <2>1. PICK s : s = states[m]
    OBVIOUS
  <2>2. StatesOf(s, m)
    BY <2>1 DEF StatesInv
  <2>3. StatesOf(s, m)'
    BY <1>1, <2>2, StatesOfKept DEF StatesInv
  <2>4. states'[m] = s
    BY <2>1
  <2> QED
    BY <2>1, <2>3, <2>4 DEF StatesOf, StatesInv, Newest
<1> QED
    BY <1>2

(* The gathering and the signatures keep their tags. *)
LEMMA TagsStep ==
    ASSUME StatesInv, Shapes', RegistryKept,
           \/ round' = round \/ round' = Idle
           \/ IsRound(round)',
           \/ sigs' = sigs
           \/ \E sig : sigs' = sigs \cup {sig} /\ sig.tag \in 1..Len(registry)
    PROVE  /\ round' # Idle => IsRound(round)'
           /\ \A sig \in sigs' : sig.tag \in 1..Len(registry')
<1>1. Len(registry) \in Nat /\ Len(registry') \in Nat
    BY LenProperties DEF StatesInv, Shapes
<1>2. 1..Len(registry) \subseteq 1..Len(registry')
    BY <1>1 DEF RegistryKept
<1>3. round' # Idle => IsRound(round)'
    BY <1>2 DEF StatesInv, IsRound
<1>4. \A sig \in sigs' : sig.tag \in 1..Len(registry')
    BY <1>2 DEF StatesInv
<1> QED
    BY <1>3, <1>4

LEMMA RegisterStep ==
    ASSUME StatesInv, Register
    PROVE  /\ Shapes' /\ RegistryKept
           /\ UNCHANGED <<tagVars, sequencer, round, sigs>>
<1> DEFINE fresh == registry[Len(registry)]
<1>1. registry \in Seq(Registries) /\ Len(registry) \in Nat /\ Len(registry) \in 1..Len(registry)
    BY LenProperties, EmptySeq DEF StatesInv, Shapes
<1>2. fresh \in Registries
    BY <1>1, ElementOfSeq
<1>3. PICK D \in SUBSET Node : fresh \in [D -> Nat]
    BY <1>2 DEF Registries
<1> HIDE DEF fresh
<1>4. ASSUME NEW m \in Node, NEW k \in Nat
      PROVE  With(fresh, m, k) \in Registries
  <2>1. D \cup {m} \in SUBSET Node
    BY MembershipAssumption
  <2>2. With(fresh, m, k) \in [D \cup {m} -> Nat]
    BY <1>3 DEF With
  <2> QED
    BY <2>1, <2>2 DEF Registries
<1>5. ASSUME NEW m
      PROVE  Restrict(fresh, DOMAIN fresh \ {m}) \in Registries
  <2>1. Restrict(fresh, DOMAIN fresh \ {m}) \in [D \ {m} -> Nat] /\ D \ {m} \in SUBSET Node
    BY <1>3 DEF Restrict
  <2> QED
    BY <2>1 DEF Registries
<1>8. PICK r \in Registries : registry' = Append(registry, r)
  <2>1. PICK r \in Changed(fresh) : registry' = Append(registry, r)
    BY DEF Register, fresh
  <2>2. \/ \E m \in Node, k \in Nat : r = With(fresh, m, k)
        \/ \E m : r = Restrict(fresh, DOMAIN fresh \ {m})
    <3> DEFINE movers == (Joining \ DOMAIN fresh) \cup (Restaking \cap DOMAIN fresh)
    <3>1. \/ \E m \in movers : \E k \in Stakes : r = With(fresh, m, k)
          \/ \E m : r = Restrict(fresh, DOMAIN fresh \ {m})
      BY <2>1 DEF Changed
    <3>2. movers \subseteq Node /\ Stakes \subseteq Nat
      BY MembershipAssumption
    <3> HIDE DEF movers
    <3> QED
      BY <3>1, <3>2
  <2> QED
    BY <2>1, <2>2, <1>4, <1>5
<1>6. UNCHANGED <<tagVars, sequencer, round, sigs>>
    BY DEF Register
<1>7. /\ registry' \in Seq(Registries) /\ registry' # << >>
      /\ Len(registry') = Len(registry) + 1
      /\ \A t \in 1..Len(registry) : registry'[t] = registry[t]
    BY <1>1, <1>8, AppendProperties
<1> QED
    BY <1>1, <1>6, <1>7 DEF StatesInv, Shapes, RegistryKept, tagVars

(* Updates in place change neither the tags nor what the states are.       *)
LEMMA FetchStep ==
    ASSUME StatesInv, NEW n \in Observer, FetchNetworkState(n)
    PROVE  /\ Shapes' /\ RegistryKept
           /\ StatesOf(states[n], n)' /\ Newest(n)'
           /\ \A m \in Observer \ {n} : states'[m] = states[m] /\ lastTag'[m] = lastTag[m]
<1> DEFINE tag == Len(registry)
           stored == Known(n, tag)
           fresh == stored[tag].nodes
           own == Updated(stored, 1, n, fresh)
           new == Updated(own, sequencer[n].tag, sequencer[n].id, fresh)
<1>1. tag \in Nat /\ tag \in 1..Len(registry) /\ Shapes /\ StatesOf(states[n], n) /\ Newest(n)
    BY LenProperties, EmptySeq DEF StatesInv, Shapes
<1>2. DOMAIN stored = DOMAIN states[n] \cup {tag} /\ StatesOf(stored, n)
    BY <1>1, KnownProperties
<1>3. StateOf(stored[tag], tag, n)
    BY <1>2 DEF StatesOf
<1>4. \A m \in DOMAIN fresh : Recorded(m, fresh[m])
    BY <1>1, <1>3, StakeRecorded
<1>5. n \in Overwritten(n) /\ sequencer[n].id \in Overwritten(n)
    BY DEF Overwritten
<1>6. /\ states' = [states EXCEPT ![n] = new]
      /\ lastTag' = [lastTag EXCEPT ![n] =
                       IF tag \in DOMAIN states[n] THEN @ ELSE Newer(@, tag)]
      /\ UNCHANGED <<registry, sequencer>>
    BY DEF FetchNetworkState
<1> HIDE DEF stored, fresh, tag
<1>7. StatesOf(own, n) /\ DOMAIN own = DOMAIN stored
    BY <1>2, <1>4, <1>5, UpdatedProperties
<1> HIDE DEF own
<1>8. StatesOf(new, n) /\ DOMAIN new = DOMAIN stored
    BY <1>4, <1>5, <1>7, UpdatedProperties
<1> HIDE DEF new
<1>9. states'[n] = new
    BY <1>1, <1>6 DEF Shapes
<1>10. lastTag'[n] = IF tag \in DOMAIN states[n] THEN lastTag[n] ELSE Newer(lastTag[n], tag)
    BY <1>1, <1>6 DEF Shapes
<1>11. Shapes'
    BY <1>1, <1>6 DEF Shapes
<1>12. StatesOf(states[n], n)'
    BY <1>6, <1>8, <1>9 DEF StatesOf, StateOf, Overwritten, Recorded
<1>13. Newest(n)'
  <2>1. \A t \in DOMAIN states[n] : t \in Nat
    BY <1>1 DEF StatesOf
  <2> QED
    BY <1>1, <1>2, <1>8, <1>9, <1>10, <2>1 DEF Newest, Newer
<1>14. RegistryKept
    BY <1>1, <1>6 DEF RegistryKept, tag
<1>15. \A m \in Observer \ {n} : states'[m] = states[m] /\ lastTag'[m] = lastTag[m]
    BY <1>1, <1>6 DEF Shapes
<1> QED
    BY <1>11, <1>12, <1>13, <1>14, <1>15

LEMMA ReceiveStep ==
    ASSUME StatesInv, NEW n \in Observer, NEW sig \in sigs, Receive(n, sig)
    PROVE  /\ Shapes' /\ RegistryKept
           /\ StatesOf(states[n], n)' /\ Newest(n)'
           /\ \A m \in Observer \ {n} : states'[m] = states[m] /\ lastTag'[m] = lastTag[m]
<1> DEFINE tag == sig.tag
           new == Known(n, tag)
<1>1. tag \in 1..Len(registry) /\ Shapes /\ StatesOf(states[n], n) /\ Newest(n)
    BY DEF StatesInv
<1>2. DOMAIN new = DOMAIN states[n] \cup {tag} /\ StatesOf(new, n)
    BY <1>1, KnownProperties
<1>3. /\ states' = [states EXCEPT ![n] = new]
      /\ lastTag' = [lastTag EXCEPT ![n] = Newer(@, tag)]
      /\ UNCHANGED <<registry, sequencer>>
    BY DEF Receive
<1> HIDE DEF new, tag
<1>4. states'[n] = new /\ lastTag'[n] = Newer(lastTag[n], tag)
    BY <1>1, <1>3 DEF Shapes
<1>5. Shapes'
    BY <1>1, <1>3 DEF Shapes
<1>6. StatesOf(states[n], n)'
    BY <1>2, <1>3, <1>4 DEF StatesOf, StateOf, Overwritten, Recorded
<1>7. Newest(n)'
  <2>1. \A t \in DOMAIN states[n] : t \in Nat
    BY <1>1 DEF StatesOf
  <2> QED
    BY <1>1, <1>2, <1>4, <2>1 DEF Newest, Newer
<1>8. RegistryKept
    BY <1>1, <1>3, LenProperties DEF RegistryKept, Shapes
<1>9. \A m \in Observer \ {n} : states'[m] = states[m] /\ lastTag'[m] = lastTag[m]
    BY <1>1, <1>3 DEF Shapes
<1> QED
    BY <1>5, <1>6, <1>7, <1>8, <1>9

(* A dispute changes the sequencer of n only if that is the first one. *)
LEMMA DisputeStep ==
    ASSUME StatesInv, NEW n \in Observer, NEW ms, Dispute(n, ms)
    PROVE  /\ Shapes' /\ RegistryKept
           /\ UNCHANGED <<registry, states, lastTag, round, sigs>>
           /\ \A m \in Observer : sequencer'[m].id = sequencer[m].id \/ sequencer[m].id = Leader
<1>1. Shapes /\ UNCHANGED <<registry, states, lastTag, round, sigs>>
    BY DEF StatesInv, Dispute, tagVars
<1>2. sequencer[n].id = Leader
    BY DEF Dispute
<1>3. sequencer' = sequencer \/ \E s : sequencer' = [sequencer EXCEPT ![n] = s]
    BY DEF Dispute
<1>4. /\ sequencer' = [m \in Observer |-> sequencer'[m]]
      /\ \A m \in Observer : sequencer'[m].id = sequencer[m].id \/ sequencer[m].id = Leader
    BY <1>1, <1>2, <1>3 DEF Shapes
<1>5. RegistryKept
    BY <1>1, LenProperties DEF RegistryKept, Shapes
<1> QED
    BY <1>1, <1>4, <1>5 DEF Shapes

(* A step of a gathering changes the gathering and the signatures. *)
LEMMA GatherStep ==
    ASSUME StatesInv,
           \/ BeginRound \/ Aggregate \/ GiveUp \/ GoOffline
           \/ \E done, ok : Answers(done, ok)
    PROVE  /\ UNCHANGED <<registry, states, lastTag, sequencer>>
           /\ round' = round \/ round' = Idle \/ IsRound(round)'
           /\ \/ sigs' = sigs
              \/ \E sig : sigs' = sigs \cup {sig} /\ sig.tag \in 1..Len(registry)
<1>1. CASE BeginRound
  <2>1. UNCHANGED <<registry, states, lastTag, sequencer, sigs>>
    BY <1>1 DEF BeginRound, tagVars
  <2>2. PICK all, pending, percent :
           round' = [tag |-> lastTag[Leader], all |-> all, pending |-> pending,
                     signers |-> {}, percent |-> percent, calm |-> TRUE]
    BY <1>1 DEF BeginRound
  <2>3. lastTag[Leader] \in 1..Len(registry)
    BY MembershipAssumption DEF StatesInv, Newest, StatesOf
  <2>4. IsRound(round)'
    BY <2>1, <2>2, <2>3 DEF IsRound
  <2> QED
    BY <2>1, <2>4
<1>2. CASE Aggregate
  <2>1. UNCHANGED <<registry, states, lastTag, sequencer>> /\ round' = Idle /\ round # Idle
    BY <1>2 DEF Aggregate, tagVars
  <2>2. PICK signers, nonsigners, calm :
           sigs' = sigs \cup {[tag |-> round.tag, signers |-> signers,
                               nonsigners |-> nonsigners, calm |-> calm]}
    BY <1>2 DEF Aggregate, SignedTag
  <2>3. round.tag \in 1..Len(registry)
    BY <2>1 DEF StatesInv, IsRound
  <2>4. PICK sig : sig = [tag |-> round.tag, signers |-> signers,
                          nonsigners |-> nonsigners, calm |-> calm]
    OBVIOUS
  <2>5. sig.tag = round.tag /\ sigs' = sigs \cup {sig}
    BY <2>2, <2>4
  <2> QED
    BY <2>1, <2>3, <2>5
<1>3. CASE GiveUp
    BY <1>3 DEF GiveUp, tagVars
<1>4. CASE GoOffline
    BY <1>4 DEF GoOffline, tagVars
<1>5. CASE \E done, ok : Answers(done, ok)
  <2>1. UNCHANGED <<registry, states, lastTag, sequencer, sigs>> /\ round # Idle
    BY <1>5 DEF Answers, tagVars
  <2>2. PICK pending, signers, percent :
           round' = [round EXCEPT !.pending = pending, !.signers = signers,
                                  !.percent = percent]
    BY <1>5 DEF Answers
  <2>3. IsRound(round)
    BY <2>1 DEF StatesInv
  <2>4. IsRound(round)'
    BY <2>1, <2>2, <2>3 DEF IsRound
  <2> QED
    BY <2>1, <2>4
<1> QED
    BY <1>1, <1>2, <1>3, <1>4, <1>5

-----------------------------------------------------------------------------
LEMMA InitStatesInv == Init => StatesInv
<1> SUFFICES ASSUME Init
             PROVE  StatesInv
    OBVIOUS
<1>1. First \in Registries /\ registry = <<First>>
    BY MembershipAssumption DEF Init, Registries
<1>2. registry \in Seq(Registries) /\ registry # << >> /\ Len(registry) = 1
    BY <1>1
<1>3. Shapes
    BY <1>2 DEF Init, Shapes
<1>4. 1 \in 1..Len(registry)
    BY <1>2
<1>5. ASSUME NEW n \in Observer
      PROVE  StatesOf(states[n], n) /\ Newest(n)
  <2>1. states[n] = [t \in {1} |-> FetchedState(t)] /\ lastTag[n] = 1
    BY DEF Init
  <2>2. StateOf(FetchedState(1), 1, n)
    BY <1>3, <1>4, FetchedStateOf
  <2> QED
    BY <2>1, <2>2, <1>4 DEF StatesOf, Newest
<1>6. round = Idle /\ sigs = {}
    BY DEF Init
<1> QED
    BY <1>3, <1>5, <1>6 DEF StatesInv

LEMMA NextStatesInv == StatesInv /\ [Next]_vars => StatesInv'
<1> SUFFICES ASSUME StatesInv, [Next]_vars
             PROVE  StatesInv'
    OBVIOUS
<1>1. ASSUME Shapes', RegistryKept,
             NEW kept \in SUBSET Observer,
             \A m \in kept : states'[m] = states[m] /\ lastTag'[m] = lastTag[m],
             \A m \in kept : sequencer'[m].id = sequencer[m].id \/ sequencer[m].id = Leader,
             \A m \in Observer \ kept : StatesOf(states[m], m)' /\ Newest(m)',
             round' = round \/ round' = Idle \/ IsRound(round)',
             \/ sigs' = sigs
             \/ \E sig : sigs' = sigs \cup {sig} /\ sig.tag \in 1..Len(registry)
      PROVE  StatesInv'
  <2>1. \A m \in kept : (StatesOf(states[m], m) /\ Newest(m))'
    BY <1>1, StatesStep
  <2>2. /\ round' # Idle => IsRound(round)'
        /\ \A sig \in sigs' : sig.tag \in 1..Len(registry')
    BY <1>1, TagsStep
  <2> QED
    BY <1>1, <2>1, <2>2 DEF StatesInv, Idle
<1>2. CASE Register
  <2>1. Shapes' /\ RegistryKept /\ UNCHANGED <<states, lastTag, sequencer, round, sigs>>
    BY <1>2, RegisterStep DEF tagVars
  <2> QED
    BY <1>1, <2>1
<1>3. ASSUME NEW n \in Observer, FetchNetworkState(n)
      PROVE  StatesInv'
  <2>1. /\ Shapes' /\ RegistryKept
        /\ StatesOf(states[n], n)' /\ Newest(n)'
        /\ \A m \in Observer \ {n} : states'[m] = states[m] /\ lastTag'[m] = lastTag[m]
    BY <1>3, FetchStep
  <2>2. UNCHANGED <<registry, sequencer, sigs>>
    BY <1>3 DEF FetchNetworkState
  <2>3. \/ round' = round
        \/ round # Idle /\ \E calm : round' = [round EXCEPT !.calm = calm]
    BY <1>3 DEF FetchNetworkState
  <2>4. round' = round \/ IsRound(round)'
    BY <2>2, <2>3 DEF StatesInv, IsRound
  <2> QED
    BY <1>1, <2>1, <2>2, <2>4
<1>4. ASSUME NEW n \in Observer, NEW sig \in sigs, Receive(n, sig)
      PROVE  StatesInv'
  <2>1. /\ Shapes' /\ RegistryKept
        /\ StatesOf(states[n], n)' /\ Newest(n)'
        /\ \A m \in Observer \ {n} : states'[m] = states[m] /\ lastTag'[m] = lastTag[m]
    BY <1>4, ReceiveStep
  <2>2. UNCHANGED <<sequencer, round, sigs>>
    BY <1>4 DEF Receive
  <2> QED
    BY <1>1, <2>1, <2>2
<1>5. ASSUME NEW n \in Observer, NEW ms, Dispute(n, ms)
      PROVE  StatesInv'
    BY <1>1, <1>5, DisputeStep
<1>6. ASSUME UNCHANGED <<registry, states, lastTag, sequencer>>
      PROVE  Shapes' /\ RegistryKept
    BY <1>6, LenProperties DEF StatesInv, Shapes, RegistryKept
<1>7. CASE \/ BeginRound \/ Aggregate \/ GiveUp \/ GoOffline
           \/ \E done, ok : Answers(done, ok)
  <2>1. /\ UNCHANGED <<registry, states, lastTag, sequencer>>
        /\ round' = round \/ round' = Idle \/ IsRound(round)'
        /\ \/ sigs' = sigs
           \/ \E sig : sigs' = sigs \cup {sig} /\ sig.tag \in 1..Len(registry)
    BY <1>7, GatherStep
  <2> QED
    BY <1>1, <1>6, <2>1
<1>8. CASE UNCHANGED vars
  <2>1. UNCHANGED <<registry, states, lastTag, sequencer, round, sigs>>
    BY <1>8 DEF vars, tagVars
  <2> QED
    BY <1>1, <1>6, <2>1
<1> QED
    BY <1>2, <1>3, <1>4, <1>5, <1>7, <1>8 DEF Next

LEMMA StatesInvariant == Spec => []StatesInv
<1> QED
    BY InitStatesInv, NextStatesInv, PTL DEF Spec

-----------------------------------------------------------------------------
(* The current state of a node is the newest that it has, in whatever      *)
(* order states are fetched for the loop of run_node_tasks and for         *)
(* signatures of old tags: fetch_tag and get_network_state of config.py.   *)
THEOREM TagsNewest == Spec => []TagIsNewest
<1>1. StatesInv => TagIsNewest
  <2> SUFFICES ASSUME StatesInv, NEW n \in Observer
               PROVE  lastTag[n] = Max(DOMAIN states[n])
    BY DEF TagIsNewest
  <2>1. Newest(n) /\ StatesOf(states[n], n)
    BY DEF StatesInv
  <2>2. DOMAIN states[n] \subseteq 1..Len(registry) /\ Len(registry) \in Nat
    BY <2>1, LenProperties DEF StatesInv, Shapes, StatesOf
  <2>3. DOMAIN states[n] \subseteq Int
    BY <2>2
  <2> QED
    BY <2>1, <2>3 DEF Newest, Max
<1> QED
    BY <1>1, StatesInvariant, PTL

(* All nodes say the same of a signature, whatever is registered and       *)
(* fetched between its gathering and its arrival, as long as nobody        *)
(* changes the stakes of the node and of its sequencers, whose records     *)
(* fetch_network_state overwrites in the states it has stored.             *)
THEOREM VerdictsAgree == Spec => []SameVerdict
<1>1. StatesInv => SameVerdict
  <2> SUFFICES ASSUME StatesInv, NEW n \in Observer, NEW sig \in sigs,
                      sig.tag \in DOMAIN states[n], ~ Restaked(n), ~ Restaked(Leader),
                      sequencer[n].id \in {n, Leader}
               PROVE  Verified(states[n][sig.tag], sig) <=> Verified(FetchedState(sig.tag), sig)
    BY DEF SameVerdict
  <2> DEFINE t == sig.tag
             s == states[n][t]
  <2>1. t \in 1..Len(registry) /\ StateOf(s, t, n)
    BY DEF StatesInv, StatesOf
  <2>2. registry[t] \in Registries
    BY <2>1, ElementOfSeq DEF StatesInv, Shapes
  <2>3. registry[t] = [m \in DOMAIN registry[t] |-> registry[t][m]]
    BY <2>2 DEF Registries
  <2> HIDE DEF s, t
  <2>4. \A m \in DOMAIN registry[t] : s.nodes[m] = registry[t][m]
    <3>1. ASSUME NEW m \in DOMAIN registry[t], m \in Overwritten(n), Recorded(m, s.nodes[m])
          PROVE  s.nodes[m] = registry[t][m]
      <4>1. m \in {n, Leader}
        BY <3>1 DEF Overwritten
      <4>2. ~ Restaked(m)
        BY <4>1
      <4>3. registry[t][m] = First[m]
        BY <4>2, <2>1 DEF Restaked
      <4>4. s.nodes[m] = First[m]
        BY <4>2, <3>1 DEF Restaked, Recorded
      <4> QED
        BY <4>3, <4>4
    <3> QED
      BY <2>1, <3>1 DEF StateOf
  <2>5. s.nodes = registry[t]
    BY <2>1, <2>3, <2>4 DEF StateOf
  <2>6. s = FetchedState(t)
    BY <2>1, <2>5 DEF StateOf, FetchedState
  <2> QED
    BY <2>6 DEF s, t
<1> QED
    BY <1>1, StatesInvariant, PTL

-----------------------------------------------------------------------------
(********************* The states of the sequencer **************************)

(* The sequencer at the start fetches the newest state only and is its own *)
(* sequencer, so that it updates no record but its own in the first state, *)
(* and its current state is what the registry says.                        *)
LeaderInv ==
    /\ registry[1] = First
    /\ sequencer[Leader] = [id |-> Leader, tag |-> 1]
    /\ 1 \in DOMAIN states[Leader]
    /\ \A t \in DOMAIN states[Leader] : t = 1 \/ states[Leader][t] = FetchedState(t)
    /\ LastState(Leader) = FetchedState(lastTag[Leader])
    /\ Leader \in DOMAIN NODES(Leader) => OwnStake(Leader) = NODES(Leader)[Leader]

(* Stored states u are those of s but for the record of m in the first one.*)
FirstUpdated(s, u, m, k) ==
    /\ DOMAIN u = DOMAIN s
    /\ \A t \in DOMAIN s \ {1} : u[t] = s[t]
    /\ u[1].nodes[m] = k
    /\ s[1].nodes[m] = k => u[1] = s[1]

LEMMA UpdatedFirst ==
    ASSUME NEW n, NEW s, StatesOf(s, n), 1 \in DOMAIN s, NEW m \in DOMAIN registry[1],
           NEW fresh, m \in DOMAIN fresh
    PROVE  FirstUpdated(s, Updated(s, 1, m, fresh), m, fresh[m])
<1> DEFINE u == Updated(s, 1, m, fresh)
<1>1. u = [s EXCEPT ![1].nodes[m] = fresh[m]]
    BY DEF Updated
<1>2. StateOf(s[1], 1, n)
    BY DEF StatesOf
<1>3. PICK r, ns : r = s[1] /\ ns = r.nodes
    OBVIOUS
<1>4. /\ r = [nodes |-> ns, total |-> r.total, keys |-> r.keys]
      /\ ns = [k \in DOMAIN registry[1] |-> ns[k]]
    BY <1>2, <1>3 DEF StateOf
<1>5. u[1] = [r EXCEPT !.nodes = [ns EXCEPT ![m] = fresh[m]]]
    BY <1>1, <1>3
<1>6. u[1] = [nodes |-> [ns EXCEPT ![m] = fresh[m]], total |-> r.total, keys |-> r.keys]
    BY <1>4, <1>5
<1>7. DOMAIN u = DOMAIN s /\ \A t \in DOMAIN s \ {1} : u[t] = s[t]
    BY <1>1
<1> HIDE DEF u
<1>8. u[1].nodes[m] = fresh[m]
    BY <1>4, <1>6
<1>9. ns[m] = fresh[m] => [ns EXCEPT ![m] = fresh[m]] = ns
    BY <1>4
<1>10. s[1].nodes[m] = fresh[m] => u[1] = s[1]
    BY <1>3, <1>4, <1>6, <1>9
<1> QED
    BY <1>7, <1>8, <1>10 DEF FirstUpdated, u

LEMMA LeaderKept ==
    ASSUME StatesInv, LeaderInv, RegistryKept, states'[Leader] = states[Leader],
           lastTag'[Leader] = lastTag[Leader], sequencer'[Leader] = sequencer[Leader]
    PROVE  LeaderInv' /\ NODES(Leader)' = NODES(Leader)
<1>1. Leader \in Observer
    BY MembershipAssumption
<1>2. StatesOf(states[Leader], Leader) /\ Newest(Leader)
    BY <1>1 DEF StatesInv
<1>3. \A t \in 1..Len(registry) : FetchedState(t)' = FetchedState(t)
    BY DEF RegistryKept, FetchedState
<1>4. \A t \in DOMAIN states[Leader] : FetchedState(t)' = FetchedState(t)
    BY <1>2, <1>3 DEF StatesOf
<1>5. registry'[1] = registry[1]
    BY <1>2 DEF LeaderInv, RegistryKept, StatesOf
<1>6. FetchedState(lastTag[Leader])' = FetchedState(lastTag[Leader])
    BY <1>2, <1>4 DEF Newest, FetchedState
<1>7. LastState(Leader)' = LastState(Leader) /\ OwnStake(Leader)' = OwnStake(Leader)
    BY DEF LastState, OwnStake
<1>8. NODES(Leader)' = NODES(Leader)
    BY <1>7 DEF NODES
<1> QED
    BY <1>4, <1>5, <1>6, <1>7, <1>8 DEF LeaderInv

LEMMA LeaderFetches ==
    ASSUME StatesInv, LeaderInv, FetchNetworkState(Leader)
    PROVE  /\ LeaderInv'
           /\ NODES(Leader)' = Known(Leader, Len(registry))[Len(registry)].nodes
<1> DEFINE l == Leader
           tag == Len(registry)
           stored == Known(l, tag)
           fresh == stored[tag].nodes
           own == Updated(stored, 1, l, fresh)
           new == Updated(own, 1, l, fresh)
<1>1. l \in Observer /\ l \in DOMAIN registry[1]
    BY MembershipAssumption DEF LeaderInv, Observer
<1>2. tag \in Nat /\ tag \in 1..Len(registry) /\ Shapes /\ StatesOf(states[l], l) /\ Newest(l)
    BY <1>1, LenProperties, EmptySeq DEF StatesInv, Shapes
<1>3. DOMAIN stored = DOMAIN states[l] \cup {tag} /\ StatesOf(stored, l)
    BY <1>1, <1>2, KnownProperties
<1>4. \A t \in DOMAIN states[l] : t \in Nat /\ t <= tag
    BY <1>2 DEF StatesOf
<1>5. tag \in DOMAIN states[l] => tag = lastTag[l]
    BY <1>2, <1>4 DEF Newest
<1>6. stored[tag] = FetchedState(tag)
  <2>1. CASE tag \in DOMAIN states[l]
    BY <1>5, <2>1 DEF Known, LeaderInv, LastState
  <2>2. CASE tag \notin DOMAIN states[l]
    BY <2>2 DEF Known
  <2> QED
    BY <2>1, <2>2
<1>7. fresh = registry[tag]
    BY <1>6 DEF FetchedState
<1>8. \A t \in DOMAIN stored : t = 1 \/ stored[t] = FetchedState(t)
    BY <1>3, <1>6 DEF Known, LeaderInv
<1>9. 1 \in DOMAIN stored
    BY <1>3 DEF LeaderInv
<1>10. /\ states' = [states EXCEPT ![l] = new]
       /\ lastTag' = [lastTag EXCEPT ![l] =
                        IF tag \in DOMAIN states[l] THEN @ ELSE Newer(@, tag)]
       /\ UNCHANGED <<registry, sequencer>>
    BY DEF FetchNetworkState, LeaderInv
<1>11. states'[l] = new
    BY <1>1, <1>2, <1>10 DEF Shapes
<1>12. lastTag'[l] = tag
  <2>1. lastTag'[l] = IF tag \in DOMAIN states[l] THEN lastTag[l] ELSE Newer(lastTag[l], tag)
    BY <1>1, <1>2, <1>10 DEF Shapes
  <2>2. lastTag[l] \in Nat /\ lastTag[l] <= tag
    BY <1>2, <1>4 DEF Newest
  <2> QED
    BY <1>2, <1>5, <2>1, <2>2 DEF Newer
<1> HIDE DEF tag, stored, fresh, own, new
<1>13. CASE l \notin DOMAIN fresh
  <2>1. new = stored
    BY <1>13 DEF new, own, Updated
  <2>2. LastState(l)' = FetchedState(tag)
    BY <1>6, <1>11, <1>12, <2>1 DEF LastState
  <2>3. FetchedState(tag)' = FetchedState(tag) /\ \A t : FetchedState(t)' = FetchedState(t)
    BY <1>10 DEF FetchedState, tag
  <2>4. NODES(l)' = fresh
    BY <1>6, <2>2 DEF NODES, fresh
  <2>5. LeaderInv'
    BY <1>8, <1>9, <1>10, <1>11, <1>12, <1>13, <2>1, <2>2, <2>3, <2>4 DEF LeaderInv
  <2> QED
    BY <2>4, <2>5 DEF fresh, stored, tag
<1>14. CASE l \in DOMAIN fresh
  <2>1. Recorded(l, fresh[l])
    BY <1>2, <1>7, <1>14 DEF Recorded, tag
  <2>2. FirstUpdated(stored, own, l, fresh[l])
    BY <1>1, <1>3, <1>9, <1>14, UpdatedFirst DEF own
  <2>3. StatesOf(own, l)
    BY <1>1, <1>3, <2>1, UpdatedProperties DEF own, Overwritten
  <2>4. DOMAIN own = DOMAIN stored
    BY <2>2 DEF FirstUpdated
  <2>5. FirstUpdated(own, new, l, fresh[l])
    BY <1>1, <1>9, <1>14, <2>3, <2>4, UpdatedFirst DEF new
  <2>6. /\ DOMAIN new = DOMAIN stored
        /\ \A t \in DOMAIN stored \ {1} : new[t] = stored[t]
        /\ new[1].nodes[l] = fresh[l]
        /\ stored[1].nodes[l] = fresh[l] => new[1] = stored[1]
    BY <2>2, <2>5 DEF FirstUpdated
  <2>7. tag \in DOMAIN stored
    BY <1>3
  <2>8. new[tag] = stored[tag]
    BY <2>6, <2>7 DEF fresh
  <2>9. LastState(l)' = FetchedState(tag)
    BY <1>6, <1>11, <1>12, <2>8 DEF LastState
  <2>10. \A t : FetchedState(t)' = FetchedState(t)
    BY <1>10 DEF FetchedState
  <2>11. NODES(l)' = fresh
    BY <1>6, <2>9 DEF NODES, fresh
  <2>12. OwnStake(l)' = fresh[l]
    BY <1>11, <2>6 DEF OwnStake
  <2>13. \A t \in DOMAIN new : t = 1 \/ new[t] = FetchedState(t)
    BY <1>8, <2>6
  <2>14. 1 \in DOMAIN new
    BY <1>9, <2>6
  <2>15. LastState(l)' = FetchedState(lastTag[l])'
    BY <1>12, <1>10, <2>9 DEF FetchedState
  <2>16. LeaderInv'
    BY <1>10, <1>11, <2>10, <2>11, <2>12, <2>13, <2>14, <2>15 DEF LeaderInv
  <2> QED
    BY <2>11, <2>16 DEF fresh, stored, tag
<1> QED
    BY <1>13, <1>14

-----------------------------------------------------------------------------
(************************** Sums of stakes *********************************)
LEMMA NodesFinite == IsFiniteSet(Node)
<1>1. Ring \in Seq(Node) /\ Range(Ring) = Node
    BY MembershipAssumption
<1>2. Len(Ring) \in Nat /\ Ring \in [1..Len(Ring) -> Node]
    BY <1>1, LenProperties
<1>3. Ring \in Surjection(1..Len(Ring), Node)
    BY <1>1, <1>2 DEF Range, Surjection
<1>4. IsFiniteSet(1..Len(Ring))
    BY <1>2, FS_Interval
<1> QED
    BY <1>3, <1>4, FS_Surjection

LEMMA TotalIsSum ==
    ASSUME NEW r
    PROVE  TotalOf(r) = SumOn(r, DOMAIN r)
BY DEF TotalOf, SumOn

LEMMA StakesOf ==
    ASSUME Shapes, NEW t \in 1..Len(registry)
    PROVE  /\ registry[t] \in [DOMAIN registry[t] -> Nat]
           /\ IsFiniteSet(DOMAIN registry[t])
           /\ SumsOn(registry[t], DOMAIN registry[t])
<1>1. registry[t] \in Registries
    BY ElementOfSeq DEF Shapes
<1>2. PICK D \in SUBSET Node : registry[t] \in [D -> Nat]
    BY <1>1 DEF Registries
<1>3. DOMAIN registry[t] = D /\ IsFiniteSet(D)
    BY <1>2, NodesFinite, FS_Subset
<1>4. \A m \in DOMAIN registry[t] : registry[t][m] \in Nat
    BY <1>2
<1>5. SumsOn(registry[t], DOMAIN registry[t])
    BY <1>3, <1>4, SumOnProperties
<1> QED
    BY <1>2, <1>3, <1>5

(* Who has stake has a part of the total. *)
LEMMA AttestingTotal ==
    ASSUME Shapes, NEW t \in 1..Len(registry), NEW m \in Attesting(registry[t])
    PROVE  /\ m \in DOMAIN registry[t] /\ registry[t][m] \in Nat \ {0}
           /\ TotalOf(registry[t]) \in Nat \ {0}
<1> DEFINE r == registry[t]
           D == DOMAIN r
<1>1. m \in D /\ r[m] > 0 /\ r[m] \in Nat
    BY StakesOf DEF Attesting
<1>2. SumsOn(r, D)
    BY StakesOf
<1> HIDE DEF r, D
<1>3. SumOn(r, D) = r[m] + SumOn(r, D \ {m}) /\ SumOn(r, D \ {m}) \in Nat
    BY <1>1, <1>2 DEF SumsOn
<1>4. TotalOf(r) = SumOn(r, D)
    BY TotalIsSum DEF D
<1> QED
    BY <1>1, <1>3, <1>4 DEF r, D

(* Stakes that are the same have the same sum, and others may have joined. *)
LEMMA SameSums ==
    ASSUME Shapes, NEW t \in 1..Len(registry), NEW u \in 1..Len(registry),
           SameStakes(registry[t], registry[u]), NEW ms \in SUBSET DOMAIN registry[t]
    PROVE  /\ SumOn(registry[u], ms) = SumOn(registry[t], ms)
           /\ SumOn(registry[t], ms) \in Nat
           /\ TotalOf(registry[t]) \in Nat /\ TotalOf(registry[u]) \in Nat
           /\ TotalOf(registry[t]) <= TotalOf(registry[u])
<1> DEFINE r == registry[t]
           v == registry[u]
           D == DOMAIN r
           E == DOMAIN v
<1>1. r \in [D -> Nat] /\ IsFiniteSet(D) /\ SumsOn(r, D)
    BY StakesOf
<1>2. v \in [E -> Nat] /\ IsFiniteSet(E) /\ SumsOn(v, E)
    BY StakesOf
<1>3. D \subseteq E /\ \A x \in D : v[x] = r[x]
    BY DEF SameStakes
<1>4. TotalOf(r) = SumOn(r, D) /\ TotalOf(v) = SumOn(v, E)
    BY TotalIsSum
<1>5. ms \in SUBSET D
    OBVIOUS
<1> HIDE DEF r, v, D, E
<1>6. ASSUME NEW s \in SUBSET D
      PROVE  SumOn(v, s) = SumOn(r, s)
  <2>1. IsFiniteSet(s)
    BY <1>1, FS_Subset
  <2>2. \A x \in s : r[x] \in Nat /\ v[x] = r[x]
    BY <1>1, <1>3
  <2> QED
    BY <2>1, <2>2, SumOnSame
<1>7. /\ SumOn(v, E) = SumOn(v, D) + SumOn(v, E \ D)
      /\ SumOn(v, D) \in Nat /\ SumOn(v, E) \in Nat /\ SumOn(v, E \ D) \in Nat
  <2>1. IsFiniteSet(E) /\ SumsOn(v, E)
    BY <1>2
  <2>2. D \in SUBSET E
    BY <1>3
  <2> QED
    BY <2>1, <2>2, SumOnGrows
<1>8. SumOn(v, D) = SumOn(r, D)
    BY <1>6
<1>9. SumOn(v, ms) = SumOn(r, ms)
    BY <1>5, <1>6
<1>10. SumOn(r, ms) \in Nat
    BY <1>1, <1>5 DEF SumsOn
<1> QED
    BY <1>4, <1>7, <1>8, <1>9, <1>10 DEF r, v

(* Those who have not signed have the rest of the stake. *)
LEMMA RestOfStake ==
    ASSUME Shapes, NEW t \in 1..Len(registry), NEW A \in SUBSET DOMAIN registry[t],
           NEW B \in SUBSET DOMAIN registry[t], A \cap B = {}
    PROVE  /\ SumOn(registry[t], A) \in Nat /\ SumOn(registry[t], B) \in Nat
           /\ TotalOf(registry[t]) \in Nat
           /\ SumOn(registry[t], A) + SumOn(registry[t], B) <= TotalOf(registry[t])
<1> DEFINE r == registry[t]
           D == DOMAIN r
<1>1. IsFiniteSet(D) /\ SumsOn(r, D)
    BY StakesOf
<1>2. TotalOf(r) = SumOn(r, D)
    BY TotalIsSum
<1>3. A \in SUBSET D /\ B \in SUBSET D /\ A \cup B \in SUBSET D
    OBVIOUS
<1> HIDE DEF r, D
<1>4. SumOn(r, A \cup B) = SumOn(r, A) + SumOn(r, B)
    BY <1>1, <1>3, SumOnDisjoint
<1>5. /\ SumOn(r, D) = SumOn(r, A \cup B) + SumOn(r, D \ (A \cup B))
      /\ SumOn(r, D \ (A \cup B)) \in Nat
  <2>1. PICK C \in SUBSET D : C = A \cup B
    BY <1>3
  <2>2. /\ SumOn(r, D) = SumOn(r, C) + SumOn(r, D \ C)
        /\ SumOn(r, D \ C) \in Nat
    BY <1>1, SumOnGrows
  <2> QED
    BY <2>1, <2>2
<1>6. SumOn(r, A) \in Nat /\ SumOn(r, B) \in Nat /\ SumOn(r, D) \in Nat
    BY <1>1, <1>3 DEF SumsOn
<1> QED
    BY <1>2, <1>4, <1>5, <1>6 DEF r

-----------------------------------------------------------------------------
(***************************** Gathering ***********************************)

(* While no stake changes, those who have signed have at least the part of *)
(* the stake that is counted, which is counted in the totals of the times  *)
(* that the answers came in.                                               *)
StakeCounted(r, R) ==
    /\ SameStakes(R, NODES(Leader))
    /\ r.percent.num \in Nat /\ r.percent.den \in Nat \ {0}
    /\ r.percent.num * TotalOf(R) <= r.percent.den * (R[Leader] + SumOn(R, r.signers))

RoundOf(r, R) ==
    /\ r.all = Attesting(R)
    /\ r.pending \cup r.signers \subseteq r.all \ {Leader}
    /\ r.pending \cap r.signers = {}
    /\ r.calm /\ Leader \in r.all => StakeCounted(r, R)

Gathering == round # Idle => RoundOf(round, registry[round.tag])

(* The inductive invariant behind SignatureVerifies. *)
GatherInv == StatesInv /\ LeaderInv /\ Gathering /\ SignatureVerifies

(* The current state of the sequencer is that of a registry. *)
LEMMA LeaderNodes ==
    ASSUME StatesInv, LeaderInv
    PROVE  /\ lastTag[Leader] \in 1..Len(registry)
           /\ NODES(Leader) = registry[lastTag[Leader]]
           /\ LastState(Leader).total = TotalOf(NODES(Leader))
<1>1. lastTag[Leader] \in 1..Len(registry)
    BY MembershipAssumption DEF StatesInv, Newest, StatesOf
<1> QED
    BY <1>1 DEF LeaderInv, NODES, FetchedState

LEMMA BeginStep ==
    ASSUME StatesInv, LeaderInv, BeginRound
    PROVE  RoundOf(round', registry[round'.tag])
<1> DEFINE l == Leader
           t == lastTag[l]
           R == registry[t]
<1>1. t \in 1..Len(registry) /\ NODES(l) = R /\ LastState(l).total = TotalOf(R)
    BY LeaderNodes
<1>2. Shapes
    BY DEF StatesInv
<1>3. PICK ms \in SUBSET (Attesting(NODES(l)) \ {l}) :
         round' = [tag |-> t, all |-> Attesting(NODES(l)), pending |-> ms, signers |-> {},
                   percent |-> [num |-> OwnStake(l), den |-> LastState(l).total],
                   calm |-> TRUE]
    BY DEF BeginRound
<1>4. /\ round'.tag = t /\ round'.all = Attesting(R) /\ round'.pending = ms
      /\ round'.signers = {} /\ round'.percent.num = OwnStake(l)
      /\ round'.percent.den = TotalOf(R)
    BY <1>1, <1>3
<1>5. ms \subseteq Attesting(R) \ {l}
    BY <1>1
<1>6. ASSUME l \in Attesting(R)
      PROVE  StakeCounted(round', R)
  <2>1. l \in DOMAIN R /\ R[l] \in Nat \ {0} /\ TotalOf(R) \in Nat \ {0}
    BY <1>1, <1>2, <1>6, AttestingTotal
  <2>2. OwnStake(l) = R[l]
    BY <1>1, <2>1 DEF LeaderInv
  <2>3. SumOn(R, {}) = 0
    BY <1>1, <1>2, StakesOf DEF SumsOn
  <2>4. SameStakes(R, NODES(l))
    BY <1>1 DEF SameStakes
  <2>5. R[l] * TotalOf(R) <= TotalOf(R) * (R[l] + SumOn(R, {}))
    BY <2>1, <2>3
  <2> HIDE DEF R, t, l
  <2> QED
    BY <1>4, <2>1, <2>2, <2>4, <2>5 DEF StakeCounted, l
<1> HIDE DEF R, t
<1>7. RoundOf(round', R)
    BY <1>4, <1>5, <1>6 DEF RoundOf
<1> QED
    BY <1>4, <1>7 DEF R

LEMMA AnswersStep ==
    ASSUME StatesInv, LeaderInv, Gathering, NEW done \in SUBSET round.pending,
           NEW ok \in SUBSET done, Answers(done, ok)
    PROVE  RoundOf(round', registry[round'.tag])
<1> DEFINE l == Leader
           R == registry[round.tag]
           N == NODES(l)
           p == round.percent
           s == SumOn(N, ok)
           u == LastState(l).total
<1>1. round # Idle /\ IsRound(round) /\ RoundOf(round, R) /\ Shapes
    BY DEF Answers, StatesInv, Gathering
<1>2. round.tag \in 1..Len(registry)
    BY <1>1 DEF IsRound
<1>3. round' = [round EXCEPT !.pending = @ \ done, !.signers = @ \cup ok,
                             !.percent = Plus(@, s, u)]
    BY DEF Answers, SumOn
<1>4. /\ round'.tag = round.tag /\ round'.all = round.all /\ round'.calm = round.calm
      /\ round'.pending = round.pending \ done /\ round'.signers = round.signers \cup ok
      /\ round'.percent = Plus(p, s, u)
    BY <1>1, <1>3 DEF IsRound
<1>5. /\ round'.pending \cup round'.signers \subseteq round'.all \ {l}
      /\ round'.pending \cap round'.signers = {}
    BY <1>1, <1>4 DEF RoundOf
<1>6. ASSUME round.calm, l \in round.all
      PROVE  StakeCounted(round', R)
  <2>1. StakeCounted(round, R)
    BY <1>1, <1>6 DEF RoundOf
  <2>2. lastTag[l] \in 1..Len(registry) /\ N = registry[lastTag[l]] /\ u = TotalOf(N)
    BY LeaderNodes
  <2>3. /\ l \in Attesting(R) /\ ok \subseteq DOMAIN R /\ round.signers \subseteq DOMAIN R
        /\ ok \cap round.signers = {}
    BY <1>1, <1>6 DEF RoundOf, Attesting
  <2>4. R[l] \in Nat
    BY <1>1, <1>2, <2>3, AttestingTotal
  <2>5. /\ SumOn(N, ok) = SumOn(R, ok) /\ SumOn(R, ok) \in Nat
        /\ TotalOf(R) \in Nat /\ u \in Nat /\ TotalOf(R) <= u
    <3>1. SameStakes(registry[round.tag], registry[lastTag[l]])
      BY <2>1, <2>2 DEF StakeCounted
    <3>2. ok \in SUBSET DOMAIN registry[round.tag]
      BY <2>3
    <3> QED
      BY <1>1, <1>2, <2>2, <3>1, <3>2, SameSums
  <2>6. /\ SumOn(R, round.signers \cup ok) = SumOn(R, round.signers) + SumOn(R, ok)
        /\ SumOn(R, round.signers) \in Nat
    <3>1. IsFiniteSet(DOMAIN R) /\ SumsOn(R, DOMAIN R)
      BY <1>1, <1>2, StakesOf
    <3>2. round.signers \in SUBSET DOMAIN R /\ ok \in SUBSET DOMAIN R
      BY <2>3
    <3>3. round.signers \cap ok = {}
      BY <2>3
    <3>4. SumOn(R, round.signers) \in Nat
      BY <3>1, <3>2 DEF SumsOn
    <3> HIDE DEF R
    <3> QED
      BY <3>1, <3>2, <3>3, <3>4, SumOnDisjoint
  <2>7. TotalOf(R) \in Nat \ {0}
    BY <1>1, <1>2, <2>3, AttestingTotal
  <2>8. PICK a, T, S \in Nat : a = R[l] + SumOn(R, round.signers) /\ T = TotalOf(R) /\ S = s
    BY <2>4, <2>5, <2>6
  <2>9. p.num \in Nat /\ p.den \in Nat \ {0} /\ p.num * T <= p.den * a
    BY <2>1, <2>8 DEF StakeCounted
  <2>10. u \in Nat /\ u > 0 /\ T <= u
    BY <2>5, <2>7, <2>8
  <2>11. /\ round'.percent.num = p.num * u + S * p.den
         /\ round'.percent.den = p.den * u
    BY <1>4, <2>8 DEF Plus
  <2> HIDE DEF p, u, s, R, N, l
  <2>12. (p.num * u + S * p.den) * T <= (p.den * u) * (a + S)
    BY <2>9, <2>10, QuotientGrows
  <2>13. p.num * u + S * p.den \in Nat /\ p.den * u \in Nat \ {0}
    BY <2>9, <2>10
  <2>14. a + S = R[l] + SumOn(R, round'.signers)
    BY <1>4, <2>4, <2>5, <2>6, <2>8 DEF s
  <2>15. round'.percent.num * TotalOf(R)
           <= round'.percent.den * (R[l] + SumOn(R, round'.signers))
    BY <2>8, <2>11, <2>12, <2>14
  <2>16. SameStakes(R, NODES(l))
    BY <2>1 DEF StakeCounted, l
  <2> QED
    BY <2>11, <2>13, <2>15, <2>16 DEF StakeCounted, l
<1> HIDE DEF R
<1>7. RoundOf(round', R)
    BY <1>1, <1>4, <1>5, <1>6 DEF RoundOf
<1> QED
    BY <1>4, <1>7 DEF R

(* The signature that is aggregated verifies, if stakes did not change. *)
LEMMA EnoughVerifies ==
    ASSUME Shapes, NEW t \in 1..Len(registry), NEW r, RoundOf(r, registry[t]),
           r.calm, Leader \in r.all, Enough(r.percent), NEW sig,
           sig.signers = r.signers \cup {Leader}, sig.nonsigners = r.all \ sig.signers
    PROVE  Verified(FetchedState(t), sig)
<1> DEFINE R == registry[t]
           a == SumOn(R, sig.signers)
           b == SumOn(R, sig.nonsigners)
           T == TotalOf(R)
<1>1. /\ r.all = Attesting(R) /\ r.signers \subseteq r.all \ {Leader} /\ StakeCounted(r, R)
    BY DEF RoundOf
<1>2. /\ sig.signers \subseteq r.all /\ sig.nonsigners \subseteq r.all
      /\ sig.signers \cap sig.nonsigners = {}
      /\ r.all \ sig.nonsigners = sig.signers
    BY <1>1
<1>3. r.all \subseteq DOMAIN R
    BY <1>1 DEF Attesting
<1>4. a \in Nat /\ b \in Nat /\ T \in Nat /\ a + b <= T
  <2>1. sig.signers \in SUBSET DOMAIN R /\ sig.nonsigners \in SUBSET DOMAIN R
    BY <1>2, <1>3
  <2> QED
    BY <1>2, <2>1, RestOfStake
<1>5. a = R[Leader] + SumOn(R, r.signers)
  <2>1. SumsOn(R, DOMAIN R)
    BY StakesOf
  <2>2. Leader \in sig.signers /\ sig.signers \in SUBSET DOMAIN R
        /\ sig.signers \ {Leader} = r.signers
    BY <1>1, <1>2, <1>3
  <2> HIDE DEF R
  <2> QED
    BY <2>1, <2>2 DEF SumsOn
<1>6. Threshold * T <= 100 * a
  <2>1. PICK n \in Nat, d \in Nat \ {0} : n = r.percent.num /\ d = r.percent.den
    BY <1>1 DEF StakeCounted
  <2>2. n * T <= d * a
    BY <1>1, <1>5, <2>1 DEF StakeCounted
  <2>3. Threshold \in Nat
    <3>1. Threshold \in 51..100
      BY MembershipAssumption
    <3> QED
      BY <3>1
  <2>4. Threshold * d <= 100 * n
    BY <2>1, <2>3 DEF Enough
  <2> HIDE DEF a, T
  <2> QED
    BY <1>4, <2>1, <2>2, <2>3, <2>4, QuotientEnough
<1>7. 100 * b <= (100 - Threshold) * T
  <2>1. Threshold \in Nat
    <3>1. Threshold \in 51..100
      BY MembershipAssumption
    <3> QED
      BY <3>1
  <2>2. PICK x \in Nat : x = Threshold * T
    BY <1>4, <2>1
  <2>3. (100 - Threshold) * T = 100 * T - x
    BY <1>4, <2>1, <2>2
  <2> QED
    BY <1>4, <1>6, <2>2, <2>3
<1>8. /\ FetchedState(t).nodes = R /\ FetchedState(t).total = T
      /\ FetchedState(t).keys = r.all
    BY <1>1 DEF FetchedState
<1>9. 100 * SumOn(FetchedState(t).nodes, sig.nonsigners)
        <= (100 - Threshold) * FetchedState(t).total
    BY <1>7, <1>8
<1>10. sig.nonsigners \subseteq Attesting(FetchedState(t).nodes)
    BY <1>1, <1>2, <1>8
<1>11. FetchedState(t).keys \ sig.nonsigners = sig.signers
    BY <1>2, <1>8
<1> HIDE DEF R, a, b, T
<1> QED
    BY <1>9, <1>10, <1>11 DEF Verified, SumOn

LEMMA SignaturesKept ==
    ASSUME StatesInv, SignatureVerifies, RegistryKept, NEW sig \in sigs, sig.calm
    PROVE  Verified(FetchedState(sig.tag), sig)'
<1>1. sig.tag \in 1..Len(registry)
    BY DEF StatesInv
<1>2. FetchedState(sig.tag)' = FetchedState(sig.tag)
    BY <1>1 DEF RegistryKept, FetchedState
<1>3. Verified(FetchedState(sig.tag), sig)
    BY DEF SignatureVerifies
<1> QED
    BY <1>2, <1>3

LEMMA AggregateStep ==
    ASSUME StatesInv, LeaderInv, Gathering, SignatureVerifies, Aggregate
    PROVE  SignatureVerifies'
<1> DEFINE l == Leader
           own == IF OwnStake(l) > 0 THEN {l} ELSE {}
           signers == round.signers \cup own
           R == registry[round.tag]
<1>1. PICK sig : sig = [tag |-> round.tag, signers |-> signers,
                        nonsigners |-> round.all \ signers,
                        calm |-> round.calm /\ l \in round.all]
    OBVIOUS
<1>2. /\ round # Idle /\ Enough(round.percent)
      /\ sigs' = sigs \cup {sig} /\ registry' = registry
    BY <1>1 DEF Aggregate, SignedTag, Nonsigners
<1>3. /\ sig.tag = round.tag /\ sig.signers = signers /\ sig.nonsigners = round.all \ signers
      /\ sig.calm <=> round.calm /\ l \in round.all
    BY <1>1
<1>4. /\ Shapes /\ round.tag \in 1..Len(registry) /\ RoundOf(round, R)
    BY <1>2 DEF StatesInv, IsRound, Gathering
<1>5. RegistryKept
    BY <1>2, <1>4, LenProperties DEF RegistryKept, Shapes
<1>6. ASSUME sig.calm
      PROVE  Verified(FetchedState(sig.tag), sig)
  <2>1. round.calm /\ l \in round.all
    BY <1>3, <1>6
  <2>2. StakeCounted(round, R) /\ l \in Attesting(R)
    BY <1>4, <2>1 DEF RoundOf
  <2>3. l \in DOMAIN R /\ R[l] \in Nat \ {0}
    BY <1>4, <2>2, AttestingTotal
  <2>4. l \in DOMAIN NODES(l) /\ NODES(l)[l] = R[l]
    BY <2>2, <2>3 DEF StakeCounted, SameStakes
  <2>5. OwnStake(l) > 0
    BY <2>3, <2>4 DEF LeaderInv
  <2>6. sig.signers = round.signers \cup {Leader}
    BY <1>3, <2>5
  <2>7. sig.nonsigners = round.all \ sig.signers
    BY <1>3
  <2> HIDE DEF signers
  <2>8. Verified(FetchedState(round.tag), sig)
    BY <1>2, <1>4, <2>1, <2>6, <2>7, EnoughVerifies
  <2> QED
    BY <1>3, <2>8
<1>7. FetchedState(sig.tag)' = FetchedState(sig.tag)
    BY <1>2 DEF FetchedState
<1>8. sig.calm => Verified(FetchedState(sig.tag), sig)'
    BY <1>6, <1>7
<1>9. \A s \in sigs : s.calm => Verified(FetchedState(s.tag), s)'
    BY <1>5, SignaturesKept
<1> QED
    BY <1>2, <1>8, <1>9 DEF SignatureVerifies

LEMMA GatheringKept ==
    ASSUME StatesInv, Gathering, RegistryKept, round' = round,
           NODES(Leader)' = NODES(Leader)
    PROVE  Gathering'
<1> SUFFICES ASSUME round # Idle
             PROVE  RoundOf(round, registry[round.tag])'
    BY DEF Gathering, Idle
<1>1. RoundOf(round, registry[round.tag])
    BY DEF Gathering
<1>2. registry'[round.tag] = registry[round.tag]
    BY DEF StatesInv, IsRound, RegistryKept
<1> QED
    BY <1>1, <1>2 DEF RoundOf, StakeCounted

(* When the sequencer fetches, whether stakes are as they were is noted. *)
LEMMA FetchGathering ==
    ASSUME StatesInv, LeaderInv, Gathering, FetchNetworkState(Leader)
    PROVE  Gathering'
<1> DEFINE fresh == Known(Leader, Len(registry))[Len(registry)].nodes
           R == registry[round.tag]
<1>1. NODES(Leader)' = fresh
    BY LeaderFetches
<1>2. /\ registry' = registry
      /\ round' = IF round # Idle
                  THEN [round EXCEPT !.calm = @ /\ SameStakes(NODES(Leader), fresh)] ELSE round
    BY DEF FetchNetworkState
<1> SUFFICES ASSUME round' # Idle
             PROVE  RoundOf(round, registry[round.tag])'
    BY DEF Gathering, Idle
<1>3. round # Idle /\ IsRound(round) /\ RoundOf(round, R)
    BY <1>2 DEF Gathering, StatesInv
<1>4. /\ round'.tag = round.tag /\ round'.all = round.all
      /\ round'.pending = round.pending /\ round'.signers = round.signers
      /\ round'.percent = round.percent
      /\ round'.calm <=> round.calm /\ SameStakes(NODES(Leader), fresh)
    BY <1>2, <1>3 DEF IsRound
<1> HIDE DEF fresh
<1>5. registry'[round'.tag] = R
    BY <1>2, <1>4
<1>6. ASSUME round'.calm, Leader \in round'.all
      PROVE  SameStakes(R, fresh) /\ StakeCounted(round, R)
  <2>1. StakeCounted(round, R) /\ SameStakes(NODES(Leader), fresh)
    BY <1>3, <1>4, <1>6 DEF RoundOf
  <2> HIDE DEF R
  <2> QED
    BY <2>1 DEF StakeCounted, SameStakes
<1> HIDE DEF R
<1>7. round'.calm /\ Leader \in round'.all => StakeCounted(round, R)'
    BY <1>1, <1>4, <1>5, <1>6 DEF StakeCounted, R
<1> QED
    BY <1>1, <1>3, <1>4, <1>5, <1>6 DEF RoundOf, StakeCounted

LEMMA InitGatherInv == Init => GatherInv
<1> SUFFICES ASSUME Init
             PROVE  GatherInv
    OBVIOUS
<1>1. Leader \in Observer
    BY MembershipAssumption
<1>2. /\ registry[1] = First /\ sequencer[Leader] = [id |-> Leader, tag |-> 1]
      /\ states[Leader] = [t \in {1} |-> FetchedState(t)] /\ lastTag[Leader] = 1
    BY <1>1 DEF Init
<1>3. LastState(Leader) = states[Leader][1]
    BY <1>2 DEF LastState
<1>4. OwnStake(Leader) = NODES(Leader)[Leader]
    BY <1>3 DEF OwnStake, NODES
<1>5. LeaderInv
    BY <1>2, <1>3, <1>4 DEF LeaderInv
<1> QED
    BY <1>5, InitStatesInv DEF GatherInv, Gathering, SignatureVerifies, Init

LEMMA NextGatherInv == GatherInv /\ [Next]_vars => GatherInv'
<1> SUFFICES ASSUME GatherInv, [Next]_vars
             PROVE  GatherInv'
    OBVIOUS
<1>1. StatesInv /\ LeaderInv /\ Gathering /\ SignatureVerifies /\ StatesInv'
    BY NextStatesInv DEF GatherInv
<1>2. Leader \in Observer
    BY MembershipAssumption
<1>3. ASSUME RegistryKept, sigs' = sigs
      PROVE  SignatureVerifies'
    BY <1>1, <1>3, SignaturesKept DEF SignatureVerifies
<1>4. ASSUME RegistryKept, states'[Leader] = states[Leader], lastTag'[Leader] = lastTag[Leader],
             sequencer'[Leader] = sequencer[Leader]
      PROVE  /\ LeaderInv'
             /\ round' = round => Gathering'
             /\ round' = Idle => Gathering'
  <2>1. LeaderInv' /\ NODES(Leader)' = NODES(Leader)
    BY <1>1, <1>4, LeaderKept
  <2>2. round' = round => Gathering'
    BY <1>1, <1>4, <2>1, GatheringKept
  <2>3. round' = Idle => Gathering'
    BY DEF Gathering, Idle
  <2> QED
    BY <2>1, <2>2, <2>3
<1>5. CASE Register
  <2>1. RegistryKept /\ UNCHANGED <<states, lastTag, sequencer, round, sigs>>
    BY <1>1, <1>5, RegisterStep DEF tagVars
  <2> QED
    BY <1>1, <1>3, <1>4, <2>1 DEF GatherInv
<1>6. ASSUME NEW n \in Observer, FetchNetworkState(n)
      PROVE  GatherInv'
  <2>1. /\ RegistryKept
        /\ \A m \in Observer \ {n} : states'[m] = states[m] /\ lastTag'[m] = lastTag[m]
    BY <1>1, <1>6, FetchStep
  <2>2. UNCHANGED <<sequencer, sigs>>
    BY <1>6 DEF FetchNetworkState
  <2>3. SignatureVerifies'
    BY <1>3, <2>1, <2>2
  <2>4. CASE n = Leader
    <3>1. LeaderInv' /\ Gathering'
      BY <1>1, <1>6, <2>4, LeaderFetches, FetchGathering
    <3> QED
      BY <1>1, <2>3, <3>1 DEF GatherInv
  <2>5. CASE n # Leader
    <3>1. round' = round
      BY <1>6, <2>5 DEF FetchNetworkState
    <3>2. LeaderInv' /\ Gathering'
      BY <1>2, <1>4, <2>1, <2>2, <2>5, <3>1
    <3> QED
      BY <1>1, <2>3, <3>2 DEF GatherInv
  <2> QED
    BY <2>4, <2>5
<1>7. ASSUME NEW n \in Observer, NEW sig \in sigs, Receive(n, sig)
      PROVE  GatherInv'
  <2>1. /\ RegistryKept
        /\ \A m \in Observer \ {n} : states'[m] = states[m] /\ lastTag'[m] = lastTag[m]
    BY <1>1, <1>7, ReceiveStep
  <2>2. UNCHANGED <<sequencer, round, sigs>> /\ n # Leader
    BY <1>7 DEF Receive
  <2>3. SignatureVerifies'
    BY <1>3, <2>1, <2>2
  <2>4. LeaderInv' /\ Gathering'
    BY <1>2, <1>4, <2>1, <2>2
  <2> QED
    BY <1>1, <2>3, <2>4 DEF GatherInv
<1>8. ASSUME NEW n \in Observer, NEW ms, Dispute(n, ms)
      PROVE  GatherInv'
  <2>1. RegistryKept /\ UNCHANGED <<states, lastTag, round, sigs>>
    BY <1>1, <1>8, DisputeStep
  <2>2. n # Leader
    BY <1>8 DEF Dispute, Up
  <2>3. sequencer' = sequencer \/ \E s : sequencer' = [sequencer EXCEPT ![n] = s]
    BY <1>8 DEF Dispute
  <2>4. sequencer'[Leader] = sequencer[Leader]
    BY <1>1, <1>2, <2>2, <2>3 DEF StatesInv, Shapes
  <2>5. SignatureVerifies'
    BY <1>3, <2>1
  <2>6. LeaderInv' /\ Gathering'
    BY <1>4, <2>1, <2>4
  <2> QED
    BY <1>1, <2>5, <2>6 DEF GatherInv
<1>9. ASSUME UNCHANGED <<registry, states, lastTag, sequencer>>
      PROVE  RegistryKept
    BY <1>1, <1>9, LenProperties DEF StatesInv, Shapes, RegistryKept
<1>10. CASE BeginRound
  <2>1. UNCHANGED <<registry, states, lastTag, sequencer, sigs>>
    BY <1>10 DEF BeginRound, tagVars
  <2>2. RoundOf(round', registry[round'.tag])
    BY <1>1, <1>10, BeginStep
  <2>3. NODES(Leader)' = NODES(Leader)
    BY <2>1 DEF NODES, LastState
  <2>4. Gathering'
    BY <2>1, <2>2, <2>3 DEF Gathering, RoundOf, StakeCounted
  <2>5. LeaderInv' /\ SignatureVerifies'
    BY <1>3, <1>4, <1>9, <2>1
  <2> QED
    BY <1>1, <2>4, <2>5 DEF GatherInv
<1>11. ASSUME NEW done \in SUBSET round.pending, NEW ok \in SUBSET done, Answers(done, ok)
       PROVE  GatherInv'
  <2>1. UNCHANGED <<registry, states, lastTag, sequencer, sigs>>
    BY <1>11 DEF Answers, tagVars
  <2>2. RoundOf(round', registry[round'.tag])
    BY <1>1, <1>11, AnswersStep
  <2>3. NODES(Leader)' = NODES(Leader)
    BY <2>1 DEF NODES, LastState
  <2>4. Gathering'
    BY <2>1, <2>2, <2>3 DEF Gathering, RoundOf, StakeCounted
  <2>5. LeaderInv' /\ SignatureVerifies'
    BY <1>3, <1>4, <1>9, <2>1
  <2> QED
    BY <1>1, <2>4, <2>5 DEF GatherInv
<1>12. CASE Aggregate
  <2>1. UNCHANGED <<registry, states, lastTag, sequencer>> /\ round' = Idle
    BY <1>12 DEF Aggregate, tagVars
  <2>2. SignatureVerifies'
    BY <1>1, <1>12, AggregateStep
  <2>3. LeaderInv' /\ Gathering'
    BY <1>4, <1>9, <2>1
  <2> QED
    BY <1>1, <2>2, <2>3 DEF GatherInv
<1>13. CASE GiveUp \/ GoOffline
  <2>1. UNCHANGED <<registry, states, lastTag, sequencer, sigs>> /\ round' = Idle
    BY <1>13 DEF GiveUp, GoOffline, tagVars
  <2>2. LeaderInv' /\ Gathering' /\ SignatureVerifies'
    BY <1>3, <1>4, <1>9, <2>1
  <2> QED
    BY <1>1, <2>2 DEF GatherInv
<1>14. CASE UNCHANGED vars
  <2>1. UNCHANGED <<registry, states, lastTag, sequencer, round, sigs>>
    BY <1>14 DEF vars, tagVars
  <2>2. LeaderInv' /\ Gathering' /\ SignatureVerifies'
    BY <1>3, <1>4, <1>9, <2>1
  <2> QED
    BY <1>1, <2>2 DEF GatherInv
<1> QED
    BY <1>5, <1>6, <1>7, <1>8, <1>10, <1>11, <1>12, <1>13, <1>14 DEF Next

(* What the sequencer aggregates verifies under the registry of its tag:   *)
(* those who signed were counted with the stakes of later tags, in totals  *)
(* that may only have grown, and all others are listed as nonsigners,      *)
(* whoever joins while gather_and_aggregate_signatures waits for them.     *)
THEOREM SignaturesVerify == Spec => []SignatureVerifies
<1>1. GatherInv => SignatureVerifies
    BY DEF GatherInv
<1> QED
    BY <1>1, InitGatherInv, NextGatherInv, PTL DEF Spec

-----------------------------------------------------------------------------
(******************************* Monitoring ********************************)
(* What the time says of the node: it is in the state it was seen in.      *)
Observed ==
    /\ now \in 0..MaxTime /\ real \in States
    /\ seen \in [0..MaxTime -> SUBSET States]
    /\ real \in seen[now]

(* The node was in the state of e since the timestamp of e.                *)
RealEvent(e) ==
    \E t \in e.timestamp..(e.timestamp + Timeout) : t \in 0..now /\ e.state \in seen[t]

(* A change of state that m has signed.  Only what another monitor has     *)
(* signed is known to be real: the check of m may be outdated.             *)
Request == [kind : {"check", "ask"}, state : States, began : 0..MaxTime,
            timestamp : 0..MaxTime, signers : SUBSET Monitor]

RequestOK(m, a) ==
    /\ a \in Request
    /\ a.kind = "check" => a.signers = {}
    /\ a.kind = "ask" => a.timestamp = a.began
    /\ m \notin a.signers
    /\ a.began <= now /\ now <= a.began + Timeout
    /\ a.signers # {} => RealEvent(a)

RequestsOK == \A m \in Monitor : asking[m] # None => RequestOK(m, asking[m])

SentOK ==
    \A m \in Monitor : sent[m] # None =>
        /\ sent[m] \in [kind : {"event"}, state : States, timestamp : 0..MaxTime]
        /\ RealEvent(sent[m])

SeqOK(s) == s \in Seq(Event) /\ \A i \in 1..Len(s) : RealEvent(s[i])

LogOK == \A m \in Monitor : SeqOK(queue[m]) /\ SeqOK(events[m]) /\ events[m] # << >>

MonitorShapes ==
    /\ events = [m \in Monitor |-> events[m]]
    /\ asking = [m \in Monitor |-> asking[m]]
    /\ sent = [m \in Monitor |-> sent[m]]
    /\ queue = [m \in Monitor |-> queue[m]]

(* The inductive invariant behind EventsReal: an event is real on the      *)
(* whole way from the signatures to the monitors that apply it.            *)
RealInv == Observed /\ MonitorShapes /\ RequestsOK /\ SentOK /\ LogOK

-----------------------------------------------------------------------------
(* What was seen is never unseen.                                          *)
LEMMA SeenGrows ==
    ASSUME Observed, [MonitoringNext]_monitoringVars
    PROVE  /\ Observed'
           /\ now' \in now..MaxTime
           /\ \A t \in 0..now : seen[t] \subseteq seen'[t]
<1>1. CASE Tick
  BY <1>1, TimeAssumption DEF Observed, Tick
<1>2. CASE Change
  <2>1. real' \in States
    BY <1>2 DEF Observed, Change, States
  <2>2. seen' = [seen EXCEPT ![now] = seen[now] \cup {real'}] /\ now' = now
    BY <1>2 DEF Change
  <2> QED
    BY <2>1, <2>2 DEF Observed
<1>3. CASE UNCHANGED envVars
  BY <1>3 DEF Observed, envVars
<1> QED
  BY <1>1, <1>2, <1>3 DEF MonitoringNext, monitoringVars, Observe, Ask, SignState, SendEvent, Sequence, Process,
     envVars

LEMMA RealStaysReal ==
    ASSUME Observed, [MonitoringNext]_monitoringVars, NEW e, RealEvent(e)
    PROVE  RealEvent(e)'
BY SeenGrows DEF RealEvent, Observed

(* What the node is in now may be told of any time back to the timeout.    *)
LEMMA RealNow ==
    ASSUME Observed, NEW e, e.timestamp \in 0..now, now <= e.timestamp + Timeout, e.state = real
    PROVE  RealEvent(e)
BY TimeAssumption DEF RealEvent, Observed

LEMMA SeqOKKept ==
    ASSUME Observed, [MonitoringNext]_monitoringVars, NEW s, SeqOK(s)
    PROVE  SeqOK(s)'
BY RealStaysReal DEF SeqOK

(* m alone is no quorum: some other monitor has signed. *)
LEMMA OthersSigned ==
    ASSUME NEW m \in Monitor, NEW S, TwoThirds(S \cup {m})
    PROVE  S # {}
<1> SUFFICES ASSUME S = {} PROVE FALSE
  OBVIOUS
<1>1. S \cup {m} = {m} /\ Cardinality({m}) = 1
  BY FS_Singleton
<1>2. Cardinality(Monitor) \in Nat /\ Cardinality(Monitor) > 1
  BY MonitorAssumption, FS_CardinalityType
<1>3. 3 * Cardinality({m}) >= 2 * Cardinality(Monitor)
  BY <1>1 DEF TwoThirds
<1> QED
  BY <1>1, <1>2, <1>3

-----------------------------------------------------------------------------
LEMMA InitRealInv == MonitoringInit => RealInv
<1> SUFFICES ASSUME MonitoringInit PROVE RealInv
  OBVIOUS
<1>1. Observed
  BY TimeAssumption DEF MonitoringInit, Observed, States
<1>2. \A m \in Monitor : asking[m] = None /\ sent[m] = None /\ queue[m] = << >>
                         /\ events[m] = <<[state |-> "up", timestamp |-> 0]>>
  BY DEF MonitoringInit
<1>3. SeqOK(<< >>)
  BY DEF SeqOK
<1>4. SeqOK(<<[state |-> "up", timestamp |-> 0]>>)
  <2> DEFINE e == [state |-> "up", timestamp |-> 0]
  <2>1. e \in Event
    BY TimeAssumption DEF Event, States
  <2>2. RealEvent(e)
    <3>1. e.timestamp = 0 /\ e.state = real /\ now = 0
      BY DEF MonitoringInit
    <3> QED
      BY <1>1, <3>1, TimeAssumption DEF RealEvent, Observed
  <2>3. ASSUME NEW x \in Event, RealEvent(x) PROVE SeqOK(<<x>>)
    BY <2>3 DEF SeqOK
  <2> QED
    BY <2>1, <2>2, <2>3
<1>5. MonitorShapes
  BY DEF MonitoringInit, MonitorShapes
<1> QED
  BY <1>1, <1>2, <1>3, <1>4, <1>5 DEF RealInv, RequestsOK, SentOK, LogOK

(* Requests and events that stay as they are stay good. *)
LEMMA KeptRequest ==
    ASSUME RealInv, [MonitoringNext]_monitoringVars, NEW m \in Monitor, asking[m] # None, asking'[m] = asking[m]
    PROVE  RequestOK(m, asking[m])'
<1>1. RequestOK(m, asking[m]) /\ Observed
  BY DEF RealInv, RequestsOK
<1>2. now' \in now..MaxTime /\ now' <= asking[m].began + Timeout
  <2>1. CASE Tick
    BY <1>1, <2>1, SeenGrows, TimeAssumption DEF Tick, Observed, RequestOK, Request
  <2>2. CASE now' = now
    BY <1>1, <2>2, TimeAssumption DEF Observed, RequestOK
  <2> QED
    BY <2>1, <2>2 DEF MonitoringNext, monitoringVars, Change, Observe, Ask, SignState, SendEvent, Sequence, Process,
       envVars
<1>3. asking[m].signers # {} => RealEvent(asking[m])'
  <2>1. ASSUME NEW a, RealEvent(a) PROVE RealEvent(a)'
    BY <1>1, <2>1, RealStaysReal
  <2>2. asking[m].signers # {} => RealEvent(asking[m])
    BY <1>1 DEF RequestOK
  <2> QED
    BY <2>1, <2>2 DEF RealEvent
<1>4. asking'[m] \in Request /\ asking[m].began <= now'
  BY <1>1, <1>2, TimeAssumption DEF RequestOK, Request, Observed
<1> QED
  BY <1>1, <1>2, <1>3, <1>4 DEF RequestOK

LEMMA KeptSent ==
    ASSUME RealInv, [MonitoringNext]_monitoringVars, NEW m \in Monitor, sent[m] # None, sent'[m] = sent[m]
    PROVE  /\ sent'[m] \in [kind : {"event"}, state : States, timestamp : 0..MaxTime]
           /\ RealEvent(sent[m])'
<1>1. RealEvent(sent[m]) /\ Observed
  BY DEF RealInv, SentOK
<1>2. ASSUME NEW e, RealEvent(e) PROVE RealEvent(e)'
  BY <1>1, <1>2, RealStaysReal
<1> QED
  BY <1>1, <1>2 DEF RealInv, SentOK, RealEvent

LEMMA KeptSeq ==
    ASSUME RealInv, [MonitoringNext]_monitoringVars, NEW s, SeqOK(s)
    PROVE  SeqOK(s)'
BY SeqOKKept DEF RealInv

(* The four parts of the invariant whose variables a step leaves alone.    *)
LEMMA KeptRequests ==
    ASSUME RealInv, [MonitoringNext]_monitoringVars, UNCHANGED asking
    PROVE  RequestsOK'
BY KeptRequest DEF RequestsOK

LEMMA KeptSents ==
    ASSUME RealInv, [MonitoringNext]_monitoringVars, UNCHANGED sent
    PROVE  SentOK'
<1> SUFFICES ASSUME NEW m \in Monitor, sent'[m] # None
             PROVE  /\ sent'[m] \in [kind : {"event"}, state : States, timestamp : 0..MaxTime]
                    /\ RealEvent(sent[m])'
  BY DEF SentOK
<1> QED
  BY KeptSent

LEMMA KeptLog ==
    ASSUME RealInv, [MonitoringNext]_monitoringVars, UNCHANGED <<events, queue>>
    PROVE  LogOK'
<1>1. ASSUME NEW s, SeqOK(s) PROVE SeqOK(s)'
  BY <1>1, KeptSeq
<1> SUFFICES ASSUME NEW m \in Monitor
             PROVE  SeqOK(queue[m])' /\ SeqOK(events[m])' /\ events'[m] # << >>
  BY DEF LogOK
<1>2. PICK q, e : q = queue[m] /\ e = events[m]
  OBVIOUS
<1>3. SeqOK(q) /\ SeqOK(e) /\ e # << >>
  BY <1>2 DEF RealInv, LogOK
<1>4. SeqOK(q)' /\ SeqOK(e)'
  BY <1>1, <1>3
<1> QED
  BY <1>2, <1>3, <1>4 DEF SeqOK

LEMMA ObserveStep ==
    ASSUME RealInv, [MonitoringNext]_monitoringVars, NEW m \in Monitor, Observe(m)
    PROVE  RealInv'
<1>1. Observed' /\ SentOK' /\ LogOK'
  BY SeenGrows, KeptSents, KeptLog DEF Observe, RealInv
<1>2. MonitorShapes'
  BY DEF MonitorShapes, RealInv, Observe
<1>3. ASSUME NEW k \in Monitor, asking'[k] # None PROVE RequestOK(k, asking[k])'
  <2>1. CASE k = m
    <3>1. asking'[k] = [kind |-> "check", state |-> real, began |-> now,
                        timestamp |-> now, signers |-> {}] /\ now' = now
      BY <2>1 DEF Observe, RealInv, MonitorShapes, envVars
    <3> QED
      BY <3>1, TimeAssumption DEF RequestOK, Request, RealInv, Observed
  <2>2. CASE k # m
    BY <1>3, <2>2, KeptRequest DEF Observe, RealInv, MonitorShapes
  <2> QED
    BY <2>1, <2>2
<1> QED
  BY <1>1, <1>2, <1>3 DEF RealInv, RequestsOK

LEMMA AskStep ==
    ASSUME RealInv, [MonitoringNext]_monitoringVars, NEW m \in Monitor, Ask(m)
    PROVE  RealInv'
<1>1. Observed' /\ SentOK' /\ LogOK'
  BY SeenGrows, KeptSents, KeptLog DEF Ask, RealInv
<1>2. MonitorShapes'
  BY DEF MonitorShapes, RealInv, Ask
<1>3. ASSUME NEW k \in Monitor, asking'[k] # None PROVE RequestOK(k, asking[k])'
  <2>1. CASE k = m
    <3>1. RequestOK(m, asking[m]) /\ asking[m].kind = "check"
      BY DEF RealInv, RequestsOK, Ask
    <3>2. asking'[k] = [kind |-> "ask", state |-> asking[m].state, began |-> now,
                        timestamp |-> now, signers |-> {}] /\ now' = now
      BY <2>1, <3>1 DEF Ask, RealInv, MonitorShapes, envVars, RequestOK, Request
    <3> QED
      BY <3>1, <3>2, TimeAssumption DEF RequestOK, Request, RealInv, Observed
  <2>2. CASE k # m
    BY <1>3, <2>2, KeptRequest DEF Ask, RealInv, MonitorShapes
  <2> QED
    BY <2>1, <2>2
<1> QED
  BY <1>1, <1>2, <1>3 DEF RealInv, RequestsOK

(* The signer has just found the state, within the timeout of the request. *)
LEMMA SignStateStep ==
    ASSUME RealInv, [MonitoringNext]_monitoringVars, NEW m \in Monitor, NEW j \in Monitor, SignState(m, j)
    PROVE  RealInv'
<1>1. Observed' /\ SentOK' /\ LogOK'
  BY SeenGrows, KeptSents, KeptLog DEF SignState, RealInv
<1>2. MonitorShapes'
  BY DEF MonitorShapes, RealInv, SignState
<1>3. ASSUME NEW k \in Monitor, asking'[k] # None PROVE RequestOK(k, asking[k])'
  <2>1. CASE k = m
    <3>1. /\ RequestOK(m, asking[m]) /\ asking[m].kind = "ask" /\ j # m
          /\ real = asking[m].state
      BY DEF RealInv, RequestsOK, SignState
    <3>2. /\ asking'[k] = [asking[m] EXCEPT !.signers = asking[m].signers \cup {j}]
          /\ now' = now /\ seen' = seen
      BY <2>1 DEF SignState, RealInv, MonitorShapes, envVars
    <3>3. PICK a : a = asking'[k]
      OBVIOUS
    <3>4. /\ a \in Request /\ a.kind = "ask" /\ a.timestamp = a.began
          /\ m \notin a.signers /\ a.began <= now /\ now <= a.began + Timeout
          /\ a.state = real
      BY <3>1, <3>2, <3>3 DEF RequestOK, Request
    <3>5. RealEvent(a)
      BY <3>4, RealNow DEF RealInv, Observed, Request
    <3> QED
      BY <2>1, <3>2, <3>3, <3>4, <3>5 DEF RequestOK, RealEvent
  <2>2. CASE k # m
    BY <1>3, <2>2, KeptRequest DEF SignState, RealInv, MonitorShapes
  <2> QED
    BY <2>1, <2>2
<1> QED
  BY <1>1, <1>2, <1>3 DEF RealInv, RequestsOK

LEMMA SendEventStep ==
    ASSUME RealInv, [MonitoringNext]_monitoringVars, NEW m \in Monitor, SendEvent(m)
    PROVE  RealInv'
<1>1. Observed' /\ LogOK'
  BY SeenGrows, KeptLog DEF SendEvent, RealInv
<1>2. MonitorShapes'
  BY DEF MonitorShapes, RealInv, SendEvent
<1>3. ASSUME NEW k \in Monitor, asking'[k] # None PROVE RequestOK(k, asking[k])'
  BY <1>3, KeptRequest DEF SendEvent, RealInv, MonitorShapes
<1>4. ASSUME NEW k \in Monitor, sent'[k] # None
      PROVE  /\ sent'[k] \in [kind : {"event"}, state : States, timestamp : 0..MaxTime]
             /\ RealEvent(sent[k])'
  <2>1. CASE k = m
    <3>1. /\ RequestOK(m, asking[m])
          /\ TwoThirds(asking[m].signers \cup {m})
          /\ sent'[k] = [kind |-> "event", state |-> asking[m].state,
                         timestamp |-> asking[m].timestamp]
          /\ now' = now /\ seen' = seen
      BY <2>1, <1>4 DEF RealInv, RequestsOK, SendEvent, MonitorShapes, envVars
    <3>2. RealEvent(asking[m])
      BY <3>1, OthersSigned DEF RequestOK
    <3> QED
      BY <3>1, <3>2 DEF RealEvent, RequestOK, Request
  <2>2. CASE k # m
    BY <1>4, <2>2, KeptSent DEF SendEvent, RealInv, MonitorShapes
  <2> QED
    BY <2>1, <2>2
<1> QED
  BY <1>1, <1>2, <1>3, <1>4 DEF RealInv, RequestsOK, SentOK

LEMMA SequenceStep ==
    ASSUME RealInv, [MonitoringNext]_monitoringVars, NEW m \in Monitor, Sequence(m)
    PROVE  RealInv'
<1>1. Observed' /\ RequestsOK'
  BY SeenGrows, KeptRequests DEF Sequence, RealInv
<1>2. MonitorShapes'
  BY DEF MonitorShapes, RealInv, Sequence
<1>3. ASSUME NEW k \in Monitor, sent'[k] # None
      PROVE  /\ sent'[k] \in [kind : {"event"}, state : States, timestamp : 0..MaxTime]
             /\ RealEvent(sent[k])'
  BY <1>3, KeptSent DEF Sequence, RealInv, MonitorShapes
<1>4. ASSUME NEW k \in Monitor
      PROVE  SeqOK(queue[k])' /\ SeqOK(events[k])' /\ events'[k] # << >>
  <2>1. PICK q, e, x : q = queue[k] /\ e = events[k]
                       /\ x = [state |-> sent[m].state, timestamp |-> sent[m].timestamp]
    OBVIOUS
  <2>2. queue'[k] = Append(q, x) /\ events'[k] = e /\ now' = now /\ seen' = seen
    BY <2>1 DEF Sequence, envVars
  <2>3. x \in Event /\ RealEvent(x)
    BY <2>1 DEF RealInv, SentOK, Sequence, Event, RealEvent
  <2>4. SeqOK(q) /\ SeqOK(e) /\ e # << >>
    BY <2>1 DEF RealInv, LogOK
  <2>5. SeqOK(Append(q, x))
    BY <2>3, <2>4, AppendProperties DEF SeqOK
  <2> QED
    BY <2>2, <2>4, <2>5 DEF SeqOK, RealEvent
<1> QED
  BY <1>1, <1>2, <1>3, <1>4 DEF RealInv, SentOK, LogOK

LEMMA ProcessStep ==
    ASSUME RealInv, [MonitoringNext]_monitoringVars, NEW m \in Monitor, Process(m)
    PROVE  RealInv'
<1>1. Observed' /\ RequestsOK' /\ SentOK'
  BY SeenGrows, KeptRequests, KeptSents DEF Process, RealInv
<1>2. MonitorShapes'
  BY DEF MonitorShapes, RealInv, Process
<1>3. ASSUME NEW k \in Monitor
      PROVE  SeqOK(queue[k])' /\ SeqOK(events[k])' /\ events'[k] # << >>
  <2>1. PICK q, e : q = queue[k] /\ e = events[k]
    OBVIOUS
  <2>2. SeqOK(q) /\ SeqOK(e) /\ e # << >>
    BY <2>1 DEF RealInv, LogOK
  <2>3. now' = now /\ seen' = seen
    BY DEF Process, envVars
  <2>4. CASE k # m
    <3>1. queue'[k] = q /\ events'[k] = e
      BY <2>1, <2>4 DEF Process, RealInv, MonitorShapes
    <3> QED
      BY <2>2, <2>3, <3>1 DEF SeqOK, RealEvent
  <2>5. CASE k = m
    <3>1. q # << >> /\ queue'[k] = Tail(q) /\ events'[k] = Applied(e, Head(q))
      BY <2>1, <2>5 DEF Process, RealInv, MonitorShapes
    <3>2. Head(q) \in Event /\ RealEvent(Head(q)) /\ SeqOK(Tail(q))
      BY <2>2, <3>1, HeadTailProperties DEF SeqOK
    <3>3. SeqOK(Applied(e, Head(q))) /\ Applied(e, Head(q)) # << >>
      BY <2>2, <3>2, AppendProperties DEF SeqOK, Applied
    <3> QED
      BY <2>3, <3>1, <3>2, <3>3 DEF SeqOK, RealEvent
  <2> QED
    BY <2>4, <2>5
<1> QED
  BY <1>1, <1>2, <1>3 DEF RealInv, LogOK

LEMMA NextRealInv == RealInv /\ [MonitoringNext]_monitoringVars => RealInv'
<1> SUFFICES ASSUME RealInv, [MonitoringNext]_monitoringVars PROVE RealInv'
  OBVIOUS
<1>1. CASE UNCHANGED <<events, asking, sent, queue>>
  BY <1>1, SeenGrows, KeptRequests, KeptSents, KeptLog DEF RealInv, MonitorShapes
<1>2. ASSUME NEW m \in Monitor, Observe(m) PROVE RealInv'
  BY <1>2, ObserveStep
<1>3. ASSUME NEW m \in Monitor, Ask(m) PROVE RealInv'
  BY <1>3, AskStep
<1>4. ASSUME NEW m \in Monitor, NEW k \in Monitor, SignState(m, k) PROVE RealInv'
  BY <1>4, SignStateStep
<1>5. ASSUME NEW m \in Monitor, SendEvent(m) PROVE RealInv'
  BY <1>5, SendEventStep
<1>6. ASSUME NEW m \in Monitor, Sequence(m) PROVE RealInv'
  BY <1>6, SequenceStep
<1>7. ASSUME NEW m \in Monitor, Process(m) PROVE RealInv'
  BY <1>7, ProcessStep
<1> QED
  BY <1>1, <1>2, <1>3, <1>4, <1>5, <1>6, <1>7
  DEF MonitoringNext, monitoringVars, Tick, Change

LEMMA RealInvariant == MonitoringSpec => []RealInv
BY InitRealInv, NextRealInv, PTL DEF MonitoringSpec

(* Every event that any monitor has applied is about a state that the node *)
(* was in at, or within the request timeout after, its timestamp.          *)
THEOREM EventsAreReal == MonitoringSpec => []EventsReal
<1>1. RealInv => EventsReal
  <2> SUFFICES ASSUME RealInv, NEW m \in Monitor, NEW i \in 1..Len(events[m])
               PROVE  \E t \in events[m][i].timestamp..(events[m][i].timestamp + Timeout) :
                         t \in 0..MaxTime /\ events[m][i].state \in seen[t]
    BY DEF EventsReal
  <2>1. RealEvent(events[m][i]) /\ Observed
    BY DEF RealInv, LogOK, SeqOK
  <2> QED
    BY <2>1, TimeAssumption DEF RealEvent, Observed
<1> QED
  BY <1>1, RealInvariant, PTL

=============================================================================
