----------------------------- MODULE Membership -----------------------------
(***************************************************************************)
(* The registered nodes and their stakes change while the network runs.    *)
(* Every node keeps the network states that it has fetched, by tag.  The   *)
(* sequencer gathers signatures under one tag, the others verify them      *)
(* under that tag, and a dispute looks nodes up in the latest state.       *)
(*                                                                         *)
(* zconfig.NODE and zconfig.SEQUENCER are not copies: they are records     *)
(* inside a stored state, and fetch_network_state updates them in place.   *)
(*                                                                         *)
(* A signature is who signed and who is listed as nonsigner; a gathering   *)
(* of disputes is one step.                                                *)
(***************************************************************************)
EXTENDS Integers, Sequences, FiniteSets, FiniteSetsExt, Functions

CONSTANTS
    Node,       \* nodes that are ever registered
    Ring,       \* the nodes in the order of their ids
    Leader,     \* the sequencer at the start
    First,      \* First[n]: stake of n in the first registry
    Threshold,  \* zconfig.THRESHOLD_PERCENT
    Stakes,     \* stakes that a node may have later
    Joining,    \* nodes that may register later
    Leaving,    \* nodes that may deregister
    Restaking,  \* nodes whose stake may change
    MaxTag,     \* bound: registry tags
    MaxSigs     \* bound: signatures aggregated

Observer == DOMAIN First

ASSUME MembershipAssumption ==
    /\ Ring \in Seq(Node) /\ Range(Ring) = Node /\ IsInjective(Ring)
    /\ Observer \subseteq Node /\ Leader \in Observer /\ First \in [Observer -> Nat \ {0}]
    /\ Threshold \in 51..100 /\ Stakes \subseteq Nat
    /\ Joining \cup Leaving \cup Restaking \subseteq Node
    /\ MaxTag \in Nat \ {0} /\ MaxSigs \in Nat

VARIABLES
    registry,   \* registry[tag]: what the source of nodes says at that tag
    states,     \* states[n]: HISTORICAL_NETWORK_STATE, by tag
    lastTag,    \* lastTag[n]: NETWORK_STATUS_TAG
    sequencer,  \* sequencer[n]: id and state of the record zconfig.SEQUENCER
    round,      \* the sequencer's gather_and_aggregate_signatures, or Idle
    sigs,       \* signatures aggregated so far
    offline,    \* whether the first sequencer has left the network
    stopped     \* nodes whose process has ended

tagVars == <<states, lastTag>>
vars == <<registry, tagVars, sequencer, round, sigs, offline, stopped>>

Idle == [tag |-> 0]

TotalOf(r) == MapThenSumSet(LAMBDA n : r[n], DOMAIN r)
(* NetworkState.attesting_nodes *)
Attesting(r) == {n \in DOMAIN r : r[n] > 0}

(* Mutant of FetchedState: the tag is not passed on. *)
FetchedLatest(tag) == [nodes |-> registry[Len(registry)],
                       total |-> TotalOf(registry[Len(registry)]),
                       keys  |-> Attesting(registry[Len(registry)])]

(* What get_network_state makes of the registry: the records, the total    *)
(* stake and the keys in the aggregated public key.                        *)
FetchedState(tag) == [nodes |-> registry[tag], total |-> TotalOf(registry[tag]),
                      keys  |-> Attesting(registry[tag])]

Init ==
    /\ registry = <<First>>
    /\ states = [n \in Observer |-> [t \in {1} |-> FetchedState(t)]]
    /\ lastTag = [n \in Observer |-> 1]
    /\ sequencer = [n \in Observer |-> [id |-> Leader, tag |-> 1]]
    /\ round = Idle /\ sigs = {}
    /\ offline = FALSE /\ stopped = {}

LastState(n) == states[n][lastTag[n]]
(* zconfig.NODES *)
NODES(n) == LastState(n).nodes
(* The stake in zconfig.NODE, a record of the state that n started with. *)
OwnStake(n) == states[n][1].nodes[n]

Up(n) == n \notin stopped /\ ~ (offline /\ n = Leader)

-----------------------------------------------------------------------------
(* The registry with k as the stake of m. *)
With(now, m, k) == [x \in DOMAIN now \cup {m} |-> IF x = m THEN k ELSE now[x]]

(* What the registry may be next: a node registers or changes its stake,   *)
(* or it deregisters.                                                      *)
Changed(now) ==
    LET movers == (Joining \ DOMAIN now) \cup (Restaking \cap DOMAIN now)
    IN  (UNION {{With(now, m, k) : k \in Stakes} : m \in movers})
          \cup {Restrict(now, DOMAIN now \ {m}) : m \in Leaving \cap DOMAIN now}

Register ==
    /\ Len(registry) < MaxTag
    /\ \E r \in Changed(registry[Len(registry)]) \ {registry[Len(registry)]} :
         registry' = Append(registry, r)
    /\ UNCHANGED <<tagVars, sequencer, round, sigs, offline, stopped>>

(* Mutant of Newer: the tag fetched last is the current one. *)
NewerAlways(old, tag) == tag

(* NETWORK_STATUS_TAG only goes up. *)
Newer(old, tag) == IF tag > old THEN tag ELSE old

(* get_network_state(tag): a state is fetched once. *)
Known(n, tag) ==
    [t \in DOMAIN states[n] \cup {tag} |->
        IF t \in DOMAIN states[n] THEN states[n][t] ELSE FetchedState(t)]

(* The stored states after the record of m in the state of tag was updated *)
(* from the records now; nothing happens if m is not among them.           *)
Updated(stored, tag, m, now) ==
    IF m \in DOMAIN now THEN [stored EXCEPT ![tag].nodes[m] = now[m]] ELSE stored

(* What the nodes of before had at stake, they still have. *)
SameStakes(before, now) == \A m \in DOMAIN before : m \in DOMAIN now /\ now[m] = before[m]

(* fetch_network_state: NODE and SEQUENCER are updated in place, in the    *)
(* states that they were taken from.  If the sequencer is not registered   *)
(* any more the update raises, after all else is done.                     *)
FetchNetworkState(n) ==
    LET tag == Len(registry)
        stored == Known(n, tag)
        now == stored[tag].nodes
        own == Updated(stored, 1, n, now)
    IN  /\ Up(n)
        /\ states' = [states EXCEPT ![n] = Updated(own, sequencer[n].tag, sequencer[n].id, now)]
        /\ lastTag' = [lastTag EXCEPT ![n] =
                         IF tag \in DOMAIN states[n] THEN @ ELSE Newer(@, tag)]
        /\ round' = IF n = Leader /\ round # Idle
                    THEN [round EXCEPT !.calm = @ /\ SameStakes(NODES(n), now)] ELSE round
        /\ UNCHANGED <<registry, sequencer, sigs, offline, stopped>>

(* is_sync_point_signature_verified in this state: all nonsigners are      *)
(* attesting, they do not have too much stake, and what is left of the     *)
(* aggregated public key after theirs are removed is that of the signers.  *)
Verified(state, sig) ==
    /\ sig.nonsigners \subseteq Attesting(state.nodes)
    /\ 100 * MapThenSumSet(LAMBDA m : state.nodes[m], sig.nonsigners)
         <= (100 - Threshold) * state.total
    /\ state.keys \ sig.nonsigners = sig.signers

(* n verifies a signature: it fetches the state of the tag if it has none. *)
Receive(n, sig) ==
    /\ Up(n) /\ n # Leader
    /\ sig.tag \notin DOMAIN states[n]
    /\ states' = [states EXCEPT ![n] = Known(n, sig.tag)]
    /\ lastTag' = [lastTag EXCEPT ![n] = Newer(@, sig.tag)]
    /\ UNCHANGED <<registry, sequencer, round, sigs, offline, stopped>>

-----------------------------------------------------------------------------
(************************** Gathering signatures ***************************)

(* A sum of quotients of stakes, as a numerator and a denominator. *)
Plus(p, stake, total) == [num |-> p.num * total + stake * p.den, den |-> p.den * total]
Enough(p) == 100 * p.num >= Threshold * p.den

(* gather_and_aggregate_signatures with a party that reaches the threshold *)
(* in the current state.                                                   *)
BeginRound ==
    LET l == Leader
    IN  /\ Up(l) /\ sequencer[l].id = l
        /\ round = Idle /\ Cardinality(sigs) < MaxSigs
        /\ \E ms \in SUBSET (Attesting(NODES(l)) \ {l}) :
             /\ 100 * (MapThenSumSet(LAMBDA m : NODES(l)[m], ms) + OwnStake(l))
                  >= Threshold * LastState(l).total
             /\ round' = [tag     |-> lastTag[l],
                          all     |-> Attesting(NODES(l)),
                          pending |-> ms,
                          signers |-> {},
                          percent |-> [num |-> OwnStake(l), den |-> LastState(l).total],
                          calm    |-> TRUE]
        /\ UNCHANGED <<registry, tagVars, sequencer, sigs, offline, stopped>>

(* Answers come in together; ok have signed.  They count while they are    *)
(* registered, with their stakes of now in the total of now.               *)
Answers(done, ok) ==
    LET l == Leader
    IN  /\ Up(l) /\ round # Idle /\ ~ Enough(round.percent)
        /\ done # {} /\ ok \subseteq done \cap DOMAIN NODES(l)
        /\ round' = [round EXCEPT
              !.pending = @ \ done,
              !.signers = @ \cup ok,
              !.percent = Plus(@, MapThenSumSet(LAMBDA m : NODES(l)[m], ok), LastState(l).total)]
        /\ UNCHANGED <<registry, tagVars, sequencer, sigs, offline, stopped>>

(* Mutant of SignedTag: the tag is read after the gathering. *)
SignedTagOfNow == lastTag[Leader]

(* The tag that the signature is published with. *)
SignedTag == round.tag

(* The attesting nodes of the tag that have not signed. *)
Nonsigners(signers) == round.all \ signers

(* There is enough stake: the sequencer signs too, if it has stake, and    *)
(* the signatures are aggregated.                                          *)
Aggregate ==
    LET own == IF OwnStake(Leader) > 0 THEN {Leader} ELSE {}
        signers == round.signers \cup own
    IN  /\ Up(Leader) /\ round # Idle /\ Enough(round.percent)
        /\ sigs' = sigs \cup {[tag |-> SignedTag, signers |-> signers,
                               nonsigners |-> Nonsigners(signers),
                               calm |-> round.calm /\ Leader \in round.all]}
        /\ round' = Idle
        /\ UNCHANGED <<registry, tagVars, sequencer, offline, stopped>>

(* AGGREGATION_TIMEOUT, or every answer is in without the threshold. *)
GiveUp ==
    /\ round # Idle /\ ~ Enough(round.percent)
    /\ round' = Idle
    /\ UNCHANGED <<registry, tagVars, sequencer, sigs, offline, stopped>>

-----------------------------------------------------------------------------
(***************************** Disputes ************************************)

(* The first sequencer leaves the network for good. *)
GoOffline ==
    /\ ~ offline
    /\ offline' = TRUE /\ round' = Idle
    /\ UNCHANGED <<registry, tagVars, sequencer, sigs, stopped>>

(* Mutant of Successor: the position is not advanced. *)
SuccessorSame(n, old) ==
    LET ids == SelectSeq(Ring, LAMBDA m : m \in DOMAIN NODES(n))
        At == {i \in 1..Len(ids) : ids[i] = old}
    IN  IF At = {} THEN ids[1] ELSE ids[CHOOSE i \in At : TRUE]

(* get_next_sequencer_id, in n's latest state. *)
Successor(n, old) ==
    LET ids == SelectSeq(Ring, LAMBDA m : m \in DOMAIN NODES(n))
        At == {i \in 1..Len(ids) : ids[i] = old}
    IN  IF At = {} THEN ids[1] ELSE ids[((CHOOSE i \in At : TRUE) % Len(ids)) + 1]

(* m signs n's dispute.  post_dispute looks up both nodes, and raises if   *)
(* one of them is not registered.                                          *)
Confirms(m, n) ==
    /\ m \in Observer \ {n} /\ Up(m)
    /\ n \in DOMAIN NODES(m) /\ sequencer[n].id \in DOMAIN NODES(m)

(* The nodes that answer n's dispute. *)
Confirmers(n) == {m \in Attesting(NODES(n)) : Confirms(m, n)}

(* n finds that its sequencer does not answer and has the dispute          *)
(* confirmed by these nodes.  If its sequencer is not registered any more, *)
(* the report of the switch raises in run_node_tasks and ends the process. *)
Dispute(n, ms) ==
    LET old == sequencer[n].id
        stakes == NODES(n)[n] + MapThenSumSet(LAMBDA m : NODES(n)[m], ms)
        next == Successor(n, old)
    IN  /\ Up(n) /\ old = Leader /\ offline
        /\ n \in DOMAIN NODES(n)
        /\ 200 * stakes >= Threshold * LastState(n).total
        /\ IF old \in DOMAIN NODES(n)
           THEN /\ sequencer' = [sequencer EXCEPT ![n] = [id |-> next, tag |-> lastTag[n]]]
                /\ UNCHANGED stopped
           ELSE /\ stopped' = stopped \cup {n}
                /\ UNCHANGED sequencer
        /\ UNCHANGED <<registry, tagVars, round, sigs, offline>>

Next ==
    \/ Register
    \/ BeginRound \/ Aggregate \/ GiveUp
    \/ round # Idle /\ \E done \in SUBSET round.pending : \E ok \in SUBSET done : Answers(done, ok)
    \/ \E n \in Observer : \/ FetchNetworkState(n)
                           \/ \E sig \in sigs : Receive(n, sig)
                           \/ \E ms \in SUBSET Confirmers(n) : Dispute(n, ms)
    \/ GoOffline

Spec == Init /\ [][Next]_vars

(* run_node_tasks disputes again and again, with every node asked, and the *)
(* state is fetched every FETCH_APPS_AND_NODES_INTERVAL.                   *)
FairSpec == Spec /\ \A n \in Observer : /\ WF_vars(FetchNetworkState(n))
                                        /\ WF_vars(Dispute(n, Confirmers(n)))

-----------------------------------------------------------------------------
(******************************** Properties ********************************)

(* However late a signature with an old tag arrives, the current state of  *)
(* a node is the newest that it has.                                       *)
TagIsNewest == \A n \in Observer : lastTag[n] = Max(DOMAIN states[n])

(* Every signature that the sequencer aggregates verifies under the        *)
(* registry of its tag, even if nodes join and a newer state is fetched    *)
(* while it is gathered, as long as the sequencer is registered and no     *)
(* stake changes meanwhile: bls.py means to lock zconfig for the gathering *)
(* and does not.                                                           *)
SignatureVerifies == \A sig \in sigs : sig.calm => Verified(FetchedState(sig.tag), sig)

Restaked(m) == \E t \in 1..Len(registry) : m \in DOMAIN registry[t] /\ registry[t][m] # First[m]

(* What a node says of a signature is what the registry of its tag says,   *)
(* so that all nodes say the same, however many tags later it comes: bls.py*)
(* loads the network state using the provided tag.  That is, as long as    *)
(* the stakes of the node and of its sequencers are as they were: theirs   *)
(* are the records that are overwritten in place.                          *)
SameVerdict ==
    \A n \in Observer : \A sig \in sigs :
        sig.tag \in DOMAIN states[n] /\ ~ Restaked(n) /\ ~ Restaked(Leader)
        /\ sequencer[n].id \in {n, Leader}
        => (Verified(states[n][sig.tag], sig) <=> Verified(FetchedState(sig.tag), sig))

(* Not enough stake is left to dispute the first sequencer. *)
TooFew(n) ==
    200 * MapThenSumSet(LAMBDA m : NODES(n)[m], {m \in Observer \cap DOMAIN NODES(n) : Up(m)})
        < Threshold * LastState(n).total

(* A sequencer that has left the network is left by every node that is     *)
(* registered, as protocol.rst has it, if those that are left have enough  *)
(* stake and the sequencer has not been deregistered.                      *)
OfflineIsLeft ==
    offline ~> \A n \in Observer \ {Leader} :
                   \/ sequencer[n].id # Leader
                   \/ n \notin DOMAIN NODES(n) \/ Leader \notin DOMAIN NODES(n)
                   \/ TooFew(n)
=============================================================================
