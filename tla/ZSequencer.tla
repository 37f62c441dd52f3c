---------------------------- MODULE ZSequencer ----------------------------
(***************************************************************************)
(* One app of a zsequencer network: nodes post batches to the sequencer,   *)
(* the sequencer orders them and has sync points locked and finalized by   *)
(* quorum signatures, and nodes replace the sequencer after a dispute.     *)
(*                                                                         *)
(* One action is what a process runs between two awaits of its asyncio     *)
(* loop.  Requests whose handler does not change the requester in between  *)
(* (PUT /sequencer/batches, POST /node/sign_sync_point, the queries of a   *)
(* switch) are one action with their handler; the answer to a PUT is a     *)
(* message of its own, because the node may switch before it arrives.      *)
(***************************************************************************)
EXTENDS SyncPoint

CONSTANTS
    Batch,          \* batch bodies
    Ring,           \* the sequencing nodes in the order of their ids
    InitSequencer,  \* zconfig.INIT_SEQUENCER_ID
    MaxPost,        \* bound: bodies of one PUT
    MaxLen,         \* bound: length of a sequencer's log that is still extended
    MaxDisputes     \* bound: sequencers disputed

ASSUME RingAssumption == /\ Ring \in Seq(Node) /\ Ring # << >>
                         /\ \A i, j \in 1..Len(Ring) : Ring[i] = Ring[j] => i = j
                         /\ InitSequencer \in Node
ASSUME BoundAssumption == /\ MaxPost \in Nat /\ MaxLen \in Nat
                          /\ MaxDisputes \in Nat

VARIABLES
    log,        \* log[n]: bodies of n's operational_batch_sequence
    locked,     \* locked[n]: its last locked index, 0 if none
    lockSig,    \* lockSig[n]: the locked_signature of that batch, or NoSig
    certs,      \* certs[n]: the finalized signatures of n along next_index
    sequencer,  \* sequencer[n]: zconfig.SEQUENCER of n
    phase,      \* phase[n]: "run", or where switch_to_sequencer is waiting
    reply,      \* reply[n]: the answer to n's PUT under way, or NoReply
    task,       \* task[s]: s's sync_app under way, or Idle
    seqState,   \* seqState[s][m]: sequenced chain m reported, in nodes_state
    lckState,   \* lckState[s][m]: locked chain m reported, in nodes_state
    lockPoint,  \* lockPoint[s]: chain of locked_sync_point, in nodes_state
    finPoint,   \* finPoint[s]: chain of finalized_sync_point, in nodes_state
    disputed,   \* the sequencers that were disputed
    inbox       \* inbox[n]: old sequencers of the switch requests to n under way

nodeVars == <<log, locked, lockSig, certs>>
syncVars == <<seqState, lckState, lockPoint, finPoint>>
switchVars == <<disputed, inbox>>
vars == <<nodeVars, sequencer, phase, reply, task, syncVars, switchVars>>

Chain == Seq(Batch)
Sig == [chain : Chain, parent : Nat]
NoSig == [chain |-> << >>, parent |-> 0]
NoReply == [kind |-> "none"]
Idle == [kind |-> "idle"]
Answer == [kind : {"put"}, after : Nat, bodies : Chain, lock : Sig,
           parent : Nat, fins : Seq(Sig)]
Round == [kind : {"lock", "fin"}, parent : Nat, chain : Chain,
          party : SUBSET Node, signers : SUBSET Node]
Bodies == UNION {[1..k -> Batch] : k \in 0..MaxPost}

Finalized(n) == LastIndex(certs[n])
LockedChain(n) == Prefix(log[n], locked[n])

Init ==
    /\ log = [n \in Node |-> << >>]
    /\ locked = [n \in Node |-> 0]
    /\ lockSig = [n \in Node |-> NoSig]
    /\ certs = [n \in Node |-> << >>]
    /\ sequencer = [n \in Node |-> InitSequencer]
    /\ phase = [n \in Node |-> "run"]
    /\ reply = [n \in Node |-> NoReply]
    /\ task = [n \in Node |-> Idle]
    /\ seqState = [n \in Node |-> [m \in Node |-> << >>]]
    /\ lckState = [n \in Node |-> [m \in Node |-> << >>]]
    /\ lockPoint = [n \in Node |-> << >>]
    /\ finPoint = [n \in Node |-> << >>]
    /\ disputed = {}
    /\ inbox = [n \in Node |-> {}]

-----------------------------------------------------------------------------
(*************************** Posting and polling ***************************)

(* A client posts a batch to the sequencer itself. *)
PostToSequencer(s, b) ==
    /\ sequencer[s] = s
    /\ phase[s] = "run"
    /\ Len(log[s]) < MaxLen
    /\ log' = [log EXCEPT ![s] = Append(@, b)]
    /\ UNCHANGED <<locked, lockSig, certs, sequencer, phase, reply, task,
                   syncVars, switchVars>>

(* n's PUT reaches the node that n takes for the sequencer and is served. *)
Served(n, s) ==
    /\ s = sequencer[n] /\ s # n
    /\ phase[n] = "run" /\ reply[n] = NoReply
    /\ sequencer[s] = s /\ phase[s] = "run"

(* Mutant of LockParent: one below the parent of the lock. *)
LockParentBelow(s) == lockSig[s].parent - 1

(* The parent_index stored in s's last locked batch: a finalization of the *)
(* same batch overwrites the one of the lock.                              *)
LockParent(s) == IF Finalized(s) = locked[s]
                 THEN certs[s][Len(certs[s])].parent
                 ELSE lockSig[s].parent

(* _put_batches reads "locked_signature" of its last locked batch, which a *)
(* batch that was finalized without being locked here does not have.       *)
CanAnswer(s) == locked[s] = 0 \/ lockSig[s] # NoSig

(* n posts bodies and reports its indices; the sequencer appends them and  *)
(* answers with everything after n's sequenced index, its last lock, and   *)
(* these finalized signatures.                                             *)
PutAnswered(n, bodies, fins) ==
    LET s == sequencer[n]
        l == log[s] \o bodies
    IN  /\ Served(n, s)
        /\ bodies # << >> => Len(l) <= MaxLen
        /\ CanAnswer(s)
        /\ log' = [log EXCEPT ![s] = l]
        /\ reply' = [reply EXCEPT ![n] =
             [kind   |-> "put",
              after  |-> Len(log[n]),
              bodies |-> SubSeq(l, Len(log[n]) + 1, Len(l)),
              lock   |-> lockSig[s],
              parent |-> IF locked[s] = 0 THEN 0 ELSE LockParent(s),
              fins   |-> fins]]
        /\ seqState' = [seqState EXCEPT ![s][n] = log[n]]
        /\ lckState' = [lckState EXCEPT ![s][n] = LockedChain(n)]
        /\ UNCHANGED <<locked, lockSig, certs, sequencer, phase, task,
                       lockPoint, finPoint, switchVars>>

(* The finalized signatures are those after n's finalized index. *)
Put(n, bodies) ==
    PutAnswered(n, bodies, FinalizedAfter(certs[sequencer[n]], Finalized(n)))

(* The KeyError of _put_batches: the bodies are already appended, n gets   *)
(* an error and its report is not recorded.  (Bound: also once the log has *)
(* reached MaxLen.)                                                        *)
PutFails(n, bodies) ==
    LET s == sequencer[n]
    IN  /\ Served(n, s)
        /\ bodies # << >> /\ Len(log[s]) <= MaxLen
        /\ ~ CanAnswer(s)
        /\ log' = [log EXCEPT ![s] = @ \o bodies]
        /\ UNCHANGED <<locked, lockSig, certs, sequencer, phase, reply, task,
                       syncVars, switchVars>>

(* The signatures of fins that promote_batches accepts one after the other *)
(* on top of cs, up to the first that it refuses.                          *)
Accepted(l, cs, fins) ==
    LET all == cs \o fins
        Fits(k) == CanFinalize(l, SubSeq(all, 1, k - 1), all[k])
        Good == {k \in Len(cs)..Len(all) : \A j \in Len(cs) + 1 .. k : Fits(j)}
    IN  {SubSeq(all, 1, k) : k \in {k \in Good : k + 1 \notin Good}}

(* sync_with_sequencer: the bodies are inserted after n's last batch, then *)
(* the lock is tried, then the finalized signatures in order.  A batch     *)
(* that is finalized before it was locked becomes the last locked one.     *)
ReceiveReply(n) ==
    LET r == reply[n]
        l == log[n] \o r.bodies
        locks == r.lock # NoSig /\ CanLock(l, locked[n], certs[n], r.lock, r.parent)
        lck == IF locks THEN Len(r.lock.chain) ELSE locked[n]
        sig == IF locks THEN r.lock ELSE lockSig[n]
    IN  /\ r # NoReply
        /\ log' = [log EXCEPT ![n] = l]
        /\ \E cs \in Accepted(l, certs[n], r.fins) :
             /\ certs' = [certs EXCEPT ![n] = cs]
             /\ locked' = [locked EXCEPT ![n] = IF LastIndex(cs) > lck
                                                THEN LastIndex(cs) ELSE lck]
             /\ lockSig' = [lockSig EXCEPT ![n] = IF LastIndex(cs) > lck
                                                  THEN NoSig ELSE sig]
        /\ reply' = [reply EXCEPT ![n] = NoReply]
        /\ UNCHANGED <<sequencer, phase, task, syncVars, switchVars>>

(* The answer is lost or too late; n will post the bodies again. *)
LoseReply(n) ==
    /\ reply[n] # NoReply
    /\ reply' = [reply EXCEPT ![n] = NoReply]
    /\ UNCHANGED <<nodeVars, sequencer, phase, task, syncVars, switchVars>>

-----------------------------------------------------------------------------
(********************** Locking and finalizing (sync_app) *******************)

Task(kind, parent, chain, party) ==
    [kind |-> kind, parent |-> parent, chain |-> chain, party |-> party,
     signers |-> {}]

(* The finalization round, with the parent that sync_app read when it      *)
(* started; Idle if there is no sync point.                                *)
FinTasks(s, parent) ==
    LET points == SyncPoints(lckState[s], finPoint[s], s)
    IN  IF points = {} THEN {Idle}
        ELSE {Task("fin", parent, lckState[s][m], Party(lckState[s], m)) :
                m \in points}

(* Mutant of FirstTasks: the parent is the last locked index. *)
FirstTasksOnLocked(s) ==
    LET points == SyncPoints(seqState[s], lockPoint[s], s)
    IN  IF points # {} /\ locked[s] = Finalized(s)
        THEN {Task("lock", locked[s], seqState[s][m], Party(seqState[s], m)) :
                m \in points}
        ELSE FinTasks(s, locked[s])

(* The lock round if the last lock is finalized, else the next one. *)
FirstTasks(s) ==
    LET points == SyncPoints(seqState[s], lockPoint[s], s)
    IN  IF points # {} /\ locked[s] = Finalized(s)
        THEN {Task("lock", Finalized(s), seqState[s][m], Party(seqState[s], m)) :
                m \in points}
        ELSE FinTasks(s, Finalized(s))

(* The periodic sync_app of a sequencer that is not paused starts a round. *)
SyncApp(s) ==
    /\ sequencer[s] = s /\ phase[s] = "run" /\ task[s] = Idle
    /\ \E t \in FirstTasks(s) :
         /\ t # Idle
         /\ task' = [task EXCEPT ![s] = t]
    /\ UNCHANGED <<nodeVars, sequencer, phase, reply, syncVars, switchVars>>

(* m signs the sync point for the node it takes for the sequencer. *)
SignSyncPoint(s, m) ==
    /\ task[s] # Idle
    /\ m \in task[s].party \ task[s].signers
    /\ sequencer[m] = s /\ m # s
    /\ CanSign(task[s].kind, log[m], locked[m], certs[m],
               task[s].chain, task[s].parent)
    /\ task' = [task EXCEPT ![s].signers = @ \cup {m}]
    /\ UNCHANGED <<nodeVars, sequencer, phase, reply, syncVars, switchVars>>

(* gather_and_aggregate_signatures has enough: the sequencer adds its own  *)
(* signature without looking at its own log.                               *)
Aggregated(s, kind) ==
    /\ task[s] # Idle
    /\ task[s].kind = kind
    /\ task[s].signers \cup {s} \in Quorum

(* The lock signature is recorded and tried on the sequencer's own log,    *)
(* then the finalization round starts.                                     *)
AggregateLock(s) ==
    LET sig == [chain |-> task[s].chain, parent |-> task[s].parent]
        locks == CanLock(log[s], locked[s], certs[s], sig, sig.parent)
    IN  /\ Aggregated(s, "lock")
        /\ lockPoint' = [lockPoint EXCEPT ![s] = sig.chain]
        /\ locked' = [locked EXCEPT ![s] = IF locks THEN Len(sig.chain) ELSE @]
        /\ lockSig' = [lockSig EXCEPT ![s] = IF locks THEN sig ELSE @]
        /\ \E t \in FinTasks(s, sig.parent) : task' = [task EXCEPT ![s] = t]
        /\ UNCHANGED <<log, certs, sequencer, phase, reply, seqState, lckState,
                       finPoint, switchVars>>

(* The finalization signature likewise. *)
AggregateFin(s) ==
    LET sig == [chain |-> task[s].chain, parent |-> task[s].parent]
        fits == CanFinalize(log[s], certs[s], sig)
        raises == fits /\ Len(sig.chain) > locked[s]
    IN  /\ Aggregated(s, "fin")
        /\ finPoint' = [finPoint EXCEPT ![s] = sig.chain]
        /\ certs' = [certs EXCEPT ![s] = IF fits THEN Append(@, sig) ELSE @]
        /\ locked' = [locked EXCEPT ![s] = IF raises THEN Len(sig.chain) ELSE @]
        /\ lockSig' = [lockSig EXCEPT ![s] = IF raises THEN NoSig ELSE @]
        /\ task' = [task EXCEPT ![s] = Idle]
        /\ UNCHANGED <<log, sequencer, phase, reply, seqState, lckState,
                       lockPoint, switchVars>>

(* AGGREGATION_TIMEOUT passes, or every answer is in, without a quorum:    *)
(* a lock round goes on with the finalization round, which gives up.       *)
GatherFails(s) ==
    /\ task[s] # Idle
    /\ task[s].signers \cup {s} \notin Quorum
    /\ \E t \in IF task[s].kind = "lock" THEN FinTasks(s, task[s].parent)
                                         ELSE {Idle} :
         task' = [task EXCEPT ![s] = t]
    /\ UNCHANGED <<nodeVars, sequencer, phase, reply, syncVars, switchVars>>

-----------------------------------------------------------------------------
(*********************** Replacing the sequencer ****************************)

(* get_next_sequencer_id *)
NextSequencer(s) ==
    LET At == {i \in 1..Len(Ring) : Ring[i] = s}
    IN  IF At = {} THEN Ring[1] ELSE Ring[((CHOOSE i \in At : TRUE) % Len(Ring)) + 1]

(* nodes_state = {} drops the reports and both sync points. *)
ForgetNodesState(n) ==
    /\ seqState' = [seqState EXCEPT ![n] = [m \in Node |-> << >>]]
    /\ lckState' = [lckState EXCEPT ![n] = [m \in Node |-> << >>]]
    /\ lockPoint' = [lockPoint EXCEPT ![n] = << >>]
    /\ finPoint' = [finPoint EXCEPT ![n] = << >>]

(* switch_to_sequencer up to its first await: pause and follow the next    *)
(* sequencer.                                                              *)
BeginSwitch(n) ==
    /\ phase[n] = "run"
    /\ NextSequencer(sequencer[n]) # sequencer[n]
    /\ sequencer' = [sequencer EXCEPT ![n] = NextSequencer(sequencer[n])]
    /\ phase' = [phase EXCEPT ![n] = "query"]
    /\ UNCHANGED <<nodeVars, reply, task, syncVars>>

(* n finds a fault with its sequencer and enough nodes confirm it: those   *)
(* that are not paused, except that sequencer if it still believes in      *)
(* itself.  Whether they see the fault too is left to chance.              *)
Dispute(n) ==
    LET old == sequencer[n]
        confirm == {m \in Node \ {n} : phase[m] = "run" /\ ~ (m = old /\ sequencer[m] = m)}
    IN  /\ n # old
        /\ old \notin disputed /\ Cardinality(disputed) < MaxDisputes
        /\ confirm \cup {n} \in DisputeQuorum
        /\ BeginSwitch(n)
        /\ disputed' = disputed \cup {old}
        /\ inbox' = [m \in Node |-> IF m = n THEN inbox[m] ELSE inbox[m] \cup {old}]

(* POST /node/switch with proofs against n's current sequencer, while they *)
(* are not yet expired; a request that comes too late or to a paused node  *)
(* is refused, that is, never taken.                                       *)
PostSwitch(n) ==
    /\ sequencer[n] \in inbox[n]
    /\ BeginSwitch(n)
    /\ inbox' = [inbox EXCEPT ![n] = @ \ {sequencer[n]}]
    /\ UNCHANGED disputed

(* The last locked batch of m is above n's lock. *)
Ahead(n, m) == m # n /\ locked[m] > locked[n]

(* n's lock as _sync_with_latest_locks leaves its log. *)
KeptLog(n) == Reinitialized(log[n], locked[n], certs[n])

(* n fetches the batches of a peer that is ahead.  The peer's lock         *)
(* verifies only while its batch has the timestamp 0 of a lock, that is,   *)
(* until it is finalized.  The promotion that follows raises KeyError, as  *)
(* the signature data has no parent_index, and ends the switch there: the  *)
(* batches are inserted but not locked, nodes_state is kept, and the node  *)
(* is unpaused.                                                            *)
SwitchAdopt(n, m) ==
    /\ phase[n] = "query"
    /\ Ahead(n, m) /\ lockSig[m] # NoSig /\ Finalized(m) # locked[m]
    /\ log' = [log EXCEPT ![n] = KeptLog(n) \o SubSeq(log[m], locked[n] + 1, Len(log[m]))]
    /\ phase' = [phase EXCEPT ![n] = "run"]
    /\ UNCHANGED <<locked, lockSig, certs, sequencer, reply, task, syncVars, switchVars>>

(* A peer that is ahead has no locked_signature: reading it raises and     *)
(* ends the switch after the log was cut.                                  *)
SwitchAbort(n, m) ==
    /\ phase[n] = "query"
    /\ Ahead(n, m) /\ lockSig[m] = NoSig
    /\ log' = [log EXCEPT ![n] = KeptLog(n)]
    /\ phase' = [phase EXCEPT ![n] = "run"]
    /\ UNCHANGED <<locked, lockSig, certs, sequencer, reply, task, syncVars, switchVars>>

(* No peer that answers is both ahead and usable: the log is cut, a new    *)
(* sequencer starts at once and the others wait.                           *)
SwitchReinit(n) ==
    /\ phase[n] = "query"
    /\ log' = [log EXCEPT ![n] = KeptLog(n)]
    /\ IF sequencer[n] = n
       THEN /\ ForgetNodesState(n)
            /\ phase' = [phase EXCEPT ![n] = "run"]
       ELSE /\ UNCHANGED syncVars
            /\ phase' = [phase EXCEPT ![n] = "wait"]
    /\ UNCHANGED <<locked, lockSig, certs, sequencer, reply, task, switchVars>>

(* SEQUENCER_SETUP_DEADLINE_TIME_IN_SECONDS is over. *)
SwitchResume(n) ==
    /\ phase[n] = "wait"
    /\ ForgetNodesState(n)
    /\ phase' = [phase EXCEPT ![n] = "run"]
    /\ UNCHANGED <<nodeVars, sequencer, reply, task, switchVars>>

(* reset_sequencer: n missed a switch, as a follower (its PUT is answered  *)
(* IsNotSequencerError) or as a sequencer that nobody polls any more, and  *)
(* follows the sequencer c that a quorum with itself reports.              *)
ResetSequencer(n, c) ==
    /\ phase[n] = "run" /\ reply[n] = NoReply
    /\ IF n = sequencer[n] THEN task[n] = Idle
                           ELSE sequencer[sequencer[n]] # sequencer[n]
    /\ c # sequencer[n] /\ c # n /\ c \in Range(Ring) /\ sequencer[c] = c
    /\ {m \in Node \ {n} : sequencer[m] = c} \cup {n} \in Quorum
    /\ sequencer' = [sequencer EXCEPT ![n] = c]
    /\ log' = [log EXCEPT ![n] = KeptLog(n)]
    /\ ForgetNodesState(n)
    /\ UNCHANGED <<locked, lockSig, certs, phase, reply, task, switchVars>>

-----------------------------------------------------------------------------
Next ==
    \/ \E n \in Node : \/ \E b \in Batch : PostToSequencer(n, b)
                       \/ \E bodies \in Bodies : Put(n, bodies)
                       \/ \E bodies \in Bodies : PutFails(n, bodies)
                       \/ ReceiveReply(n)
                       \/ LoseReply(n)
                       \/ SyncApp(n)
                       \/ \E m \in Node : SignSyncPoint(n, m)
                       \/ AggregateLock(n)
                       \/ AggregateFin(n)
                       \/ GatherFails(n)
                       \/ Dispute(n)
                       \/ PostSwitch(n)
                       \/ \E m \in Node : SwitchAdopt(n, m)
                       \/ \E m \in Node : SwitchAbort(n, m)
                       \/ SwitchReinit(n)
                       \/ SwitchResume(n)
                       \/ \E c \in Node : ResetSequencer(n, c)

Spec == Init /\ [][Next]_vars

(* Nodes poll every 50 ms, sequencers run sync_app every SYNC_INTERVAL and *)
(* the asyncio loop serves what is ready.  Answers and signature rounds    *)
(* may fail, but not every retry of them does.                             *)
Fairness ==
    \A n \in Node :
        /\ WF_vars(\E bodies \in Bodies : Put(n, bodies))
        /\ SF_vars(ReceiveReply(n))
        /\ WF_vars(SyncApp(n) \/ GatherFails(n) \/ AggregateLock(n) \/ AggregateFin(n))
        /\ \A m \in Node \ {n} : SF_vars(SignSyncPoint(n, m))

FairSpec == Spec /\ Fairness

-----------------------------------------------------------------------------
(******************************** Properties ********************************)

(* Type invariant: every variable holds a value the program could hold.    *)
TypeOK ==
    /\ log \in [Node -> Chain]
    /\ locked \in [Node -> Nat]
    /\ lockSig \in [Node -> Sig]
    /\ certs \in [Node -> Seq(Sig)]
    /\ sequencer \in [Node -> Node]
    /\ phase \in [Node -> {"run", "query", "wait"}]
    /\ reply \in [Node -> {NoReply} \cup Answer]
    /\ task \in [Node -> {Idle} \cup Round]
    /\ seqState \in [Node -> [Node -> Chain]]
    /\ lckState \in [Node -> [Node -> Chain]]
    /\ lockPoint \in [Node -> Chain]
    /\ finPoint \in [Node -> Chain]
    /\ disputed \in SUBSET Node
    /\ inbox \in [Node -> SUBSET Node]

(* Any two nodes agree on the batches both have finalized, whatever        *)
(* sequencers succeeded each other and whatever answers were lost or late. *)
FinalizedAgreement ==
    \A n, m \in Node : Finalized(n) <= Finalized(m) =>
        Prefix(log[n], Finalized(n)) = Prefix(log[m], Finalized(n))

(* Node m is locked on chain c. *)
Holds(m, c) == Len(c) <= locked[m] /\ Contains(log[m], c)
HeldByQuorum(c) == \E Q \in Quorum : \A m \in Q : Holds(m, c)

(* A finalization signature that some node has stored is held, as locked   *)
(* batches, by a quorum: the next sequencers cannot collect another one.   *)
FinalizedHeldByQuorum ==
    \A n \in Node : \A k \in 1..Len(certs[n]) :
        HeldByQuorum(certs[n][k].chain)

(* The finalization signatures of a node link up: each one was made for    *)
(* the parent index that is the one before it, starting from none, and     *)
(* each is about the batches that this node has.                           *)
CheckpointChain ==
    \A n \in Node : \A k \in 1..Len(certs[n]) :
        /\ certs[n][k].parent = LastIndex(SubSeq(certs[n], 1, k - 1))
        /\ Len(certs[n][k].chain) > certs[n][k].parent
        /\ Contains(log[n], certs[n][k].chain)

(* A switch, a reset or a late answer never touches what a node has        *)
(* locked: the locked index never goes back and no batch up to it changes. *)
LockedPreserved ==
    [][\A n \in Node : /\ locked'[n] >= locked[n]
                       /\ Contains(log'[n], LockedChain(n))]_vars

(* The batches that the node that is ahead has finalized. *)
Longest ==
    LET m == CHOOSE m \in Node : \A n \in Node : Finalized(n) <= Finalized(m)
    IN  Prefix(log[m], Finalized(m))

Abstract == INSTANCE FinalizedLog WITH chain <- Longest,
                                       upto <- [n \in Node |-> Finalized(n)]

(* All of the protocol together is one log that only grows, of which every *)
(* node finalizes a growing prefix: no step of any node rewrites, shortens *)
(* or forks what was finalized before, whoever was sequencer.              *)
FinalizedLogSpec == Abstract!Spec

(* Under an undisputed sequencer every batch that it has sequenced is      *)
(* finalized by every node, also if single answers are lost and signature  *)
(* rounds fail.                                                            *)
EventuallyFinalized ==
    \A k \in 1..MaxLen :
        (Len(log[InitSequencer]) >= k) ~> (\A n \in Node : Finalized(n) >= k)
=============================================================================
