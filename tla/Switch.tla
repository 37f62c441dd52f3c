------------------------------- MODULE Switch -------------------------------
(***************************************************************************)
(* Disputes and switches with their timing: polls that fail, the gathering *)
(* of confirmations, proofs that expire, the lock and the pause of a       *)
(* switch, the wait for the new sequencer, and nodes that missed a switch. *)
(* The logs are left out (ZSequencer has them).  One unit of time is the   *)
(* five seconds of HTTP and aggregation time-outs.                         *)
(***************************************************************************)
EXTENDS Integers, Sequences, FiniteSets, SequencesExt

CONSTANTS
    Node,           \* registered nodes
    Ring,           \* the sequencing nodes in the order of their ids
    Support,        \* sets of nodes with half of the threshold
    Quorum,         \* sets of nodes with the threshold
    HttpTime,       \* time-out of a request, of a PUT too
    GatherTime,     \* zconfig.AGGREGATION_TIMEOUT
    Validity,       \* how long is_dispute_approved accepts a proof
    Inactivity,     \* NODE_INACTIVITY_THRESHOLD_SECONDS
    SetupTime,      \* SEQUENCER_SETUP_DEADLINE_TIME_IN_SECONDS
    MaxFaults       \* bound: how many nodes leave the network for good
                    \* ("gone"), polls of a sequencer in service fail
                    \* ("missed") and switches raise ("raised")

ASSUME SwitchAssumption ==
    /\ Ring \in Seq(Node) /\ Ring # << >>
    /\ Support \in SUBSET SUBSET Node /\ Quorum \in SUBSET Support
    /\ HttpTime \in Nat /\ GatherTime \in Nat /\ Validity \in Nat /\ SetupTime \in Nat
    /\ Inactivity \in Nat /\ MaxFaults \in [{"gone", "missed", "raised"} -> Nat]

(* A switch, and the loss of touch with a sequencer, take longer than the  *)
(* gathering of confirmations; more stake than the threshold is enough.    *)
ASSUME PatienceAssumption ==
    /\ GatherTime < SetupTime /\ GatherTime < Inactivity
    /\ \A Q \in Quorum : \A R \in SUBSET Node : Q \subseteq R => R \in Quorum

VARIABLES
    sequencer,  \* sequencer[n]: zconfig.SEQUENCER
    stage,      \* where n's run_node_tasks is: what it awaits
    switching,  \* what the holder of _switch_lock awaits, or "no"
    waiting,    \* calls of switch_to_sequencer that wait for _switch_lock
    left,       \* time until the wait of stage, or of switching, ends
    flag,       \* is_sequencer_down, or another cause for a dispute
    polled,     \* the nodes that polled in this unit of time
    heard,      \* heard[s][m]: time until s takes m for disconnected
    received,   \* received[s]: has_received_node_updates
    requests,   \* switch requests under way
    offline,    \* who is off the network
    raised,     \* history: whose switches have ended with an exception
    faults      \* counters of the bound

loopVars == <<stage, flag, polled>>
switchVars == <<sequencer, switching, waiting>>
heardVars == <<heard, received>>
vars == <<switchVars, loopVars, heardVars, left, requests, offline, raised, faults>>

Idle == [at |-> "idle"]
Paused(n) == switching[n] # "no"
Nobody == [m \in Node |-> 0]
Fault(kind) ==
    /\ faults[kind] < MaxFaults[kind]
    /\ faults' = [faults EXCEPT ![kind] = @ + 1]

(* The first sequencer has been in service for a while. *)
Init ==
    /\ sequencer = [n \in Node |-> Ring[1]]
    /\ stage = [n \in Node |-> Idle]
    /\ switching = [n \in Node |-> "no"]
    /\ waiting = [n \in Node |-> << >>]
    /\ left = [n \in Node |-> [loop |-> 0, switch |-> 0]]
    /\ flag = [n \in Node |-> FALSE]
    /\ polled = {} /\ requests = {}
    /\ heard = [s \in Node |-> [m \in Node |-> IF s = Ring[1] /\ m # s THEN Inactivity ELSE 0]]
    /\ received = [s \in Node |-> s = Ring[1]]
    /\ offline = {} /\ raised = {} /\ faults = [kind \in DOMAIN MaxFaults |-> 0]

-----------------------------------------------------------------------------
(******************************* Polling ***********************************)

(* send_app_batches sends its PUT; one poll stands for the many that fit   *)
(* into a unit of time.  The stage "dispute" that follows may last, for    *)
(* other apps are polled before the dispute.                               *)
Poll(n) ==
    /\ stage[n] = Idle /\ ~ Paused(n) /\ sequencer[n] # n
    /\ n \notin polled /\ polled' = polled \cup {n}
    /\ stage' = [stage EXCEPT ![n] = [at |-> "poll", to |-> sequencer[n]]]
    /\ left' = [left EXCEPT ![n].loop = HttpTime]
    /\ UNCHANGED <<heardVars, switchVars, flag, requests, offline, raised, faults>>

Reaches(n, m) == n \notin offline /\ m \notin offline

(* The answer: the sequencer is in service. *)
PollServed(n) ==
    LET s == stage[n].to IN
    /\ stage[n].at = "poll" /\ Reaches(n, s)
    /\ sequencer[s] = s /\ ~ Paused(s)
    /\ flag' = [flag EXCEPT ![n] = FALSE]
    /\ stage' = [stage EXCEPT ![n] = [at |-> "dispute"]]
    /\ heard' = [heard EXCEPT ![s][n] = Inactivity]
    /\ UNCHANGED <<received, switchVars, polled, left, requests, offline, raised, faults>>

(* Any other error, or no answer in time. *)
PollFails(n) ==
    LET s == stage[n].to IN
    /\ stage[n].at = "poll"
    /\ \/ Reaches(n, s) /\ sequencer[s] = s /\ Paused(s) /\ UNCHANGED faults
       \/ ~ Reaches(n, s) /\ UNCHANGED faults
       \/ Fault("missed")
    /\ flag' = [flag EXCEPT ![n] = TRUE]
    /\ stage' = [stage EXCEPT ![n] = [at |-> "dispute"]]
    /\ UNCHANGED <<heardVars, switchVars, polled, left, requests, offline, raised>>

(* The sequencer that enough others and n report, and that says so itself. *)
NetworkSequencers(n) ==
    {c \in ToSet(Ring) \ {n} :
        /\ Reaches(n, c) /\ sequencer[c] = c
        /\ {m \in Node \ {n} : Reaches(n, m) /\ sequencer[m] = c} \cup {n} \in Quorum}

(* IsNotSequencerError: reset_sequencer asks all nodes. *)
PollRejected(n) ==
    LET s == stage[n].to IN
    /\ stage[n].at = "poll" /\ Reaches(n, s) /\ sequencer[s] # s
    /\ stage' = [stage EXCEPT ![n] =
         [at |-> "reset", found |-> NetworkSequencers(n)]]
    /\ left' = [left EXCEPT ![n].loop = HttpTime]
    /\ UNCHANGED <<heardVars, switchVars, flag, polled, requests, offline, raised, faults>>

(* reset_sequencer goes on with what it found, whatever switch began since. *)
Reset(n) ==
    /\ stage[n].at = "reset"
    /\ \/ /\ stage[n].found \subseteq {sequencer[n]}
          /\ UNCHANGED <<sequencer, heard>>
       \/ \E c \in stage[n].found \ {sequencer[n]} :
            /\ sequencer' = [sequencer EXCEPT ![n] = c]
            /\ heard' = [heard EXCEPT ![n] = Nobody]
    /\ stage' = [stage EXCEPT ![n] = [at |-> "dispute"]]
    /\ UNCHANGED <<received, switching, waiting, flag, polled, left, requests, offline, raised, faults>>

(* not_receiving_node_updates *)
NotReceiving(s) == {m \in Node \ {s} : heard[s][m] = 0} \in Quorum

(* detect_and_reset_sequencer_on_failover of a sequencer that others poll. *)
NotesUpdates(s) ==
    /\ sequencer[s] = s /\ ~ Paused(s)
    /\ ~ NotReceiving(s) /\ ~ received[s]
    /\ received' = [received EXCEPT ![s] = TRUE]
    /\ UNCHANGED <<heard, switchVars, loopVars, left, requests, offline, raised, faults>>

(* The same of one that they have left: it may have missed a switch.       *)
FailOver(s) ==
    /\ sequencer[s] = s /\ ~ Paused(s)
    /\ NotReceiving(s) /\ received[s]
    /\ \E c \in NetworkSequencers(s) : sequencer' = [sequencer EXCEPT ![s] = c]
    /\ heard' = [heard EXCEPT ![s] = Nobody]
    /\ UNCHANGED <<received, switching, waiting, loopVars, left, requests, offline, raised, faults>>

-----------------------------------------------------------------------------
(**************************** switch_to_sequencer **************************)

(* Holding the lock: n pauses and follows s.                               *)
Begin(n, s) ==
    /\ sequencer' = [sequencer EXCEPT ![n] = s]
    /\ switching' = [switching EXCEPT ![n] = "sync"]

(* Mutant of SwitchCall: without the test whether n follows s already.      *)
SwitchAlways(n, s) ==
    \/ /\ Paused(n) /\ waiting' = [waiting EXCEPT ![n] = Append(@, s)]
       /\ UNCHANGED <<sequencer, switching>>
    \/ ~ Paused(n) /\ Begin(n, s) /\ UNCHANGED waiting

(* The call with sequencer s.  The test for a switch that is already done  *)
(* is made before the lock is taken.                                       *)
SwitchCall(n, s) ==
    \/ s = sequencer[n] /\ UNCHANGED switchVars
    \/ /\ s # sequencer[n] /\ Paused(n)
       /\ waiting' = [waiting EXCEPT ![n] = Append(@, s)]
       /\ UNCHANGED <<sequencer, switching>>
    \/ /\ s # sequencer[n] /\ ~ Paused(n)
       /\ Begin(n, s) /\ UNCHANGED waiting

(* get_next_sequencer_id *)
Successor(s) ==
    LET At == {i \in DOMAIN Ring : Ring[i] = s}
    IN  IF At = {} THEN Ring[1] ELSE Ring[((CHOOSE i \in At : TRUE) % Len(Ring)) + 1]

(* The end of a switch: asyncio.Lock goes to the call that waits longest,  *)
(* which has made its test already.                                        *)
Release(n) ==
    IF waiting[n] = << >>
    THEN switching' = [switching EXCEPT ![n] = "no"] /\ UNCHANGED <<sequencer, waiting>>
    ELSE /\ Begin(n, Head(waiting[n]))
         /\ waiting' = [waiting EXCEPT ![n] = Tail(@)]

(* Mutant of Synced: the others go on at once.                             *)
SyncedNoWait(n) ==
    /\ switching[n] = "sync"
    /\ Release(n)
    /\ received' = [received EXCEPT ![n] = FALSE]
    /\ heard' = [heard EXCEPT ![n] = Nobody]
    /\ UNCHANGED <<left, loopVars, requests, offline, raised, faults>>

(* _sync_with_latest_locks is done: a new sequencer starts, the others     *)
(* give it time.                                                           *)
Synced(n) ==
    /\ switching[n] = "sync"
    /\ IF sequencer[n] = n
       THEN /\ Release(n) /\ UNCHANGED left
            /\ received' = [received EXCEPT ![n] = FALSE]
            /\ heard' = [heard EXCEPT ![n] = Nobody]
       ELSE /\ switching' = [switching EXCEPT ![n] = "sleep"]
            /\ left' = [left EXCEPT ![n].switch = SetupTime]
            /\ UNCHANGED <<heardVars, sequencer, waiting>>
    /\ UNCHANGED <<loopVars, requests, offline, raised, faults>>

(* It raises: the node goes on at once. *)
SyncRaises(n) ==
    /\ switching[n] = "sync" /\ Fault("raised")
    /\ Release(n)
    /\ raised' = raised \cup {n}
    /\ UNCHANGED <<heardVars, loopVars, left, requests, offline>>

(* The wait is over. *)
Resume(n) ==
    /\ switching[n] = "sleep" /\ left[n].switch = 0
    /\ Release(n)
    /\ heard' = [heard EXCEPT ![n] = Nobody]
    /\ UNCHANGED <<received, loopVars, left, requests, offline, raised, faults>>

-----------------------------------------------------------------------------
(******************************* Disputes **********************************)

(* send_dispute_requests without a cause, or in a pause. *)
NoDispute(n) ==
    /\ stage[n].at = "dispute"
    /\ ~ flag[n] \/ Paused(n)
    /\ stage' = [stage EXCEPT ![n] = Idle]
    /\ UNCHANGED <<heardVars, switchVars, flag, polled, left, requests, offline, raised, faults>>

(* send_dispute_requests signs a dispute against n's sequencer and asks.   *)
Complain(n) ==
    /\ stage[n].at = "dispute" /\ flag[n] /\ ~ Paused(n)
    /\ stage' = [stage EXCEPT ![n] =
         [at |-> "gather", old |-> sequencer[n], signers |-> {n}, age |-> 0]]
    /\ left' = [left EXCEPT ![n].loop = GatherTime]
    /\ UNCHANGED <<heardVars, switchVars, flag, polled, requests, offline, raised, faults>>

(* Mutant of Confirms: only complaints about its own sequencer.            *)
ConfirmsSame(m, old) ==
    /\ ~ Paused(m)
    /\ sequencer[m] # m /\ old = sequencer[m]
    /\ flag[m]

(* post_dispute: a sequencer signs unless it is about itself, and a node   *)
(* that follows another sequencer signs without further questions.         *)
Confirms(m, old) ==
    /\ ~ Paused(m)
    /\ ~ (sequencer[m] = m /\ old = m)
    /\ sequencer[m] # m /\ old = sequencer[m] => flag[m]

Confirm(n, m) ==
    /\ stage[n].at = "gather" /\ Reaches(n, m)
    /\ m \notin stage[n].signers /\ stage[n].signers \notin Support
    /\ Confirms(m, stage[n].old)
    /\ stage' = [stage EXCEPT ![n].signers = @ \cup {m}]
    /\ UNCHANGED <<heardVars, switchVars, flag, polled, left, requests, offline, raised, faults>>

Request(n, m) == [to |-> m, old |-> stage[n].old, age |-> stage[n].age, left |-> HttpTime]

(* Enough signatures: n asks all to switch, and switches to the successor  *)
(* of the sequencer that it has disputed.                                  *)
Gathered(n) ==
    /\ stage[n].at = "gather" /\ stage[n].signers \in Support
    /\ requests' = requests \cup {Request(n, m) : m \in {k \in Node \ {n} : Reaches(n, k)}}
    /\ SwitchCall(n, Successor(stage[n].old))
    /\ stage' = [stage EXCEPT ![n] = Idle]
    /\ UNCHANGED <<heardVars, flag, polled, left, offline, raised, faults>>

(* AGGREGATION_TIMEOUT, or all have answered. *)
GatherFails(n) ==
    /\ stage[n].at = "gather" /\ stage[n].signers \notin Support
    /\ stage' = [stage EXCEPT ![n] = Idle]
    /\ UNCHANGED <<heardVars, switchVars, flag, polled, left, requests, offline, raised, faults>>

(* post_switch_sequencer: proofs against n's sequencer that are not too    *)
(* old.  A request that is refused is gone.                                *)
PostSwitch(r) ==
    /\ r \in requests
    /\ requests' = requests \ {r}
    /\ IF /\ r.to \notin offline /\ ~ Paused(r.to)
          /\ r.age <= Validity /\ sequencer[r.to] = r.old
       THEN SwitchCall(r.to, Successor(r.old))
       ELSE UNCHANGED switchVars
    /\ UNCHANGED <<heardVars, loopVars, left, offline, raised, faults>>

-----------------------------------------------------------------------------
(***************************** Environment *********************************)

GoOffline(n) ==
    /\ n \notin offline /\ Fault("gone")
    /\ offline' = offline \cup {n}
    /\ UNCHANGED <<heardVars, switchVars, loopVars, left, requests, raised>>

Less(k) == IF k > 0 THEN k - 1 ELSE 0

(* What a loop does without an await takes no time.                        *)
Rests(n) == /\ stage[n].at # "dispute"
            /\ stage[n] = Idle => Paused(n) \/ sequencer[n] = n \/ n \in polled

(* Time-outs are kept, and proofs beyond their validity are worthless.     *)
Tick ==
    /\ \A n \in Node : /\ Rests(n)
                       /\ stage[n].at \in {"poll", "reset", "gather"} => left[n].loop > 0
                       /\ switching[n] = "sleep" => left[n].switch > 0
    /\ \A r \in requests : r.to \in offline \/ r.left > 0
    /\ left' = [n \in Node |-> [loop |-> Less(left[n].loop), switch |-> Less(left[n].switch)]]
    /\ stage' = [n \in Node |-> IF stage[n].at = "gather"
                                THEN [stage[n] EXCEPT !.age = @ + 1] ELSE stage[n]]
    /\ requests' = {[r EXCEPT !.age = @ + 1, !.left = @ - 1] :
                     r \in {q \in requests : q.to \notin offline}}
    /\ polled' = {}
    /\ heard' = [s \in Node |-> [m \in Node |-> Less(heard[s][m])]]
    /\ UNCHANGED <<received, switchVars, flag, offline, raised, faults>>

Next ==
    \/ \E n \in Node : \/ Poll(n) \/ PollServed(n) \/ PollFails(n) \/ PollRejected(n)
                       \/ Reset(n) \/ NotesUpdates(n) \/ FailOver(n)
                       \/ Synced(n) \/ SyncRaises(n) \/ Resume(n)
                       \/ NoDispute(n) \/ Complain(n) \/ Gathered(n) \/ GatherFails(n)
                       \/ \E m \in Node : Confirm(n, m)
                       \/ GoOffline(n)
    \/ \E r \in requests : PostSwitch(r)
    \/ Tick

Spec == Init /\ [][Next]_vars

(* One step of run_node_tasks; each of its awaits has its own.             *)
Loop(n) ==
    \/ Poll(n) \/ PollServed(n) \/ PollRejected(n) \/ PollFails(n) \/ Reset(n)
    \/ NoDispute(n) \/ Complain(n) \/ Gathered(n) \/ GatherFails(n)

(* The loops, time-outs and handlers run, and time passes; clients of HTTP *)
(* give up, so an answer that can come either comes or its time is over.   *)
Fairness ==
    /\ \A n \in Node :
         /\ WF_vars(Loop(n))
         /\ WF_vars(NotesUpdates(n) \/ FailOver(n))
         /\ WF_vars(Synced(n) \/ Resume(n))
         /\ SF_vars(\E m \in Node : Confirm(n, m))
    /\ WF_vars(\E r \in requests : PostSwitch(r))
    /\ WF_vars(Tick)

FairSpec == Spec /\ Fairness

-----------------------------------------------------------------------------
(******************************** Properties ********************************)

(* A node does not stay with a sequencer that has gone off the network, as *)
(* long as enough nodes are left to confirm it.                            *)
LeavesTheGone ==
    \A n \in Node :
        []<>(\/ sequencer[n] \notin offline \/ n \in offline
             \/ \A Q \in Quorum : Q \cap offline # {})

(* A node never pauses and cuts its log for a sequencer that it follows.   *)
NoRepeatedSwitch ==
    [][\A n \in Node :
         (\/ ~ Paused(n) /\ Paused(n)'
          \/ Len(waiting'[n]) < Len(waiting[n])) => sequencer'[n] # sequencer[n]]_vars

(* The switch at the end of a dispute leaves the sequencer that was        *)
(* disputed, not one that replaced it meanwhile: a switch pauses its node  *)
(* longer than confirmations are gathered, unless it raised.  A node that  *)
(* became the sequencer between its poll and its dispute disputes itself,  *)
(* and may leave whoever it has been failed over to since.                 *)
LeavesDisputed ==
    [][\A n \in Node \ raised :
         stage[n].at = "gather" /\ stage[n].old # n /\ stage'[n] = Idle
           => sequencer'[n] = sequencer[n] \/ sequencer[n] = stage[n].old]_vars
=============================================================================
