----------------------------- MODULE BatchPool ------------------------------
(***************************************************************************)
(* The life of client bodies on one node: the pool of initialized bodies,  *)
(* the request that takes them to the sequencer and its answer, the flags  *)
(* that accuse the sequencer, the dispute that follows, and the switch,    *)
(* which runs beside all of this.                                          *)
(*                                                                         *)
(* One app.  The sequencer is another node, or the node itself.  A page of *)
(* an answer has PageSize batches.  Delayed batches, the third reason for  *)
(* a dispute, are in Latency; what a node takes from its peers in a switch *)
(* is in ZSequencer.                                                       *)
(***************************************************************************)
EXTENDS Integers, Sequences, FiniteSets, FiniteSetsExt, SequencesExt

CONSTANTS
    Mine,           \* bodies that clients put to the node
    Others,         \* bodies of other nodes
    PageSize,       \* batches in an answer
    Faults,         \* what may go wrong: "lost", "raise", "dead", "censor",
                    \* "behind": the sequencer that the node knows is not one
    CanLead,        \* whether the node may become the sequencer
    MaxLog,         \* bound: batches in the log of a sequencer
    MaxSwitches     \* bound: switches and resets of the sequencer

ASSUME PageAssumption == PageSize \in Nat \ {0}
ASSUME BodyAssumption == Mine \cap Others = {}
ASSUME BoundAssumption == MaxLog \in Nat /\ MaxSwitches \in Nat

VARIABLES
    pool,       \* initialized_batch_bodies
    log,        \* the bodies in operational_batch_sequence
    lock,       \* last locked index
    censoring,  \* is_sequencer_censoring of the app
    down,       \* is_sequencer_down
    loop,       \* where run_node_tasks is
    request,    \* the PUT that is under way
    leads,      \* the node is the sequencer
    slog,       \* log of the sequencer that the node knows, if another node
    old,        \* log of the sequencer before
    alive,      \* that sequencer answers
    switch,     \* where switch_to_sequencer is
    switches,   \* changes of the sequencer so far
    accepted,   \* history: bodies put by clients
    cleared     \* history: bodies cleared from the pool

nodeVars == <<pool, log, lock, censoring, down>>
seqVars == <<slog, old, alive>>
switchVars == <<leads, switch, switches>>
history == <<accepted, cleared>>
vars == <<nodeVars, loop, request, seqVars, switchVars, history>>

Body == Mine \cup Others
NoRequest == [bodies |-> << >>, after |-> 0, epoch |-> 0, reply |-> << >>, state |-> "none"]

Init ==
    /\ pool = << >> /\ log = << >> /\ lock = 0
    /\ censoring = FALSE /\ down = FALSE
    /\ loop = "top" /\ request = NoRequest
    /\ leads = FALSE /\ slog = << >> /\ old = << >> /\ alive = TRUE
    /\ switch = "none" /\ switches = 0
    /\ accepted = {} /\ cleared = {}

Paused == switch # "none"

-----------------------------------------------------------------------------
(********************************* Clients **********************************)

(* PUT /node/{app}/batches: to the pool of a follower, or right into the   *)
(* log of the sequencer.                                                   *)
PutBatches(b) ==
    /\ ~ Paused /\ b \notin accepted
    /\ accepted' = accepted \cup {b}
    /\ IF leads THEN log' = Append(log, b) /\ UNCHANGED pool
       ELSE pool' = Append(pool, b) /\ UNCHANGED log
    /\ UNCHANGED <<lock, censoring, down, loop, request, seqVars, switchVars, cleared>>

-----------------------------------------------------------------------------
(********************************** Polling *********************************)

(* send_app_batches up to its PUT, with n bodies, for which the rate limit *)
(* has room.  Only the head of the loop, not its iterations, looks at the  *)
(* role of the node and at the pause.                                      *)
Send(n) ==
    /\ \/ loop = "top" /\ ~ leads /\ ~ Paused
       \/ loop = "again"
    /\ n <= Len(pool)
    /\ pool' = SubSeq(pool, n + 1, Len(pool))
    /\ request' = [NoRequest EXCEPT !.bodies = SubSeq(pool, 1, n), !.after = Len(log),
                                    !.epoch = switches, !.state = "sent"]
    /\ loop' = "wait"
    /\ UNCHANGED <<log, lock, censoring, down, seqVars, switchVars, history>>

(* The log that the request is put to. *)
Self == leads /\ request.epoch = switches
Target == IF Self THEN log ELSE IF request.epoch = switches THEN slog ELSE old

PageAfter(sequence, i) == SubSeq(sequence, i + 1, Min({Len(sequence), i + PageSize}))

(* The sequencer of the request appends the bodies, or ignores them, and   *)
(* answers with the page after the last index of the node.  The node can   *)
(* be that sequencer itself; one that has been replaced may not know yet.  *)
Handle ==
    /\ request.state = "sent"
    /\ request.epoch >= switches - 1
    /\ Self => ~ Paused
    /\ request.epoch = switches => alive
    /\ \E taken \in {request.bodies} \cup (IF "censor" \in Faults /\ ~ Self THEN {<< >>} ELSE {}) :
         LET after == Target \o taken
         IN  /\ Len(after) <= MaxLog
             /\ request' = [request EXCEPT !.state = "answered",
                                           !.reply = PageAfter(after, request.after)]
             /\ log' = IF Self THEN after ELSE log
             /\ slog' = IF ~ Self /\ request.epoch = switches THEN after ELSE slog
    /\ old' = << >>
    /\ UNCHANGED <<pool, lock, censoring, down, loop, alive, switchVars, history>>

(* Mutant of Reinit: nothing is put back.                                  *)
ReinitNothing(bodies) == pool

(* reinit_missed_batch_bodies: each is put before the ones before.         *)
Reinit(bodies) == Reverse(bodies) \o pool

(* The end of an iteration: the next one, unless the node has what is      *)
(* finalized.  The last finalized index in an answer is anything up to     *)
(* what the sequencer has.                                                 *)
Continue(finished) == loop' = IF finished THEN "check" ELSE "again"

Missing == ToSet(request.bodies) \ ToSet(request.reply)

(* Mutant of Censored: bodies that are not in the answer are forgotten.    *)
CensoredForgotten == pool' = pool /\ censoring' = TRUE

(* The bodies that are not in the answer go back to the pool, in any order *)
(* of the set that they are in, and the sequencer counts as censoring.     *)
Censored ==
    /\ \E bodies \in SetToSeqs(Missing) : pool' = Reinit(bodies)
    /\ censoring' = TRUE

(* The answer is applied: the page is inserted, whatever the log is by now.*)
Answer ==
    LET inserted == log \o request.reply
    IN  /\ request.state = "answered"
        /\ log' = inserted
        /\ down' = FALSE
        /\ IF Missing # {} THEN Censored ELSE censoring' = FALSE /\ UNCHANGED pool
        /\ \E final \in 0..Max({Len(slog), Len(inserted)}) :
             Continue(final = 0 \/ final <= Len(inserted))
        /\ request' = NoRequest
        /\ UNCHANGED <<lock, seqVars, switchVars, history>>

(* An error is answered, other than the next one, or the request or the    *)
(* answer is lost: all bodies go back to the pool.  Index 0 is returned,   *)
(* so the app is finished.  (Bound: a sequencer whose log is full answers  *)
(* with an error.)                                                         *)
Failure ==
    /\ \/ /\ request.state = "sent"
          /\ \/ "lost" \in Faults \/ ~ alive \/ Paused \/ request.epoch < switches
             \/ Len(Target) + Len(request.bodies) > MaxLog
       \/ request.state = "answered" /\ "lost" \in Faults
    /\ pool' = Reinit(request.bodies)
    /\ down' = TRUE
    /\ Continue(TRUE)
    /\ request' = NoRequest
    /\ UNCHANGED <<log, lock, censoring, seqVars, switchVars, history>>

(* IsNotSequencerError: the node that was asked has been replaced, or the  *)
(* node has missed a switch, or is the first to know of one.  All bodies   *)
(* go back to the pool, and the sequencer does not count as down.          *)
NotSequencer ==
    /\ request.state = "sent"
    /\ request.epoch < switches \/ ("behind" \in Faults /\ alive /\ ~ Self)
    /\ pool' = Reinit(request.bodies)
    /\ loop' = "reset"
    /\ request' = NoRequest
    /\ UNCHANGED <<log, lock, censoring, down, seqVars, switchVars, history>>

(* reset_sequencer finds no sequencer that enough stake agrees on, or the  *)
(* one that the node has: nothing changes.                                 *)
ResetSkipped ==
    /\ loop = "reset"
    /\ Continue(TRUE)
    /\ UNCHANGED <<nodeVars, request, seqVars, switchVars, history>>

(* What the next sequencer has: what it has locked, which is no less than  *)
(* what this node has locked.  What is locked agrees.                      *)
NextLogs ==
    LET before == IF leads THEN log ELSE slog
    IN  {SubSeq(log, 1, lock) \o SubSeq(before, lock + 1, Min({k, Len(before)})) :
            k \in lock..Max({lock, Len(before)})}

(* It finds another one, which is never the node itself, even while the    *)
(* node is in a switch: the sequence is cut at the last locked batch.      *)
ResetSequencer ==
    /\ loop = "reset" /\ switches < MaxSwitches
    /\ Continue(TRUE)
    /\ switches' = switches + 1
    /\ leads' = FALSE /\ alive' = TRUE
    /\ slog' \in NextLogs
    /\ pool' = pool \o SubSeq(log, lock + 1, Len(log))
    /\ log' = SubSeq(log, 1, lock)
    /\ UNCHANGED <<lock, censoring, down, request, old, switch, history>>

(* A signature of the answer cannot be verified for want of its network    *)
(* state: the page has been inserted, and all bodies go back as well.      *)
AnswerRaises ==
    /\ request.state = "answered" /\ "raise" \in Faults
    /\ log' = log \o request.reply
    /\ pool' = Reinit(request.bodies)
    /\ down' = TRUE
    /\ Continue(TRUE)
    /\ request' = NoRequest
    /\ UNCHANGED <<lock, censoring, seqVars, switchVars, history>>

(* A lock signature: only what the sequencer has too can be locked.        *)
Lock ==
    /\ ~ leads /\ ~ Paused
    /\ \E i \in lock + 1..Min({Len(log), Len(slog)}) :
         SubSeq(log, 1, i) = SubSeq(slog, 1, i) /\ lock' = i
    /\ UNCHANGED <<pool, log, censoring, down, loop, request, seqVars, switchVars, history>>

-----------------------------------------------------------------------------
(********************************* Disputes *********************************)

(* Nothing is wrong, or the node is pausing: back to the head of the loop. *)
NoDispute ==
    /\ loop = "check" /\ (Paused \/ ~ (censoring \/ down))
    /\ loop' = "top"
    /\ UNCHANGED <<nodeVars, request, seqVars, switchVars, history>>

(* get_apps_censored_batch_bodies takes the first body of an app with a    *)
(* censoring sequencer, and there is none: no dispute is sent.             *)
Raises == censoring /\ pool = << >>

DisputeRaises ==
    /\ loop = "check" /\ ~ Paused /\ Raises
    /\ loop' = "top"
    /\ UNCHANGED <<nodeVars, request, seqVars, switchVars, history>>

(* Mutant of SendDispute: a dispute is sent only for censorship.           *)
SendDisputeCensored ==
    /\ loop = "check" /\ ~ Paused /\ censoring /\ pool # << >>
    /\ loop' = "ask"
    /\ UNCHANGED <<nodeVars, request, seqVars, switchVars, history>>

(* send_dispute_requests asks the other nodes.                             *)
SendDispute ==
    /\ loop = "check" /\ ~ Paused /\ (censoring \/ down) /\ ~ Raises
    /\ loop' = "ask"
    /\ UNCHANGED <<nodeVars, request, seqVars, switchVars, history>>

(* Not enough of them agree.                                               *)
DisputeRefused ==
    /\ loop = "ask"
    /\ loop' = "top"
    /\ UNCHANGED <<nodeVars, request, seqVars, switchVars, history>>

(* post_dispute of another node: a body of theirs is put into the pool if  *)
(* this node has something to complain of as well, or if the dispute is    *)
(* against another sequencer.  (Bound: not one that the node has already.) *)
PostDispute(b, same) ==
    /\ ~ Paused /\ ~ leads
    /\ same => censoring \/ down
    /\ b \notin ToSet(pool \o request.bodies \o log)
    /\ pool' = Append(pool, b)
    /\ UNCHANGED <<log, lock, censoring, down, loop, request, seqVars, switchVars, history>>

-----------------------------------------------------------------------------
(***************************** The other nodes ******************************)

OtherPosts(b) ==
    /\ ~ leads /\ Len(slog) < MaxLog /\ b \notin ToSet(slog)
    /\ slog' = Append(slog, b)
    /\ UNCHANGED <<nodeVars, loop, request, old, alive, switchVars, history>>

Dies ==
    /\ "dead" \in Faults /\ alive
    /\ alive' = FALSE
    /\ UNCHANGED <<nodeVars, loop, request, slog, old, switchVars, history>>

-----------------------------------------------------------------------------
(********************************** Switch **********************************)

(* switch_to_sequencer pauses the node and changes the sequencer, after a  *)
(* dispute of the node or at the request of another one.                   *)
BeginSwitch(toSelf) ==
    /\ ~ Paused /\ switches < MaxSwitches
    /\ toSelf => CanLead /\ ~ leads
    /\ switch' = "begun" /\ switches' = switches + 1
    /\ leads' = toSelf
    /\ IF toSelf THEN slog' = << >> ELSE slog' \in NextLogs
    /\ old' = IF request.state # "sent" THEN << >> ELSE IF leads THEN log ELSE slog
    /\ alive' = TRUE
    /\ loop' = IF loop = "ask" THEN "top" ELSE loop
    /\ UNCHANGED <<nodeVars, request, history>>

(* Mutant of Cut: the locked bodies are cut as well.                       *)
CutAll ==
    /\ switch = "begun"
    /\ switch' = "cut"
    /\ pool' = pool \o log
    /\ log' = << >>
    /\ UNCHANGED <<lock, censoring, down, loop, request, leads, switches, seqVars, history>>

(* reinitialize_sequenced_batches *)
Cut ==
    /\ switch = "begun"
    /\ switch' = "cut"
    /\ pool' = pool \o SubSeq(log, lock + 1, Len(log))
    /\ log' = SubSeq(log, 1, lock)
    /\ UNCHANGED <<lock, censoring, down, loop, request, leads, switches, seqVars, history>>

(* A new sequencer clears its pool; the others wait before they go on.     *)
EndSwitch ==
    /\ switch = "cut"
    /\ switch' = "none"
    /\ IF leads THEN pool' = << >> /\ cleared' = cleared \cup ToSet(pool)
       ELSE UNCHANGED <<pool, cleared>>
    /\ UNCHANGED <<log, lock, censoring, down, loop, request, leads, switches, seqVars, accepted>>

-----------------------------------------------------------------------------
Next ==
    \/ \E b \in Mine : PutBatches(b)
    \/ \E n \in 0..Len(pool) : Send(n)
    \/ Handle \/ Answer \/ Failure \/ AnswerRaises \/ Lock
    \/ NotSequencer \/ ResetSkipped \/ ResetSequencer
    \/ NoDispute \/ DisputeRaises \/ SendDispute \/ DisputeRefused
    \/ \E b \in Others, same \in BOOLEAN : PostDispute(b, same)
    \/ \E b \in Others : OtherPosts(b)
    \/ Dies
    \/ \E toSelf \in BOOLEAN : BeginSwitch(toSelf)
    \/ Cut \/ EndSwitch

Spec == Init /\ [][Next]_vars

(* The loop goes on, a request ends with an answer or a time-out, a switch *)
(* ends; the window of the rate limit moves on, so that bodies that wait   *)
(* are sent sooner or later.                                               *)
Fairness ==
    /\ WF_vars(\E n \in 0..Len(pool) : Send(n))
    /\ SF_vars(\E n \in 1..Len(pool) : Send(n))
    /\ WF_vars(Handle \/ Answer \/ Failure \/ NotSequencer \/ AnswerRaises)
    /\ WF_vars(ResetSkipped \/ ResetSequencer)
    /\ WF_vars(NoDispute \/ DisputeRaises \/ SendDispute \/ DisputeRefused)
    /\ WF_vars(Cut \/ EndSwitch)
FairSpec == Spec /\ Fairness

-----------------------------------------------------------------------------
(******************************** Properties ********************************)

Request == [bodies : Seq(Body), after : Nat, epoch : Nat, reply : Seq(Body),
            state : {"none", "sent", "answered"}]

(* Type invariant; a request is under way exactly while the loop waits.    *)
TypeOK ==
    /\ pool \in Seq(Body) /\ log \in Seq(Body) /\ slog \in Seq(Body) /\ old \in Seq(Body)
    /\ lock \in 0..Len(log)
    /\ censoring \in BOOLEAN /\ down \in BOOLEAN /\ leads \in BOOLEAN /\ alive \in BOOLEAN
    /\ loop \in {"top", "wait", "again", "reset", "check", "ask"}
    /\ request \in Request
    /\ request.state # "none" <=> loop = "wait"
    /\ switch \in {"none", "begun", "cut"} /\ switches \in 0..MaxSwitches
    /\ accepted \subseteq Mine /\ cleared \subseteq Body

(* A body that a client was told is received stays with the node: in the   *)
(* pool, in a request, or in the log, through lost answers, pages that end *)
(* before it, censorship and switches in between.  Only a pool that is     *)
(* cleared by a new sequencer loses bodies.                                *)
NoBodyLost ==
    accepted \subseteq ToSet(pool) \cup ToSet(request.bodies) \cup ToSet(log) \cup cleared

(* Every body of a client is in the log of the node in the end, or the     *)
(* node disputes, whether the sequencer is gone, ignores it or answers     *)
(* without it: unless the node that it takes for the sequencer goes on to  *)
(* answer for ever that it is not, which is no reason for a dispute.       *)
SequencedOrDisputed ==
    <>[](loop # "reset") =>
        \A b \in Mine :
            (b \in accepted) ~> (b \in ToSet(log) \/ loop = "ask" \/ leads \/ b \in cleared)

(* A node that gets no answer disputes, as protocol.rst says, if it is not *)
(* answered in the meantime: unless the flag of a censorship is left over  *)
(* without a body to show for it, when the code cannot put the dispute     *)
(* together.                                                               *)
DownIsDisputed == down ~> (~ down \/ loop = "ask" \/ leads \/ Raises)
=============================================================================
