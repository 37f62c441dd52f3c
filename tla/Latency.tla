------------------------------ MODULE Latency -------------------------------
(***************************************************************************)
(* The queue of sequencing times of a follower, from which it tells that   *)
(* the sequencer takes too long to finalize, while answers come in and     *)
(* switches cut the log and start the queue afresh.  One app.              *)
(***************************************************************************)
EXTENDS Integers, Sequences, SequencesExt

CONSTANTS
    Border,         \* zconfig.FINALIZATION_TIME_BORDER
    MaxLen,         \* bound: batches
    MaxTime         \* bound: seconds

ASSUME LatencyAssumption ==
    Border \in Nat /\ MaxLen \in Nat /\ MaxTime \in Nat

VARIABLES
    clock,      \* int(time.time())
    last,       \* last sequenced index
    final,      \* last finalized index
    queue,      \* latency_tracking_queue
    switching,  \* a switch is under way, the node is paused
    since,      \* history: when the batch was tracked first, or put up again
    tracked,    \* history: last and final when the queue was brought up to date
    failed      \* history: a switch has failed since the queue was reset

history == <<since, tracked, failed>>
vars == <<clock, last, final, queue, switching, history>>

Init ==
    /\ clock = 0 /\ last = 0 /\ final = 0
    /\ queue = << >> /\ switching = FALSE
    /\ since = [i \in 1..MaxLen |-> 0]
    /\ tracked = [last |-> 0, final |-> 0] /\ failed = FALSE

Tick ==
    /\ clock < MaxTime
    /\ clock' = clock + 1
    /\ UNCHANGED <<last, final, queue, switching, history>>

(* Mutant of Sequenced: the index need only differ from the last one.      *)
SequencedOther(q, index) ==
    IF q = << >> \/ Last(q).index # index
    THEN Append(q, [time |-> clock, index |-> index]) ELSE q

(* track_sequencing_indices for "sequenced": an entry if there is anything *)
(* new.                                                                    *)
Sequenced(q, index) ==
    IF q = << >> \/ Last(q).index < index
    THEN Append(q, [time |-> clock, index |-> index]) ELSE q

(* track_sequencing_indices for "finalized": entries up to it go, from the *)
(* front.                                                                  *)
FinalizedUpTo(q, index) ==
    LET k == SelectInSeq(q, LAMBDA e : e.index > index)
    IN  IF k = 0 THEN << >> ELSE SubSeq(q, k, Len(q))

(* has_delayed_batches *)
HasDelayed == queue # << >> /\ Head(queue).time < clock - Border

(* Mutant of ResetQueue: the entries of before stay.                       *)
ResetQueueKept(n, f) == IF n > f THEN Sequenced(queue, n) ELSE queue

(* reset_latency_queue with a log up to n of which f are finalized.        *)
ResetQueue(n, f) == IF n > f THEN Sequenced(<< >>, n) ELSE << >>

Since(new) == [i \in 1..MaxLen |-> IF i \in new THEN clock ELSE since[i]]

(* The queue is brought up to date: what is new in it is from now.         *)
Track(new, n, f) == since' = Since(new) /\ tracked' = [last |-> n, final |-> f]

(* sync_with_sequencer: an answer with batches up to n, of which f are     *)
(* finalized; it may come while a switch is under way.                     *)
Answer(n, f) ==
    /\ n \in last..MaxLen /\ f \in final..n
    /\ last' = n /\ final' = f
    /\ Track(tracked.last + 1..n, n, f)
    /\ queue' = IF n = 0 THEN queue ELSE FinalizedUpTo(Sequenced(queue, n), f)
    /\ UNCHANGED <<clock, switching, failed>>

(* A signature of the answer cannot be verified for want of its network    *)
(* state: promote_batches raises after the page was inserted and some of   *)
(* the signatures before it were promoted, and nothing is tracked.         *)
AnswerRaises(n, f) ==
    /\ n \in last..MaxLen /\ f \in final..n
    /\ last' = n /\ final' = f
    /\ UNCHANGED <<clock, queue, switching, history>>

(* reinitialize_sequenced_batches in a switch, back to the last lock.      *)
Cut(n) ==
    /\ n \in final..last
    /\ last' = n /\ switching' = TRUE
    /\ UNCHANGED <<clock, final, queue, history>>

(* Batches of a peer are inserted and promoted, and tracked only later.    *)
Adopt(n, f) ==
    /\ switching
    /\ n \in last..MaxLen /\ f \in final..n
    /\ last' = n /\ final' = f
    /\ UNCHANGED <<clock, queue, switching, history>>

(* The switch ends, with the time that it gives the new sequencer over.    *)
EndSwitch ==
    /\ switching
    /\ switching' = FALSE
    /\ queue' = ResetQueue(last, final)
    /\ Track(final + 1..last, last, final) /\ failed' = FALSE
    /\ UNCHANGED <<clock, last, final>>

(* The switch ends with an exception: the node goes on with its old queue. *)
FailSwitch ==
    /\ switching
    /\ switching' = FALSE /\ failed' = TRUE
    /\ UNCHANGED <<clock, last, final, queue, since, tracked>>

(* reset_sequencer cuts the log and resets the queue in one step, which    *)
(* may be in the middle of a switch.                                       *)
ResetSequencer(n) ==
    /\ n \in final..last
    /\ last' = n
    /\ queue' = ResetQueue(n, final)
    /\ Track(final + 1..n, n, final) /\ failed' = FALSE
    /\ UNCHANGED <<clock, final, switching>>

Next ==
    \/ Tick
    \/ \E n, f \in 0..MaxLen : Answer(n, f) \/ AnswerRaises(n, f) \/ Adopt(n, f)
    \/ \E n \in 0..MaxLen : Cut(n) \/ ResetSequencer(n)
    \/ EndSwitch \/ FailSwitch

Spec == Init /\ [][Next]_vars

-----------------------------------------------------------------------------
(******************************** Properties ********************************)

(* Type invariant.  The first entry is the oldest one and the first one to *)
(* be finalized, even after a switch that failed: has_delayed_batches      *)
(* looks at no other, and track_sequencing_indices drops entries from the  *)
(* front.                                                                  *)
TypeOK ==
    /\ clock \in 0..MaxTime
    /\ last \in 0..MaxLen /\ final \in 0..last
    /\ queue \in Seq([time : 0..clock, index : 1..MaxLen])
    /\ \A i, j \in DOMAIN queue :
         i < j => queue[i].index < queue[j].index /\ queue[i].time <= queue[j].time
    /\ switching \in BOOLEAN
    /\ since \in [1..MaxLen -> 0..clock] /\ failed \in BOOLEAN
    /\ tracked \in [last : 0..MaxLen, final : 0..MaxLen]

Overdue == \E i \in final + 1..tracked.last : since[i] < clock - Border

(* A node that is not in a switch holds the sequencer for late, as         *)
(* protocol.rst has it, if a batch has been in its log, or in the hands of *)
(* this sequencer, for longer than the border without being finalized,     *)
(* counted from the first answer since then that was handled to its end;   *)
(* and only then, unless an answer after the last such one has inserted    *)
(* batches or finalized some and then raised.  (A switch that ends with an *)
(* exception leaves entries for batches that are no longer there, until    *)
(* the queue is reset.)                                                    *)
DelayIsOverdue ==
    ~ switching /\ ~ failed =>
        /\ Overdue => HasDelayed
        /\ HasDelayed /\ tracked = [last |-> last, final |-> final] => Overdue
=============================================================================
