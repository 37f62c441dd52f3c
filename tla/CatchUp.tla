------------------------------ MODULE CatchUp ------------------------------
(***************************************************************************)
(* A follower that is behind polls its sequencer: pages of batches, the    *)
(* finalized signatures that go with them along the next_index links, and  *)
(* the flag that says that the follower is in sync.  The sequencer prunes  *)
(* what is in old chunks from memory, may be stopped and started, and      *)
(* serves several apps with a single first_finalized_index.                *)
(*                                                                         *)
(* Batches have one unit of size.  The chaining hash of a batch stands for *)
(* all batches up to it: the follower and the sequencer have the same ones *)
(* up to some index, and others after it.  Locks are left out: a follower  *)
(* finalizes whether it has locked or not.                                 *)
(***************************************************************************)
EXTENDS Integers, Sequences, FiniteSets, FiniteSetsExt, SequencesExt

CONSTANTS
    App,            \* zconfig.APPS
    PageSize,       \* zconfig.node_receive_limit_per_window_size_kb
    Border,         \* zconfig.REMOVE_CHUNK_BORDER
    MaxLen,         \* bound: batches of an app
    MaxChunks,      \* bound: chunks of an app
    MaxFaults       \* bound: restarts of the sequencer and lost PUT requests

ASSUME PageAssumption == PageSize \in Nat \ {0} /\ Border \in Nat \ {0}
ASSUME LimitAssumption == {MaxLen, MaxChunks, MaxFaults} \subseteq Nat

VARIABLES
    last,       \* last[a]: last index of the sequencer
    points,     \* points[a]: its finalized indices that have a signature
    linked,     \* linked[a]: those of them that have a next_index
    ends,       \* ends[a]: the last indices of its chunks, in order
    first,      \* first_finalized_index of the sequencer, 0 if None
    have,       \* have[a]: last sequenced index of the follower
    shared,     \* shared[a]: its last index with the sequencer's chaining hash
    fin,        \* fin[a]: last finalized index of the follower
    synced,     \* _SYNCED_FLAG of the follower
    round,      \* send_batches of the follower
    faults      \* restarts and lost requests so far

sequencerVars == <<last, points, linked, ends, first>>
followerVars == <<have, shared, fin, synced>>
vars == <<sequencerVars, followerVars, round, faults>>

None == "none"

ASSUME NoneAssumption == None \notin App

(* todo: apps still to poll; app: the one that is polled again and again;  *)
(* single: single_iteration_apps_sync; due: what the sequencer had         *)
(* finalized of an app when the round began, 0 once the follower has it or *)
(* a request about the app has failed.                                     *)
NoRound == [todo |-> {}, app |-> None, single |-> TRUE,
            due |-> [a \in App |-> 0], active |-> FALSE]

Init ==
    /\ last = [a \in App |-> 0] /\ points = [a \in App |-> {}]
    /\ linked = [a \in App |-> {}] /\ ends = [a \in App |-> << >>]
    /\ first = 0
    /\ have = [a \in App |-> 0] /\ shared = [a \in App |-> 0]
    /\ fin = [a \in App |-> 0]
    /\ synced = FALSE /\ round = NoRound
    /\ faults = 0

(* The last finalized index of the sequencer. *)
SeqFin(a) == Max(points[a] \cup {0})
(* The parent_index of the signature at point p. *)
Parent(a, p) == Max({q \in points[a] : q < p} \cup {0})

-----------------------------------------------------------------------------
(******************************* The sequencer ******************************)

Append1(a) ==
    /\ last[a] < MaxLen
    /\ last' = [last EXCEPT ![a] = @ + 1]
    /\ UNCHANGED <<points, linked, ends, first, followerVars, round, faults>>

(* promote_batches to "finalized": the batch before gets its next_index,   *)
(* or there is none and this is the first; a chunk is stored if enough     *)
(* batches are in none yet.                                                *)
Finalize(a, i) ==
    /\ SeqFin(a) < i /\ i <= last[a]
    /\ points' = [points EXCEPT ![a] = @ \cup {i}]
    /\ IF points[a] = {}
       THEN first' = i /\ UNCHANGED linked
       ELSE linked' = [linked EXCEPT ![a] = @ \cup {SeqFin(a)}] /\ UNCHANGED first
    /\ \/ UNCHANGED ends
       \/ /\ Len(ends[a]) < MaxChunks
          /\ ends' = [ends EXCEPT ![a] = Append(@, i)]
    /\ UNCHANGED <<last, followerVars, round, faults>>

(* The first index of the k-th chunk. *)
ChunkStart(a, k) == IF k = 1 THEN 1 ELSE ends[a][k - 1] + 1

(* The index offset of the sequence in memory: pruning keeps what is above *)
(* the first index of the oldest chunk within the border.                  *)
Low(a) == IF Len(ends[a]) >= Border
          THEN ChunkStart(a, Len(ends[a]) - Border + 1) + 1 ELSE 1

(* The process is stopped by a signal and started again: what is finalized *)
(* is stored and loaded, except first_finalized_index, and except the      *)
(* next_index of the last batch of a chunk, which the chunk was stored     *)
(* without unless the next finalization came in the same answer.  What was *)
(* not finalized is lost, and other batches will take its indices, although *)
(* the follower may have it.                                               *)
Restart ==
    /\ faults < MaxFaults
    /\ last' = [a \in App |-> SeqFin(a)]
    /\ ends' = [a \in App |-> IF points[a] = {} \/ (ends[a] # << >> /\ Last(ends[a]) = SeqFin(a))
                              THEN ends[a] ELSE Append(ends[a], SeqFin(a))]
    /\ \E lost \in [App -> SUBSET (1..MaxLen)] :
         /\ \A a \in App : lost[a] \subseteq linked[a] \cap ToSet(ends[a])
         /\ linked' = [a \in App |-> linked[a] \ lost[a]]
    /\ first' = 0
    /\ shared' = [a \in App |-> Min({shared[a], SeqFin(a)})]
    /\ faults' = faults + 1
    /\ UNCHANGED <<points, have, fin, synced, round>>

-----------------------------------------------------------------------------
(******************************** The answer ********************************)

(* Mutant of PageEnd: the end is exclusive, and taken to be inclusive. *)
PageEndPast(a) == IF have[a] >= last[a] THEN have[a] ELSE Min({last[a], have[a] + PageSize}) + 1

(* The index of the last batch of the page after the follower's last one:  *)
(* it is not above that one if the page is empty.                          *)
PageEnd(a) == IF have[a] >= last[a] THEN have[a] ELSE Min({last[a], have[a] + PageSize})
EmptyPage(a) == have[a] >= last[a]

(* Mutant of FirstServed: links are not followed from finalized batches    *)
(* that are the last of a chunk.                                           *)
FirstServedInside(a) ==
    IF fin[a] = 0 THEN first
    ELSE IF fin[a] >= Low(a) /\ fin[a] \in linked[a] /\ fin[a] \notin ToSet(ends[a])
    THEN Min({p \in points[a] : p > fin[a]})
    ELSE 0

(* Where _put_batches starts to collect finalized signatures, 0 if it has  *)
(* no next_index.                                                          *)
FirstServed(a) ==
    IF fin[a] = 0 THEN first
    ELSE IF fin[a] >= Low(a) /\ fin[a] \in linked[a]
    THEN Min({p \in points[a] : p > fin[a]})
    ELSE 0

(* Signatures are collected up to the last batch of the page, and without  *)
(* limit if the page is empty.                                             *)
WithinPage(a, p) == EmptyPage(a) \/ p <= PageEnd(a)

(* The KeyError of _put_batches: the batch to start from is not in memory  *)
(* or has no finalized signature.                                          *)
Raises(a) ==
    LET s == FirstServed(a)
    IN  s # 0 /\ WithinPage(a, s) /\ (s < Low(a) \/ s \notin points[a])

(* The points whose signatures are in the answer. *)
Served(a) ==
    LET s == FirstServed(a)
    IN  IF s = 0 THEN {}
        ELSE {p \in points[a] :
                /\ p >= s /\ WithinPage(a, p)
                /\ \A q \in points[a] : s <= q /\ q < p => q \in linked[a]}

-----------------------------------------------------------------------------
(******************************* The follower *******************************)

(* send_batches begins. *)
BeginRound ==
    /\ ~ round.active
    /\ round' = [NoRound EXCEPT !.active = TRUE, !.todo = App,
                                !.due = [a \in App |-> IF shared[a] >= SeqFin(a) THEN 0
                                                                          ELSE SeqFin(a)]]
    /\ UNCHANGED <<sequencerVars, followerVars, faults>>

(* The app whose turn it is: the same one, or any of those left. *)
Turn(a) == round.active /\ (IF round.app = None THEN a \in round.todo ELSE a = round.app)

(* Mutant of Finished: one more answer is taken to be enough. *)
FinishedEarly(a) == SeqFin(a) = 0 \/ SeqFin(a) <= have'[a] + 1

(* finish_condition of send_app_batches_iteration after an answer. *)
Finished(a) == SeqFin(a) = 0 \/ SeqFin(a) <= have'[a]

(* Where send_batches goes on. *)
NextTurn(a, finished, ok) ==
    round' = [round EXCEPT !.todo = @ \ {a},
                           !.app = IF finished THEN None ELSE a,
                           !.single = @ /\ (finished \/ round.app = a),
                           !.due[a] = IF ok /\ shared'[a] < @ THEN @ ELSE 0]

(* Mutant of Promoted: the chaining hash is not compared. *)
PromotedByIndex(a) ==
    LET served == Served(a)
    IN  IF served # {} /\ (fin[a] = 0 \/ Parent(a, Min(served)) = fin[a])
        THEN {p \in served : p <= have'[a]} ELSE {}

(* The signatures that promote_batches accepts, one after the other: the   *)
(* parent of the first one must be the last finalized index, and each one  *)
(* needs the batch that was signed.                                        *)
Promoted(a) ==
    LET served == Served(a)
    IN  IF served # {} /\ (fin[a] = 0 \/ Parent(a, Min(served)) = fin[a])
        THEN {p \in served : p <= shared'[a]} ELSE {}

(* A PUT and its answer: the page is put after the batches that are there, *)
(* whatever they are, and the signatures are promoted.                     *)
Poll(a) ==
    /\ Turn(a) /\ ~ Raises(a)
    /\ have' = [have EXCEPT ![a] = PageEnd(a)]
    /\ shared' = [shared EXCEPT ![a] = IF @ = have[a] THEN PageEnd(a) ELSE @]
    /\ fin' = [fin EXCEPT ![a] = Max(Promoted(a) \cup {@})]
    /\ NextTurn(a, Finished(a), TRUE)
    /\ UNCHANGED <<sequencerVars, synced, faults>>

(* An error is answered: the app counts as finished. *)
PollRaises(a) ==
    /\ Turn(a) /\ Raises(a)
    /\ UNCHANGED <<sequencerVars, followerVars, faults>>
    /\ NextTurn(a, TRUE, FALSE)

(* There is no answer: the app counts as finished. *)
PollLost(a) ==
    /\ Turn(a) /\ faults < MaxFaults
    /\ faults' = faults + 1
    /\ UNCHANGED <<sequencerVars, followerVars>>
    /\ NextTurn(a, TRUE, FALSE)

(* send_batches ends: the flag is set if one answer was enough for all. *)
EndRound ==
    /\ round.active /\ round.todo = {} /\ round.app = None
    /\ synced' = (synced \/ round.single)
    /\ round' = NoRound
    /\ UNCHANGED <<sequencerVars, have, shared, fin, faults>>

-----------------------------------------------------------------------------
Next ==
    \/ \E a \in App : \/ Append1(a)
                      \/ \E i \in 1..MaxLen : Finalize(a, i)
                      \/ Poll(a)
                      \/ PollRaises(a)
                      \/ PollLost(a)
    \/ Restart
    \/ BeginRound
    \/ EndRound

Spec == Init /\ [][Next]_vars

(* run_node_tasks goes on calling send_batches, which goes on with its     *)
(* apps; a lost request is followed by others.                             *)
Fairness == /\ WF_vars(BeginRound) /\ WF_vars(EndRound)
            /\ \A a \in App : SF_vars(Poll(a)) /\ SF_vars(PollRaises(a))
FairSpec == Spec /\ Fairness

-----------------------------------------------------------------------------
(******************************** Properties ********************************)

(* Type invariant: indices are within bounds, and what is finalized is     *)
(* there, at the sequencer and at the follower.                            *)
TypeOK ==
    /\ \A a \in App : /\ last[a] \in 0..MaxLen /\ have[a] \in 0..MaxLen
                      /\ shared[a] \in 0..have[a] /\ shared[a] <= last[a]
                      /\ points[a] \subseteq 1..last[a]
                      /\ linked[a] \subseteq points[a]
                      /\ ends[a] \in Seq(points[a])
                      /\ fin[a] \in 0..have[a]
    /\ first \in 0..MaxLen
    /\ synced \in BOOLEAN
    /\ round.todo \subseteq App /\ round.app \in App \cup {None}

(* What a follower finalizes, the sequencer has finalized at that index,   *)
(* and both have the same batches up to it, although the follower asks and *)
(* appends by index only, and a sequencer that was restarted has given the *)
(* indices of batches that the follower still has to others.               *)
FinalizedIsTheSequencers ==
    \A a \in App : fin[a] \in points[a] \cup {0} /\ fin[a] <= shared[a]

(* The follower has batches that its sequencer has lost by a restart.      *)
Diverged(a) == shared[a] < have[a]

(* When a round sets the flag, the follower has every batch that was       *)
(* finalized when the round began, of every app about which no request of  *)
(* the round failed and of which it has no batches that the sequencer has  *)
(* lost: nodes that are still catching up are kept from signing and        *)
(* posting.  (The code compares indices only, and a round in which every   *)
(* request fails sets the flag too: in those cases it says nothing.)       *)
SyncedIsCaughtUp ==
    [][~ synced /\ synced' =>
         \A a \in App : round.due[a] = 0 \/ Diverged(a)]_vars

(* Where the follower is, the sequencer can go on from there: it still has *)
(* the batch in memory, and the signature that follows it is linked; and   *)
(* the follower's batches are the sequencer's.  The code does not see to   *)
(* it: first_finalized_index is that of another app or lost by a restart,  *)
(* a next_index is lost by a restart, the batch has been pruned, or the    *)
(* follower has batches that were lost by a restart.                       *)
CanGoOn(a) ==
    /\ ~ Diverged(a)
    /\ points[a] # {} => IF fin[a] = 0
                         THEN first = Min(points[a]) /\ Low(a) <= first
                         ELSE fin[a] >= Low(a) /\ (fin[a] = SeqFin(a) \/ fin[a] \in linked[a])

(* What the sequencer finalizes is finalized by a follower that keeps      *)
(* polling, however far behind it was, however the pages are cut and       *)
(* whatever requests are lost, as long as the sequencer can go on from     *)
(* where the follower is.                                                  *)
FinalizedReachesFollowers ==
    \A a \in App, i \in 1..MaxLen :
        []CanGoOn(a) => ((i \in points[a]) ~> (fin[a] >= i))
=============================================================================
