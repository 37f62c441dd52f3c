----------------------------- MODULE RateLimit ------------------------------
(***************************************************************************)
(* The two limiters on the way of a body from a follower to the sequencer: *)
(* the follower takes from its pool what its own window still allows and   *)
(* charges itself when the answer is in, the sequencer charges the same    *)
(* request when it arrives.  Both compute the limit from the registered    *)
(* nodes.  One app, one follower, no switch; a body is its size, and time  *)
(* is the age of what was charged.                                         *)
(***************************************************************************)
EXTENDS Integers, Sequences, SequencesExt

CONSTANTS
    Window,         \* zconfig.PUSH_RATE_LIMIT_WINDOW_SECONDS
    Limits,         \* values of node_send_limit_per_window_size_kb
    FirstLimit,     \* its value at the start
    Sizes,          \* sizes of bodies, up to MAX_BATCH_SIZE_KB
    MaxPosts,       \* bound: bodies that clients post
    MaxLost,        \* bound: requests or answers that are lost
    MaxBack,        \* bound: answers after which bodies go back to the pool
    MaxChanges      \* bound: changes of the limit

ASSUME RateLimitAssumption ==
    /\ Window \in Nat /\ Limits \in SUBSET Nat /\ FirstLimit \in Limits
    /\ Sizes \in SUBSET (Nat \ {0})
    /\ MaxPosts \in Nat /\ MaxLost \in Nat /\ MaxBack \in Nat
    /\ MaxChanges \in Nat

VARIABLES
    limit,      \* the limit that follows from the registered nodes
    own,        \* _limiter of node/rate_limit.py on the follower
    other,      \* _limiter of sequencer/rate_limit.py, for this follower
    pool,       \* initialized_batch_bodies of the follower
    request,    \* the PUT under way
    down,       \* is_sequencer_down of the follower
    taken,      \* history: what the sequencer took within the window
    delivered,  \* history: number of bodies that came back in an answer
    posted, lost, back, changes     \* counters of the bounds

rateVars ==
    <<limit, own, other, pool, request, down, taken, delivered, posted, lost, back, changes>>

NoRequest == [at |-> "none", bodies |-> << >>]
Total(sizes) ==
    LET sum[i \in 0..Len(sizes)] == IF i = 0 THEN 0 ELSE sum[i - 1] + sizes[i]
    IN  sum[Len(sizes)]
Costs(events) == [i \in DOMAIN events |-> events[i].cost]
Limiter(max) == [max |-> max, events |-> << >>, sum |-> 0]

RateInit ==
    /\ limit = FirstLimit
    /\ own = Limiter(FirstLimit) /\ other = Limiter(FirstLimit)
    /\ pool = << >> /\ request = NoRequest /\ down = FALSE /\ taken = << >>
    /\ delivered = 0 /\ posted = 0 /\ lost = 0 /\ back = 0 /\ changes = 0

-----------------------------------------------------------------------------
(************************ MovingWindowRateLimiter **************************)

(* bisect_left: how many of the events, oldest first, have left the window. *)
ExpireIdx(events) ==
    CHOOSE k \in 0..Len(events) : \A i \in DOMAIN events : i <= k <=> events[i].age > Window

Kept(events) == SubSeq(events, ExpireIdx(events) + 1, Len(events))

(* Mutant of Expired: the sum keeps what has left the window.              *)
ExpiredSumKept(l) == [l EXCEPT !.events = Kept(@)]

(* get_remaining_capacity drops what is older than the window.             *)
Expired(l) ==
    LET gone == SubSeq(l.events, 1, ExpireIdx(l.events))
    IN  [l EXCEPT !.events = Kept(@), !.sum = @ - Total(Costs(gone))]

Remaining(l) == IF l.max > l.sum THEN l.max - l.sum ELSE 0

(* Mutant of Acquires: a request that just exceeds the rest passes.        *)
AcquiresOneMore(l, cost) == cost = 0 \/ cost <= Remaining(Expired(l)) + 1

(* try_acquire: whether it succeeds, and the limiter after it.             *)
Acquires(l, cost) == cost = 0 \/ cost <= Remaining(Expired(l))

Acquired(l, cost) ==
    IF cost = 0 THEN l
    ELSE IF ~ Acquires(l, cost) THEN Expired(l)
    ELSE [Expired(l) EXCEPT !.events = Append(@, [age |-> 0, cost |-> cost]),
                            !.sum = @ + cost]

(* try_acquire_rate_limit_of_..., which looks up the limit first.          *)
Updated(l) == [l EXCEPT !.max = limit]

-----------------------------------------------------------------------------
(******************************** Requests *********************************)

(* pop_limited_initialized_batch_bodies: how many bodies fit into room.    *)
Limited(bodies, room) ==
    CHOOSE k \in 0..Len(bodies) :
        /\ Total(SubSeq(bodies, 1, k)) <= room
        /\ k < Len(bodies) => Total(SubSeq(bodies, 1, k + 1)) > room

(* put_batches of node/routers.py on the follower.                         *)
Post(size) ==
    /\ posted < MaxPosts
    /\ pool' = Append(pool, size)
    /\ posted' = posted + 1
    /\ UNCHANGED <<limit, own, other, request, down, taken, delivered, lost, back, changes>>

(* send_app_batches up to the PUT.  The remaining capacity is computed     *)
(* with the limit of the last charge.                                      *)
Send ==
    /\ request = NoRequest
    /\ own' = Expired(own)
    /\ LET k == Limited(pool, Remaining(own'))
       IN  /\ request' = [at |-> "wire", bodies |-> SubSeq(pool, 1, k)]
           /\ pool' = SubSeq(pool, k + 1, Len(pool))
    /\ UNCHANGED <<limit, other, down, taken, delivered, posted, lost, back, changes>>

(* put_batches of sequencer/routers.py: the bodies are appended, or        *)
(* BatchesLimitExceededError is the answer.                                *)
Arrive ==
    LET cost == Total(request.bodies)
        passes == Acquires(Updated(other), cost)
    IN  /\ request.at = "wire"
        /\ other' = Acquired(Updated(other), cost)
        /\ request' = [request EXCEPT !.at = IF passes THEN "served" ELSE "refused"]
        /\ taken' = IF passes /\ cost > 0
                    THEN Append(taken, [age |-> 0, cost |-> cost]) ELSE taken
        /\ UNCHANGED <<limit, own, pool, down, delivered, posted, lost, back, changes>>

(* Bodies that the page of the answer does not reach go back to the pool,  *)
(* in any order of the set that they are in.                               *)
PutBack ==
    \E n \in 0..Len(request.bodies) :
        /\ delivered' = delivered + n
        /\ IF n = Len(request.bodies) THEN UNCHANGED <<pool, back>>
           ELSE /\ back < MaxBack /\ back' = back + 1
                /\ \E order \in SetToSeqs(n + 1..Len(request.bodies)) :
                     pool' = [i \in DOMAIN order |-> request.bodies[order[i]]] \o pool

(* Mutant of Answered: the follower charges itself nothing.                *)
AnsweredFree ==
    /\ request.at = "served"
    /\ own' = Updated(own)
    /\ request' = NoRequest
    /\ down' = FALSE
    /\ PutBack
    /\ UNCHANGED <<limit, other, taken, posted, lost, changes>>

(* The answer is in: the follower charges itself.                          *)
Answered ==
    /\ request.at = "served"
    /\ own' = Acquired(Updated(own), Total(request.bodies))
    /\ request' = NoRequest
    /\ down' = FALSE
    /\ PutBack
    /\ UNCHANGED <<limit, other, taken, posted, lost, changes>>

(* The bodies go back to the pool and the sequencer counts as down.        *)
GiveUp ==
    /\ pool' = Reverse(request.bodies) \o pool
    /\ request' = NoRequest
    /\ down' = TRUE

(* The follower fails over the answer, after it has charged itself.        *)
AnswerFails ==
    /\ request.at = "served" /\ back < MaxBack
    /\ own' = Acquired(Updated(own), Total(request.bodies))
    /\ GiveUp
    /\ back' = back + 1
    /\ UNCHANGED <<limit, other, taken, delivered, posted, lost, changes>>

(* The answer is an error.                                                 *)
Refused ==
    /\ request.at = "refused"
    /\ GiveUp
    /\ UNCHANGED <<limit, own, other, taken, delivered, posted, lost, back, changes>>

(* The request or its answer is lost.                                      *)
Lose ==
    /\ request # NoRequest /\ lost < MaxLost
    /\ GiveUp
    /\ lost' = lost + 1
    /\ UNCHANGED <<limit, own, other, taken, delivered, posted, back, changes>>

(* fetch_network_state finds another number of nodes.                      *)
Refresh(new) ==
    /\ changes < MaxChanges /\ new # limit
    /\ limit' = new
    /\ changes' = changes + 1
    /\ UNCHANGED <<own, other, pool, request, down, taken, delivered, posted, lost, back>>

(* Ages beyond the window are all alike.                                   *)
Older(events) ==
    [i \in DOMAIN events |->
        [events[i] EXCEPT !.age = IF @ > Window THEN @ ELSE @ + 1]]

Age ==
    /\ own' = [own EXCEPT !.events = Older(@)]
    /\ other' = [other EXCEPT !.events = Older(@)]
    /\ taken' = Kept(Older(taken))
    /\ UNCHANGED <<limit, pool, request, down, delivered, posted, lost, back, changes>>

RateNext ==
    \/ \E size \in Sizes : Post(size)
    \/ Send \/ Arrive \/ Answered \/ AnswerFails \/ Refused \/ Lose \/ Age
    \/ \E new \in Limits : Refresh(new)

RateSpec == RateInit /\ [][RateNext]_rateVars

(* The send loop runs every 50 ms, requests are served and time passes.    *)
Fairness == WF_rateVars(Send) /\ WF_rateVars(Arrive) /\ WF_rateVars(Answered)
            /\ WF_rateVars(Refused) /\ WF_rateVars(Age)

FairRateSpec == RateSpec /\ Fairness

-----------------------------------------------------------------------------
(******************************** Properties ********************************)

LimiterOK(l) ==
    /\ l.max \in Limits
    /\ l.events \in Seq([age : 0..Window + 1, cost : Nat \ {0}])
    /\ l.sum = Total(Costs(l.events))

(* Type invariant; the sum that a limiter keeps step by step is that of    *)
(* the events that it lists.                                               *)
RateTypeOK ==
    /\ limit \in Limits /\ LimiterOK(own) /\ LimiterOK(other)
    /\ pool \in Seq(Sizes)
    /\ request \in [at : {"none", "wire", "served", "refused"}, bodies : Seq(Sizes)]
    /\ down \in BOOLEAN

(* What the sequencer takes from a node never exceeds, together with what  *)
(* it took within the window before, the limit at that moment, whatever is *)
(* sent again and however the limit changes.                               *)
TakenWithinLimit ==
    [][taken' # taken /\ Len(taken') > Len(taken) => Total(Costs(taken')) <= limit]_rateVars

(* The follower charges itself later than the sequencer charges it, so its *)
(* window is never ahead of the sequencer's: as long as no request was     *)
(* lost and the limit is the same, none is refused.                        *)
NoneRefused == lost = 0 /\ changes = 0 => request.at # "refused"

(* The bodies that clients have posted are all sent in the end, also if    *)
(* single requests are lost, answers are too short or raise and the        *)
(* retries meet the sequencer's limit, if                                  *)
(* each of them fits and the follower does not reckon with a limit that    *)
(* has shrunk since: it would go on sending more than the sequencer takes, *)
(* for only an answer tells it of the new limit.                           *)
Reckons == own.max <= limit /\ \A i \in DOMAIN pool : pool[i] <= own.max
PoolIsSent == []Reckons => <>[](delivered = posted)
=============================================================================
