---------------------------- MODULE BatchProofs -----------------------------
(***************************************************************************)
(* No body that a client was told is received is lost, whatever happens to *)
(* the requests, to the sequencer and to the node's role; and every batch  *)
(* sequence that is made of batches is a piece of the log: the memory, the *)
(* chunks, what a filter selects and what a page holds.                    *)
(***************************************************************************)
EXTENDS BatchPool, BatchSequences, SequenceLemmas

-----------------------------------------------------------------------------
(******************************** Batch pool ********************************)
(* A node that waits for no answer has no bodies out.                      *)
NothingOut == request.state = "none" => request.bodies = << >>

(* The inductive invariant behind NoBodyLost: without NothingOut, the next *)
(* request could overwrite bodies of the one before.                       *)
PoolInv == TypeOK /\ NothingOut /\ NoBodyLost

-----------------------------------------------------------------------------
(* What puts bodies back into the pool loses none and invents none.        *)
LEMMA ReinitProperties ==
    ASSUME NEW bodies \in Seq(Body), pool \in Seq(Body)
    PROVE  /\ Reinit(bodies) \in Seq(Body)
           /\ ToSet(Reinit(bodies)) = ToSet(bodies) \cup ToSet(pool)
<1>1. Reverse(bodies) \in Seq(Body) /\ ToSet(Reverse(bodies)) = ToSet(bodies)
    BY ReverseProperties
<1> QED
    BY <1>1, ConcatProperties, ToSetConcat DEF Reinit

(* The bodies of a request are in its answer or go back to the pool.       *)
LEMMA CensoredProperties ==
    ASSUME TypeOK, Censored
    PROVE  /\ pool' \in Seq(Body)
           /\ ToSet(pool') = Missing \cup ToSet(pool)
<1>1. PICK bodies \in SetToSeqs(Missing) : pool' = Reinit(bodies)
    BY DEF Censored
<1>2. request.bodies \in Seq(Body) /\ pool \in Seq(Body)
    BY DEF TypeOK, Request
<1>3. IsFiniteSet(Missing) /\ Missing \subseteq Body
  <2>1. ToSet(request.bodies) \subseteq Body /\ IsFiniteSet(ToSet(request.bodies))
    BY <1>2, ToSetProperties
  <2>2. Missing \in SUBSET ToSet(request.bodies)
    BY DEF Missing
  <2> QED
    BY <2>1, <2>2, FS_Subset
<1>4. bodies \in Seq(Missing) /\ ToSet(bodies) = Missing
    BY <1>1, <1>3, SetToSeqsProperties
<1>5. bodies \in Seq(Body)
    BY <1>3, <1>4, SeqMonotonic
<1> QED
    BY <1>1, <1>2, <1>4, <1>5, ReinitProperties

(* A page of an answer is a part of the log that it is taken from.         *)
LEMMA PageType ==
    ASSUME NEW sequence \in Seq(Body), NEW i \in Nat
    PROVE  PageAfter(sequence, i) \in Seq(Body)
<1> DEFINE e == Min({Len(sequence), i + PageSize})
<1>1. Len(sequence) \in Nat /\ PageSize \in Nat
    BY PageAssumption, LenProperties
<1>2. e \in Int /\ e <= Len(sequence) /\ i + 1 \in Nat \ {0}
    BY <1>1, MinPair
<1>3. SubSeq(sequence, i + 1, e) \in Seq(Body)
  <2> HIDE DEF e
  <2> QED
    BY <1>2, SubSeqType
<1> QED
    BY <1>3 DEF PageAfter

(* A client's body is put into the pool or the log.                        *)
LEMMA PutBatchesInv ==
    ASSUME PoolInv, NEW b \in Mine, PutBatches(b)
    PROVE  PoolInv'
<1> b \in Body
    BY DEF Body
<1>1. TypeOK'
  <2>1. CASE leads
    <3>1. log' = Append(log, b) /\ pool' = pool
      BY <2>1 DEF PutBatches
    <3>2. log \in Seq(Body) /\ lock \in 0..Len(log)
      BY DEF PoolInv, TypeOK
    <3>3. log' \in Seq(Body) /\ Len(log') = Len(log) + 1 /\ Len(log) \in Nat
      BY <3>1, <3>2, AppendProperties, LenProperties
    <3>4. lock \in 0..Len(log')
      BY <3>2, <3>3
    <3> QED
      BY <3>1, <3>3, <3>4 DEF PoolInv, TypeOK, PutBatches, seqVars, switchVars
  <2>2. CASE ~ leads
    <3>1. pool' = Append(pool, b) /\ log' = log
      BY <2>2 DEF PutBatches
    <3>2. pool' \in Seq(Body)
      BY <3>1, AppendProperties DEF PoolInv, TypeOK
    <3> QED
      BY <3>1, <3>2 DEF PoolInv, TypeOK, PutBatches, seqVars, switchVars
  <2> QED
    BY <2>1, <2>2
<1>2. NothingOut'
    BY DEF PoolInv, NothingOut, PutBatches
<1>3. NoBodyLost'
  <2>1. accepted' = accepted \cup {b} /\ request' = request /\ cleared' = cleared
    BY DEF PutBatches
  <2>2. pool \in Seq(Body) /\ log \in Seq(Body)
    BY DEF PoolInv, TypeOK
  <2>3. CASE leads
    <3>1. ToSet(log') = ToSet(log) \cup {b} /\ pool' = pool
      <4>1. log' = Append(log, b) /\ pool' = pool
        BY <2>3 DEF PutBatches
      <4>2. ToSet(Append(log, b)) = ToSet(log) \cup {b}
        BY <2>2, ToSetAppend
      <4> QED
        BY <4>1, <4>2
    <3> QED
      BY <2>1, <3>1 DEF PoolInv, NoBodyLost
  <2>4. CASE ~ leads
    <3>1. ToSet(pool') = ToSet(pool) \cup {b} /\ log' = log
      <4>1. pool' = Append(pool, b) /\ log' = log
        BY <2>4 DEF PutBatches
      <4>2. ToSet(Append(pool, b)) = ToSet(pool) \cup {b}
        BY <2>2, ToSetAppend
      <4> QED
        BY <4>1, <4>2
    <3> QED
      BY <2>1, <3>1 DEF PoolInv, NoBodyLost
  <2> QED
    BY <2>3, <2>4
<1> QED
    BY <1>1, <1>2, <1>3 DEF PoolInv

(* Sending moves the first bodies of the pool into the request.            *)
LEMMA SendInv ==
    ASSUME PoolInv, NEW n \in 0..Len(pool), Send(n)
    PROVE  PoolInv'
<1> DEFINE first == SubSeq(pool, 1, n)
           rest == SubSeq(pool, n + 1, Len(pool))
<1>1. /\ pool' = rest /\ log' = log /\ cleared' = cleared /\ accepted' = accepted
      /\ request' = [bodies |-> first, after |-> Len(log), epoch |-> switches,
                     reply |-> << >>, state |-> "sent"]
    BY DEF Send, NoRequest, history
<1>2. first \in Seq(Body) /\ rest \in Seq(Body) /\ ToSet(pool) = ToSet(first) \cup ToSet(rest)
    BY SplitProperties DEF PoolInv, TypeOK
<1>3. request.bodies = << >>
  <2>1. loop # "wait"
    BY DEF Send
  <2> QED
    BY <2>1 DEF PoolInv, TypeOK, NothingOut
<1> HIDE DEF first, rest
<1>4. TypeOK'
  <2>1. Len(log) \in Nat /\ switches \in Nat
    BY BoundAssumption, LenProperties DEF PoolInv, TypeOK
  <2>2. request' \in Request
    BY <1>1, <1>2, <2>1 DEF Request
  <2> QED
    BY <1>1, <1>2, <2>2 DEF PoolInv, TypeOK, Send, seqVars, switchVars
<1>5. NothingOut'
    BY <1>1 DEF NothingOut
<1>6. NoBodyLost'
    BY <1>1, <1>2, <1>3, ToSetEmpty DEF PoolInv, NoBodyLost
<1> QED
    BY <1>4, <1>5, <1>6 DEF PoolInv

(* A handler adds to a log; the bodies stay in the request.                *)
LEMMA HandleInv ==
    ASSUME PoolInv, Handle
    PROVE  PoolInv'
<1>1. Target \in Seq(Body) /\ request \in Request /\ log \in Seq(Body) /\ slog \in Seq(Body)
    BY DEF PoolInv, TypeOK, Target
<1>2. PICK taken \in {request.bodies, << >>} :
        LET after == Target \o taken
        IN  /\ request' = [request EXCEPT !.state = "answered",
                                          !.reply = PageAfter(after, request.after)]
            /\ log' = IF Self THEN after ELSE log
            /\ slog' = IF ~ Self /\ request.epoch = switches THEN after ELSE slog
    BY Zenon DEF Handle
<1> DEFINE after == Target \o taken
           page == PageAfter(after, request.after)
<1>3. taken \in Seq(Body) /\ request.after \in Nat
    BY <1>1, <1>2, EmptySeq DEF Request
<1>4. after \in Seq(Body) /\ Len(after) = Len(Target) + Len(taken)
    BY <1>1, <1>3, ConcatProperties
<1>5. page \in Seq(Body)
    BY <1>3, <1>4, PageType
<1>6. /\ request' = [request EXCEPT !.state = "answered", !.reply = page]
      /\ log' = IF Self THEN after ELSE log
      /\ slog' = IF ~ Self /\ request.epoch = switches THEN after ELSE slog
    BY <1>2
<1>7. /\ Len(log') >= Len(log) /\ Len(log) \in Nat /\ Len(log') \in Nat
      /\ ToSet(log) \subseteq ToSet(log')
  <2>1. CASE Self
    <3>1. Target = log /\ log' = after
      BY <1>6, <2>1 DEF Target
    <3>2. ToSet(after) = ToSet(log) \cup ToSet(taken)
      BY <1>1, <1>3, <3>1, ToSetConcat
    <3> QED
      BY <1>1, <1>3, <1>4, <3>1, <3>2, LenProperties
  <2>2. CASE ~ Self
    BY <1>1, <1>6, <2>2, LenProperties
  <2> QED
    BY <2>1, <2>2
<1> HIDE DEF after, page
<1>8. request' \in Request /\ request'.bodies = request.bodies /\ request'.state = "answered"
    BY <1>1, <1>5, <1>6 DEF Request
<1>9. TypeOK'
  <2>1. log' \in Seq(Body) /\ slog' \in Seq(Body) /\ old' \in Seq(Body)
    BY <1>1, <1>4, <1>6, EmptySeq DEF Handle
  <2>2. lock \in 0..Len(log')
    BY <1>7 DEF PoolInv, TypeOK
  <2>3. request.state = "sent"
    BY DEF Handle
  <2> QED
    BY <1>8, <2>1, <2>2, <2>3 DEF PoolInv, TypeOK, Handle, switchVars, history
<1>10. NothingOut'
    BY <1>8 DEF NothingOut
<1>11. NoBodyLost'
    BY <1>7, <1>8 DEF PoolInv, NoBodyLost, Handle, history
<1> QED
    BY <1>9, <1>10, <1>11 DEF PoolInv

(* An answer puts the bodies in it into the log, the others into the pool. *)
LEMMA AnswerInv ==
    ASSUME PoolInv, Answer
    PROVE  PoolInv'
<1>1. /\ log' = log \o request.reply /\ down' = FALSE /\ request' = NoRequest
      /\ request.state = "answered" /\ loop' \in {"check", "again"}
    BY DEF Answer, Continue
<1>2. /\ request \in Request /\ log \in Seq(Body) /\ pool \in Seq(Body)
      /\ request.bodies \in Seq(Body) /\ request.reply \in Seq(Body)
    BY DEF PoolInv, TypeOK, Request
<1>3. /\ log' \in Seq(Body) /\ Len(log') = Len(log) + Len(request.reply)
      /\ ToSet(log') = ToSet(log) \cup ToSet(request.reply)
    BY <1>1, <1>2, ConcatProperties, ToSetConcat
<1>4. /\ pool' \in Seq(Body) /\ censoring' \in BOOLEAN
      /\ ToSet(pool') = Missing \cup ToSet(pool)
  <2>1. CASE Missing # {}
    <3>1. Censored
      BY <2>1 DEF Answer
    <3> QED
      BY <3>1, CensoredProperties DEF PoolInv, Censored
  <2>2. CASE Missing = {}
    BY <1>2, <2>2 DEF Answer
  <2> QED
    BY <2>1, <2>2
<1>5. NoRequest \in Request /\ NoRequest.state = "none" /\ NoRequest.bodies = << >>
    BY EmptySeq DEF NoRequest, Request
<1>6. TypeOK'
  <2>1. lock \in 0..Len(log')
    BY <1>2, <1>3, LenProperties DEF PoolInv, TypeOK
  <2> QED
    BY <1>1, <1>3, <1>4, <1>5, <2>1 DEF PoolInv, TypeOK, Answer, seqVars, switchVars, history
<1>7. NothingOut'
    BY <1>1, <1>5 DEF NothingOut
<1>8. NoBodyLost'
  <2>1. ToSet(request.bodies) \subseteq Missing \cup ToSet(request.reply)
    BY DEF Missing
  <2> QED
    BY <1>3, <1>4, <2>1 DEF PoolInv, NoBodyLost, Answer, history
<1> QED
    BY <1>6, <1>7, <1>8 DEF PoolInv

(* After a failure all bodies are in the pool again.                       *)
LEMMA FailureInv ==
    ASSUME PoolInv, Failure \/ NotSequencer
    PROVE  PoolInv'
<1>1. /\ pool' = Reinit(request.bodies) /\ down' \in {TRUE, down} /\ request' = NoRequest
      /\ loop' \in {"check", "reset"}
      /\ UNCHANGED <<log, lock, censoring, slog, old, alive, leads, switch, switches,
                     accepted, cleared>>
    BY DEF Failure, NotSequencer, Continue, seqVars, switchVars, history
<1>2. request.bodies \in Seq(Body) /\ pool \in Seq(Body)
    BY DEF PoolInv, TypeOK, Request
<1>3. pool' \in Seq(Body) /\ ToSet(pool') = ToSet(request.bodies) \cup ToSet(pool)
    BY <1>1, <1>2, ReinitProperties
<1>4. NoRequest \in Request /\ NoRequest.state = "none" /\ NoRequest.bodies = << >>
    BY EmptySeq DEF NoRequest, Request
<1>5. TypeOK'
    BY <1>1, <1>3, <1>4 DEF PoolInv, TypeOK
<1>6. NothingOut'
    BY <1>1, <1>4 DEF NothingOut
<1>7. NoBodyLost'
    BY <1>1, <1>3 DEF PoolInv, NoBodyLost
<1> QED
    BY <1>5, <1>6, <1>7 DEF PoolInv

LEMMA AnswerRaisesInv ==
    ASSUME PoolInv, AnswerRaises
    PROVE  PoolInv'
<1>1. /\ pool' = Reinit(request.bodies) /\ down' = TRUE /\ request' = NoRequest
      /\ loop' = "check" /\ log' = log \o request.reply
    BY DEF AnswerRaises, Continue
<1>2. /\ request.bodies \in Seq(Body) /\ request.reply \in Seq(Body)
      /\ pool \in Seq(Body) /\ log \in Seq(Body) /\ lock \in 0..Len(log)
    BY DEF PoolInv, TypeOK, Request
<1>3. pool' \in Seq(Body) /\ ToSet(pool') = ToSet(request.bodies) \cup ToSet(pool)
    BY <1>1, <1>2, ReinitProperties
<1>4. /\ log' \in Seq(Body) /\ Len(log') = Len(log) + Len(request.reply)
      /\ ToSet(log') = ToSet(log) \cup ToSet(request.reply)
    BY <1>1, <1>2, ConcatProperties, ToSetConcat
<1>5. NoRequest \in Request /\ NoRequest.state = "none" /\ NoRequest.bodies = << >>
    BY EmptySeq DEF NoRequest, Request
<1>6. TypeOK'
  <2>1. lock \in 0..Len(log')
    BY <1>2, <1>4, LenProperties
  <2> QED
    BY <1>1, <1>3, <1>4, <1>5, <2>1
       DEF PoolInv, TypeOK, AnswerRaises, seqVars, switchVars, history
<1>7. NothingOut'
    BY <1>1, <1>5 DEF NothingOut
<1>8. NoBodyLost'
    BY <1>3, <1>4 DEF PoolInv, NoBodyLost, AnswerRaises, history
<1> QED
    BY <1>6, <1>7, <1>8 DEF PoolInv

(* Locking moves the lock within the log.                                  *)
LEMMA LockInv ==
    ASSUME PoolInv, Lock
    PROVE  PoolInv'
<1>1. /\ UNCHANGED <<pool, log, censoring, down, loop, request, slog, old, alive,
                     leads, switch, switches, accepted, cleared>>
      /\ \E i \in lock + 1..Min({Len(log), Len(slog)}) : lock' = i
    BY DEF Lock, seqVars, switchVars, history
<1>2. lock' \in 0..Len(log)
  <2>1. Len(log) \in Nat /\ Len(slog) \in Nat /\ lock \in 0..Len(log)
    BY LenProperties DEF PoolInv, TypeOK
  <2>2. Min({Len(log), Len(slog)}) \in Int /\ Min({Len(log), Len(slog)}) <= Len(log)
    BY <2>1, MinPair
  <2> QED
    BY <1>1, <2>1, <2>2
<1> QED
    BY <1>1, <1>2 DEF PoolInv, TypeOK, NothingOut, NoBodyLost

(* What the loop does besides, outside of "wait", touches no body.         *)
LEMMA DisputeInv ==
    ASSUME PoolInv,
           NoDispute \/ DisputeRaises \/ SendDispute \/ DisputeRefused \/ ResetSkipped
    PROVE  PoolInv'
<1>1. /\ UNCHANGED <<pool, log, lock, censoring, down, request, slog, old, alive,
                     leads, switch, switches, accepted, cleared>>
      /\ loop \in {"check", "ask", "reset"} /\ loop' \in {"top", "ask", "check"}
    BY DEF NoDispute, DisputeRaises, SendDispute, DisputeRefused, ResetSkipped, Continue,
           nodeVars, seqVars, switchVars, history
<1> QED
    BY <1>1 DEF PoolInv, TypeOK, NothingOut, NoBodyLost

(* A body of another node is put into the pool.                            *)
LEMMA PostDisputeInv ==
    ASSUME PoolInv, NEW b \in Others, NEW same \in BOOLEAN, PostDispute(b, same)
    PROVE  PoolInv'
<1>1. /\ pool' = Append(pool, b)
      /\ UNCHANGED <<log, lock, censoring, down, loop, request, slog, old, alive,
                     leads, switch, switches, accepted, cleared>>
    BY DEF PostDispute, seqVars, switchVars, history
<1>2. pool' \in Seq(Body) /\ ToSet(pool) \subseteq ToSet(pool')
  <2>1. pool \in Seq(Body) /\ b \in Body
    BY DEF PoolInv, TypeOK, Body
  <2> QED
    BY <1>1, <2>1, AppendProperties, ToSetAppend
<1> QED
    BY <1>1, <1>2 DEF PoolInv, TypeOK, NothingOut, NoBodyLost

LEMMA OthersInv ==
    ASSUME PoolInv, (\E b \in Others : OtherPosts(b)) \/ Dies
    PROVE  PoolInv'
<1>1. /\ UNCHANGED <<pool, log, lock, censoring, down, loop, request, old,
                     leads, switch, switches, accepted, cleared>>
      /\ slog' \in Seq(Body) /\ alive' \in BOOLEAN
  <2>1. ASSUME NEW b \in Others, OtherPosts(b)
        PROVE  slog' \in Seq(Body)
    <3>1. slog \in Seq(Body) /\ b \in Body /\ slog' = Append(slog, b)
      BY <2>1 DEF PoolInv, TypeOK, Body, OtherPosts
    <3> QED
      BY <3>1, AppendProperties
  <2> QED
    BY <2>1 DEF PoolInv, TypeOK, OtherPosts, Dies, nodeVars, switchVars, history
<1> QED
    BY <1>1 DEF PoolInv, TypeOK, NothingOut, NoBodyLost

(* What the next sequencer may have is made of bodies.                     *)
LEMMA NextLogsType == PoolInv => NextLogs \subseteq Seq(Body)
<1> SUFFICES ASSUME PoolInv, NEW next \in NextLogs
             PROVE  next \in Seq(Body)
    OBVIOUS
<1> DEFINE before == IF leads THEN log ELSE slog
<1>1. before \in Seq(Body) /\ log \in Seq(Body) /\ lock \in 0..Len(log)
    BY DEF PoolInv, TypeOK
<1>2. PICK k \in lock..Max({lock, Len(before)}) :
        next = SubSeq(log, 1, lock) \o SubSeq(before, lock + 1, Min({k, Len(before)}))
    BY DEF NextLogs
<1> DEFINE e == Min({k, Len(before)})
<1>3. k \in Int /\ Len(before) \in Nat /\ lock + 1 \in Nat \ {0}
    BY <1>1, LenProperties
<1>4. e \in Int /\ e <= Len(before)
    BY <1>3, MinPair
<1>5. next = SubSeq(log, 1, lock) \o SubSeq(before, lock + 1, e)
    BY <1>2
<1> HIDE DEF e, before
<1>6. SubSeq(log, 1, lock) \in Seq(Body) /\ SubSeq(before, lock + 1, e) \in Seq(Body)
    BY <1>1, <1>3, <1>4, SplitProperties, SubSeqType
<1> QED
    BY <1>5, <1>6, ConcatProperties

(* A switch that begins changes the sequencer and no body of the node.     *)
LEMMA BeginSwitchInv ==
    ASSUME PoolInv, NEW toSelf \in BOOLEAN, BeginSwitch(toSelf)
    PROVE  PoolInv'
<1>1. log \in Seq(Body) /\ slog \in Seq(Body)
    BY DEF PoolInv, TypeOK
<1>2. /\ UNCHANGED <<pool, log, lock, censoring, down, request, accepted, cleared>>
      /\ switch' = "begun" /\ switches' = switches + 1 /\ switches < MaxSwitches
      /\ leads' = toSelf /\ alive' = TRUE
      /\ loop' = IF loop = "ask" THEN "top" ELSE loop
      /\ old' \in {log, slog, << >>}
    BY DEF BeginSwitch, nodeVars, history
<1>3. slog' \in Seq(Body)
  <2>1. CASE toSelf
    BY <2>1, EmptySeq DEF BeginSwitch
  <2>2. CASE ~ toSelf
    BY <2>2, NextLogsType DEF BeginSwitch
  <2> QED
    BY <2>1, <2>2
<1>4. old' \in Seq(Body)
    BY <1>1, <1>2, EmptySeq
<1>5. switches' \in 0..MaxSwitches
    BY <1>2, BoundAssumption DEF PoolInv, TypeOK
<1>6. TypeOK'
    BY <1>2, <1>3, <1>4, <1>5 DEF PoolInv, TypeOK
<1> QED
    BY <1>2, <1>6 DEF PoolInv, NothingOut, NoBodyLost

(* What is cut off the log goes to the pool.                               *)
LEMMA CutInv ==
    ASSUME PoolInv, Cut \/ ResetSequencer
    PROVE  PoolInv'
<1> DEFINE kept == SubSeq(log, 1, lock)
           rest == SubSeq(log, lock + 1, Len(log))
<1>1. /\ pool' = pool \o rest /\ log' = kept
      /\ UNCHANGED <<lock, censoring, down, request, old, accepted, cleared>>
    BY DEF Cut, ResetSequencer, seqVars, history
<1>2. pool \in Seq(Body) /\ log \in Seq(Body) /\ lock \in 0..Len(log)
    BY DEF PoolInv, TypeOK
<1>3. /\ kept \in Seq(Body) /\ Len(kept) = lock /\ rest \in Seq(Body)
      /\ ToSet(log) = ToSet(kept) \cup ToSet(rest)
    BY <1>2, SplitProperties
<1>4. /\ switch' \in {"cut", switch} /\ leads' \in {leads, FALSE} /\ alive' \in {alive, TRUE}
      /\ loop' = loop \/ (loop = "reset" /\ loop' = "check")
      /\ slog' = slog \/ slog' \in NextLogs
      /\ switches' = switches \/ (switches' = switches + 1 /\ switches < MaxSwitches)
    BY DEF Cut, ResetSequencer, Continue, seqVars
<1> HIDE DEF kept, rest
<1>5. pool' \in Seq(Body) /\ ToSet(pool') = ToSet(pool) \cup ToSet(rest)
    BY <1>1, <1>2, <1>3, ConcatProperties, ToSetConcat
<1>6. TypeOK'
  <2>1. lock \in 0..Len(log')
    BY <1>1, <1>2, <1>3, LenProperties
  <2>2. slog' \in Seq(Body)
    BY <1>4, NextLogsType DEF PoolInv, TypeOK
  <2>3. switches' \in 0..MaxSwitches
    BY <1>4, BoundAssumption DEF PoolInv, TypeOK
  <2> QED
    BY <1>1, <1>3, <1>4, <1>5, <2>1, <2>2, <2>3 DEF PoolInv, TypeOK
<1> QED
    BY <1>1, <1>3, <1>5, <1>6 DEF PoolInv, NothingOut, NoBodyLost

(* A new sequencer clears its pool: the one step after which bodies may be *)
(* nowhere.                                                                *)
LEMMA EndSwitchInv ==
    ASSUME PoolInv, EndSwitch
    PROVE  PoolInv'
<1>1. /\ UNCHANGED <<log, lock, censoring, down, loop, request, slog, old, alive,
                     leads, switches, accepted>>
      /\ switch' = "none"
      /\ \/ pool' = << >> /\ cleared' = cleared \cup ToSet(pool)
         \/ UNCHANGED <<pool, cleared>>
    BY DEF EndSwitch, seqVars
<1>2. pool' \in Seq(Body) /\ cleared' \subseteq Body
  <2>1. pool \in Seq(Body) /\ ToSet(pool) \subseteq Body
    BY ToSetProperties DEF PoolInv, TypeOK
  <2> QED
    BY <1>1, <2>1, EmptySeq DEF PoolInv, TypeOK
<1>3. ToSet(pool) \cup cleared \subseteq ToSet(pool') \cup cleared'
    BY <1>1
<1> QED
    BY <1>1, <1>2, <1>3 DEF PoolInv, TypeOK, NothingOut, NoBodyLost

-----------------------------------------------------------------------------
(* The invariant of all steps, which the two theorems after it share.      *)
LEMMA PoolInvariant == Spec => []PoolInv
<1>1. Init => PoolInv
  <2> SUFFICES ASSUME Init PROVE PoolInv
    OBVIOUS
  <2>1. NoRequest \in Request /\ NoRequest.state = "none" /\ NoRequest.bodies = << >>
    BY EmptySeq DEF NoRequest, Request
  <2>2. << >> \in Seq(Body) /\ Len(<< >>) = 0 /\ 0 \in 0..MaxSwitches
    BY EmptySeq, BoundAssumption
  <2>3. TypeOK
    <3>1. lock \in 0..Len(log) /\ (request.state # "none" <=> loop = "wait")
      BY <2>1, <2>2 DEF Init
    <3> QED
      BY <2>1, <2>2, <3>1, Zenon DEF Init, TypeOK
  <2>4. NothingOut /\ NoBodyLost
    BY <2>1 DEF Init, NothingOut, NoBodyLost
  <2> QED
    BY <2>3, <2>4 DEF PoolInv
<1>2. PoolInv /\ [Next]_vars => PoolInv'
  <2> SUFFICES ASSUME PoolInv, [Next]_vars PROVE PoolInv'
    OBVIOUS
  <2>1. CASE \E b \in Mine : PutBatches(b)
    BY <2>1, PutBatchesInv
  <2>2. CASE \E n \in 0..Len(pool) : Send(n)
    BY <2>2, SendInv
  <2>3. CASE Handle
    BY <2>3, HandleInv
  <2>4. CASE Answer
    BY <2>4, AnswerInv
  <2>5. CASE Failure \/ NotSequencer
    BY <2>5, FailureInv
  <2>6. CASE AnswerRaises
    BY <2>6, AnswerRaisesInv
  <2>7. CASE Lock
    BY <2>7, LockInv
  <2>8. CASE NoDispute \/ DisputeRaises \/ SendDispute \/ DisputeRefused \/ ResetSkipped
    BY <2>8, DisputeInv
  <2>9. CASE \E b \in Others, same \in BOOLEAN : PostDispute(b, same)
    BY <2>9, PostDisputeInv
  <2>10. CASE (\E b \in Others : OtherPosts(b)) \/ Dies
    BY <2>10, OthersInv
  <2>11. CASE \E toSelf \in BOOLEAN : BeginSwitch(toSelf)
    BY <2>11, BeginSwitchInv
  <2>12. CASE Cut \/ ResetSequencer
    BY <2>12, CutInv
  <2>13. CASE EndSwitch
    BY <2>13, EndSwitchInv
  <2>14. CASE UNCHANGED vars
    BY <2>14 DEF vars, nodeVars, seqVars, switchVars, history,
                 PoolInv, TypeOK, NothingOut, NoBodyLost
  <2> QED
    BY <2>1, <2>2, <2>3, <2>4, <2>5, <2>6, <2>7, <2>8, <2>9, <2>10, <2>11, <2>12,
       <2>13, <2>14 DEF Next
<1> QED
    BY <1>1, <1>2, PTL DEF Spec

(* Every reachable state is well typed: the lock stays within the log, and *)
(* the loop waits exactly while a request is out.                          *)
THEOREM TypeCorrect == Spec => []TypeOK
BY PoolInvariant, PTL DEF PoolInv

(* Whatever is lost or raised on the way of a request, and whatever a      *)
(* switch beside it does, a body that a client put to the node is in the   *)
(* pool, the request, the log, or was cleared by a new sequencer.          *)
THEOREM BodiesKept == Spec => []NoBodyLost
BY PoolInvariant, PTL DEF PoolInv

-----------------------------------------------------------------------------
(***************************** Batch sequences *****************************)
(* Every sequence that the program makes is a piece of the log, with the   *)
(* states that the log has: the batches from index a to b, and what of the *)
(* locked and of the finalized ones is among them.                         *)

Part(a, b, x) == IF a <= b /\ a <= x THEN (IF x <= b THEN x ELSE b) ELSE 0

Piece(whole, f, k, a, b) ==
    [offset |-> a, batches |-> SubSeq(whole, a, b),
     last |-> [locked |-> Part(a, b, k), finalized |-> Part(a, b, f)]]

(* A log of which the first f batches are finalized, the first k locked.   *)
LogOK(whole, f, k) ==
    /\ whole \in Seq(Size)
    /\ f \in Nat /\ k \in Nat /\ f <= k /\ k <= Len(whole)

Within(whole, a, b) == a \in Nat \ {0} /\ b \in Nat /\ b <= Len(whole)

StateAt(f, k, i) == IF i <= f THEN "finalized" ELSE IF i <= k THEN "locked" ELSE "sequenced"

LEMMA SizesAreInts == Size \subseteq Int /\ Size \subseteq Nat /\ \A x \in Size : x > 0
BY SizeAssumption

(* What a piece p consists of. *)
Consists(p, whole, f, k, a, b) ==
    /\ p.offset = a
    /\ p.batches = SubSeq(whole, a, b)
    /\ p.batches \in Seq(Size)
    /\ Len(p.batches) = IF a <= b THEN b - a + 1 ELSE 0
    /\ p.batches = << >> <=> b < a
    /\ \A i \in a..b : p.batches[i - a + 1] = whole[i]
    /\ LastOf(p) = IF a <= b THEN b ELSE 0
    /\ p.last = [locked |-> Part(a, b, k), finalized |-> Part(a, b, f)]
    /\ p.last.locked = Part(a, b, k) /\ p.last.finalized = Part(a, b, f)
    /\ p.last["locked"] = Part(a, b, k) /\ p.last["finalized"] = Part(a, b, f)

LEMMA PieceBasics ==
    ASSUME NEW whole, NEW f, NEW k, LogOK(whole, f, k), NEW a, NEW b, Within(whole, a, b)
    PROVE  Consists(Piece(whole, f, k, a, b), whole, f, k, a, b)
<1> PICK p : p = Piece(whole, f, k, a, b)
  OBVIOUS
<1> USE DEF LogOK, Within
<1>1. /\ p.offset = a /\ p.batches = SubSeq(whole, a, b)
      /\ p.last = [locked |-> Part(a, b, k), finalized |-> Part(a, b, f)]
  BY DEF Piece
<1>2. p.last.locked = Part(a, b, k) /\ p.last.finalized = Part(a, b, f)
  BY <1>1
<1>3. p.last["locked"] = Part(a, b, k) /\ p.last["finalized"] = Part(a, b, f)
  BY <1>1
<1>4. /\ SubSeq(whole, a, b) \in Seq(Size)
      /\ Len(SubSeq(whole, a, b)) = IF a <= b THEN b - a + 1 ELSE 0
      /\ \A i \in 1..b - a + 1 : SubSeq(whole, a, b)[i] = whole[a + i - 1]
  <2>1. a \in Int /\ b \in Int /\ \A i \in a..b : i \in 1..Len(whole)
    OBVIOUS
  <2>2. \A i \in a..b : whole[i] \in Size
    BY <2>1, ElementOfSeq
  <2>3. (IF a <= b THEN b - a + 1 ELSE 0) = Len(SubSeq(whole, a, b))
    BY <2>1, <2>2, SubSeqProperties
  <2> QED
    BY <2>1, <2>2, <2>3, SubSeqProperties
<1> DEFINE part == SubSeq(whole, a, b)
<1>5. part = << >> <=> b < a
  <2>1. part = << >> <=> Len(part) = 0
    <3> HIDE DEF part
    <3>1. part \in Seq(Size)
      BY <1>4 DEF part
    <3> QED
      BY <3>1, EmptySeq
  <2> QED
    BY <1>4, <2>1
<1>6. ASSUME NEW i \in a..b PROVE part[i - a + 1] = whole[i]
  <2>1. i - a + 1 \in 1..b - a + 1 /\ a + (i - a + 1) - 1 = i
    OBVIOUS
  <2> QED
    BY <1>4, <2>1
<1>7. LastOf(p) = IF a <= b THEN b ELSE 0
  <2> HIDE DEF part
  <2>1. p.batches = part
    BY <1>1 DEF part
  <2>2. CASE a <= b
    <3>1. part # << >> /\ Len(part) = b - a + 1
      BY <1>4, <1>5, <2>2 DEF part
    <3> QED
      BY <1>1, <2>1, <2>2, <3>1 DEF LastOf
  <2>3. CASE ~ (a <= b)
    BY <1>5, <2>1, <2>3 DEF LastOf
  <2> QED
    BY <2>2, <2>3
<1> HIDE DEF part
<1>8. p.batches = part /\ part = SubSeq(whole, a, b)
  BY <1>1 DEF part
<1>9. Consists(p, whole, f, k, a, b)
  BY <1>1, <1>2, <1>3, <1>4, <1>5, <1>6, <1>7, <1>8 DEF Consists
<1> QED
  BY <1>9

LEMMA PartBounds ==
    ASSUME NEW a \in Nat \ {0}, NEW b \in Nat, NEW x \in Nat
    PROVE  /\ Part(a, b, x) \in Nat /\ Part(a, b, x) <= b /\ Part(a, b, x) <= x
           /\ Part(a, b, x) = 0 \/ a <= Part(a, b, x)
           /\ \A i \in a..b : i <= Part(a, b, x) <=> i <= x
BY DEF Part

LEMMA PieceWellFormed ==
    ASSUME NEW whole, NEW f, NEW k, LogOK(whole, f, k), NEW a, NEW b, Within(whole, a, b)
    PROVE  WellFormed(Piece(whole, f, k, a, b))
<1> PICK p : p = Piece(whole, f, k, a, b)
  OBVIOUS
<1>0. Consists(p, whole, f, k, a, b)
  BY PieceBasics
<1>1. /\ p.offset = a /\ p.batches \in Seq(Size)
      /\ LastOf(p) = IF a <= b THEN b ELSE 0
      /\ p.last = [locked |-> Part(a, b, k), finalized |-> Part(a, b, f)]
      /\ p.last.locked = Part(a, b, k) /\ p.last.finalized = Part(a, b, f)
      /\ p.last["locked"] = Part(a, b, k) /\ p.last["finalized"] = Part(a, b, f)
  BY <1>0 DEF Consists
<1>2. a \in Nat \ {0} /\ b \in Nat /\ f \in Nat /\ k \in Nat /\ f <= k
  BY DEF LogOK, Within
<1>3. Part(a, b, k) \in Nat /\ Part(a, b, f) \in Nat
  BY <1>2, PartBounds
<1>4. p.last \in [{"locked", "finalized"} -> Nat]
  <2>1. \A x, y \in Nat : [locked |-> x, finalized |-> y] \in [{"locked", "finalized"} -> Nat]
    OBVIOUS
  <2> QED
    BY <1>1, <1>3, <2>1
<1>5. Part(a, b, f) <= Part(a, b, k) /\ Part(a, b, k) <= (IF a <= b THEN b ELSE 0)
  BY <1>2 DEF Part
<1>6. \A t \in {"locked", "finalized"} : p.last[t] = 0 \/ p.offset <= p.last[t]
  <2>1. p.last["locked"] = 0 \/ p.offset <= p.last["locked"]
    BY <1>1, <1>2, PartBounds
  <2>2. p.last["finalized"] = 0 \/ p.offset <= p.last["finalized"]
    BY <1>1, <1>2, PartBounds
  <2> QED
    BY <2>1, <2>2
<1>7. WellFormed(p)
  BY <1>1, <1>2, <1>4, <1>5, <1>6 DEF WellFormed
<1> QED
  BY <1>7

LEMMA PieceRecords ==
    ASSUME NEW whole, NEW f, NEW k, LogOK(whole, f, k), NEW a, NEW b, Within(whole, a, b)
    PROVE  Records(Piece(whole, f, k, a, b)) =
               {[index |-> i, size |-> whole[i], state |-> StateAt(f, k, i)] : i \in a..b}
<1> PICK p : p = Piece(whole, f, k, a, b)
  OBVIOUS
<1>0. Consists(p, whole, f, k, a, b)
  BY PieceBasics
<1>1. /\ p.offset = a /\ LastOf(p) = IF a <= b THEN b ELSE 0
      /\ \A i \in a..b : p.batches[i - a + 1] = whole[i]
      /\ p.last.locked = Part(a, b, k) /\ p.last.finalized = Part(a, b, f)
  BY <1>0 DEF Consists
<1>2. a \in Nat \ {0} /\ b \in Nat /\ f \in Nat /\ k \in Nat
  BY DEF LogOK, Within
<1>3. p.offset..LastOf(p) = a..b
  BY <1>1, <1>2
<1>4. ASSUME NEW i \in a..b PROVE StateOf(p, i) = StateAt(f, k, i)
  <2>1. i <= p.last.finalized <=> i <= f
    <3>1. \A j \in a..b : j <= Part(a, b, f) <=> j <= f
      BY <1>2, PartBounds
    <3> QED
      BY <1>1, <3>1
  <2>2. i <= p.last.locked <=> i <= k
    <3>1. \A j \in a..b : j <= Part(a, b, k) <=> j <= k
      BY <1>2, PartBounds
    <3> QED
      BY <1>1, <3>1
  <2>3. ~ (i <= p.last.finalized) <=> i > p.last.finalized
    <3>1. Part(a, b, f) \in Nat
      BY <1>2, PartBounds
    <3>2. p.last.finalized \in Nat
      BY <1>1, <3>1
    <3> QED
      BY <1>2, <3>2
  <2> QED
    BY <2>1, <2>2, <2>3 DEF StateOf, StateAt
<1>5. \A i \in a..b : p.batches[i - p.offset + 1] = whole[i] /\ StateOf(p, i) = StateAt(f, k, i)
  BY <1>1, <1>4
<1>6. Records(p) = {[index |-> i, size |-> whole[i], state |-> StateAt(f, k, i)] : i \in a..b}
  BY <1>3, <1>5 DEF Records
<1> QED
  BY <1>6

(* A piece without batches. *)
LEMMA EmptyPiece ==
    ASSUME NEW whole, NEW f, NEW k, LogOK(whole, f, k), NEW a, NEW b, Within(whole, a, b), b < a
    PROVE  /\ Piece(whole, f, k, a, b) = [offset |-> a, batches |-> << >>, last |-> NoLast]
           /\ Piece(whole, f, k, a, b) = Piece(whole, f, k, a, 0)
<1>1. a \in Nat \ {0} /\ b \in Nat
  BY DEF Within
<1>2. SubSeq(whole, a, b) = << >> /\ SubSeq(whole, a, 0) = << >>
  BY <1>1, SubSeqEmpty
<1>3. \A x : Part(a, b, x) = 0 /\ Part(a, 0, x) = 0
  BY <1>1 DEF Part
<1> QED
  BY <1>2, <1>3 DEF Piece, NoLast

LEMMA EmptyIsPiece ==
    ASSUME NEW whole, NEW f, NEW k, LogOK(whole, f, k), NEW a, NEW b, Within(whole, a, b)
    PROVE  Empty(Piece(whole, f, k, a, b)) = Piece(whole, f, k, a, 0)
<1> DEFINE p == Piece(whole, f, k, a, b)
<1>1. Within(whole, a, 0) /\ 0 < a
  BY DEF Within, LogOK
<1>2. Piece(whole, f, k, a, 0) = [offset |-> a, batches |-> << >>, last |-> NoLast]
  BY <1>1, EmptyPiece
<1>3. Empty(p) = [offset |-> a, batches |-> << >>, last |-> NoLast]
  BY DEF Empty, Piece
<1> QED
  BY <1>2, <1>3

LEMMA NewIsPiece ==
    ASSUME NEW whole, NEW f, NEW k, LogOK(whole, f, k)
    PROVE  NewSequence = Piece(whole, f, k, 1, 0) /\ Within(whole, 1, 0)
<1>1. Within(whole, 1, 0) /\ 0 < 1
  BY DEF Within, LogOK
<1> QED
  BY <1>1, EmptyPiece DEF NewSequence

(* The bounds of a selection: a start is an index or before all of them,   *)
(* an end an index or behind all of them.                                  *)
Lower == {NegInf} \cup {Fin(i) : i \in Int}
Upper == {PosInf} \cup {Fin(i) : i \in Int}

LEMMA ComparisonsOfBounds ==
    /\ \A i, j \in Int : Less(Fin(i), Fin(j)) <=> i < j
    /\ \A i \in Int : Less(NegInf, Fin(i)) /\ ~ Less(Fin(i), NegInf)
    /\ \A i \in Int : Less(Fin(i), PosInf) /\ ~ Less(PosInf, Fin(i))
    /\ ~ Less(NegInf, NegInf) /\ Less(NegInf, PosInf)
    /\ ~ Less(PosInf, PosInf)
    /\ \A i, j \in Int : Fin(i) = Fin(j) <=> i = j
    /\ \A i \in Int : PosInf # Fin(i) /\ NegInf # Fin(i)
    /\ \A i \in Int : Fin(i)[2] = i
    /\ \A i, j \in Int : Plus(Fin(i), j) = Fin(i + j)
    /\ \A j \in Int : Plus(PosInf, j) = PosInf
<1>1. /\ \A i \in Int : Fin(i)[1] = 0 /\ Fin(i)[2] = i
      /\ NegInf[1] = -1 /\ NegInf[2] = 0 /\ PosInf[1] = 1 /\ PosInf[2] = 0
  BY DEF Fin, NegInf, PosInf
<1>2. /\ \A i, j \in Int : Less(Fin(i), Fin(j)) <=> i < j
      /\ \A i \in Int : Less(NegInf, Fin(i)) /\ ~ Less(Fin(i), NegInf)
      /\ \A i \in Int : Less(Fin(i), PosInf) /\ ~ Less(PosInf, Fin(i))
      /\ ~ Less(NegInf, NegInf) /\ Less(NegInf, PosInf) /\ ~ Less(PosInf, PosInf)
  BY <1>1 DEF Less
<1>3. /\ \A i, j \in Int : Fin(i) = Fin(j) <=> i = j
      /\ \A i \in Int : PosInf # Fin(i) /\ NegInf # Fin(i)
  BY <1>1
<1>4. /\ \A i, j \in Int : Plus(Fin(i), j) = Fin(i + j)
      /\ \A j \in Int : Plus(PosInf, j) = PosInf
  BY <1>1 DEF Plus
<1> QED
  BY <1>1, <1>2, <1>3, <1>4

LEMMA GreaterIs ==
    ASSUME NEW x \in Lower, NEW y \in Lower
    PROVE  /\ Greater(x, y) \in Lower
           /\ \A i \in Int : Less(Greater(x, y), Fin(i)) <=> Less(x, Fin(i)) /\ Less(y, Fin(i))
<1>1. Greater(x, y) \in Lower
  BY DEF Greater
<1>2. ASSUME NEW i \in Int
      PROVE  Less(Greater(x, y), Fin(i)) <=> Less(x, Fin(i)) /\ Less(y, Fin(i))
  <2>1. (x = NegInf \/ \E j \in Int : x = Fin(j)) /\ (y = NegInf \/ \E j \in Int : y = Fin(j))
    BY DEF Lower
  <2>2. CASE x = NegInf
    <3>1. Greater(x, y) = y
      BY <2>1, <2>2, ComparisonsOfBounds DEF Greater
    <3> QED
      BY <2>2, <3>1, ComparisonsOfBounds
  <2>3. CASE y = NegInf
    <3>1. Greater(x, y) = x
      BY <2>1, <2>3, ComparisonsOfBounds DEF Greater
    <3> QED
      BY <2>3, <3>1, ComparisonsOfBounds
  <2>4. ASSUME NEW j \in Int, x = Fin(j), NEW k \in Int, y = Fin(k)
        PROVE  Less(Greater(x, y), Fin(i)) <=> Less(x, Fin(i)) /\ Less(y, Fin(i))
    <3>1. PICK m \in Int : m = IF j < k THEN k ELSE j
      OBVIOUS
    <3>2. Greater(x, y) = Fin(m)
      BY <2>4, <3>1, ComparisonsOfBounds DEF Greater
    <3>3. Less(Greater(x, y), Fin(i)) <=> m < i
      <4>1. Less(Fin(m), Fin(i)) <=> m < i
        BY ComparisonsOfBounds
      <4> QED
        BY <3>2, <4>1
    <3>4. (Less(x, Fin(i)) <=> j < i) /\ (Less(y, Fin(i)) <=> k < i)
      BY <2>4, ComparisonsOfBounds
    <3> QED
      BY <3>1, <3>3, <3>4
  <2> QED
    BY <2>1, <2>2, <2>3, <2>4
<1> QED
  BY <1>1, <1>2

LEMMA SmallerIs ==
    ASSUME NEW x \in Upper, NEW y \in Upper
    PROVE  /\ Smaller(x, y) \in Upper
           /\ \A i \in Int : ~ Less(Smaller(x, y), Fin(i)) <=> ~ Less(x, Fin(i)) /\ ~ Less(y, Fin(i))
<1>1. Smaller(x, y) \in Upper
  BY DEF Smaller
<1>2. ASSUME NEW i \in Int
      PROVE  ~ Less(Smaller(x, y), Fin(i)) <=> ~ Less(x, Fin(i)) /\ ~ Less(y, Fin(i))
  <2>1. (x = PosInf \/ \E j \in Int : x = Fin(j)) /\ (y = PosInf \/ \E j \in Int : y = Fin(j))
    BY DEF Upper
  <2>2. CASE x = PosInf
    <3>1. Smaller(x, y) = y
      BY <2>1, <2>2, ComparisonsOfBounds DEF Smaller
    <3> QED
      BY <2>2, <3>1, ComparisonsOfBounds
  <2>3. CASE y = PosInf
    <3>1. Smaller(x, y) = x
      BY <2>1, <2>3, ComparisonsOfBounds DEF Smaller
    <3> QED
      BY <2>3, <3>1, ComparisonsOfBounds
  <2>4. ASSUME NEW j \in Int, x = Fin(j), NEW k \in Int, y = Fin(k)
        PROVE  ~ Less(Smaller(x, y), Fin(i)) <=> ~ Less(x, Fin(i)) /\ ~ Less(y, Fin(i))
    <3>1. PICK m \in Int : m = IF k < j THEN k ELSE j
      OBVIOUS
    <3>2. Smaller(x, y) = Fin(m)
      BY <2>4, <3>1, ComparisonsOfBounds DEF Smaller
    <3>3. Less(Smaller(x, y), Fin(i)) <=> m < i
      <4>1. Less(Fin(m), Fin(i)) <=> m < i
        BY ComparisonsOfBounds
      <4> QED
        BY <3>2, <4>1
    <3>4. (Less(x, Fin(i)) <=> j < i) /\ (Less(y, Fin(i)) <=> k < i)
      BY <2>4, ComparisonsOfBounds
    <3> QED
      BY <3>1, <3>3, <3>4
  <2> QED
    BY <2>1, <2>2, <2>3, <2>4
<1> QED
  BY <1>1, <1>2

(* The end of a slice, as an index: where the batches end, or before.      *)
LEMMA SliceEnd ==
    ASSUME NEW past \in Upper, NEW n \in Int
    PROVE  /\ Smaller(past, Fin(n))[2] \in Int
           /\ \A i \in Int : i < Smaller(past, Fin(n))[2] <=> Less(Fin(i), past) /\ i < n
<1>1. past = PosInf \/ \E j \in Int : past = Fin(j)
  BY DEF Upper
<1>2. CASE past = PosInf
  BY <1>2, ComparisonsOfBounds DEF Smaller
<1>3. ASSUME NEW j \in Int, past = Fin(j)
      PROVE  /\ Smaller(past, Fin(n))[2] \in Int
             /\ \A i \in Int : i < Smaller(past, Fin(n))[2] <=> Less(Fin(i), past) /\ i < n
  <2>1. Smaller(past, Fin(n)) = Fin(IF n < j THEN n ELSE j)
    BY <1>3, ComparisonsOfBounds DEF Smaller
  <2>2. (IF n < j THEN n ELSE j) \in Int
    OBVIOUS
  <2>3. Smaller(past, Fin(n))[2] = IF n < j THEN n ELSE j
    BY <2>1, <2>2, ComparisonsOfBounds
  <2>4. \A i \in Int : Less(Fin(i), past) <=> i < j
    BY <1>3, ComparisonsOfBounds
  <2> QED
    BY <2>2, <2>3, <2>4
<1> QED
  BY <1>1, <1>2, <1>3

(* A part of a part of a log. *)
LEMMA PartOfPart ==
    ASSUME NEW whole \in Seq(Size), NEW a \in Nat \ {0}, NEW b \in Nat, b <= Len(whole),
           NEW c \in Nat \ {0}, a <= c, NEW d \in Int, d <= b,
           NEW x, x = c - a + 1, NEW y, y = d - a + 1
    PROVE  SubSeq(SubSeq(whole, a, b), x, y) = SubSeq(whole, c, d)
<1>1. Len(whole) \in Nat /\ a \in Int /\ b \in Int /\ c \in Int
  OBVIOUS
<1>2. CASE d < c
  <2>1. d - a + 1 < c - a + 1 /\ c - a + 1 \in Int /\ d - a + 1 \in Int
    BY <1>1, <1>2
  <2> QED
    BY <1>1, <1>2, <2>1, SubSeqEmpty
<1>3. CASE c <= d
  <2>1. /\ a \in 1..Len(whole) /\ b \in 1..Len(whole)
        /\ c - a + 1 \in 1..b - a + 1 /\ d - a + 1 \in 1..b - a + 1
        /\ a + (c - a + 1) - 1 = c /\ a + (d - a + 1) - 1 = d
    BY <1>1, <1>3
  <2>2. SubSeq(SubSeq(whole, a, b), c - a + 1, d - a + 1)
            = SubSeq(whole, a + (c - a + 1) - 1, a + (d - a + 1) - 1)
    BY <2>1, SubSeqOfSubSeq
  <2> QED
    BY <2>1, <2>2
<1> QED
  BY <1>1, <1>2, <1>3
Left(first, m, i) == IF first <= m /\ i >= first THEN Min({m, i}) ELSE 0

LEMMA PartOfSlice ==
    ASSUME NEW a \in Nat \ {0}, NEW b \in Nat, NEW first \in Nat, a <= first,
           NEW m \in Nat, m <= b, NEW x \in Nat
    PROVE  Left(first, m, Part(a, b, x)) = Part(first, m, x)
<1>1. PICK y : y = Part(a, b, x)
  OBVIOUS
<1>2. y \in Nat /\ (y = IF a <= b /\ a <= x THEN (IF x <= b THEN x ELSE b) ELSE 0)
  BY <1>1 DEF Part
<1>3. Min({m, y}) = IF m <= y THEN m ELSE y
  BY <1>2, MinPair
<1>4. (IF first <= m /\ y >= first THEN (IF m <= y THEN m ELSE y) ELSE 0)
          = IF first <= m /\ first <= x THEN (IF x <= m THEN x ELSE m) ELSE 0
  <2>1. first <= m => (y >= first <=> first <= x)
    BY <1>2
  <2>2. first <= m /\ first <= x => (IF m <= y THEN m ELSE y) = (IF x <= m THEN x ELSE m)
    BY <1>2
  <2> QED
    BY <2>1, <2>2
<1> QED
  BY <1>1, <1>3, <1>4 DEF Part, Left

(* A slice of a piece is the piece of the log between its bounds.          *)
LEMMA SliceIs ==
    ASSUME NEW whole, NEW f, NEW k, LogOK(whole, f, k), NEW a, NEW b, Within(whole, a, b),
           NEW first \in Nat, a <= first, NEW past \in Upper, Less(Fin(0), past)
    PROVE  \E m \in Nat :
             /\ m <= b /\ Within(whole, first, m)
             /\ Slice(Piece(whole, f, k, a, b), first, past) = Piece(whole, f, k, first, m)
             /\ \A i \in Int : first <= i => (i <= m <=> i <= b /\ Less(Fin(i), past))
<1>20. PICK p : p = Piece(whole, f, k, a, b)
  OBVIOUS
<1>1. Consists(p, whole, f, k, a, b)
  BY <1>20, PieceBasics
<1>2. /\ a \in Nat \ {0} /\ b \in Nat /\ b <= Len(whole) /\ whole \in Seq(Size)
      /\ f \in Nat /\ k \in Nat /\ Len(whole) \in Nat
  BY DEF LogOK, Within
<1>21. PICK n : n = a + Len(p.batches)
  OBVIOUS
<1>3. n = (IF a <= b THEN b + 1 ELSE a) /\ n \in Nat
  <2>1. Len(p.batches) = IF a <= b THEN b - a + 1 ELSE 0
    BY <1>1 DEF Consists
  <2> QED
    BY <1>2, <1>21, <2>1
<1>22. PICK end : end = Smaller(past, Fin(n))[2]
  OBVIOUS
<1>4. end \in Int /\ \A i \in Int : i < end <=> Less(Fin(i), past) /\ i < n
  BY <1>3, <1>22, SliceEnd
<1>0. end \in Int /\ first \in Int /\ a \in Int /\ b \in Int /\ n \in Int /\ 1 <= a
  BY <1>2, <1>3, <1>4
<1>5. end <= n
  <2>1. n \in Int /\ ~ (n < n)
    BY <1>3
  <2>2. ~ (n < end)
    BY <1>4, <2>1
  <2> QED
    BY <1>4, <2>1, <2>2
<1>23. PICK B : B = SubSeq(p.batches, first - a + 1, end - a)
  OBVIOUS
<1>6. Slice(p, first, past) =
        [offset |-> first, batches |-> B,
         last |-> [locked |-> IF B # << >> /\ p.last.locked >= first
                              THEN Min({first + Len(B) - 1, p.last.locked}) ELSE 0,
                   finalized |-> IF B # << >> /\ p.last.finalized >= first
                                 THEN Min({first + Len(B) - 1, p.last.finalized}) ELSE 0]]
  <2>1. p.offset = a
    BY <1>1 DEF Consists
  <2> QED
    BY <1>21, <1>22, <1>23, <2>1 DEF Slice
<1>7. PICK m \in Nat : /\ m <= b /\ B = SubSeq(whole, first, m)
                       /\ \A i \in Int : first <= i => (i <= m <=> i <= b /\ Less(Fin(i), past))
  <2>1. p.batches = SubSeq(whole, a, b)
    BY <1>1 DEF Consists
  <2>2. CASE a <= b
    <3>1. 0 < end
      <4>1. 0 < n /\ 0 \in Int
        BY <1>2, <1>3, <2>2
      <4> QED
        BY <1>4, <4>1
    <3>5. PICK d \in Int : d = end - 1
      BY <1>0
    <3>2. d \in Nat /\ d \in Int /\ d <= b /\ end = d + 1 /\ end - a = d - a + 1
      <4>1. n = b + 1
        BY <1>3, <2>2
      <4>2. end = d + 1 /\ d \in Int /\ end - a = d - a + 1
        BY <1>0, <3>5
      <4>3. d <= b /\ 0 <= d
        BY <1>0, <1>5, <3>1, <4>1, <4>2
      <4> QED
        BY <4>2, <4>3
    <3>3. SubSeq(p.batches, first - a + 1, end - a) = SubSeq(whole, first, d)
      <4>1. first \in Nat \ {0}
        BY <1>0
      <4>2. ASSUME NEW x, NEW y, x = first - a + 1, y = d - a + 1
            PROVE  SubSeq(SubSeq(whole, a, b), x, y) = SubSeq(whole, first, d)
        <5>1. d \in Int /\ d <= b
          BY <3>2
        <5>2. whole \in Seq(Size) /\ b \in Nat /\ b <= Len(whole) /\ a \in Nat \ {0}
          BY <1>2
        <5> QED
          BY <4>1, <4>2, <5>1, <5>2, PartOfPart
      <4> QED
        BY <2>1, <3>2, <4>2
    <3>4. \A i \in Int : i <= d <=> i <= b /\ Less(Fin(i), past)
      <4>1. n = b + 1
        BY <1>3, <2>2
      <4>2. \A i \in Int : (i < end <=> i <= d)
        BY <3>2
      <4>3. \A i \in Int : (i < n <=> i <= b)
        BY <1>0, <4>1
      <4> QED
        BY <1>4, <4>2, <4>3
    <3> QED
      BY <1>23, <3>2, <3>3, <3>4
  <2>3. CASE ~ (a <= b)
    <3>1. end - a < first - a + 1 /\ end - a \in Int /\ first - a + 1 \in Int
      BY <1>0, <1>3, <1>5, <2>3
    <3>2. B = << >> /\ SubSeq(whole, first, 0) = << >>
      <4>1. 0 < first
        BY <1>2
      <4> QED
        BY <1>23, <3>1, <4>1, SubSeqEmpty
    <3>3. \A i \in Int : first <= i => ~ (i <= 0) /\ ~ (i <= b)
      BY <1>2, <2>3
    <3>4. 0 \in Nat /\ 0 <= b
      BY <1>2
    <3> QED
      BY <1>23, <3>2, <3>3, <3>4
  <2> QED
    BY <2>2, <2>3
<1>8. Within(whole, first, m)
  BY <1>2, <1>7 DEF Within
<1>9. Consists(Piece(whole, f, k, first, m), whole, f, k, first, m)
  BY <1>8, PieceBasics
<1>10. /\ B # << >> <=> first <= m
       /\ first <= m => Len(B) = m - first + 1 /\ first + Len(B) - 1 = m
  <2>1. PICK q : q = Piece(whole, f, k, first, m)
    OBVIOUS
  <2>2. /\ q.batches = B
        /\ q.batches = << >> <=> m < first
        /\ Len(q.batches) = IF first <= m THEN m - first + 1 ELSE 0
    BY <1>7, <1>9, <2>1 DEF Consists
  <2>3. B # << >> <=> first <= m
    <3>1. m \in Int /\ (m < first <=> ~ (first <= m))
      BY <1>0, <1>7
    <3> QED
      BY <2>2, <3>1
  <2>4. ASSUME first <= m PROVE Len(B) = m - first + 1 /\ first + Len(B) - 1 = m
    <3>1. Len(B) = m - first + 1
      BY <2>2, <2>4
    <3> QED
      BY <1>0, <3>1
  <2> QED
    BY <2>3, <2>4
<1>11. /\ p.last.locked = Part(a, b, k) /\ p.last.finalized = Part(a, b, f)
  BY <1>1 DEF Consists
<1>12. ASSUME NEW x \in Nat
       PROVE  (IF B # << >> /\ Part(a, b, x) >= first
               THEN Min({first + Len(B) - 1, Part(a, b, x)}) ELSE 0) = Part(first, m, x)
  <2>1. Left(first, m, Part(a, b, x)) = Part(first, m, x)
    <3>1. a \in Nat \ {0} /\ b \in Nat /\ m \in Nat /\ m <= b
      BY <1>2, <1>7
    <3> QED
      BY <3>1, PartOfSlice
  <2> QED
    BY <1>10, <2>1, Zenon DEF Left
<1>13. Slice(p, first, past) = Piece(whole, f, k, first, m)
  <2>1. Slice(p, first, past) =
          [offset |-> first, batches |-> B,
           last |-> [locked |-> Part(first, m, k), finalized |-> Part(first, m, f)]]
    BY <1>2, <1>6, <1>11, <1>12
  <2> QED
    BY <1>7, <2>1 DEF Piece
<1> QED
  BY <1>7, <1>8, <1>13, <1>20

LEMMA OrderOfStates ==
    ASSUME NEW t \in State
    PROVE  /\ BeforeOrEqual("sequenced", t)
           /\ BeforeOrEqual("locked", t) <=> t # "sequenced"
           /\ BeforeOrEqual("finalized", t) <=> t = "finalized"
<1>1. States[1] = "sequenced" /\ States[2] = "locked" /\ States[3] = "finalized"
  BY DEF States
<1>2. t = "sequenced" \/ t = "locked" \/ t = "finalized"
  BY DEF State
<1>3. 1..3 = {1, 2, 3}
  OBVIOUS
<1>4. \A s : BeforeOrEqual(s, t) <=>
          \/ s = "sequenced" /\ t = "sequenced"
          \/ s = "sequenced" /\ t = "locked"
          \/ s = "sequenced" /\ t = "finalized"
          \/ s = "locked" /\ t = "locked"
          \/ s = "locked" /\ t = "finalized"
          \/ s = "finalized" /\ t = "finalized"
  BY <1>1, <1>3 DEF BeforeOrEqual
<1> QED
  BY <1>2, <1>4

(* The last index in a state is the last of the batches in it or beyond.   *)
LEMMA LastInIs ==
    ASSUME NEW whole, NEW f, NEW k, LogOK(whole, f, k), NEW a, NEW b, Within(whole, a, b),
           NEW t \in State
    PROVE  /\ LastIn(Piece(whole, f, k, a, b), t) \in Nat
           /\ \A i \in a..b :
                i <= LastIn(Piece(whole, f, k, a, b), t) <=> BeforeOrEqual(t, StateAt(f, k, i))
<1>1. PICK p : p = Piece(whole, f, k, a, b)
  OBVIOUS
<1>2. Consists(p, whole, f, k, a, b)
  BY <1>1, PieceBasics
<1>3. a \in Nat \ {0} /\ b \in Nat /\ f \in Nat /\ k \in Nat /\ f <= k
  BY DEF LogOK, Within
<1>4. \A i : /\ StateAt(f, k, i) \in State
             /\ StateAt(f, k, i) # "sequenced" <=> i <= f \/ i <= k
             /\ StateAt(f, k, i) = "finalized" <=> i <= f
  BY DEF StateAt, State
<1>5. CASE t = "sequenced"
  <2>1. LastIn(p, t) = LastOf(p) /\ LastOf(p) = IF a <= b THEN b ELSE 0
    BY <1>2, <1>5 DEF LastIn, Consists
  <2>2. \A i \in a..b : BeforeOrEqual(t, StateAt(f, k, i))
    BY <1>4, <1>5, OrderOfStates
  <2>3. (IF a <= b THEN b ELSE 0) \in Nat /\ \A i \in a..b : i <= IF a <= b THEN b ELSE 0
    BY <1>3
  <2> QED
    BY <1>1, <2>1, <2>2, <2>3
<1>6. CASE t = "locked"
  <2>1. LastIn(p, t) = Part(a, b, k)
    BY <1>2, <1>6 DEF LastIn, Consists
  <2>2. Part(a, b, k) \in Nat /\ \A i \in a..b : i <= Part(a, b, k) <=> i <= k
    BY <1>3, PartBounds
  <2>3. \A i \in a..b : BeforeOrEqual(t, StateAt(f, k, i)) <=> i <= k
    <3>1. \A i \in a..b : i <= f => i <= k
      BY <1>3
    <3> QED
      BY <1>4, <1>6, <3>1, OrderOfStates
  <2> QED
    BY <1>1, <2>1, <2>2, <2>3
<1>7. CASE t = "finalized"
  <2>1. LastIn(p, t) = Part(a, b, f)
    BY <1>2, <1>7 DEF LastIn, Consists
  <2>2. Part(a, b, f) \in Nat /\ \A i \in a..b : i <= Part(a, b, f) <=> i <= f
    BY <1>3, PartBounds
  <2>3. \A i \in a..b : BeforeOrEqual(t, StateAt(f, k, i)) <=> i <= f
    BY <1>4, <1>7, OrderOfStates
  <2> QED
    BY <1>1, <2>1, <2>2, <2>3
<1> QED
  BY <1>5, <1>6, <1>7 DEF State

LEMMA BetweenBounds ==
    /\ \A x \in Lower, y \in Upper, i \in Int :
         Less(x, Fin(i)) /\ ~ Less(y, Fin(i)) => Less(x, y)
    /\ \A y \in Upper : Plus(y, 1) \in Upper
    /\ \A y \in Upper, i \in Int : Less(Fin(i), Plus(y, 1)) <=> ~ Less(y, Fin(i))
<1>1. \A y \in Upper : y = PosInf \/ \E j \in Int : y = Fin(j)
  BY DEF Upper
<1>2. \A x \in Lower : x = NegInf \/ \E j \in Int : x = Fin(j)
  BY DEF Lower
<1>3. ASSUME NEW x \in Lower, NEW y \in Upper, NEW i \in Int, Less(x, Fin(i)), ~ Less(y, Fin(i))
      PROVE  Less(x, y)
  <2>1. CASE x = NegInf
    BY <1>1, <2>1, ComparisonsOfBounds
  <2>2. CASE y = PosInf
    BY <1>2, <2>2, ComparisonsOfBounds
  <2>3. ASSUME NEW j \in Int, x = Fin(j), NEW m \in Int, y = Fin(m) PROVE Less(x, y)
    <3>1. j < i /\ ~ (m < i)
      BY <1>3, <2>3, ComparisonsOfBounds
    <3>2. j < m
      BY <3>1
    <3> QED
      BY <2>3, <3>2, ComparisonsOfBounds
  <2> QED
    BY <1>1, <1>2, <2>1, <2>2, <2>3
<1>4. ASSUME NEW y \in Upper
      PROVE  /\ Plus(y, 1) \in Upper
             /\ \A i \in Int : Less(Fin(i), Plus(y, 1)) <=> ~ Less(y, Fin(i))
  <2>1. CASE y = PosInf
    BY <2>1, ComparisonsOfBounds
  <2>2. ASSUME NEW m \in Int, y = Fin(m)
        PROVE  /\ Plus(y, 1) \in Upper
               /\ \A i \in Int : Less(Fin(i), Plus(y, 1)) <=> ~ Less(y, Fin(i))
    <3>1. Plus(y, 1) = Fin(m + 1) /\ m + 1 \in Int
      BY <2>2, ComparisonsOfBounds
    <3>2. Plus(y, 1) \in Upper
      BY <3>1 DEF Upper
    <3>3. ASSUME NEW i \in Int PROVE Less(Fin(i), Plus(y, 1)) <=> ~ Less(y, Fin(i))
      <4>1. Less(Fin(i), Fin(m + 1)) <=> i < m + 1
        BY <3>1, ComparisonsOfBounds
      <4>2. Less(Fin(m), Fin(i)) <=> m < i
        BY ComparisonsOfBounds
      <4>3. i < m + 1 <=> ~ (m < i)
        OBVIOUS
      <4> QED
        BY <2>2, <3>1, <4>1, <4>2, <4>3
    <3> QED
      BY <3>2, <3>3
  <2> QED
    BY <1>1, <2>1, <2>2
<1> QED
  BY <1>3, <1>4

(* The batches of a piece after v and, with an end, up to it.              *)
LEMMA SliceBetween ==
    ASSUME NEW whole, NEW f, NEW k, LogOK(whole, f, k), NEW a, NEW b, Within(whole, a, b),
           NEW v \in Int, a <= v + 1, NEW end \in Upper, Less(Fin(v + 1), Plus(end, 1))
    PROVE  \E m \in Nat :
             /\ m <= b /\ Within(whole, v + 1, m)
             /\ Slice(Piece(whole, f, k, a, b), v + 1, Plus(end, 1)) = Piece(whole, f, k, v + 1, m)
             /\ \A i \in Int : v < i => (i <= m <=> i <= b /\ ~ Less(end, Fin(i)))
<1>1. a \in Nat \ {0}
  BY DEF Within
<1>2. v + 1 \in Nat /\ v + 1 \in Int /\ 0 < v + 1
  BY <1>1
<1>3. Plus(end, 1) \in Upper
  BY BetweenBounds
<1>4. Less(Fin(0), Plus(end, 1))
  <2>1. ~ Less(end, Fin(v + 1))
    BY <1>2, BetweenBounds
  <2>2. ~ Less(end, Fin(0))
    <3>1. end = PosInf \/ \E j \in Int : end = Fin(j)
      BY DEF Upper
    <3>2. CASE end = PosInf
      BY <3>2, ComparisonsOfBounds
    <3>3. ASSUME NEW j \in Int, end = Fin(j) PROVE ~ Less(end, Fin(0))
      <4>1. ~ (j < v + 1)
        BY <1>2, <2>1, <3>3, ComparisonsOfBounds
      <4>2. ~ (j < 0)
        BY <1>2, <4>1
      <4> QED
        BY <3>3, <4>2, ComparisonsOfBounds
    <3> QED
      BY <3>1, <3>2, <3>3
  <2> QED
    BY <2>2, BetweenBounds
<1>5. PICK w : w = v + 1
  OBVIOUS
<1>6. w \in Nat /\ a <= w
  BY <1>2, <1>5
<1>7. PICK m \in Nat :
        /\ m <= b /\ Within(whole, w, m)
        /\ Slice(Piece(whole, f, k, a, b), w, Plus(end, 1)) = Piece(whole, f, k, w, m)
        /\ \A i \in Int : w <= i => (i <= m <=> i <= b /\ Less(Fin(i), Plus(end, 1)))
  BY <1>3, <1>4, <1>6, SliceIs
<1>8. ASSUME NEW i \in Int, v < i PROVE i <= m <=> i <= b /\ ~ Less(end, Fin(i))
  <2>1. w <= i
    BY <1>5, <1>8
  <2>2. Less(Fin(i), Plus(end, 1)) <=> ~ Less(end, Fin(i))
    BY BetweenBounds
  <2> QED
    BY <1>7, <2>1, <2>2
<1> QED
  BY <1>5, <1>7, <1>8

(* filter returns a piece: of the batches there, those between the bounds  *)
(* that have reached the one state and not the other.                      *)
LEMMA FilterIs ==
    ASSUME NEW whole, NEW f, NEW k, LogOK(whole, f, k), NEW a, NEW b, Within(whole, a, b),
           NEW target \in State, NEW exclude \in State \cup {"none"},
           NEW start \in Lower, NEW end \in Upper
    PROVE  \E lo \in Nat \ {0}, hi \in Nat :
             /\ a <= lo /\ hi <= b /\ Within(whole, lo, hi)
             /\ FilterStates(Piece(whole, f, k, a, b), target, exclude, start, end)
                    = Piece(whole, f, k, lo, hi)
             /\ \A i \in a..b :
                  i \in lo..hi <=> /\ Less(start, Fin(i)) /\ ~ Less(end, Fin(i))
                                   /\ BeforeOrEqual(target, StateAt(f, k, i))
                                   /\ exclude = "none" \/ ~ BeforeOrEqual(exclude, StateAt(f, k, i))
<1> DEFINE Wanted(i) == /\ Less(start, Fin(i)) /\ ~ Less(end, Fin(i))
                        /\ BeforeOrEqual(target, StateAt(f, k, i))
                        /\ exclude = "none" \/ ~ BeforeOrEqual(exclude, StateAt(f, k, i))
<1>1. PICK p : p = Piece(whole, f, k, a, b)
  OBVIOUS
<1>2. PICK tl : tl = IF target = "sequenced" THEN PosInf ELSE Fin(LastIn(p, target))
  OBVIOUS
<1>3. PICK xl : xl = IF exclude = "none" \/ LastIn(p, exclude) = 0
                     THEN NegInf ELSE Fin(LastIn(p, exclude))
  OBVIOUS
<1>4. PICK lowest : lowest = Greater(Greater(start, xl), Fin(a - 1))
  OBVIOUS
<1>5. PICK endmost : endmost = Smaller(end, tl)
  OBVIOUS
<1>6. a \in Nat \ {0} /\ b \in Nat /\ a - 1 \in Int /\ \A i \in a..b : i \in Int
  BY DEF Within
<1>7. tl \in Upper /\ \A i \in a..b : ~ Less(tl, Fin(i)) <=> BeforeOrEqual(target, StateAt(f, k, i))
  <2>1. \A i \in a..b : StateAt(f, k, i) \in State
    BY DEF StateAt, State
  <2>2. CASE target = "sequenced"
    BY <1>2, <1>6, <2>1, <2>2, OrderOfStates, ComparisonsOfBounds DEF Upper
  <2>3. CASE target # "sequenced"
    <3>1. PICK n \in Nat : n = LastIn(p, target)
      BY <1>1, LastInIs
    <3>2. \A i \in a..b : i <= n <=> BeforeOrEqual(target, StateAt(f, k, i))
      BY <1>1, <3>1, LastInIs
    <3>3. tl = Fin(n) /\ n \in Int
      BY <1>2, <2>3, <3>1
    <3>4. \A i \in a..b : ~ Less(Fin(n), Fin(i)) <=> i <= n
      <4>1. \A i \in a..b : Less(Fin(n), Fin(i)) <=> n < i
        BY <1>6, <3>3, ComparisonsOfBounds
      <4>2. \A i \in a..b : ~ (n < i) <=> i <= n
        BY <3>3
      <4> QED
        BY <4>1, <4>2
    <3> QED
      BY <3>2, <3>3, <3>4 DEF Upper
  <2> QED
    BY <2>2, <2>3
<1>8. /\ xl \in Lower
      /\ \A i \in a..b : Less(xl, Fin(i)) <=>
           exclude = "none" \/ ~ BeforeOrEqual(exclude, StateAt(f, k, i))
  <2>1. CASE exclude = "none"
    BY <1>3, <1>6, <2>1, ComparisonsOfBounds DEF Lower
  <2>2. CASE exclude # "none"
    <3>1. PICK n \in Nat : n = LastIn(p, exclude)
      BY <1>1, <2>2, LastInIs
    <3>2. \A i \in a..b : i <= n <=> BeforeOrEqual(exclude, StateAt(f, k, i))
      BY <1>1, <2>2, <3>1, LastInIs
    <3>3. xl = IF n = 0 THEN NegInf ELSE Fin(n)
      BY <1>3, <2>2, <3>1
    <3>4. xl \in Lower
      BY <3>1, <3>3 DEF Lower
    <3>5. \A i \in a..b : Less(xl, Fin(i)) <=> n < i
      <4>1. CASE n = 0
        <5>1. \A i \in a..b : Less(xl, Fin(i))
          BY <1>6, <3>3, <4>1, ComparisonsOfBounds
        <5>2. \A i \in a..b : n < i
          BY <1>6, <4>1
        <5> QED
          BY <5>1, <5>2
      <4>2. CASE n # 0
        <5>1. xl = Fin(n) /\ n \in Int
          BY <3>1, <3>3, <4>2
        <5>2. \A i \in a..b : Less(Fin(n), Fin(i)) <=> n < i
          BY <1>6, <5>1, ComparisonsOfBounds
        <5> QED
          BY <5>1, <5>2
      <4> QED
        BY <4>1, <4>2
    <3>6. \A i \in a..b : ~ (i <= n) <=> n < i
      BY <3>1
    <3> QED
      BY <2>2, <3>2, <3>4, <3>5, <3>6
  <2> QED
    BY <2>1, <2>2
<1>9. Greater(start, xl) \in Lower /\ Fin(a - 1) \in Lower
  BY <1>6, <1>8, GreaterIs DEF Lower
<1>10. /\ lowest \in Lower
       /\ \A i \in Int : Less(lowest, Fin(i)) <=>
            Less(start, Fin(i)) /\ Less(xl, Fin(i)) /\ Less(Fin(a - 1), Fin(i))
  BY <1>4, <1>8, <1>9, GreaterIs
<1>11. PICK v \in Int : lowest = Fin(v)
  <2>1. ~ Less(lowest, Fin(a - 1))
    <3>1. ~ Less(Fin(a - 1), Fin(a - 1))
      BY <1>6, ComparisonsOfBounds
    <3> QED
      BY <1>6, <1>10, <3>1
  <2>2. lowest # NegInf
    BY <1>6, <2>1, ComparisonsOfBounds
  <2> QED
    BY <1>10, <2>2 DEF Lower
<1>12. \A i \in a..b : v < i <=> Less(start, Fin(i)) /\ Less(xl, Fin(i))
  <2>1. \A i \in a..b : Less(Fin(a - 1), Fin(i))
    <3>1. \A i \in a..b : a - 1 < i
      BY <1>6
    <3> QED
      BY <1>6, <3>1, ComparisonsOfBounds
  <2>2. \A i \in a..b : Less(lowest, Fin(i)) <=> v < i
    BY <1>6, <1>11, ComparisonsOfBounds
  <2> QED
    BY <1>6, <1>10, <2>1, <2>2
<1>13. a <= v + 1
  <2>1. ~ (v < a - 1)
    <3>1. ~ Less(lowest, Fin(a - 1))
      <4>1. ~ Less(Fin(a - 1), Fin(a - 1))
        BY <1>6, ComparisonsOfBounds
      <4> QED
        BY <1>6, <1>10, <4>1
    <3> QED
      BY <1>6, <1>11, <3>1, ComparisonsOfBounds
  <2> QED
    BY <1>6, <2>1
<1>14. /\ endmost \in Upper
       /\ \A i \in Int : ~ Less(endmost, Fin(i)) <=> ~ Less(end, Fin(i)) /\ ~ Less(tl, Fin(i))
  BY <1>5, <1>7, SmallerIs
<1>15. Plus(lowest, 1) = Fin(v + 1) /\ Plus(lowest, 1)[2] = v + 1
  <2>1. v + 1 \in Int /\ 1 \in Int
    OBVIOUS
  <2>2. Plus(Fin(v), 1) = Fin(v + 1) /\ Fin(v + 1)[2] = v + 1
    BY <2>1, ComparisonsOfBounds
  <2> QED
    BY <1>11, <2>2
<1> DEFINE None == \/ exclude # "none" /\ BeforeOrEqual(exclude, target)
                   \/ ~ Less(start, end)
                   \/ tl = Fin(0)
                   \/ ~ Less(Fin(v + 1), Plus(endmost, 1))
<1>16. FilterStates(p, target, exclude, start, end) =
           IF None THEN Empty(p) ELSE Slice(p, v + 1, Plus(endmost, 1))
  <2>1. p.offset = a
    <3>1. Consists(p, whole, f, k, a, b)
      BY <1>1, PieceBasics
    <3> QED
      BY <3>1 DEF Consists
  <2> QED
    BY <1>2, <1>3, <1>4, <1>5, <1>15, <2>1 DEF FilterStates
<1>17. \A i \in a..b : Wanted(i) <=> v < i /\ ~ Less(endmost, Fin(i))
  BY <1>6, <1>7, <1>8, <1>12, <1>14
<1>18. CASE None
  <2>1. ASSUME NEW i \in a..b, Wanted(i) PROVE FALSE
    <3>1. Less(start, Fin(i)) /\ ~ Less(end, Fin(i)) /\ BeforeOrEqual(target, StateAt(f, k, i))
      BY <2>1
    <3>2. v < i /\ ~ Less(endmost, Fin(i)) /\ i \in Int
      BY <1>6, <1>17, <2>1
    <3>3. Less(start, end)
      BY <3>1, <3>2, BetweenBounds
    <3>4. tl # Fin(0)
      <4>1. ~ Less(tl, Fin(i))
        BY <1>7, <3>1
      <4>2. Less(Fin(0), Fin(i))
        <5>1. 0 < i /\ 0 \in Int
          BY <1>6
        <5> QED
          BY <3>2, <5>1, ComparisonsOfBounds
      <4> QED
        BY <4>1, <4>2
    <3>5. Less(Fin(v + 1), Plus(endmost, 1))
      <4>1. CASE endmost = PosInf
        <5>1. Plus(endmost, 1) = PosInf /\ v + 1 \in Int
          BY <4>1, ComparisonsOfBounds
        <5> QED
          BY <5>1, ComparisonsOfBounds
      <4>2. ASSUME NEW j \in Int, endmost = Fin(j) PROVE Less(Fin(v + 1), Plus(endmost, 1))
        <5>1. ~ (j < i)
          BY <3>2, <4>2, ComparisonsOfBounds
        <5>2. Plus(endmost, 1) = Fin(j + 1) /\ v + 1 \in Int /\ j + 1 \in Int
          BY <4>2, ComparisonsOfBounds
        <5>3. v + 1 < j + 1
          BY <3>2, <5>1
        <5> QED
          BY <5>2, <5>3, ComparisonsOfBounds
      <4> QED
        BY <1>14, <4>1, <4>2 DEF Upper
    <3>6. exclude # "none" /\ BeforeOrEqual(exclude, target)
      BY <1>18, <3>3, <3>4, <3>5
    <3>7. ~ BeforeOrEqual(exclude, StateAt(f, k, i))
      BY <2>1, <3>6
    <3>8. exclude \in State /\ StateAt(f, k, i) \in State
      BY <3>6 DEF StateAt, State
    <3> QED
      BY <3>1, <3>6, <3>7, <3>8, OrderOfStates DEF State
  <2>2. FilterStates(p, target, exclude, start, end) = Piece(whole, f, k, a, 0)
    BY <1>1, <1>16, <1>18, EmptyIsPiece
  <2>3. Within(whole, a, 0) /\ 0 \in Nat /\ 0 <= b /\ \A i \in a..b : ~ (i \in a..0)
    BY <1>6 DEF Within, LogOK
  <2> HIDE DEF Wanted
  <2>4. \A i \in a..b : i \in a..0 <=> Wanted(i)
    BY <2>1, <2>3
  <2> USE DEF Wanted
  <2> QED
    BY <1>1, <1>6, <2>2, <2>3, <2>4
<1>19. CASE ~ None
  <2>1. Less(Fin(v + 1), Plus(endmost, 1))
    BY <1>19
  <2>2. PICK m \in Nat :
          /\ m <= b /\ Within(whole, v + 1, m)
          /\ Slice(p, v + 1, Plus(endmost, 1)) = Piece(whole, f, k, v + 1, m)
          /\ \A i \in Int : v < i => (i <= m <=> i <= b /\ ~ Less(endmost, Fin(i)))
    BY <1>1, <1>13, <1>14, <2>1, SliceBetween
  <2>3. FilterStates(p, target, exclude, start, end) = Piece(whole, f, k, v + 1, m)
    BY <1>16, <1>19, <2>2
  <2> HIDE DEF Wanted
  <2>4. \A i \in a..b : i \in v + 1..m <=> Wanted(i)
    <3>1. \A i \in a..b : i <= b /\ i \in Int
      BY <1>6
    <3>2. \A i \in a..b : i \in v + 1..m <=> v < i /\ i <= m
      BY <1>6
    <3> QED
      BY <1>17, <2>2, <3>1, <3>2
  <2>5. v + 1 \in Nat \ {0}
    BY <1>6, <1>13
  <2> USE DEF Wanted
  <2> QED
    BY <1>1, <1>13, <2>2, <2>3, <2>4, <2>5
<1> HIDE DEF None
<1> QED
  BY <1>18, <1>19

(* Pieces that hold the same batches of the same states are equal.         *)
LEMMA SamePiece ==
    ASSUME NEW whole, NEW f, NEW k, LogOK(whole, f, k), NEW a, NEW b, Within(whole, a, b),
           NEW c, Within(whole, a, c), \A i \in Int : a <= i => (i <= b <=> i <= c)
    PROVE  Piece(whole, f, k, a, b) = Piece(whole, f, k, a, c)
<1>1. a \in Nat /\ b \in Nat /\ c \in Nat
  BY DEF Within
<1>2. CASE a <= b
  <2>1. b <= c /\ a <= c
    BY <1>1, <1>2
  <2>2. c <= b
    BY <1>1, <2>1
  <2>3. b = c
    BY <1>1, <2>1, <2>2
  <2> QED
    BY <2>3
<1>3. CASE ~ (a <= b)
  <2>1. ~ (a <= c)
    BY <1>1, <1>3
  <2>2. b < a /\ c < a
    BY <1>1, <1>3, <2>1
  <2>3. Piece(whole, f, k, a, b) = Piece(whole, f, k, a, 0)
    BY <2>2, EmptyPiece
  <2>4. Piece(whole, f, k, a, c) = Piece(whole, f, k, a, 0)
    BY <2>2, EmptyPiece
  <2> QED
    BY <2>3, <2>4
<1> QED
  BY <1>2, <1>3

(* filter with bounds only: v is before the first index that is taken, c   *)
(* is the last one.                                                        *)
LEMMA PlainFilter ==
    ASSUME NEW whole, NEW f, NEW k, LogOK(whole, f, k), NEW a, NEW b, Within(whole, a, b),
           NEW start \in Lower, NEW end \in Upper,
           NEW v \in Int, a <= v + 1, Greater(Greater(start, NegInf), Fin(a - 1)) = Fin(v),
           NEW c \in Nat, c <= b,
           \A i \in Int : v < i => (i <= c <=> i <= b /\ ~ Less(end, Fin(i)))
    PROVE  /\ FilterStates(Piece(whole, f, k, a, b), "sequenced", "none", start, end)
                = IF ~ Less(start, end) \/ Less(end, Fin(v + 1))
                  THEN Piece(whole, f, k, a, 0) ELSE Piece(whole, f, k, v + 1, c)
           /\ Within(whole, a, 0) /\ Within(whole, v + 1, c)
<1>1. PICK p : p = Piece(whole, f, k, a, b)
  OBVIOUS
<1>2. p.offset = a
  <2>1. Consists(p, whole, f, k, a, b)
    BY <1>1, PieceBasics
  <2> QED
    BY <2>1 DEF Consists
<1>3. Plus(Fin(v), 1) = Fin(v + 1) /\ Fin(v + 1)[2] = v + 1
  <2>1. v + 1 \in Int /\ 1 \in Int
    OBVIOUS
  <2> QED
    BY <2>1, ComparisonsOfBounds
<1>4. Smaller(end, PosInf) = end
  <2>1. end = PosInf \/ \E j \in Int : end = Fin(j)
    BY DEF Upper
  <2> QED
    BY <2>1, ComparisonsOfBounds DEF Smaller
<1>5. FilterStates(p, "sequenced", "none", start, end)
        = IF ~ Less(start, end) \/ ~ Less(Fin(v + 1), Plus(end, 1))
          THEN Empty(p) ELSE Slice(p, v + 1, Plus(end, 1))
  <2>1. PosInf # Fin(0)
    BY ComparisonsOfBounds
  <2> QED
    BY <1>2, <1>3, <1>4, <2>1 DEF FilterStates
<1>6. Less(Fin(v + 1), Plus(end, 1)) <=> ~ Less(end, Fin(v + 1))
  <2>1. v + 1 \in Int
    OBVIOUS
  <2> QED
    BY <2>1, BetweenBounds
<1>7. /\ a \in Nat \ {0} /\ b \in Nat /\ b <= Len(whole) /\ Len(whole) \in Nat
  BY DEF Within, LogOK
<1>8. Within(whole, a, 0) /\ Within(whole, v + 1, c)
  BY <1>7 DEF Within
<1>9. CASE ~ Less(start, end) \/ Less(end, Fin(v + 1))
  <2>1. FilterStates(p, "sequenced", "none", start, end) = Empty(p)
    BY <1>5, <1>6, <1>9
  <2> QED
    BY <1>1, <1>8, <1>9, <2>1, EmptyIsPiece
<1>10. CASE ~ (~ Less(start, end) \/ Less(end, Fin(v + 1)))
  <2>1. Less(Fin(v + 1), Plus(end, 1))
    BY <1>6, <1>10
  <2>2. FilterStates(p, "sequenced", "none", start, end) = Slice(p, v + 1, Plus(end, 1))
    BY <1>5, <1>10, <2>1
  <2>3. PICK m \in Nat :
          /\ m <= b /\ Within(whole, v + 1, m)
          /\ Slice(p, v + 1, Plus(end, 1)) = Piece(whole, f, k, v + 1, m)
          /\ \A i \in Int : v < i => (i <= m <=> i <= b /\ ~ Less(end, Fin(i)))
    BY <1>1, <2>1, SliceBetween
  <2>4. PICK w \in Int : w = v + 1
    OBVIOUS
  <2>5. \A i \in Int : w <= i => (i <= m <=> i <= c)
    <3>1. \A i \in Int : w <= i => v < i
      BY <2>4
    <3> QED
      BY <2>3, <3>1
  <2>6. Piece(whole, f, k, w, m) = Piece(whole, f, k, w, c)
    BY <1>8, <2>3, <2>4, <2>5, SamePiece
  <2> QED
    BY <1>1, <1>8, <1>10, <2>2, <2>3, <2>4, <2>6
<1> QED
  BY <1>9, <1>10

(* What is behind an index, and what is up to one. *)
LEMMA AfterIs ==
    ASSUME NEW whole, NEW f, NEW k, LogOK(whole, f, k), NEW a, NEW b, Within(whole, a, b),
           NEW i \in Nat, NEW c, c = IF a <= i + 1 THEN i + 1 ELSE a
    PROVE  After(Piece(whole, f, k, a, b), i) = Piece(whole, f, k, c, b) /\ Within(whole, c, b)
<1>1. a \in Nat \ {0} /\ b \in Nat /\ i \in Int /\ a - 1 \in Int
  BY DEF Within
<1>2. PICK v \in Int : v = c - 1
  BY <1>1
<1>3. a <= v + 1 /\ v + 1 = c /\ v = IF i < a - 1 THEN a - 1 ELSE i
  BY <1>1, <1>2
<1>4. Greater(Fin(i), NegInf) = Fin(i)
  BY <1>1, ComparisonsOfBounds DEF Greater
<1>5. Greater(Fin(i), Fin(a - 1)) = Fin(v)
  <2>1. Less(Fin(i), Fin(a - 1)) <=> i < a - 1
    BY <1>1, ComparisonsOfBounds
  <2> QED
    BY <1>3, <2>1 DEF Greater
<1>6. Fin(i) \in Lower /\ PosInf \in Upper
  BY <1>1 DEF Lower, Upper
<1>7. \A j \in Int : ~ Less(PosInf, Fin(j))
  BY ComparisonsOfBounds
<1>8. /\ FilterStates(Piece(whole, f, k, a, b), "sequenced", "none", Fin(i), PosInf)
           = IF ~ Less(Fin(i), PosInf) \/ Less(PosInf, Fin(v + 1))
             THEN Piece(whole, f, k, a, 0) ELSE Piece(whole, f, k, v + 1, b)
      /\ Within(whole, v + 1, b)
  <2>1. b \in Nat /\ b <= b /\ Greater(Greater(Fin(i), NegInf), Fin(a - 1)) = Fin(v)
    BY <1>1, <1>4, <1>5
  <2>2. \A j \in Int : v < j => (j <= b <=> j <= b /\ ~ Less(PosInf, Fin(j)))
    BY <1>7
  <2> QED
    BY <1>3, <1>6, <2>1, <2>2, PlainFilter
<1>9. Less(Fin(i), PosInf) /\ ~ Less(PosInf, Fin(v + 1))
  <2>1. v + 1 \in Int
    OBVIOUS
  <2> QED
    BY <1>1, <2>1, ComparisonsOfBounds
<1> QED
  BY <1>3, <1>8, <1>9 DEF After

LEMMA FiniteEnd ==
    ASSUME NEW v \in Int, NEW b \in Nat, NEW j \in Nat, NEW c, c = IF j <= b THEN j ELSE b
    PROVE  /\ c \in Nat /\ c <= b
           /\ \A i \in Int : v < i => (i <= c <=> i <= b /\ ~ Less(Fin(j), Fin(i)))
<1>1. \A i \in Int : Less(Fin(j), Fin(i)) <=> j < i
  <2>1. j \in Int
    OBVIOUS
  <2> QED
    BY <2>1, ComparisonsOfBounds
<1>2. \A i \in Int : i <= c <=> i <= b /\ ~ (j < i)
  OBVIOUS
<1> QED
  BY <1>1, <1>2

LEMMA UpToIs ==
    ASSUME NEW whole, NEW f, NEW k, LogOK(whole, f, k), NEW a, NEW b, Within(whole, a, b),
           NEW i \in Nat, NEW c, c = IF i <= b THEN i ELSE b
    PROVE  UpTo(Piece(whole, f, k, a, b), i) = Piece(whole, f, k, a, c) /\ Within(whole, a, c)
<1>1. a \in Nat \ {0} /\ b \in Nat /\ i \in Int /\ a - 1 \in Int
  BY DEF Within
<1>2. PICK v \in Int : v = a - 1
  BY <1>1
<1>3. a <= v + 1 /\ v + 1 = a
  BY <1>1, <1>2
<1>4. Greater(Greater(NegInf, NegInf), Fin(a - 1)) = Fin(v)
  <2>1. Greater(NegInf, NegInf) = NegInf
    BY DEF Greater
  <2>2. Greater(NegInf, Fin(a - 1)) = Fin(a - 1)
    BY <1>1, ComparisonsOfBounds DEF Greater
  <2> QED
    BY <1>2, <2>1, <2>2
<1>5. Fin(i) \in Upper /\ NegInf \in Lower
  BY <1>1 DEF Lower, Upper
<1>6. /\ FilterStates(Piece(whole, f, k, a, b), "sequenced", "none", NegInf, Fin(i))
           = IF ~ Less(NegInf, Fin(i)) \/ Less(Fin(i), Fin(v + 1))
             THEN Piece(whole, f, k, a, 0) ELSE Piece(whole, f, k, v + 1, c)
      /\ Within(whole, a, 0) /\ Within(whole, v + 1, c)
  <2>1. /\ c \in Nat /\ c <= b
        /\ \A j \in Int : v < j => (j <= c <=> j <= b /\ ~ Less(Fin(i), Fin(j)))
    BY <1>1, FiniteEnd
  <2> QED
    BY <1>3, <1>4, <1>5, <2>1, PlainFilter
<1>7. Less(NegInf, Fin(i)) /\ (Less(Fin(i), Fin(a)) <=> i < a)
  <2>1. a \in Int
    BY <1>1
  <2>2. Less(Fin(i), Fin(a)) <=> i < a
    BY <1>1, <2>1, ComparisonsOfBounds
  <2>3. Less(NegInf, Fin(i))
    BY <1>1, ComparisonsOfBounds
  <2> QED
    BY <2>2, <2>3
<1>8. i < a => Piece(whole, f, k, a, c) = Piece(whole, f, k, a, 0)
  <2>1. i < a => c < a
    BY <1>1
  <2> QED
    BY <1>3, <1>6, <2>1, EmptyPiece
<1> QED
  BY <1>3, <1>6, <1>7, <1>8 DEF UpTo

(* What is finalized and behind the index q. *)
LEMMA BetweenIs ==
    ASSUME NEW whole, NEW f, NEW k, LogOK(whole, f, k), NEW a, NEW b, Within(whole, a, b),
           NEW q \in Nat, a <= q + 1, NEW j \in Nat, NEW c, c = IF j <= b THEN j ELSE b
    PROVE  /\ FilterStates(Piece(whole, f, k, a, b), "sequenced", "none", Fin(q), Fin(j))
                = IF q < j THEN Piece(whole, f, k, q + 1, c) ELSE Piece(whole, f, k, a, 0)
           /\ Within(whole, q + 1, c) /\ Within(whole, a, 0)
<1>1. a \in Nat \ {0} /\ b \in Nat /\ q \in Int /\ j \in Int /\ a - 1 \in Int /\ q + 1 \in Int
  BY DEF Within
<1>2. Greater(Greater(Fin(q), NegInf), Fin(a - 1)) = Fin(q)
  <2>1. Greater(Fin(q), NegInf) = Fin(q)
    BY <1>1, ComparisonsOfBounds DEF Greater
  <2>2. Less(Fin(q), Fin(a - 1)) <=> q < a - 1
    BY <1>1, ComparisonsOfBounds
  <2>3. ~ (q < a - 1)
    BY <1>1
  <2>4. Greater(Fin(q), Fin(a - 1)) = Fin(q)
    BY <2>2, <2>3 DEF Greater
  <2> QED
    BY <2>1, <2>4
<1>3. Fin(q) \in Lower /\ Fin(j) \in Upper
  BY <1>1 DEF Lower, Upper
<1>4. /\ FilterStates(Piece(whole, f, k, a, b), "sequenced", "none", Fin(q), Fin(j))
           = IF ~ Less(Fin(q), Fin(j)) \/ Less(Fin(j), Fin(q + 1))
             THEN Piece(whole, f, k, a, 0) ELSE Piece(whole, f, k, q + 1, c)
      /\ Within(whole, a, 0) /\ Within(whole, q + 1, c)
  <2>1. /\ c \in Nat /\ c <= b
        /\ \A i \in Int : q < i => (i <= c <=> i <= b /\ ~ Less(Fin(j), Fin(i)))
    BY <1>1, FiniteEnd
  <2> QED
    BY <1>1, <1>2, <1>3, <2>1, PlainFilter
<1>5. (Less(Fin(q), Fin(j)) <=> q < j) /\ (Less(Fin(j), Fin(q + 1)) <=> j < q + 1)
  BY <1>1, ComparisonsOfBounds
<1>6. ~ (~ (q < j) \/ j < q + 1) <=> q < j
  BY <1>1
<1> QED
  BY <1>4, <1>5, <1>6

(* Only the batches of a piece and their states count: not what the log    *)
(* has behind them, and not how far its states go there.                   *)
LEMMA PieceStays ==
    ASSUME NEW whole, NEW f, NEW k, NEW a, NEW b, NEW whole2, NEW f2, NEW k2,
           SubSeq(whole, a, b) = SubSeq(whole2, a, b),
           Part(a, b, k) = Part(a, b, k2), Part(a, b, f) = Part(a, b, f2)
    PROVE  Piece(whole, f, k, a, b) = Piece(whole2, f2, k2, a, b)
BY DEF Piece

LEMMA PromoteChanges ==
    ASSUME NEW whole, NEW f, NEW k, LogOK(whole, f, k), NEW a, NEW b, Within(whole, a, b), a <= b,
           NEW i \in Nat
    PROVE  /\ i = 0 => \A t : Promote(Piece(whole, f, k, a, b), i, t) = Piece(whole, f, k, a, b)
           /\ a <= i /\ i <= Len(whole) =>
                /\ Promote(Piece(whole, f, k, a, b), i, "locked")
                     = Piece(whole, f, IF i <= k THEN k ELSE i, a, b)
                /\ Promote(Piece(whole, f, k, a, b), i, "finalized")
                     = Piece(whole, IF i <= f THEN f ELSE i, IF i <= k THEN k ELSE i, a, b)
<1>1. PICK p : p = Piece(whole, f, k, a, b)
  OBVIOUS
<1>2. Consists(p, whole, f, k, a, b)
  BY <1>1, PieceBasics
<1>3. a \in Nat \ {0} /\ b \in Nat /\ f \in Nat /\ k \in Nat /\ f <= k
  BY DEF LogOK, Within
<1>4. LastOf(p) = b
  BY <1>2 DEF Consists
<1>5. PICK m \in Nat : m = IF i <= b THEN i ELSE b
  BY <1>3
<1>6. Min({i, LastOf(p)}) = m
  <2>1. Min({i, b}) = IF i <= b THEN i ELSE b
    <3>1. i \in Int /\ b \in Int
      BY <1>3
    <3> QED
      BY <3>1, MinPair
  <2> QED
    BY <1>4, <1>5, <2>1
<1>7. CASE i = 0
  <2>1. m <= 0
    BY <1>3, <1>5, <1>7
  <2>2. \A t : Promote(p, i, t) = p
    BY <1>6, <2>1 DEF Promote
  <2> QED
    BY <1>1, <1>3, <1>7, <2>2
<1>8. CASE i # 0 /\ a <= i /\ i <= Len(whole)
  <2>1. ~ (m <= 0) /\ a <= m /\ m <= b
    BY <1>3, <1>5, <1>8
  <2>2. PICK x \in Nat : x = Part(a, b, k)
    BY <1>3, PartBounds
  <2>3. PICK y \in Nat : y = Part(a, b, f)
    BY <1>3, PartBounds
  <2>4. Max({x, m}) = (IF x >= m THEN x ELSE m) /\ Max({y, m}) = (IF y >= m THEN y ELSE m)
    <3>1. x \in Int /\ y \in Int /\ m \in Int
      BY <1>5, <2>2, <2>3
    <3> QED
      BY <3>1, MaxPair
  <2>5. (IF x >= m THEN x ELSE m) = Part(a, b, IF i <= k THEN k ELSE i)
    BY <1>3, <1>5, <1>8, <2>2 DEF Part
  <2>6. (IF y >= m THEN y ELSE m) = Part(a, b, IF i <= f THEN f ELSE i)
    BY <1>3, <1>5, <1>8, <2>3 DEF Part
  <2>7. p.last.locked = x /\ p.last.finalized = y /\ p.last["locked"] = x /\ p.last["finalized"] = y
    BY <1>2, <2>2, <2>3 DEF Consists
  <2>8. p = [offset |-> a, batches |-> SubSeq(whole, a, b),
             last |-> [locked |-> Part(a, b, k), finalized |-> Part(a, b, f)]]
    BY <1>1 DEF Piece
  <2>9. /\ BeforeOrEqual("locked", "locked") /\ ~ BeforeOrEqual("finalized", "locked")
        /\ BeforeOrEqual("locked", "finalized") /\ BeforeOrEqual("finalized", "finalized")
    BY OrderOfStates DEF State
  <2>10. Promote(p, i, "locked") =
           [p EXCEPT !.last = [locked |-> Max({x, m}), finalized |-> y]]
    BY <1>6, <2>1, <2>7, <2>9 DEF Promote
  <2>11. Promote(p, i, "finalized") =
           [p EXCEPT !.last = [locked |-> Max({x, m}), finalized |-> Max({y, m})]]
    BY <1>6, <2>1, <2>7, <2>9 DEF Promote
  <2>12. \A z : [p EXCEPT !.last = z]
                   = [offset |-> a, batches |-> SubSeq(whole, a, b), last |-> z]
    <3>1. \A s, l, z : [[offset |-> a, batches |-> s, last |-> l] EXCEPT !.last = z]
                          = [offset |-> a, batches |-> s, last |-> z]
      OBVIOUS
    <3> QED
      BY <2>8, <3>1
  <2>13. Promote(p, i, "locked") = Piece(whole, f, IF i <= k THEN k ELSE i, a, b)
    BY <2>3, <2>4, <2>5, <2>10, <2>12 DEF Piece
  <2>14. Promote(p, i, "finalized")
           = Piece(whole, IF i <= f THEN f ELSE i, IF i <= k THEN k ELSE i, a, b)
    BY <2>4, <2>5, <2>6, <2>11, <2>12 DEF Piece
  <2> QED
    BY <1>1, <1>8, <2>13, <2>14
<1>9. a <= i => i # 0
  BY <1>3
<1> QED
  BY <1>7, <1>8, <1>9

LEMMA ExtendIs ==
    ASSUME NEW whole, NEW f, NEW k, LogOK(whole, f, k), NEW a, NEW b, Within(whole, a, b),
           a <= b, b <= f, NEW c, Within(whole, b + 1, c), b <= c
    PROVE  /\ Extend(Piece(whole, f, k, a, b), Piece(whole, f, k, b + 1, c)) = Piece(whole, f, k, a, c)
           /\ CanExtend(Piece(whole, f, k, a, b), Piece(whole, f, k, b + 1, c))
           /\ Within(whole, a, c)
<1>1. PICK s : s = Piece(whole, f, k, a, b)
  OBVIOUS
<1>2. PICK t : t = Piece(whole, f, k, b + 1, c)
  OBVIOUS
<1>3. Consists(s, whole, f, k, a, b) /\ Consists(t, whole, f, k, b + 1, c)
  BY <1>1, <1>2, PieceBasics
<1>4. /\ a \in Nat \ {0} /\ b \in Nat /\ c \in Nat /\ f \in Nat /\ k \in Nat /\ f <= k
      /\ whole \in Seq(Size) /\ Len(whole) \in Nat /\ c <= Len(whole) /\ k <= Len(whole)
      /\ b <= Len(whole)
  BY DEF LogOK, Within
<1>5. Within(whole, a, c)
  BY <1>4 DEF Within
<1>6. CASE c = b
  <2>1. c < b + 1
    BY <1>4, <1>6
  <2>2. t.batches = << >>
    BY <1>3, <2>1 DEF Consists
  <2> QED
    BY <1>1, <1>2, <1>5, <1>6, <2>2 DEF Extend, CanExtend
<1>7. CASE c # b
  <2>1. b < c /\ ~ (c < b + 1) /\ ~ (b < a)
    BY <1>4, <1>7
  <2>2. s.batches # << >> /\ t.batches # << >>
    <3>1. s.batches # << >>
      BY <1>3, <2>1 DEF Consists
    <3>2. t.batches # << >>
      BY <1>3, <2>1 DEF Consists
    <3> QED
      BY <3>1, <3>2
  <2>3. PICK u \in Nat : u = Part(b + 1, c, k)
    <3>1. b + 1 \in Nat \ {0}
      BY <1>4
    <3> QED
      BY <1>4, <3>1, PartBounds
  <2>4. PICK w \in Nat : w = Part(b + 1, c, f)
    <3>1. b + 1 \in Nat \ {0}
      BY <1>4
    <3> QED
      BY <1>4, <3>1, PartBounds
  <2>5. t.last.locked = u /\ t.last.finalized = w
    BY <1>3, <2>3, <2>4 DEF Consists
  <2>6. [s EXCEPT !.batches = @ \o t.batches] = Piece(whole, b, b, a, c)
    <3>1. SubSeq(whole, a, b) \o SubSeq(whole, b + 1, c) = SubSeq(whole, a, c)
      <4>1. a \in 1..Len(whole) + 1 /\ b \in a - 1..Len(whole) /\ c \in b..Len(whole)
        BY <1>4
      <4> QED
        BY <1>4, <4>1, ConcatAdjacentSubSeq
    <3>2. s = [offset |-> a, batches |-> SubSeq(whole, a, b),
               last |-> [locked |-> Part(a, b, k), finalized |-> Part(a, b, f)]]
      BY <1>1 DEF Piece
    <3>3. \A x, l, y : [[offset |-> a, batches |-> x, last |-> l] EXCEPT !.batches = y]
                          = [offset |-> a, batches |-> y, last |-> l]
      OBVIOUS
    <3>7. PICK y : y = s.batches \o t.batches
      OBVIOUS
    <3>8. [s EXCEPT !.batches = @ \o t.batches] = [s EXCEPT !.batches = y]
      BY <3>7
    <3>9. s.batches = SubSeq(whole, a, b)
      BY <1>3 DEF Consists
    <3>4. [s EXCEPT !.batches = @ \o t.batches]
            = [offset |-> a, batches |-> SubSeq(whole, a, b) \o t.batches,
               last |-> [locked |-> Part(a, b, k), finalized |-> Part(a, b, f)]]
      <4>1. [s EXCEPT !.batches = y]
              = [offset |-> a, batches |-> y,
                 last |-> [locked |-> Part(a, b, k), finalized |-> Part(a, b, f)]]
        BY <3>2, <3>3
      <4> QED
        BY <3>7, <3>8, <3>9, <4>1
    <3>5. t.batches = SubSeq(whole, b + 1, c)
      BY <1>3 DEF Consists
    <3>6. Part(a, b, k) = b /\ Part(a, b, f) = b /\ Part(a, c, b) = b
      BY <1>4, <2>1 DEF Part
    <3> QED
      BY <3>1, <3>4, <3>5, <3>6 DEF Piece
  <2>7. PICK n \in Nat : n = IF u <= b THEN b ELSE u
    BY <1>4
  <2>8. /\ u = 0 \/ b + 1 <= u
        /\ w = 0 \/ b + 1 <= w
        /\ u <= c /\ w <= u
    BY <1>4, <2>1, <2>3, <2>4 DEF Part
  <2>9. LogOK(whole, b, b) /\ LogOK(whole, b, n)
    BY <1>4, <2>7, <2>8 DEF LogOK
  <2>10. Promote(Piece(whole, b, b, a, c), u, "locked") = Piece(whole, b, n, a, c)
    <3>1. a <= c
      BY <1>4, <2>1
    <3>2. CASE u = 0
      <4>1. n = b
        BY <1>4, <2>7, <3>2
      <4> QED
        BY <1>5, <2>9, <3>1, <3>2, <4>1, PromoteChanges
    <3>3. CASE u # 0
      <4>1. a <= u /\ u <= Len(whole)
        BY <1>4, <2>8, <3>3
      <4> QED
        BY <1>5, <2>7, <2>9, <3>1, <4>1, PromoteChanges
    <3> QED
      BY <3>2, <3>3
  <2>11. PICK m \in Nat : m = IF w <= b THEN b ELSE w
    BY <1>4
  <2>12. Promote(Piece(whole, b, n, a, c), w, "finalized") = Piece(whole, m, n, a, c)
    <3>1. a <= c
      BY <1>4, <2>1
    <3>2. CASE w = 0
      <4>1. m = b
        BY <1>4, <2>11, <3>2
      <4> QED
        BY <1>5, <2>9, <3>1, <3>2, <4>1, PromoteChanges
    <3>3. CASE w # 0
      <4>1. a <= w /\ w <= Len(whole) /\ (IF w <= n THEN n ELSE w) = n
        BY <1>4, <2>7, <2>8, <3>3
      <4> QED
        BY <1>5, <2>9, <2>11, <3>1, <4>1, PromoteChanges
    <3> QED
      BY <3>2, <3>3
  <2>13. Part(a, c, n) = Part(a, c, k)
    BY <1>4, <2>1, <2>3, <2>7 DEF Part
  <2>14. Part(a, c, m) = Part(a, c, f)
    BY <1>4, <2>1, <2>4, <2>11 DEF Part
  <2>15. Extend(s, t) = Piece(whole, m, n, a, c)
    BY <2>2, <2>5, <2>6, <2>10, <2>12 DEF Extend
  <2>16. Extend(s, t) = Piece(whole, f, k, a, c)
    BY <2>13, <2>14, <2>15 DEF Piece
  <2>17. CanExtend(s, t)
    <3>1. LastOf(s) = b /\ s.last.finalized = Part(a, b, f) /\ t.offset = b + 1
      BY <1>3 DEF Consists
    <3>2. b <= Part(a, b, f)
      BY <1>4 DEF Part
    <3> QED
      BY <3>1, <3>2 DEF CanExtend
  <2> QED
    BY <1>1, <1>2, <1>5, <2>16, <2>17
<1> QED
  BY <1>6, <1>7

(* A sequence without batches adds nothing, and is replaced by what it is  *)
(* extended with.                                                          *)
LEMMA ExtendEmpty ==
    ASSUME NEW whole, NEW f, NEW k, LogOK(whole, f, k), NEW a, NEW b, Within(whole, a, b),
           NEW c, NEW d, Within(whole, c, d)
    PROVE  /\ d < c => /\ Extend(Piece(whole, f, k, a, b), Piece(whole, f, k, c, d)) = Piece(whole, f, k, a, b)
                       /\ CanExtend(Piece(whole, f, k, a, b), Piece(whole, f, k, c, d))
           /\ b < a /\ ~ (d < c) =>
                /\ Extend(Piece(whole, f, k, a, b), Piece(whole, f, k, c, d)) = Piece(whole, f, k, c, d)
                /\ CanExtend(Piece(whole, f, k, a, b), Piece(whole, f, k, c, d))
<1>1. PICK s : s = Piece(whole, f, k, a, b)
  OBVIOUS
<1>2. PICK t : t = Piece(whole, f, k, c, d)
  OBVIOUS
<1>3. Consists(s, whole, f, k, a, b) /\ Consists(t, whole, f, k, c, d)
  BY <1>1, <1>2, PieceBasics
<1>4. (s.batches = << >> <=> b < a) /\ (t.batches = << >> <=> d < c)
  BY <1>3 DEF Consists
<1>5. d < c => Extend(s, t) = s /\ CanExtend(s, t)
  BY <1>4 DEF Extend, CanExtend
<1>6. b < a /\ ~ (d < c) => Extend(s, t) = t /\ CanExtend(s, t)
  BY <1>4 DEF Extend, CanExtend
<1> QED
  BY <1>1, <1>2, <1>5, <1>6

LEMMA AppendToBatches ==
    \A a, x, s, l : AppendBatch([offset |-> a, batches |-> s, last |-> l], x)
                        = [offset |-> a, batches |-> Append(s, x), last |-> l]
BY DEF AppendBatch

(* A batch that is appended to the piece and to the log. *)
LEMMA AppendIs ==
    ASSUME NEW whole, NEW f, NEW k, LogOK(whole, f, k), NEW a \in Nat \ {0}, a <= Len(whole) + 1,
           NEW x \in Size
    PROVE  /\ AppendBatch(Piece(whole, f, k, a, Len(whole)), x)
                = Piece(Append(whole, x), f, k, a, Len(whole) + 1)
           /\ LogOK(Append(whole, x), f, k) /\ Len(Append(whole, x)) = Len(whole) + 1
<1>1. PICK n \in Nat : n = Len(whole)
  BY DEF LogOK
<1>2. PICK long \in Seq(Size) : long = Append(whole, x)
  BY AppendProperties DEF LogOK
<1>3. /\ Len(long) = n + 1 /\ \A i \in 1..n : long[i] = whole[i]
      /\ long[n + 1] = x /\ long = whole \o <<x>>
  BY <1>1, <1>2, AppendProperties, AppendIsConcat DEF LogOK
<1>4. LogOK(long, f, k)
  BY <1>1, <1>2, <1>3 DEF LogOK
<1>5. Append(SubSeq(whole, a, n), x) = SubSeq(long, a, n + 1)
  <2>1. PICK s : s = SubSeq(whole, a, n)
    OBVIOUS
  <2>2. /\ s \in Seq(Size) /\ Len(s) = IF a <= n THEN n - a + 1 ELSE 0
        /\ \A i \in 1..n - a + 1 : s[i] = whole[a + i - 1]
    <3>1. \A i \in a..n : whole[i] \in Size
      BY <1>1, ElementOfSeq DEF LogOK
    <3>2. n \in Int /\ a \in Int
      BY <1>1
    <3>3. /\ SubSeq(whole, a, n) \in Seq(Size)
          /\ Len(SubSeq(whole, a, n)) = IF a <= n THEN n - a + 1 ELSE 0
      BY <3>1, <3>2, SubSeqProperties
    <3>4. \A i \in 1..n - a + 1 : SubSeq(whole, a, n)[i] = whole[a + i - 1]
      BY <3>1, <3>2, SubSeqProperties
    <3> QED
      BY <2>1, <3>3, <3>4
  <2>3. PICK t : t = SubSeq(long, a, n + 1)
    OBVIOUS
  <2>4. /\ t \in Seq(Size) /\ Len(t) = IF a <= n + 1 THEN (n + 1) - a + 1 ELSE 0
        /\ \A i \in 1..(n + 1) - a + 1 : t[i] = long[a + i - 1]
    <3>1. \A i \in a..n + 1 : long[i] \in Size
      BY <1>3, ElementOfSeq
    <3> QED
      BY <2>3, <3>1, SubSeqProperties
  <2>5. PICK m \in Nat : m = n - a + 1
    BY <1>1
  <2>6. Len(s) = m /\ Len(t) = m + 1 /\ (n + 1) - a + 1 = m + 1 /\ a + m = n + 1
    BY <1>1, <2>2, <2>4, <2>5
  <2>7. PICK r \in Seq(Size) : r = Append(s, x)
    BY <2>2, AppendProperties
  <2>8. /\ Len(r) = m + 1 /\ \A i \in 1..m : r[i] = s[i]
        /\ r[m + 1] = x
    BY <2>2, <2>6, <2>7, AppendProperties
  <2>9. \A i \in 1..m + 1 : r[i] = t[i]
    <3>1. ASSUME NEW i \in 1..m PROVE r[i] = t[i]
      <4>1. r[i] = whole[a + i - 1]
        BY <2>2, <2>5, <2>8
      <4>2. i \in 1..(n + 1) - a + 1 /\ a + i - 1 \in 1..n
        BY <1>1, <2>5
      <4> QED
        BY <1>3, <2>4, <4>1, <4>2
    <3>2. r[m + 1] = t[m + 1]
      <4>1. m + 1 \in 1..(n + 1) - a + 1 /\ a + (m + 1) - 1 = n + 1
        BY <1>1, <2>5
      <4>2. t[m + 1] = long[a + (m + 1) - 1]
        BY <2>4, <4>1
      <4> QED
        BY <1>3, <2>8, <4>1, <4>2
    <3>3. \A i \in 1..m + 1 : i \in 1..m \/ i = m + 1
      OBVIOUS
    <3> QED
      BY <3>1, <3>2, <3>3
  <2>10. r = t
    BY <2>4, <2>6, <2>8, <2>9, SeqEqual
  <2> QED
    BY <2>1, <2>3, <2>7, <2>10
<1>6. /\ Part(a, n, k) = Part(a, n + 1, k) /\ Part(a, n, f) = Part(a, n + 1, f)
  BY <1>1 DEF Part, LogOK
<1>7. AppendBatch(Piece(whole, f, k, a, n), x) = Piece(long, f, k, a, n + 1)
  <2>1. PICK s, l : /\ s = SubSeq(whole, a, n)
                    /\ l = [locked |-> Part(a, n, k), finalized |-> Part(a, n, f)]
    OBVIOUS
  <2>2. Piece(whole, f, k, a, n) = [offset |-> a, batches |-> s, last |-> l]
    BY <2>1 DEF Piece
  <2>3. AppendBatch(Piece(whole, f, k, a, n), x) = [offset |-> a, batches |-> Append(s, x), last |-> l]
    BY <2>2, AppendToBatches
  <2>4. Piece(long, f, k, a, n + 1) = [offset |-> a, batches |-> Append(s, x), last |-> l]
    BY <1>5, <1>6, <2>1 DEF Piece
  <2> QED
    BY <2>3, <2>4
<1> QED
  BY <1>1, <1>2, <1>3, <1>4, <1>7

(* Sizes: g[i] is what the first i batches of the log have.                *)
SizesUp(g, whole) ==
    /\ g[0] = 0
    /\ \A i \in 0..Len(whole) : g[i] \in Nat
    /\ \A i, j \in 0..Len(whole) : i <= j => g[i] <= g[j]
    /\ \A i, j \in 0..Len(whole) : i < j => g[i] < g[j]

LEMMA TotalSizeIs ==
    ASSUME NEW s
    PROVE  TotalSize(s) = SumOf(s)
BY DEF TotalSize, SumOf

LEMMA SizesOfPieces ==
    ASSUME NEW whole \in Seq(Size)
    PROVE  \E g : /\ SizesUp(g, whole)
                  /\ \A a \in Nat \ {0}, b \in Nat : b <= Len(whole) =>
                       TotalSize(SubSeq(whole, a, b)) = IF a <= b THEN g[b] - g[a - 1] ELSE 0
<1>1. /\ whole \in Seq(Int) /\ Len(whole) \in Nat
      /\ \A i \in 1..Len(whole) : whole[i] \in Size /\ whole[i] \in Nat /\ whole[i] > 0
  <2>1. whole \in Seq(Int)
    BY SizesAreInts, SeqMonotonic
  <2>2. \A i \in 1..Len(whole) : whole[i] \in Size
    BY ElementOfSeq
  <2> QED
    BY <2>1, <2>2, SizesAreInts, LenProperties
<1>2. PICK g : g[0] = 0 /\ SumsUp(g, whole, Len(whole)) /\ SumOf(whole) = g[Len(whole)]
  BY <1>1, SumUnfolds
<1>3. /\ \A i \in 0..Len(whole) : g[i] \in Int
      /\ \A i \in 1..Len(whole) : g[i] = g[i - 1] + whole[i]
  BY <1>2 DEF SumsUp
<1>4. \A i, j \in 0..Len(whole) : i <= j => g[i] <= g[j]
  BY <1>1, <1>2, SumsGrow
<1>5. ASSUME NEW i \in 0..Len(whole), NEW j \in 0..Len(whole), i < j PROVE g[i] < g[j]
  <2>1. i \in 0..Len(whole) /\ j - 1 \in 0..Len(whole) /\ j \in 1..Len(whole) /\ i <= j - 1
    BY <1>1, <1>5
  <2>2. g[i] <= g[j - 1] /\ g[j] = g[j - 1] + whole[j] /\ whole[j] > 0 /\ whole[j] \in Nat
    BY <1>1, <1>3, <1>4, <2>1
  <2>3. g[i] \in Int /\ g[j - 1] \in Int /\ g[j] \in Int
    BY <1>3, <2>1
  <2> QED
    BY <2>2, <2>3
<1>6. ASSUME NEW i \in 0..Len(whole) PROVE g[i] \in Nat
  <2>1. 0 \in 0..Len(whole) /\ 0 <= i
    BY <1>1
  <2>2. g[0] <= g[i] /\ g[i] \in Int
    BY <1>3, <1>4, <2>1
  <2> QED
    BY <1>2, <2>2
<1>7. SizesUp(g, whole)
  BY <1>2, <1>4, <1>5, <1>6 DEF SizesUp
<1>8. ASSUME NEW a \in Nat \ {0}, NEW b \in Nat, b <= Len(whole)
      PROVE  TotalSize(SubSeq(whole, a, b)) = IF a <= b THEN g[b] - g[a - 1] ELSE 0
  <2>1. CASE a <= b
    <3>1. PICK s : s = SubSeq(whole, a, b)
      OBVIOUS
    <3>2. PICK n \in Nat : n = b - a + 1
      BY <2>1
    <3>3. /\ s \in Seq(Int) /\ Len(s) = n
          /\ \A i \in 1..n : s[i] = whole[a + i - 1]
      <4>1. a \in Int /\ b \in Int /\ \A i \in a..b : whole[i] \in Int
        BY <1>1, <1>8
      <4>2. /\ SubSeq(whole, a, b) \in Seq(Int)
            /\ Len(SubSeq(whole, a, b)) = IF a <= b THEN b - a + 1 ELSE 0
        BY <4>1, SubSeqProperties
      <4>3. \A i \in 1..b - a + 1 : SubSeq(whole, a, b)[i] = whole[a + i - 1]
        BY <4>1, SubSeqProperties
      <4> QED
        BY <2>1, <3>1, <3>2, <4>2, <4>3
    <3>4. PICK h : h = [i \in 0..n |-> g[a - 1 + i]]
      OBVIOUS
    <3>5. \A i \in 0..n : h[i] = g[a - 1 + i] /\ h[i] \in Int
      <4>1. \A i \in 0..n : a - 1 + i \in 0..Len(whole)
        BY <1>8, <3>2
      <4> QED
        BY <1>3, <3>4, <4>1
    <3>6. ASSUME NEW i \in 1..n PROVE h[i] = h[i - 1] + s[i]
      <4>1. /\ i \in 0..n /\ i - 1 \in 0..n /\ a - 1 + i \in 1..Len(whole)
            /\ a - 1 + (i - 1) = (a - 1 + i) - 1 /\ a + i - 1 = a - 1 + i
        BY <1>8, <3>2
      <4>2. g[a - 1 + i] = g[(a - 1 + i) - 1] + whole[a - 1 + i]
        BY <1>3, <4>1
      <4>3. h[i] = g[a - 1 + i] /\ h[i - 1] = g[a - 1 + (i - 1)]
        BY <3>5, <4>1
      <4>4. s[i] = whole[a + i - 1]
        BY <3>3
      <4> QED
        BY <4>1, <4>2, <4>3, <4>4
    <3>7. SumsUp(h, s, Len(s))
      BY <3>3, <3>5, <3>6 DEF SumsUp
    <3>8. SumOf(s) = h[n] - h[0]
      BY <3>3, <3>7, SumIs
    <3>9. h[n] = g[b] /\ h[0] = g[a - 1]
      <4>1. n \in 0..n /\ 0 \in 0..n /\ a - 1 + n = b /\ a - 1 + 0 = a - 1
        BY <3>2
      <4> QED
        BY <3>5, <4>1
    <3> QED
      BY <2>1, <3>1, <3>8, <3>9, TotalSizeIs
  <2>2. CASE ~ (a <= b)
    <3>1. SubSeq(whole, a, b) = << >>
      BY <2>2, SubSeqEmpty
    <3>2. << >> \in Seq(Int) /\ Len(<< >>) = 0
      OBVIOUS
    <3>3. SumOf(<< >>) = 0
      <4>1. PICK h : h[0] = 0 /\ SumsUp(h, << >>, Len(<< >>)) /\ SumOf(<< >>) = h[Len(<< >>)]
        BY <3>2, SumUnfolds
      <4> QED
        BY <3>2, <4>1
    <3> QED
      BY <2>2, <3>1, <3>3, TotalSizeIs
  <2> QED
    BY <2>1, <2>2
<1> QED
  BY <1>7, <1>8

LEMMA TotalOfPiece ==
    ASSUME NEW whole, NEW f, NEW k, LogOK(whole, f, k), NEW a, NEW b, Within(whole, a, b)
    PROVE  /\ TotalSize(Piece(whole, f, k, a, b).batches) = TotalSize(SubSeq(whole, a, b))
           /\ TotalSize(SubSeq(whole, a, b)) \in Nat
           /\ b < a => TotalSize(SubSeq(whole, a, b)) = 0
<1>1. /\ whole \in Seq(Size) /\ Len(whole) \in Nat /\ a \in Nat \ {0} /\ b \in Nat /\ b <= Len(whole)
  BY DEF LogOK, Within
<1>2. Piece(whole, f, k, a, b).batches = SubSeq(whole, a, b)
  BY DEF Piece
<1>3. PICK g : /\ SizesUp(g, whole)
               /\ \A x \in Nat \ {0}, y \in Nat : y <= Len(whole) =>
                    TotalSize(SubSeq(whole, x, y)) = IF x <= y THEN g[y] - g[x - 1] ELSE 0
  BY <1>1, SizesOfPieces
<1>4. TotalSize(SubSeq(whole, a, b)) = IF a <= b THEN g[b] - g[a - 1] ELSE 0
  BY <1>1, <1>3
<1>5. a <= b => g[b] \in Nat /\ g[a - 1] \in Nat /\ g[a - 1] <= g[b]
  <2>1. a <= b => b \in 0..Len(whole) /\ a - 1 \in 0..Len(whole) /\ a - 1 <= b
    BY <1>1
  <2> QED
    BY <1>3, <2>1 DEF SizesUp
<1>6. TotalSize(SubSeq(whole, a, b)) \in Nat /\ (b < a => TotalSize(SubSeq(whole, a, b)) = 0)
  BY <1>1, <1>4, <1>5
<1> QED
  BY <1>2, <1>6

(* The chunks in a row: the n-th one ends at e[n], where the next begins,  *)
(* and holds what was finalized only.                                      *)
Sequence == [offset : Nat, batches : Seq(Size), last : [{"locked", "finalized"} -> Nat]]

Row(chunks, whole, f, k, e) ==
    /\ chunks \in Seq(Sequence)
    /\ \A n \in 0..Len(chunks) : e[n] \in Nat /\ e[n] <= f
    /\ \A m, n \in 0..Len(chunks) : m < n => e[m] < e[n]
    /\ \A n \in 1..Len(chunks) : chunks[n] = Piece(whole, f, k, e[n - 1] + 1, e[n])

LEMMA RowBasics ==
    ASSUME NEW whole, NEW f, NEW k, LogOK(whole, f, k), NEW chunks, NEW e, Row(chunks, whole, f, k, e)
    PROVE  /\ Len(chunks) \in Nat /\ DOMAIN chunks = 1..Len(chunks)
           /\ \A n \in 1..Len(chunks) :
                /\ n - 1 \in 0..Len(chunks) /\ n \in 0..Len(chunks)
                /\ e[n - 1] \in Nat /\ e[n] \in Nat /\ e[n - 1] < e[n] /\ e[n] <= f /\ e[n] <= Len(whole)
                /\ Within(whole, e[n - 1] + 1, e[n])
<1>1. Len(chunks) \in Nat /\ DOMAIN chunks = 1..Len(chunks)
  BY LenProperties DEF Row
<1>2. ASSUME NEW n \in 1..Len(chunks)
      PROVE  /\ n - 1 \in 0..Len(chunks) /\ n \in 0..Len(chunks)
             /\ e[n - 1] \in Nat /\ e[n] \in Nat /\ e[n - 1] < e[n] /\ e[n] <= f /\ e[n] <= Len(whole)
             /\ Within(whole, e[n - 1] + 1, e[n])
  <2>1. n - 1 \in 0..Len(chunks) /\ n \in 0..Len(chunks) /\ n - 1 < n
    BY <1>1
  <2>2. e[n - 1] \in Nat /\ e[n] \in Nat /\ e[n - 1] < e[n] /\ e[n] <= f
    BY <2>1 DEF Row
  <2>3. f <= Len(whole) /\ f \in Nat /\ Len(whole) \in Nat
    BY DEF LogOK
  <2>4. e[n] <= Len(whole) /\ e[n - 1] + 1 \in Nat \ {0}
    BY <2>2, <2>3
  <2> QED
    BY <2>1, <2>2, <2>4 DEF Within
<1> QED
  BY <1>1, <1>2

(* The chunks up to the n-th without what is up to i, if the first begins  *)
(* at i + 1 or before: the batches from i + 1 to the end of the chunk.     *)
Prefix(whole, f, k, e, i, n) == IF e[n] <= i THEN NewSequence ELSE Piece(whole, f, k, i + 1, e[n])

LEMMA PrefixGrows ==
    ASSUME NEW whole, NEW f, NEW k, LogOK(whole, f, k), NEW chunks, NEW e, Row(chunks, whole, f, k, e),
           NEW i \in Nat, NEW n \in 1..Len(chunks), e[0] <= i
    PROVE  Extend(Prefix(whole, f, k, e, i, n - 1), After(chunks[n], i)) = Prefix(whole, f, k, e, i, n)
<1>1. PICK u \in Nat : u = e[n - 1]
  BY RowBasics
<1>2. PICK w \in Nat : w = e[n]
  BY RowBasics
<1>3. u < w /\ w <= f /\ w <= Len(whole) /\ Within(whole, u + 1, w) /\ f \in Nat /\ Len(whole) \in Nat
  <2>1. /\ e[n - 1] < e[n] /\ e[n] <= f /\ e[n] <= Len(whole)
        /\ Within(whole, e[n - 1] + 1, e[n])
    BY RowBasics
  <2>2. f \in Nat /\ Len(whole) \in Nat
    BY DEF LogOK
  <2> QED
    BY <1>1, <1>2, <2>1, <2>2
<1>4. chunks[n] = Piece(whole, f, k, u + 1, w)
  BY <1>1, <1>2 DEF Row
<1>5. PICK c : c = IF u + 1 <= i + 1 THEN i + 1 ELSE u + 1
  OBVIOUS
<1>6. After(chunks[n], i) = Piece(whole, f, k, c, w) /\ Within(whole, c, w)
  <2>1. \A a : a = u + 1 => After(Piece(whole, f, k, a, w), i) = Piece(whole, f, k, c, w) /\ Within(whole, c, w)
    <3> SUFFICES ASSUME NEW a, a = u + 1
                 PROVE  After(Piece(whole, f, k, a, w), i) = Piece(whole, f, k, c, w) /\ Within(whole, c, w)
      OBVIOUS
    <3>1. Within(whole, a, w) /\ c = IF a <= i + 1 THEN i + 1 ELSE a
      BY <1>3, <1>5
    <3> QED
      BY <3>1, AfterIs
  <2> QED
    BY <1>4, <2>1
<1>7. NewSequence = Piece(whole, f, k, 1, 0) /\ Within(whole, 1, 0)
  BY NewIsPiece
<1>8. CASE w <= i
  <2>1. u <= i /\ w < c
    BY <1>3, <1>5, <1>8
  <2>2. Prefix(whole, f, k, e, i, n - 1) = NewSequence /\ Prefix(whole, f, k, e, i, n) = NewSequence
    BY <1>1, <1>2, <1>8, <2>1 DEF Prefix
  <2>3. Extend(Piece(whole, f, k, 1, 0), Piece(whole, f, k, c, w)) = Piece(whole, f, k, 1, 0)
    BY <1>6, <1>7, <2>1, ExtendEmpty
  <2> QED
    BY <1>6, <1>7, <2>2, <2>3
<1>9. CASE u <= i /\ ~ (w <= i)
  <2>1. c = i + 1 /\ ~ (w < c) /\ 0 < 1
    BY <1>3, <1>5, <1>9
  <2>2. Prefix(whole, f, k, e, i, n - 1) = NewSequence
    BY <1>1, <1>9 DEF Prefix
  <2>3. Prefix(whole, f, k, e, i, n) = Piece(whole, f, k, c, w)
    BY <1>2, <1>9, <2>1 DEF Prefix
  <2>4. Extend(Piece(whole, f, k, 1, 0), Piece(whole, f, k, c, w)) = Piece(whole, f, k, c, w)
    BY <1>6, <1>7, <2>1, ExtendEmpty
  <2> QED
    BY <1>6, <1>7, <2>2, <2>3, <2>4
<1>10. CASE ~ (u <= i)
  <2>1. ~ (w <= i) /\ c = u + 1 /\ i + 1 <= u /\ u <= f /\ u <= w /\ u <= Len(whole)
    BY <1>3, <1>5, <1>10
  <2>2. Within(whole, i + 1, u)
    BY <2>1 DEF Within
  <2>3. Prefix(whole, f, k, e, i, n - 1) = Piece(whole, f, k, i + 1, u)
    BY <1>1, <1>10 DEF Prefix
  <2>4. Prefix(whole, f, k, e, i, n) = Piece(whole, f, k, i + 1, w)
    BY <1>2, <2>1 DEF Prefix
  <2>5. Extend(Piece(whole, f, k, i + 1, u), Piece(whole, f, k, u + 1, w)) = Piece(whole, f, k, i + 1, w)
    BY <1>3, <2>1, <2>2, ExtendIs
  <2> QED
    BY <1>6, <2>1, <2>3, <2>4, <2>5
<1> QED
  BY <1>8, <1>9, <1>10

LEMMA JoinedIs ==
    ASSUME NEW whole, NEW f, NEW k, LogOK(whole, f, k), NEW chunks, NEW e, Row(chunks, whole, f, k, e),
           NEW i \in Nat, NEW n \in 0..Len(chunks), e[0] <= i
    PROVE  Joined(chunks, i, n) = Prefix(whole, f, k, e, i, n)
<1> DEFINE F(g) == [m \in 0..n |-> IF m = 0 THEN NewSequence
                                    ELSE Extend(g[m - 1], After(chunks[m], i))]
           joined == CHOOSE g : g = F(g)
           P(m) == Prefix(whole, f, k, e, i, m)
           h == [m \in 0..n |-> P(m)]
<1>1. Len(chunks) \in Nat /\ n \in Nat /\ n <= Len(chunks)
  BY RowBasics
<1>2. P(0) = NewSequence
  BY DEF Prefix
<1>3. \A m \in 1..n : Extend(P(m - 1), After(chunks[m], i)) = P(m)
  <2>1. \A m \in 1..n : m \in 1..Len(chunks)
    BY <1>1
  <2> QED
    BY <2>1, PrefixGrows
<1> HIDE DEF P
<1>4. h = F(h)
  <2>1. \A m \in 0..n : m # 0 => m \in 1..n /\ m - 1 \in 0..n
    BY <1>1
  <2>2. \A m \in 0..n : P(m) = IF m = 0 THEN NewSequence ELSE Extend(h[m - 1], After(chunks[m], i))
    BY <1>2, <1>3, <2>1
  <2> QED
    BY <2>2
<1>5. joined = F(joined)
  <2> HIDE DEF F, h
  <2> QED
    BY <1>4
<1>6. Joined(chunks, i, n) = joined[n]
  BY DEF Joined
<1> HIDE DEF joined
<1>7. \A m \in 0..n : joined[m] = P(m)
  <2> DEFINE Bad == {m \in 0..n : joined[m] # P(m)}
  <2>1. SUFFICES ASSUME Bad # {} PROVE FALSE
    OBVIOUS
  <2>2. Bad \in SUBSET Nat
    BY <1>1
  <2>3. PICK m \in Bad : \A j \in Bad : m <= j
    BY <2>1, <2>2, LeastNat
  <2>4. joined[0] = NewSequence /\ \A j \in 1..n : joined[j] = Extend(joined[j - 1], After(chunks[j], i))
    <3>1. 0 \in 0..n /\ \A j \in 1..n : j \in 0..n /\ j # 0
      BY <1>1
    <3>2. \A j \in 0..n : joined[j] = IF j = 0 THEN NewSequence
                                      ELSE Extend(joined[j - 1], After(chunks[j], i))
      BY <1>5
    <3> QED
      BY <3>1, <3>2
  <2>5. m \in 0..n /\ joined[m] # P(m) /\ m # 0
    BY <1>2, <2>3, <2>4
  <2>6. m - 1 \in 0..n /\ m \in 1..n /\ ~ (m <= m - 1)
    BY <1>1, <2>5
  <2>7. joined[m - 1] = P(m - 1)
    BY <2>3, <2>6
  <2> QED
    BY <1>3, <2>4, <2>5, <2>6, <2>7
<1>8. n \in 0..n
  BY <1>1
<1> QED
  BY <1>6, <1>7, <1>8 DEF P

(* The greatest and the least member of a set that has one. *)
LEMMA MaxIs ==
    ASSUME NEW S \in SUBSET Int, NEW m \in S, \A x \in S : x <= m
    PROVE  Max(S) = m
<1>1. m \in S /\ \A x \in S : m >= x
  OBVIOUS
<1>2. Max(S) \in S /\ \A x \in S : Max(S) >= x
  BY <1>1 DEF Max
<1>3. Max(S) \in Int /\ m \in Int /\ Max(S) >= m /\ m >= Max(S)
  BY <1>1, <1>2
<1> QED
  BY <1>3

LEMMA MinIn ==
    ASSUME NEW S \in SUBSET Nat, S # {}
    PROVE  Min(S) \in S
<1>1. \E m \in S : \A x \in S : m <= x
  BY LeastNat
<1> QED
  BY <1>1 DEF Min

LEMMA PieceIsSequence ==
    ASSUME NEW whole, NEW f, NEW k, LogOK(whole, f, k), NEW a, NEW b, Within(whole, a, b)
    PROVE  Piece(whole, f, k, a, b) \in Sequence
<1>1. PICK p : p = Piece(whole, f, k, a, b)
  OBVIOUS
<1>2. /\ WellFormed(p)
      /\ p = [offset |-> p.offset, batches |-> p.batches, last |-> p.last]
  <2>1. WellFormed(p)
    BY <1>1, PieceWellFormed
  <2> QED
    BY <1>1, <2>1 DEF Piece
<1>3. /\ p.offset \in Nat /\ p.batches \in Seq(Size)
      /\ p.last \in [{"locked", "finalized"} -> Nat]
  BY <1>2 DEF WellFormed
<1>4. \A x \in Nat, y \in Seq(Size), z \in [{"locked", "finalized"} -> Nat] :
          [offset |-> x, batches |-> y, last |-> z] \in Sequence
  BY DEF Sequence
<1>5. p \in Sequence
  BY <1>2, <1>3, <1>4
<1> QED
  BY <1>1, <1>5

(* Parts of two logs that begin alike. *)
Alike(whole, whole2, n) ==
    /\ whole \in Seq(Size) /\ whole2 \in Seq(Size)
    /\ n \in Nat /\ n <= Len(whole) /\ n <= Len(whole2)
    /\ \A i \in 1..n : whole2[i] = whole[i]

LEMMA SameParts ==
    ASSUME NEW whole, NEW whole2, NEW n, Alike(whole, whole2, n),
           NEW a \in Nat \ {0}, NEW b \in Nat, b <= n
    PROVE  SubSeq(whole, a, b) = SubSeq(whole2, a, b)
<1> USE DEF Alike
<1>1. CASE b < a
  <2>1. SubSeq(whole, a, b) = << >> /\ SubSeq(whole2, a, b) = << >>
    BY <1>1, SubSeqEmpty
  <2> QED
    BY <2>1
<1>2. CASE a <= b
  <2>1. \A i \in a..b : i \in 1..n /\ i \in 1..Len(whole) /\ i \in 1..Len(whole2)
    BY <1>2
  <2>2. \A i \in a..b : whole[i] \in Size /\ whole2[i] \in Size /\ whole2[i] = whole[i]
    BY <2>1, ElementOfSeq
  <2>3. PICK s : s = SubSeq(whole, a, b)
    OBVIOUS
  <2>4. PICK t : t = SubSeq(whole2, a, b)
    OBVIOUS
  <2>5. a \in Int /\ b \in Int
    OBVIOUS
  <2>6. s \in Seq(Size) /\ \A i \in 1..b - a + 1 : s[i] = whole[a + i - 1]
    BY <2>2, <2>3, <2>5, SubSeqProperties
  <2>7. t \in Seq(Size) /\ \A i \in 1..b - a + 1 : t[i] = whole2[a + i - 1]
    BY <2>2, <2>4, <2>5, SubSeqProperties
  <2>8. Len(s) = b - a + 1 /\ Len(t) = b - a + 1
    <3>1. Len(s) = IF a <= b THEN b - a + 1 ELSE 0
      BY <2>2, <2>3, <2>5, SubSeqProperties
    <3>2. Len(t) = IF a <= b THEN b - a + 1 ELSE 0
      BY <2>2, <2>4, <2>5, SubSeqProperties
    <3> QED
      BY <1>2, <3>1, <3>2
  <2>9. \A i \in 1..b - a + 1 : a + i - 1 \in a..b
    BY <1>2
  <2>10. \A i \in 1..b - a + 1 : s[i] = t[i]
    BY <2>2, <2>6, <2>7, <2>9
  <2>11. s = t
    BY <2>6, <2>7, <2>8, <2>10, SeqEqual
  <2> QED
    BY <2>3, <2>4, <2>11
<1> QED
  BY <1>1, <1>2

(* The chunks stay what they are while the log grows or is cut behind what *)
(* is finalized.                                                           *)
LEMMA RowStays ==
    ASSUME NEW whole, NEW f, NEW k, LogOK(whole, f, k), NEW chunks, NEW e, Row(chunks, whole, f, k, e),
           NEW whole2, NEW f2, NEW k2, LogOK(whole2, f2, k2), f <= f2,
           \A i \in 1..f : whole2[i] = whole[i]
    PROVE  Row(chunks, whole2, f2, k2, e)
<1>1. f \in Nat /\ k \in Nat /\ f2 \in Nat /\ k2 \in Nat /\ f <= k /\ f2 <= k2
  BY DEF LogOK
<1>2. \A n \in 0..Len(chunks) : e[n] \in Nat /\ e[n] <= f2
  BY <1>1 DEF Row
<1>3. ASSUME NEW n \in 1..Len(chunks)
      PROVE  chunks[n] = Piece(whole2, f2, k2, e[n - 1] + 1, e[n])
  <2>1. PICK a \in Nat \ {0} : a = e[n - 1] + 1
    <3>1. e[n - 1] \in Nat
      BY RowBasics
    <3> QED
      BY <3>1
  <2>2. PICK b \in Nat : b = e[n]
    BY RowBasics
  <2>3. a <= b /\ b <= f
    <3>1. e[n - 1] < e[n] /\ e[n] <= f /\ e[n - 1] \in Nat /\ e[n] \in Nat
      BY RowBasics
    <3> QED
      BY <2>1, <2>2, <3>1
  <2>4. /\ Part(a, b, k) = b /\ Part(a, b, f) = b
        /\ Part(a, b, k2) = b /\ Part(a, b, f2) = b
    BY <1>1, <2>3 DEF Part
  <2>5. SubSeq(whole, a, b) = SubSeq(whole2, a, b)
    <3>1. whole \in Seq(Size) /\ whole2 \in Seq(Size)
      BY DEF LogOK
    <3>2. Len(whole) \in Nat /\ Len(whole2) \in Nat
      BY <3>1
    <3>3. f <= Len(whole) /\ f <= Len(whole2)
      BY <1>1, <3>2 DEF LogOK
    <3>4. f \in Nat /\ \A i \in 1..f : whole2[i] = whole[i]
      BY <1>1
    <3>5. Alike(whole, whole2, f)
      BY <3>1, <3>3, <3>4 DEF Alike
    <3> QED
      BY <2>3, <3>5, SameParts
  <2>6. Piece(whole, f, k, a, b) = Piece(whole2, f2, k2, a, b)
    BY <2>4, <2>5 DEF Piece
  <2>7. chunks[n] = Piece(whole, f, k, e[n - 1] + 1, e[n])
    BY DEF Row
  <2> QED
    BY <2>1, <2>2, <2>6, <2>7
<1> QED
  BY <1>2, <1>3 DEF Row

LEMMA RowAppend ==
    ASSUME NEW whole, NEW f, NEW k, LogOK(whole, f, k), NEW chunks, NEW e, Row(chunks, whole, f, k, e),
           NEW w \in Nat, e[Len(chunks)] < w, w <= f
    PROVE  \E e2 : /\ Row(Append(chunks, Piece(whole, f, k, e[Len(chunks)] + 1, w)), whole, f, k, e2)
                   /\ e2[0] = e[0] /\ e2[Len(chunks) + 1] = w
           /\ Len(Append(chunks, Piece(whole, f, k, e[Len(chunks)] + 1, w))) = Len(chunks) + 1
<1>1. PICK n \in Nat : n = Len(chunks)
  BY RowBasics
<1>2. e[n] \in Nat /\ e[n] < w /\ chunks \in Seq(Sequence)
  <2>1. n \in 0..n
    OBVIOUS
  <2> QED
    BY <1>1, <2>1 DEF Row
<1>3. PICK p : p = Piece(whole, f, k, e[n] + 1, w)
  OBVIOUS
<1>4. p \in Sequence
  <2>1. PICK a : a = e[n] + 1
    OBVIOUS
  <2>2. Within(whole, a, w)
    BY <1>2, <2>1 DEF Within, LogOK
  <2> QED
    BY <1>3, <2>1, <2>2, PieceIsSequence
<1>5. PICK new \in Seq(Sequence) : new = Append(chunks, p)
  BY <1>2, <1>4, AppendProperties
<1>6. Len(new) = n + 1 /\ new[n + 1] = p /\ \A m \in 1..n : new[m] = chunks[m]
  BY <1>1, <1>2, <1>4, <1>5, AppendProperties
<1>7. PICK e2 : e2 = [m \in 0..n + 1 |-> IF m <= n THEN e[m] ELSE w]
  OBVIOUS
<1>8. (\A m \in 0..n : e2[m] = e[m]) /\ e2[n + 1] = w
  <2>1. n + 1 \in 0..n + 1 /\ ~ (n + 1 <= n)
    OBVIOUS
  <2>2. \A m \in 0..n : m \in 0..n + 1 /\ m <= n
    OBVIOUS
  <2> QED
    BY <1>7, <2>1, <2>2
<1>9. \A m \in 0..n + 1 : m \in 0..n \/ m = n + 1
  OBVIOUS
<1>10. /\ \A m \in 0..n : e[m] \in Nat /\ e[m] <= f
       /\ \A j, m \in 0..n : j < m => e[j] < e[m]
       /\ \A m \in 1..n : chunks[m] = Piece(whole, f, k, e[m - 1] + 1, e[m])
  BY <1>1 DEF Row
<1>11. \A m \in 0..n + 1 : e2[m] \in Nat /\ e2[m] <= f
  BY <1>8, <1>9, <1>10
<1>12. ASSUME NEW j \in 0..n + 1, NEW m \in 0..n + 1, j < m PROVE e2[j] < e2[m]
  <2>1. j \in 0..n
    BY <1>12
  <2>2. CASE m \in 0..n
    BY <1>8, <1>10, <1>12, <2>1, <2>2
  <2>3. CASE m = n + 1
    <3>1. e[j] < w
      <4>1. CASE j = n
        BY <1>2, <4>1
      <4>2. CASE j # n
        <5>1. j < n /\ n \in 0..n
          BY <2>1, <4>2
        <5>2. e[j] < e[n] /\ e[j] \in Nat
          BY <1>10, <2>1, <5>1
        <5> QED
          BY <1>2, <5>2
      <4> QED
        BY <4>1, <4>2
    <3> QED
      BY <1>8, <2>1, <2>3, <3>1
  <2> QED
    BY <1>9, <2>2, <2>3
<1>13. ASSUME NEW m \in 1..n + 1 PROVE new[m] = Piece(whole, f, k, e2[m - 1] + 1, e2[m])
  <2>1. CASE m \in 1..n
    <3>1. m - 1 \in 0..n /\ m \in 0..n
      BY <2>1
    <3> QED
      BY <1>6, <1>8, <1>10, <2>1, <3>1
  <2>2. CASE m = n + 1
    <3>1. m - 1 = n /\ n \in 0..n
      BY <2>2
    <3>2. e2[m - 1] = e[n] /\ e2[m] = w
      BY <1>8, <2>2, <3>1
    <3> QED
      BY <1>3, <1>6, <2>2, <3>2
  <2>3. m \in 1..n \/ m = n + 1
    OBVIOUS
  <2> QED
    BY <2>1, <2>2, <2>3
<1>14. Row(new, whole, f, k, e2)
  BY <1>6, <1>11, <1>12, <1>13 DEF Row
<1>15. e2[0] = e[0]
  <2>1. 0 \in 0..n
    OBVIOUS
  <2> QED
    BY <1>8, <2>1
<1> QED
  BY <1>1, <1>3, <1>5, <1>6, <1>8, <1>14, <1>15

LEMMA RowTail ==
    ASSUME NEW whole, NEW f, NEW k, LogOK(whole, f, k), NEW chunks, NEW e, Row(chunks, whole, f, k, e),
           NEW pos \in 1..Len(chunks)
    PROVE  \E d : /\ Row(SubSeq(chunks, pos, Len(chunks)), whole, f, k, d)
                  /\ d[0] = e[pos - 1]
                  /\ Len(SubSeq(chunks, pos, Len(chunks))) = Len(chunks) - pos + 1
                  /\ d[Len(chunks) - pos + 1] = e[Len(chunks)]
<1>1. PICK n \in Nat : n = Len(chunks)
  BY RowBasics
<1>2. pos \in 1..n /\ chunks \in Seq(Sequence)
  BY <1>1 DEF Row
<1>3. PICK m \in Nat : m = n - pos + 1
  BY <1>2
<1>4. PICK rest : rest = SubSeq(chunks, pos, n)
  OBVIOUS
<1>5. rest \in Seq(Sequence) /\ Len(rest) = m /\ \A j \in 1..m : rest[j] = chunks[pos + j - 1]
  <2>1. pos \in Int /\ n \in Int /\ \A j \in pos..n : j \in 1..Len(chunks)
    BY <1>1, <1>2
  <2>2. \A j \in pos..n : chunks[j] \in Sequence
    BY <1>2, <2>1, ElementOfSeq
  <2>3. rest \in Seq(Sequence) /\ \A j \in 1..n - pos + 1 : rest[j] = chunks[pos + j - 1]
    BY <1>4, <2>1, <2>2, SubSeqProperties
  <2>4. Len(rest) = IF pos <= n THEN n - pos + 1 ELSE 0
    BY <1>4, <2>1, <2>2, SubSeqProperties
  <2>5. pos <= n
    BY <1>2
  <2> QED
    BY <1>3, <2>3, <2>4, <2>5
<1>6. PICK d : d = [j \in 0..m |-> e[pos - 1 + j]]
  OBVIOUS
<1>7. \A j \in 0..m : d[j] = e[pos - 1 + j] /\ pos - 1 + j \in 0..n
  <2>1. \A j \in 0..m : pos - 1 + j \in 0..n
    BY <1>2, <1>3
  <2> QED
    BY <1>6, <2>1
<1>8. /\ \A j \in 0..n : e[j] \in Nat /\ e[j] <= f
      /\ \A i, j \in 0..n : i < j => e[i] < e[j]
      /\ \A j \in 1..n : chunks[j] = Piece(whole, f, k, e[j - 1] + 1, e[j])
  BY <1>1 DEF Row
<1>9. \A j \in 0..m : d[j] \in Nat /\ d[j] <= f
  BY <1>7, <1>8
<1>10. \A i, j \in 0..m : i < j => d[i] < d[j]
  <2>1. \A i, j \in 0..m : i < j => pos - 1 + i < pos - 1 + j
    BY <1>2
  <2> QED
    BY <1>7, <1>8, <2>1
<1>11. ASSUME NEW j \in 1..m PROVE rest[j] = Piece(whole, f, k, d[j - 1] + 1, d[j])
  <2>1. /\ j \in 0..m /\ j - 1 \in 0..m /\ pos + j - 1 \in 1..n
        /\ pos - 1 + j = pos + j - 1 /\ pos - 1 + (j - 1) = (pos + j - 1) - 1
    BY <1>2, <1>3
  <2>2. d[j] = e[pos - 1 + j] /\ d[j - 1] = e[pos - 1 + (j - 1)]
    BY <1>7, <2>1
  <2>3. chunks[pos + j - 1] = Piece(whole, f, k, e[(pos + j - 1) - 1] + 1, e[pos + j - 1])
    BY <1>8, <2>1
  <2>4. rest[j] = chunks[pos + j - 1]
    BY <1>5
  <2> QED
    BY <2>1, <2>2, <2>3, <2>4
<1>12. Row(rest, whole, f, k, d)
  BY <1>5, <1>9, <1>10, <1>11 DEF Row
<1>13. d[0] = e[pos - 1] /\ d[m] = e[n]
  <2>1. 0 \in 0..m /\ m \in 0..m /\ pos - 1 + 0 = pos - 1 /\ pos - 1 + m = n
    BY <1>2, <1>3
  <2> QED
    BY <1>7, <2>1
<1> QED
  BY <1>1, <1>3, <1>4, <1>5, <1>12, <1>13

LEMMA PersistedIs ==
    ASSUME NEW whole, NEW f, NEW k, LogOK(whole, f, k), NEW chunks, NEW e, Row(chunks, whole, f, k, e),
           e[0] = 0
    PROVE  Persisted(chunks) = e[Len(chunks)] /\ e[Len(chunks)] \in Nat /\ e[Len(chunks)] <= f
<1>1. PICK n \in Nat : n = Len(chunks)
  BY RowBasics
<1>2. e[n] \in Nat /\ e[n] <= f
  <2>1. n \in 0..n
    OBVIOUS
  <2> QED
    BY <1>1, <2>1 DEF Row
<1>3. chunks \in Seq(Sequence)
  BY DEF Row
<1>4. CASE n = 0
  <2>1. chunks = << >>
    BY <1>1, <1>3, <1>4, EmptySeq
  <2> QED
    BY <1>1, <1>2, <1>4, <2>1 DEF Persisted
<1>5. CASE n # 0
  <2>1. chunks # << >>
    BY <1>1, <1>3, <1>5, EmptySeq
  <2>2. n \in 1..n
    BY <1>5
  <2>3. PICK a : a = e[n - 1] + 1
    OBVIOUS
  <2>4. Within(whole, a, e[n]) /\ chunks[n] = Piece(whole, f, k, a, e[n]) /\ a <= e[n]
    <3>1. Within(whole, a, e[n])
      BY <1>1, <2>2, <2>3, RowBasics
    <3>2. chunks[n] = Piece(whole, f, k, a, e[n])
      BY <1>1, <2>2, <2>3 DEF Row
    <3>3. e[n - 1] < e[n] /\ e[n - 1] \in Nat /\ e[n] \in Nat
      BY <1>1, <2>2, RowBasics
    <3> QED
      BY <2>3, <3>1, <3>2, <3>3
  <2>5. Consists(chunks[n], whole, f, k, a, e[n])
    BY <2>4, PieceBasics
  <2>6. LastOf(chunks[n]) = e[n]
    BY <2>4, <2>5 DEF Consists
  <2>7. Last(chunks) = chunks[n]
    BY <1>1 DEF Last
  <2> QED
    BY <1>1, <1>2, <2>1, <2>6, <2>7 DEF Persisted
<1> QED
  BY <1>4, <1>5

LEMMA OffsetIs ==
    ASSUME NEW whole, NEW f, NEW k, NEW chunks, NEW e, Row(chunks, whole, f, k, e),
           NEW n \in 1..Len(chunks)
    PROVE  chunks[n].offset = e[n - 1] + 1
<1>1. chunks[n] = Piece(whole, f, k, e[n - 1] + 1, e[n])
  BY DEF Row
<1> QED
  BY <1>1 DEF Piece

(* What the latest chunks do not hold ends before the last chunk.          *)
LEMMA BorderIs ==
    ASSUME NEW whole, NEW f, NEW k, LogOK(whole, f, k), NEW chunks, NEW e, Row(chunks, whole, f, k, e),
           e[0] = 0
    PROVE  /\ BorderIndex(chunks) \in Nat
           /\ BorderIndex(chunks) = 0 \/ BorderIndex(chunks) + 1 <= e[Len(chunks)]
<1>1. PICK n \in Nat : n = Len(chunks)
  BY RowBasics
<1>2. Border \in Nat /\ Border >= 2
  BY ChunkAssumption
<1>3. CASE n < Border
  <2>1. BorderIndex(chunks) = 0
    BY <1>1, <1>2, <1>3 DEF BorderIndex
  <2> QED
    BY <2>1
<1>4. CASE ~ (n < Border)
  <2>1. PICK m \in Nat : m = n - Border
    BY <1>2, <1>4
  <2>2. m + 1 \in 1..n /\ m + 1 \in 0..n /\ n \in 0..n /\ m \in 0..n /\ m + 1 < n /\ m < m + 1
        /\ (m + 1) - 1 = m
    BY <1>2, <1>4, <2>1
  <2>3. BorderIndex(chunks) = chunks[m + 1].offset
    BY <1>1, <1>2, <1>4, <2>1 DEF BorderIndex
  <2>4. chunks[m + 1].offset = e[(m + 1) - 1] + 1
    BY <1>1, <2>2, OffsetIs
  <2>5. e[m] < e[m + 1] /\ e[m + 1] < e[n]
    BY <1>1, <2>2 DEF Row
  <2>6. e[m] \in Nat /\ e[m + 1] \in Nat /\ e[n] \in Nat
    BY <1>1, <2>2 DEF Row
  <2>7. BorderIndex(chunks) = e[m] + 1
    BY <2>2, <2>3, <2>4
  <2> QED
    BY <1>1, <2>5, <2>6, <2>7
<1> QED
  BY <1>3, <1>4

(* _store_snapshot: another chunk with what is finalized and in none, or   *)
(* nothing; always another one if every size will do.                      *)
LEMMA StoredIs ==
    ASSUME NEW whole, NEW f, NEW k, LogOK(whole, f, k), NEW chunks, NEW e, Row(chunks, whole, f, k, e),
           e[0] = 0, NEW a, NEW b, Within(whole, a, b), a <= e[Len(chunks)] + 1, f <= b,
           NEW minSize \in Nat
    PROVE  \E e2 : LET new == Stored(Piece(whole, f, k, a, b), chunks, minSize)
                   IN  /\ Row(new, whole, f, k, e2) /\ e2[0] = 0
                       /\ e2[Len(new)] = e[Len(chunks)] \/ e2[Len(new)] = f
                       /\ e[Len(chunks)] <= e2[Len(new)]
                       /\ minSize = 0 => e2[Len(new)] = f
<1>1. PICK p : p = Piece(whole, f, k, a, b)
  OBVIOUS
<1>2. PICK new : new = Stored(p, chunks, minSize)
  OBVIOUS
<1>3. PICK q \in Nat : q = e[Len(chunks)] /\ Persisted(chunks) = q /\ q <= f
  BY PersistedIs
<1>4. a \in Nat \ {0} /\ b \in Nat /\ f \in Nat /\ b <= Len(whole) /\ Len(whole) \in Nat /\ a <= q + 1
  BY <1>3 DEF Within, LogOK
<1>5. PICK fin \in Nat : fin = Part(a, b, f)
  BY <1>4, PartBounds
<1>6. p.last.finalized = fin
  <2>1. Consists(p, whole, f, k, a, b)
    BY <1>1, PieceBasics
  <2> QED
    BY <1>5, <2>1 DEF Consists
<1>7. fin <= b /\ fin <= f /\ (q < f => fin = f)
  BY <1>3, <1>4, <1>5 DEF Part
<1>8. /\ Fresh(p, chunks) = IF q < fin THEN Piece(whole, f, k, q + 1, fin) ELSE Piece(whole, f, k, a, 0)
      /\ Within(whole, q + 1, fin) /\ Within(whole, a, 0)
  <2>1. fin = IF fin <= b THEN fin ELSE b
    BY <1>7
  <2>2. /\ FilterStates(p, "sequenced", "none", Fin(q), Fin(fin))
             = IF q < fin THEN Piece(whole, f, k, q + 1, fin) ELSE Piece(whole, f, k, a, 0)
        /\ Within(whole, q + 1, fin) /\ Within(whole, a, 0)
    <3>1. a <= q + 1
      BY <1>4
    <3>2. /\ FilterStates(Piece(whole, f, k, a, b), "sequenced", "none", Fin(q), Fin(fin))
               = IF q < fin THEN Piece(whole, f, k, q + 1, fin) ELSE Piece(whole, f, k, a, 0)
          /\ Within(whole, q + 1, fin) /\ Within(whole, a, 0)
      BY <2>1, <3>1, BetweenIs
    <3> QED
      BY <1>1, <3>2
  <2> QED
    BY <1>3, <1>6, <2>2 DEF Fresh
<1>9. CASE ~ (q < fin)
  <2>1. Consists(Piece(whole, f, k, a, 0), whole, f, k, a, 0) /\ 0 < a
    BY <1>4, <1>8, PieceBasics
  <2>2. Fresh(p, chunks).batches = << >>
    BY <1>8, <1>9, <2>1 DEF Consists
  <2>3. new = chunks
    BY <1>2, <2>2 DEF Stored
  <2>4. q = f
    BY <1>3, <1>4, <1>7, <1>9
  <2> QED
    BY <1>1, <1>2, <1>3, <2>3, <2>4
<1>10. CASE q < fin
  <2>1. PICK t : t = Piece(whole, f, k, q + 1, fin)
    OBVIOUS
  <2>2. Fresh(p, chunks) = t
    BY <1>8, <1>10, <2>1
  <2>3. t.batches # << >>
    <3>1. Consists(t, whole, f, k, q + 1, fin)
      BY <1>8, <2>1, PieceBasics
    <3>2. ~ (fin < q + 1)
      BY <1>10
    <3> QED
      BY <3>1, <3>2 DEF Consists
  <2>4. TotalSize(t.batches) \in Nat
    BY <1>8, <2>1, TotalOfPiece
  <2>5. CASE TotalSize(t.batches) < minSize
    <3>1. new = chunks /\ minSize # 0
      BY <1>2, <2>2, <2>4, <2>5 DEF Stored
    <3> QED
      BY <1>1, <1>2, <1>3, <3>1
  <2>6. CASE ~ (TotalSize(t.batches) < minSize)
    <3>1. new = Append(chunks, t)
      BY <1>2, <2>2, <2>3, <2>6 DEF Stored
    <3>2. /\ \E e2 : /\ Row(Append(chunks, Piece(whole, f, k, e[Len(chunks)] + 1, fin)), whole, f, k, e2)
                     /\ e2[0] = e[0] /\ e2[Len(chunks) + 1] = fin
          /\ Len(Append(chunks, Piece(whole, f, k, e[Len(chunks)] + 1, fin))) = Len(chunks) + 1
      BY <1>3, <1>7, <1>10, RowAppend
    <3>3. PICK e2 : /\ Row(new, whole, f, k, e2)
                    /\ e2[0] = 0 /\ e2[Len(chunks) + 1] = fin
      BY <1>3, <2>1, <3>1, <3>2
    <3>4. Len(new) = Len(chunks) + 1
      BY <1>3, <2>1, <3>1, <3>2
    <3>5. fin = f
      BY <1>3, <1>4, <1>7, <1>10
    <3>6. e2[Len(new)] = f
      BY <3>3, <3>4, <3>5
    <3> QED
      BY <1>1, <1>2, <1>3, <3>3, <3>6
  <2> QED
    BY <2>5, <2>6
<1> QED
  BY <1>9, <1>10

(* load_batches: the batches behind i up to the end of a chunk, the last   *)
(* one unless the limit is reached before.                                 *)
LEMMA LoadIs ==
    ASSUME NEW whole, NEW f, NEW k, LogOK(whole, f, k), NEW chunks, NEW e, Row(chunks, whole, f, k, e),
           e[0] = 0, NEW i \in Nat, NEW limit
    PROVE  \E c \in Nat :
             /\ c <= f
             /\ Load(chunks, i, limit) = IF c <= i THEN NewSequence ELSE Piece(whole, f, k, i + 1, c)
             /\ \/ c = e[Len(chunks)]
                \/ ~ Less(Fin(TotalSize(Load(chunks, i, limit).batches)), limit)
<1>1. PICK n \in Nat : n = Len(chunks)
  BY RowBasics
<1>2. f \in Nat /\ e[n] \in Nat /\ e[n] <= f
  <2>1. n \in 0..n
    OBVIOUS
  <2> QED
    BY <1>1, <2>1 DEF Row, LogOK
<1>3. PICK T : T = {j \in DOMAIN chunks : chunks[j].offset <= Max({1, i})}
  OBVIOUS
<1>4. DOMAIN chunks = 1..n /\ T \in SUBSET (1..n)
  BY <1>1, <1>3, RowBasics
<1>5. Max({1, i}) = IF 1 >= i THEN 1 ELSE i
  <2>1. 1 \in Int /\ i \in Int
    OBVIOUS
  <2> QED
    BY <2>1, MaxPair
<1>6. CASE n = 0
  <2>1. T = {}
    BY <1>4, <1>6
  <2>2. Max({0} \cup T) = 0
    <3>1. {0} \cup T \in SUBSET Int /\ 0 \in {0} \cup T /\ \A x \in {0} \cup T : x <= 0
      BY <2>1
    <3> QED
      BY <3>1, MaxIs
  <2>3. Load(chunks, i, limit) = NewSequence
    BY <1>3, <2>2 DEF Load
  <2>4. e[n] <= i
    BY <1>6
  <2> QED
    BY <1>1, <1>2, <2>3, <2>4
<1>7. CASE n # 0
  <2>1. 1 \in T
    <3>1. 1 \in 1..n /\ 1 - 1 = 0
      BY <1>7
    <3>2. chunks[1].offset = e[0] + 1
      BY <1>1, <3>1, OffsetIs
    <3>3. chunks[1].offset <= Max({1, i})
      BY <1>5, <3>2
    <3> QED
      BY <1>3, <1>4, <3>1, <3>3
  <2>2. PICK pos \in T : \A j \in T : j <= pos
    BY <1>4, <2>1, GreatestNat
  <2>3. pos \in 1..n /\ pos # 0 /\ chunks[pos].offset <= Max({1, i})
    BY <1>3, <1>4, <2>2
  <2>4. Max({0} \cup T) = pos
    <3>1. {0} \cup T \in SUBSET Int /\ pos \in {0} \cup T
      BY <1>4, <2>2
    <3>2. \A x \in {0} \cup T : x <= pos
      BY <2>2, <2>3
    <3> QED
      BY <3>1, <3>2, MaxIs
  <2>5. e[pos - 1] <= i
    <3>1. chunks[pos].offset = e[pos - 1] + 1
      BY <1>1, <2>3, OffsetIs
    <3>2. e[pos - 1] \in Nat
      BY <1>1, <2>3, RowBasics
    <3> QED
      BY <1>5, <2>3, <3>1, <3>2
  <2>6. PICK rest : rest = SubSeq(chunks, pos, Len(chunks))
    OBVIOUS
  <2>7. PICK m \in Nat \ {0} : m = n - pos + 1
    BY <2>3
  <2>8. PICK d : Row(rest, whole, f, k, d) /\ d[0] = e[pos - 1] /\ Len(rest) = m /\ d[m] = e[n]
    BY <1>1, <2>3, <2>6, <2>7, RowTail
  <2>9. PICK enough : enough = {j \in DOMAIN rest :
                                  ~ Less(Fin(TotalSize(Joined(rest, i, j).batches)), limit)}
    OBVIOUS
  <2>10. DOMAIN rest = 1..m
    BY <2>8, RowBasics
  <2>11. PICK j : j = Min(enough \cup {Len(rest)})
    OBVIOUS
  <2>12. j \in enough \/ j = m
    <3>1. enough \cup {m} \in SUBSET Nat /\ enough \cup {m} # {}
      BY <2>9, <2>10
    <3>2. Min(enough \cup {m}) \in enough \cup {m}
      BY <3>1, MinIn
    <3> QED
      BY <2>8, <2>11, <3>2
  <2>13. j \in 1..m /\ j \in 0..Len(rest)
    BY <2>8, <2>9, <2>10, <2>12
  <2>14. Load(chunks, i, limit) = Joined(rest, i, j)
    BY <1>3, <2>3, <2>4, <2>6, <2>9, <2>11 DEF Load
  <2>15. Joined(rest, i, j) = Prefix(whole, f, k, d, i, j)
    BY <2>5, <2>8, <2>13, JoinedIs
  <2>16. PICK c \in Nat : c = d[j] /\ c <= f
    BY <2>8, <2>13 DEF Row
  <2>17. Load(chunks, i, limit) = IF c <= i THEN NewSequence ELSE Piece(whole, f, k, i + 1, c)
    BY <2>14, <2>15, <2>16 DEF Prefix
  <2>18. CASE j = m
    BY <1>1, <2>8, <2>16, <2>17, <2>18
  <2>19. CASE j \in enough
    <3>1. ~ Less(Fin(TotalSize(Joined(rest, i, j).batches)), limit)
      BY <2>9, <2>19
    <3>2. ~ Less(Fin(TotalSize(Load(chunks, i, limit).batches)), limit)
      BY <2>14, <3>1
    <3> QED
      BY <2>16, <2>17, <3>2
  <2> QED
    BY <2>12, <2>18, <2>19
<1> QED
  BY <1>6, <1>7

LEMMA CutLog ==
    ASSUME NEW whole \in Seq(Size), NEW n \in Nat, n <= Len(whole)
    PROVE  /\ SubSeq(whole, 1, n) \in Seq(Size) /\ Len(SubSeq(whole, 1, n)) = n
           /\ \A i \in 1..n : SubSeq(whole, 1, n)[i] = whole[i]
<1>1. \A i \in 1..n : whole[i] \in Size
  BY ElementOfSeq
<1>2. /\ SubSeq(whole, 1, n) \in Seq(Size)
      /\ \A i \in 1..n - 1 + 1 : SubSeq(whole, 1, n)[i] = whole[1 + i - 1]
  BY <1>1, SubSeqProperties
<1>3. Len(SubSeq(whole, 1, n)) = IF 1 <= n THEN n - 1 + 1 ELSE 0
  BY <1>1, SubSeqProperties
<1>4. \A i \in 1..n : i \in 1..n - 1 + 1 /\ 1 + i - 1 = i
  OBVIOUS
<1> QED
  BY <1>2, <1>3, <1>4

(* The memory s is the piece of the log from index a to its end; it begins *)
(* where the chunks end or before.                                         *)
Covers(s, chunks, whole, f, k, a, e) ==
    /\ s = Piece(whole, f, k, a, Len(whole)) /\ a \in Nat \ {0}
    /\ Row(chunks, whole, f, k, e) /\ e[0] = 0
    /\ a <= e[Len(chunks)] + 1
    /\ a = 1 \/ a <= e[Len(chunks)]

(* The inductive invariant. *)
BatchesInv ==
    /\ LogOK(sequenced, finalized, locked)
    /\ restarts \in 0..MaxRestarts
    /\ \E a, e : Covers(seq, files, sequenced, finalized, locked, a, e)

LEMMA CoversBasics ==
    ASSUME NEW s, NEW chunks, NEW whole, NEW f, NEW k, LogOK(whole, f, k), NEW a, NEW e,
           Covers(s, chunks, whole, f, k, a, e)
    PROVE  /\ a \in Nat \ {0} /\ e[Len(chunks)] \in Nat /\ e[Len(chunks)] <= f
           /\ a <= e[Len(chunks)] + 1 /\ a <= f + 1 /\ a <= k + 1 /\ a <= Len(whole) + 1
           /\ f \in Nat /\ k \in Nat /\ f <= k /\ k <= Len(whole) /\ Len(whole) \in Nat
           /\ whole \in Seq(Size) /\ Within(whole, a, Len(whole))
<1>1. /\ f \in Nat /\ k \in Nat /\ f <= k /\ k <= Len(whole) /\ Len(whole) \in Nat
      /\ whole \in Seq(Size)
  BY DEF LogOK
<1>2. a \in Nat \ {0} /\ a <= e[Len(chunks)] + 1 /\ Row(chunks, whole, f, k, e) /\ e[0] = 0
  BY DEF Covers
<1>3. e[Len(chunks)] \in Nat /\ e[Len(chunks)] <= f
  BY <1>2, PersistedIs
<1>4. a <= f + 1 /\ a <= k + 1 /\ a <= Len(whole) + 1
  BY <1>1, <1>2, <1>3
<1>5. Within(whole, a, Len(whole))
  BY <1>1, <1>2 DEF Within
<1> QED
  BY <1>1, <1>2, <1>3, <1>4, <1>5

LEMMA InitCovers == BatchesInit => BatchesInv
<1> SUFFICES ASSUME BatchesInit PROVE BatchesInv
  OBVIOUS
<1>1. /\ seq = NewSequence /\ files = << >> /\ sequenced = << >> /\ locked = 0
      /\ finalized = 0 /\ restarts = 0
  BY DEF BatchesInit
<1>2. << >> \in Seq(Size) /\ << >> \in Seq(Sequence) /\ Len(<< >>) = 0
  BY EmptySeq
<1>3. LogOK(<< >>, 0, 0)
  BY <1>2 DEF LogOK
<1>4. NewSequence = Piece(<< >>, 0, 0, 1, 0)
  BY <1>3, NewIsPiece
<1>5. PICK e : e = [n \in 0..0 |-> 0]
  OBVIOUS
<1>6. \A n \in 0..0 : e[n] = 0
  BY <1>5
<1>7. Row(<< >>, << >>, 0, 0, e)
  <2>1. \A n \in 0..Len(<< >>) : e[n] \in Nat /\ e[n] <= 0
    BY <1>2, <1>6
  <2>2. \A m, n \in 0..Len(<< >>) : ~ (m < n)
    BY <1>2
  <2>3. \A n \in 1..Len(<< >>) : FALSE
    BY <1>2
  <2> QED
    BY <1>2, <2>1, <2>2, <2>3 DEF Row
<1>8. e[0] = 0 /\ 1 <= e[0] + 1
  BY <1>6
<1>9. Covers(NewSequence, << >>, << >>, 0, 0, 1, e)
  BY <1>2, <1>4, <1>7, <1>8 DEF Covers
<1>10. 0 \in 0..MaxRestarts
  BY LengthAssumption
<1> QED
  BY <1>1, <1>3, <1>9, <1>10 DEF BatchesInv

LEMMA InsertCovers ==
    ASSUME BatchesInv, NEW b \in Size, Insert(b)
    PROVE  BatchesInv'
<1>1. PICK a, e : Covers(seq, files, sequenced, finalized, locked, a, e)
  BY DEF BatchesInv
<1>2. LogOK(sequenced, finalized, locked) /\ restarts \in 0..MaxRestarts
  BY DEF BatchesInv
<1>3. /\ seq' = AppendBatch(seq, b) /\ sequenced' = Append(sequenced, b)
      /\ files' = files /\ locked' = locked /\ finalized' = finalized /\ restarts' = restarts
  BY DEF Insert
<1>4. /\ a \in Nat \ {0} /\ a <= Len(sequenced) + 1 /\ finalized \in Nat
      /\ finalized <= Len(sequenced) /\ sequenced \in Seq(Size) /\ Len(sequenced) \in Nat
  BY <1>1, <1>2, CoversBasics
<1>5. /\ AppendBatch(Piece(sequenced, finalized, locked, a, Len(sequenced)), b)
           = Piece(Append(sequenced, b), finalized, locked, a, Len(sequenced) + 1)
      /\ LogOK(Append(sequenced, b), finalized, locked)
      /\ Len(Append(sequenced, b)) = Len(sequenced) + 1
  BY <1>2, <1>4, AppendIs
<1>6. LogOK(sequenced', finalized', locked')
  BY <1>3, <1>5
<1>7. Row(files, Append(sequenced, b), finalized, locked, e)
  <2>1. Row(files, sequenced, finalized, locked, e)
    BY <1>1 DEF Covers
  <2>2. \A i \in 1..Len(sequenced) : Append(sequenced, b)[i] = sequenced[i]
    BY <1>4, AppendProperties
  <2>3. \A i \in 1..finalized : i \in 1..Len(sequenced)
    BY <1>4
  <2>4. \A i \in 1..finalized : Append(sequenced, b)[i] = sequenced[i]
    BY <2>2, <2>3
  <2>5. finalized <= finalized
    BY <1>4
  <2> QED
    BY <1>2, <1>5, <2>1, <2>4, <2>5, RowStays
<1>8. seq' = Piece(sequenced', finalized', locked', a, Len(sequenced'))
  BY <1>1, <1>3, <1>5 DEF Covers
<1>9. Covers(seq', files', sequenced', finalized', locked', a, e)
  BY <1>1, <1>3, <1>7, <1>8 DEF Covers
<1> QED
  BY <1>2, <1>3, <1>6, <1>9 DEF BatchesInv

LEMMA PromoteLockedCovers ==
    ASSUME BatchesInv, NEW i \in 1..MaxLen, PromoteLocked(i)
    PROVE  BatchesInv'
<1>1. PICK a, e : Covers(seq, files, sequenced, finalized, locked, a, e)
  BY DEF BatchesInv
<1>2. LogOK(sequenced, finalized, locked) /\ restarts \in 0..MaxRestarts
  BY DEF BatchesInv
<1>3. /\ locked < i /\ i <= Len(sequenced)
      /\ seq' = Promote(seq, i, "locked") /\ sequenced' = sequenced
      /\ files' = files /\ locked' = i /\ finalized' = finalized /\ restarts' = restarts
  BY DEF PromoteLocked
<1>4. /\ a \in Nat \ {0} /\ a <= locked + 1 /\ finalized \in Nat /\ locked \in Nat
      /\ finalized <= locked /\ locked <= Len(sequenced)
      /\ sequenced \in Seq(Size) /\ Len(sequenced) \in Nat /\ Within(sequenced, a, Len(sequenced))
  BY <1>1, <1>2, CoversBasics
<1>5. i \in Nat /\ a <= i /\ a <= Len(sequenced) /\ ~ (i <= locked)
  BY <1>3, <1>4, LengthAssumption
<1>6. LogOK(sequenced, finalized, i)
  BY <1>3, <1>4, <1>5 DEF LogOK
<1>7. Promote(Piece(sequenced, finalized, locked, a, Len(sequenced)), i, "locked")
        = Piece(sequenced, finalized, IF i <= locked THEN locked ELSE i, a, Len(sequenced))
  BY <1>2, <1>3, <1>4, <1>5, PromoteChanges
<1>8. seq' = Piece(sequenced, finalized, i, a, Len(sequenced))
  BY <1>1, <1>3, <1>5, <1>7 DEF Covers
<1>9. Row(files, sequenced, finalized, i, e)
  <2>1. Row(files, sequenced, finalized, locked, e) /\ finalized <= finalized
    BY <1>1, <1>4 DEF Covers
  <2> QED
    BY <1>2, <1>6, <2>1, RowStays
<1>10. Covers(seq', files', sequenced', finalized', locked', a, e)
  BY <1>1, <1>3, <1>8, <1>9 DEF Covers
<1> QED
  BY <1>2, <1>3, <1>6, <1>10 DEF BatchesInv

LEMMA PromoteFinalizedCovers ==
    ASSUME BatchesInv, NEW i \in 1..MaxLen, PromoteFinalized(i)
    PROVE  BatchesInv'
<1>1. PICK a, e : Covers(seq, files, sequenced, finalized, locked, a, e)
  BY DEF BatchesInv
<1>2. LogOK(sequenced, finalized, locked) /\ restarts \in 0..MaxRestarts
  BY DEF BatchesInv
<1>3. PICK promoted : promoted = Promote(seq, i, "finalized")
  OBVIOUS
<1>4. PICK chunks : chunks = Stored(promoted, files, ChunkSize)
  OBVIOUS
<1>5. /\ finalized < i /\ i <= Len(sequenced) /\ files' = chunks
      /\ seq' = After(promoted, BorderIndex(chunks))
      /\ finalized' = i /\ locked' = Max({locked, i})
      /\ sequenced' = sequenced /\ restarts' = restarts
  BY <1>3, <1>4 DEF PromoteFinalized
<1>6. /\ a \in Nat \ {0} /\ a <= finalized + 1 /\ finalized \in Nat /\ locked \in Nat
      /\ finalized <= locked /\ locked <= Len(sequenced)
      /\ sequenced \in Seq(Size) /\ Len(sequenced) \in Nat /\ Within(sequenced, a, Len(sequenced))
      /\ e[Len(files)] \in Nat /\ a <= e[Len(files)] + 1
  BY <1>1, <1>2, CoversBasics
<1>7. i \in Nat /\ a <= i /\ a <= Len(sequenced) /\ ~ (i <= finalized)
  BY <1>5, <1>6, LengthAssumption
<1>8. PICK k2 \in Nat : k2 = IF i <= locked THEN locked ELSE i
  BY <1>6, <1>7
<1>9. locked' = k2
  <2>1. Max({locked, i}) = IF locked >= i THEN locked ELSE i
    <3>1. locked \in Int /\ i \in Int
      BY <1>6, <1>7
    <3> QED
      BY <3>1, MaxPair
  <2>2. locked >= i <=> i <= locked
    BY <1>6, <1>7
  <2> QED
    BY <1>5, <1>8, <2>1, <2>2
<1>10. LogOK(sequenced, i, k2)
  BY <1>5, <1>6, <1>7, <1>8 DEF LogOK
<1>11. Promote(Piece(sequenced, finalized, locked, a, Len(sequenced)), i, "finalized")
         = Piece(sequenced, IF i <= finalized THEN finalized ELSE i,
                 IF i <= locked THEN locked ELSE i, a, Len(sequenced))
  BY <1>2, <1>5, <1>6, <1>7, PromoteChanges
<1>12. promoted = Piece(sequenced, i, k2, a, Len(sequenced))
  BY <1>1, <1>3, <1>7, <1>8, <1>11 DEF Covers
<1>13. Row(files, sequenced, i, k2, e) /\ e[0] = 0
  <2>1. Row(files, sequenced, finalized, locked, e) /\ e[0] = 0 /\ finalized <= i
    BY <1>1, <1>5, <1>6, <1>7 DEF Covers
  <2> QED
    BY <1>2, <1>10, <2>1, RowStays
<1>14. PICK e2 : /\ Row(chunks, sequenced, i, k2, e2) /\ e2[0] = 0
                 /\ e[Len(files)] <= e2[Len(chunks)]
  <2>1. ChunkSize \in Nat
    BY ChunkAssumption
  <2> QED
    BY <1>4, <1>5, <1>6, <1>10, <1>12, <1>13, <2>1, StoredIs
<1>15. /\ BorderIndex(chunks) \in Nat /\ e2[Len(chunks)] \in Nat
       /\ BorderIndex(chunks) = 0 \/ BorderIndex(chunks) + 1 <= e2[Len(chunks)]
  BY <1>10, <1>14, BorderIs, PersistedIs
<1>16. PICK c : c = IF a <= BorderIndex(chunks) + 1 THEN BorderIndex(chunks) + 1 ELSE a
  OBVIOUS
<1>17. seq' = Piece(sequenced, i, k2, c, Len(sequenced))
  BY <1>5, <1>6, <1>10, <1>12, <1>15, <1>16, AfterIs
<1>18. c \in Nat \ {0} /\ c <= e2[Len(chunks)] + 1 /\ (c = 1 \/ c <= e2[Len(chunks)])
  <2>1. a = 1 \/ a <= e[Len(files)]
    BY <1>1 DEF Covers
  <2>2. CASE a <= BorderIndex(chunks) + 1
    BY <1>15, <1>16, <2>2
  <2>3. CASE ~ (a <= BorderIndex(chunks) + 1)
    BY <1>6, <1>14, <1>15, <1>16, <2>1, <2>3
  <2> QED
    BY <2>2, <2>3
<1>19. Covers(seq', files', sequenced', finalized', locked', c, e2)
  BY <1>5, <1>9, <1>14, <1>17, <1>18 DEF Covers
<1> QED
  BY <1>2, <1>5, <1>9, <1>10, <1>19 DEF BatchesInv

LEMMA ReinitializeCovers ==
    ASSUME BatchesInv, Reinitialize
    PROVE  BatchesInv'
<1>1. PICK a, e : Covers(seq, files, sequenced, finalized, locked, a, e)
  BY DEF BatchesInv
<1>2. LogOK(sequenced, finalized, locked) /\ restarts \in 0..MaxRestarts
  BY DEF BatchesInv
<1>3. /\ locked < Len(sequenced)
      /\ seq' = UpTo(seq, seq.last.locked) /\ sequenced' = SubSeq(sequenced, 1, locked)
      /\ files' = files /\ locked' = locked /\ finalized' = finalized /\ restarts' = restarts
  BY DEF Reinitialize
<1>4. /\ a \in Nat \ {0} /\ a <= locked + 1 /\ finalized \in Nat /\ locked \in Nat
      /\ finalized <= locked /\ locked <= Len(sequenced)
      /\ sequenced \in Seq(Size) /\ Len(sequenced) \in Nat /\ Within(sequenced, a, Len(sequenced))
  BY <1>1, <1>2, CoversBasics
<1>5. PICK cut : cut = SubSeq(sequenced, 1, locked)
  OBVIOUS
<1>6. cut \in Seq(Size) /\ Len(cut) = locked /\ \A i \in 1..locked : cut[i] = sequenced[i]
  BY <1>4, <1>5, CutLog
<1>7. LogOK(cut, finalized, locked)
  BY <1>4, <1>6 DEF LogOK
<1>8. seq = Piece(sequenced, finalized, locked, a, Len(sequenced))
  BY <1>1 DEF Covers
<1>9. PICK x \in Nat : x = seq.last.locked /\ x = Part(a, Len(sequenced), locked)
  <2>1. Consists(seq, sequenced, finalized, locked, a, Len(sequenced))
    BY <1>2, <1>4, <1>8, PieceBasics
  <2>2. seq.last.locked = Part(a, Len(sequenced), locked)
    BY <2>1 DEF Consists
  <2> QED
    BY <1>4, <2>2, PartBounds
<1>10. x <= Len(sequenced) /\ (IF a <= locked THEN x = locked ELSE x = 0)
  BY <1>4, <1>9 DEF Part
<1>11. UpTo(seq, x) = Piece(sequenced, finalized, locked, a, x) /\ Within(sequenced, a, x)
  <2>1. x = IF x <= Len(sequenced) THEN x ELSE Len(sequenced)
    BY <1>10
  <2> QED
    BY <1>2, <1>4, <1>8, <2>1, UpToIs
<1>12. Within(sequenced, a, locked)
  BY <1>4 DEF Within
<1>13. Piece(sequenced, finalized, locked, a, x) = Piece(sequenced, finalized, locked, a, locked)
  <2>1. \A j \in Int : a <= j => (j <= x <=> j <= locked)
    BY <1>4, <1>10
  <2> QED
    BY <1>2, <1>11, <1>12, <2>1, SamePiece
<1>14. SubSeq(sequenced, a, locked) = SubSeq(cut, a, locked)
  <2>1. /\ locked \in Nat /\ locked <= locked /\ locked <= Len(cut) /\ locked <= Len(sequenced)
        /\ sequenced \in Seq(Size) /\ cut \in Seq(Size)
    BY <1>4, <1>6
  <2>2. \A i \in 1..locked : cut[i] = sequenced[i]
    BY <1>6
  <2>3. Alike(sequenced, cut, locked)
    BY <2>1, <2>2 DEF Alike
  <2>4. a \in Nat \ {0}
    BY <1>4
  <2> QED
    BY <2>1, <2>3, <2>4, SameParts
<1>15. seq' = Piece(cut, finalized, locked, a, locked)
  BY <1>3, <1>9, <1>11, <1>13, <1>14 DEF Piece
<1>16. Row(files, cut, finalized, locked, e)
  <2>1. Row(files, sequenced, finalized, locked, e) /\ finalized <= finalized
    BY <1>1, <1>4 DEF Covers
  <2>2. \A i \in 1..finalized : i \in 1..locked
    BY <1>4
  <2>3. \A i \in 1..finalized : cut[i] = sequenced[i]
    BY <1>6, <2>2
  <2> QED
    BY <1>2, <1>7, <2>1, <2>3, RowStays
<1>17. Covers(seq', files', sequenced', finalized', locked', a, e)
  BY <1>1, <1>3, <1>5, <1>6, <1>15, <1>16 DEF Covers
<1> QED
  BY <1>2, <1>3, <1>5, <1>7, <1>17 DEF BatchesInv

LEMMA RestartCovers ==
    ASSUME BatchesInv, Restart
    PROVE  BatchesInv'
<1>1. PICK a, e : Covers(seq, files, sequenced, finalized, locked, a, e)
  BY DEF BatchesInv
<1>2. LogOK(sequenced, finalized, locked) /\ restarts \in 0..MaxRestarts
  BY DEF BatchesInv
<1>3. PICK chunks : chunks = Stored(seq, files, 0)
  OBVIOUS
<1>4. /\ restarts < MaxRestarts /\ files' = chunks
      /\ seq' = Load(chunks, BorderIndex(chunks), PosInf)
      /\ sequenced' = SubSeq(sequenced, 1, finalized)
      /\ locked' = finalized /\ finalized' = finalized /\ restarts' = restarts + 1
  BY <1>3 DEF Restart
<1>5. /\ a \in Nat \ {0} /\ a <= e[Len(files)] + 1 /\ finalized \in Nat
      /\ locked \in Nat /\ finalized <= locked /\ locked <= Len(sequenced)
      /\ sequenced \in Seq(Size) /\ Len(sequenced) \in Nat /\ Within(sequenced, a, Len(sequenced))
  BY <1>1, <1>2, CoversBasics
<1>6. PICK cut : cut = SubSeq(sequenced, 1, finalized)
  OBVIOUS
<1>7. /\ cut \in Seq(Size) /\ Len(cut) = finalized
      /\ \A i \in 1..finalized : cut[i] = sequenced[i]
  <2>1. finalized <= Len(sequenced)
    BY <1>5
  <2> QED
    BY <1>5, <1>6, <2>1, CutLog
<1>8. LogOK(cut, finalized, finalized)
  BY <1>5, <1>7 DEF LogOK
<1>9. PICK e2 : Row(chunks, sequenced, finalized, locked, e2) /\ e2[0] = 0
                /\ e2[Len(chunks)] = finalized
  <2>1. /\ seq = Piece(sequenced, finalized, locked, a, Len(sequenced))
        /\ Row(files, sequenced, finalized, locked, e) /\ e[0] = 0
    BY <1>1 DEF Covers
  <2>2. finalized <= Len(sequenced) /\ 0 \in Nat
    BY <1>5
  <2> QED
    BY <1>2, <1>3, <1>5, <2>1, <2>2, StoredIs
<1>10. Row(chunks, cut, finalized, finalized, e2)
  <2>1. finalized <= finalized
    BY <1>5
  <2> QED
    BY <1>2, <1>7, <1>8, <1>9, <2>1, RowStays
<1>11. PICK B \in Nat : /\ B = BorderIndex(chunks)
                        /\ B = 0 \/ B + 1 <= finalized
  BY <1>8, <1>9, <1>10, BorderIs
<1>12. PICK c \in Nat :
         /\ c <= finalized
         /\ Load(chunks, B, PosInf)
              = IF c <= B THEN NewSequence ELSE Piece(cut, finalized, finalized, B + 1, c)
         /\ \/ c = e2[Len(chunks)]
            \/ ~ Less(Fin(TotalSize(Load(chunks, B, PosInf).batches)), PosInf)
  BY <1>8, <1>9, <1>10, <1>11, LoadIs
<1>13. c = finalized
  <2>1. \A x : Less(Fin(x), PosInf)
    <3>1. \A x : Fin(x)[1] = 0
      BY DEF Fin
    <3>2. PosInf[1] = 1 /\ 0 < 1
      BY DEF PosInf
    <3> QED
      BY <3>1, <3>2 DEF Less
  <2> QED
    BY <1>9, <1>12, <2>1
<1>14. PICK first \in Nat \ {0} : first = B + 1
  BY <1>11
<1>15. seq' = Piece(cut, finalized, finalized, first, finalized)
  <2>1. CASE finalized <= B
    <3>1. finalized = 0 /\ B = 0 /\ first = 1
      BY <1>5, <1>11, <1>14, <2>1
    <3>2. NewSequence = Piece(cut, finalized, finalized, 1, 0)
      BY <1>8, NewIsPiece
    <3> QED
      BY <1>4, <1>11, <1>12, <1>13, <2>1, <3>1, <3>2
  <2>2. CASE ~ (finalized <= B)
    BY <1>4, <1>11, <1>12, <1>13, <1>14, <2>2
  <2> QED
    BY <2>1, <2>2
<1>16. first <= finalized + 1 /\ (first = 1 \/ first <= finalized)
  BY <1>5, <1>11, <1>14
<1>17. Covers(seq', files', sequenced', finalized', locked', first, e2)
  BY <1>4, <1>6, <1>7, <1>9, <1>10, <1>15, <1>16 DEF Covers
<1>18. restarts' \in 0..MaxRestarts
  BY <1>2, <1>4, LengthAssumption
<1>19. LogOK(sequenced', finalized', locked')
  BY <1>4, <1>6, <1>8
<1> QED
  BY <1>17, <1>18, <1>19 DEF BatchesInv

LEMMA BatchesInvariant == BatchesSpec => []BatchesInv
<1>1. BatchesInit => BatchesInv
  BY InitCovers
<1>2. BatchesInv /\ [BatchesNext]_batchesVars => BatchesInv'
  <2> SUFFICES ASSUME BatchesInv, [BatchesNext]_batchesVars
               PROVE  BatchesInv'
    OBVIOUS
  <2>1. ASSUME NEW b \in Size, Insert(b) PROVE BatchesInv'
    BY <2>1, InsertCovers
  <2>2. ASSUME NEW i \in 1..MaxLen, PromoteLocked(i) PROVE BatchesInv'
    BY <2>2, PromoteLockedCovers
  <2>3. ASSUME NEW i \in 1..MaxLen, PromoteFinalized(i) PROVE BatchesInv'
    BY <2>3, PromoteFinalizedCovers
  <2>4. CASE Reinitialize
    BY <2>4, ReinitializeCovers
  <2>5. CASE Restart
    BY <2>5, RestartCovers
  <2>6. CASE UNCHANGED batchesVars
    <3>1. /\ seq' = seq /\ files' = files /\ sequenced' = sequenced
          /\ locked' = locked /\ finalized' = finalized /\ restarts' = restarts
      BY <2>6 DEF batchesVars
    <3> QED
      BY <3>1 DEF BatchesInv
  <2> QED
    BY <2>1, <2>2, <2>3, <2>4, <2>5, <2>6 DEF BatchesNext
<1> QED
  BY <1>1, <1>2, PTL DEF BatchesSpec

LEMMA StateIsLogState == \A i : StateAt(finalized, locked, i) = LogState(i)
BY DEF StateAt, LogState

(* The sequence in memory and the chunks are well formed, for every border *)
(* and every size of chunks: the last indices are in the order of their    *)
(* states and within the batches after every promotion, cut and restart.   *)
THEOREM SequencesAreTyped == BatchesSpec => []BatchesTypeOK
<1>1. BatchesInv => BatchesTypeOK
  <2> SUFFICES ASSUME BatchesInv PROVE BatchesTypeOK
    OBVIOUS
  <2>1. LogOK(sequenced, finalized, locked) /\ restarts \in 0..MaxRestarts
    BY DEF BatchesInv
  <2>2. PICK a, e : Covers(seq, files, sequenced, finalized, locked, a, e)
    BY DEF BatchesInv
  <2>3. /\ sequenced \in Seq(Size) /\ finalized \in Nat /\ locked \in finalized..Len(sequenced)
        /\ Within(sequenced, a, Len(sequenced))
    BY <2>1, <2>2, CoversBasics
  <2>4. WellFormed(seq)
    BY <2>1, <2>2, <2>3, PieceWellFormed DEF Covers
  <2>5. Row(files, sequenced, finalized, locked, e)
    BY <2>2 DEF Covers
  <2>6. files \in Seq([offset : Nat, batches : Seq(Size), last : [{"locked", "finalized"} -> Nat]])
    BY <2>5 DEF Row, Sequence
  <2>7. ASSUME NEW n \in DOMAIN files PROVE WellFormed(files[n])
    <3>1. n \in 1..Len(files)
      BY <2>1, <2>5, RowBasics
    <3>2. PICK x, y : x = e[n - 1] + 1 /\ y = e[n]
      OBVIOUS
    <3>3. files[n] = Piece(sequenced, finalized, locked, x, y)
      BY <2>5, <3>1, <3>2 DEF Row
    <3>4. Within(sequenced, x, y)
      BY <2>1, <2>5, <3>1, <3>2, RowBasics
    <3> QED
      BY <2>1, <3>3, <3>4, PieceWellFormed
  <2> QED
    BY <2>1, <2>3, <2>4, <2>6, <2>7 DEF BatchesTypeOK
<1> QED
  BY <1>1, BatchesInvariant, PTL

(* The memory is a window of the log up to its end, every batch at its     *)
(* index and in its state, whatever has been promoted, cut back, pruned    *)
(* and loaded again.                                                       *)
THEOREM MemoryIsWindow == BatchesSpec => []WindowOfLog
<1>1. BatchesInv => WindowOfLog
  <2> SUFFICES ASSUME BatchesInv PROVE WindowOfLog
    OBVIOUS
  <2>1. LogOK(sequenced, finalized, locked)
    BY DEF BatchesInv
  <2>2. PICK a, e : Covers(seq, files, sequenced, finalized, locked, a, e)
    BY DEF BatchesInv
  <2>3. Within(sequenced, a, Len(sequenced))
    BY <2>1, <2>2, CoversBasics
  <2>4. seq = Piece(sequenced, finalized, locked, a, Len(sequenced))
    BY <2>2 DEF Covers
  <2>5. seq.offset = a
    BY <2>4 DEF Piece
  <2>6. Records(seq) = {[index |-> i, size |-> sequenced[i], state |-> StateAt(finalized, locked, i)] :
                           i \in a..Len(sequenced)}
    BY <2>1, <2>3, <2>4, PieceRecords
  <2> QED
    BY <2>5, <2>6, StateIsLogState DEF WindowOfLog
<1> QED
  BY <1>1, BatchesInvariant, PTL

(* filter returns what its arguments say, for all states and bounds.       *)
THEOREM FilterIsExact == BatchesSpec => []FilterSelects
<1>1. BatchesInv => FilterSelects
  <2> SUFFICES ASSUME BatchesInv,
                      NEW target \in State, NEW exclude \in State \cup {"none"},
                      NEW start \in Bounds \ {PosInf}, NEW end \in Bounds \ {NegInf}
               PROVE  Records(FilterStates(seq, target, exclude, start, end)) =
                        {r \in Records(seq) :
                            /\ Less(start, Fin(r.index)) /\ ~ Less(end, Fin(r.index))
                            /\ BeforeOrEqual(target, r.state)
                            /\ exclude = "none" \/ ~ BeforeOrEqual(exclude, r.state)}
    BY DEF FilterSelects
  <2>1. LogOK(sequenced, finalized, locked)
    BY DEF BatchesInv
  <2>2. PICK a, e : Covers(seq, files, sequenced, finalized, locked, a, e)
    BY DEF BatchesInv
  <2>3. PICK n : n = Len(sequenced)
    OBVIOUS
  <2>4. Within(sequenced, a, n)
    BY <2>1, <2>2, <2>3, CoversBasics
  <2>5. seq = Piece(sequenced, finalized, locked, a, n)
    BY <2>2, <2>3 DEF Covers
  <2>6. start \in Lower /\ end \in Upper
    <3>1. \A i \in 0..(MaxLen + 1) : i \in Int
      BY LengthAssumption
    <3> QED
      BY <3>1 DEF Bounds, Lower, Upper
  <2> DEFINE Wanted(i, s) == /\ Less(start, Fin(i)) /\ ~ Less(end, Fin(i))
                             /\ BeforeOrEqual(target, s)
                             /\ exclude = "none" \/ ~ BeforeOrEqual(exclude, s)
             S(i) == StateAt(finalized, locked, i)
             R(i) == [index |-> i, size |-> sequenced[i], state |-> S(i)]
  <2>7. PICK lo \in Nat \ {0}, hi \in Nat :
          /\ a <= lo /\ hi <= n /\ Within(sequenced, lo, hi)
          /\ FilterStates(seq, target, exclude, start, end)
               = Piece(sequenced, finalized, locked, lo, hi)
          /\ \A i \in a..n : i \in lo..hi <=> Wanted(i, S(i))
    BY <2>1, <2>4, <2>5, <2>6, FilterIs
  <2>8. Records(FilterStates(seq, target, exclude, start, end)) = {R(i) : i \in lo..hi}
    BY <2>1, <2>7, PieceRecords
  <2>9. Records(seq) = {R(i) : i \in a..n}
    BY <2>1, <2>4, <2>5, PieceRecords
  <2>10. \A i \in lo..hi : i \in a..n
    <3>1. a \in Nat /\ n \in Nat
      BY <2>4 DEF Within, LogOK
    <3> QED
      BY <2>7, <3>1
  <2>11. \A i : R(i).index = i /\ R(i).state = S(i)
    OBVIOUS
  <2> HIDE DEF Wanted, R
  <2>12. {R(i) : i \in lo..hi} = {r \in {R(i) : i \in a..n} : Wanted(r.index, r.state)}
    <3>1. ASSUME NEW i \in lo..hi PROVE i \in a..n /\ Wanted(R(i).index, R(i).state)
      <4>1. i \in a..n /\ Wanted(i, S(i))
        BY <2>7, <2>10
      <4> QED
        BY <2>11, <4>1
    <3>2. ASSUME NEW i \in a..n, Wanted(R(i).index, R(i).state) PROVE i \in lo..hi
      <4>1. Wanted(i, S(i))
        BY <2>11, <3>2
      <4> QED
        BY <2>7, <4>1
    <3> QED
      BY <3>1, <3>2
  <2> QED
    BY <2>8, <2>9, <2>12 DEF Wanted
<1> QED
  BY <1>1, BatchesInvariant, PTL

(* Sizes of parts of the log: they add up, and grow with every batch.      *)
SizeFrom(whole, a, b) == TotalSize(SubSeq(whole, a, b))

LEMMA SizesAdd ==
    ASSUME NEW whole \in Seq(Size), NEW a \in Nat \ {0}
    PROVE  /\ \A b \in Nat : b <= Len(whole) => SizeFrom(whole, a, b) \in Nat
           /\ \A b \in Nat : b < a /\ b <= Len(whole) => SizeFrom(whole, a, b) = 0
           /\ \A b \in Nat : a <= b /\ b <= Len(whole) => 0 < SizeFrom(whole, a, b)
           /\ \A b, c \in Nat : a <= b /\ b < c /\ c <= Len(whole) =>
                 SizeFrom(whole, a, b) < SizeFrom(whole, a, c)
           /\ \A b, c \in Nat : a <= b /\ b < c /\ c <= Len(whole) =>
                 SizeFrom(whole, a, c) = SizeFrom(whole, a, b) + SizeFrom(whole, b + 1, c)
<1>1. PICK g : /\ SizesUp(g, whole)
               /\ \A x \in Nat \ {0}, y \in Nat : y <= Len(whole) =>
                    TotalSize(SubSeq(whole, x, y)) = IF x <= y THEN g[y] - g[x - 1] ELSE 0
  BY SizesOfPieces
<1>2. Len(whole) \in Nat
  OBVIOUS
<1>3. \A x \in Nat \ {0}, y \in Nat : y <= Len(whole) =>
          SizeFrom(whole, x, y) = IF x <= y THEN g[y] - g[x - 1] ELSE 0
  BY <1>1 DEF SizeFrom
<1>4. /\ \A i \in 0..Len(whole) : g[i] \in Nat
      /\ \A i, j \in 0..Len(whole) : i < j => g[i] < g[j]
  BY <1>1 DEF SizesUp
<1>5. ASSUME NEW b \in Nat, b < a, b <= Len(whole) PROVE SizeFrom(whole, a, b) = 0
  BY <1>3, <1>5
<1>6. ASSUME NEW b \in Nat, a <= b, b <= Len(whole)
      PROVE  /\ SizeFrom(whole, a, b) = g[b] - g[a - 1] /\ g[b] \in Nat /\ g[a - 1] \in Nat
             /\ g[a - 1] < g[b]
  <2>1. SizeFrom(whole, a, b) = g[b] - g[a - 1]
    BY <1>3, <1>6
  <2>2. b \in 0..Len(whole) /\ a - 1 \in 0..Len(whole) /\ a - 1 < b
    BY <1>2, <1>6
  <2> QED
    BY <1>4, <2>1, <2>2
<1>7. ASSUME NEW b \in Nat, a <= b, b <= Len(whole)
      PROVE  SizeFrom(whole, a, b) \in Nat /\ 0 < SizeFrom(whole, a, b)
  BY <1>6, <1>7
<1>8. ASSUME NEW b \in Nat, NEW c \in Nat, a <= b, b < c, c <= Len(whole)
      PROVE  /\ SizeFrom(whole, a, b) < SizeFrom(whole, a, c)
             /\ SizeFrom(whole, a, c) = SizeFrom(whole, a, b) + SizeFrom(whole, b + 1, c)
  <2>1. b <= Len(whole) /\ a <= c /\ b \in 0..Len(whole) /\ c \in 0..Len(whole)
    BY <1>2, <1>8
  <2>2. /\ SizeFrom(whole, a, b) = g[b] - g[a - 1] /\ g[b] \in Nat /\ g[a - 1] \in Nat
        /\ SizeFrom(whole, a, c) = g[c] - g[a - 1] /\ g[c] \in Nat
    BY <1>6, <1>8, <2>1
  <2>3. g[b] < g[c]
    BY <1>4, <1>8, <2>1
  <2>4. SizeFrom(whole, b + 1, c) = g[c] - g[b]
    <3>1. PICK x \in Nat \ {0} : x = b + 1 /\ x <= c /\ x - 1 = b
      BY <1>8
    <3>2. SizeFrom(whole, x, c) = g[c] - g[x - 1]
      BY <1>3, <1>8, <3>1
    <3> QED
      BY <3>1, <3>2
  <2> QED
    BY <2>2, <2>3, <2>4
<1>9. \A b \in Nat : b <= Len(whole) => SizeFrom(whole, a, b) \in Nat
  <2>1. \A b \in Nat : b < a \/ a <= b
    OBVIOUS
  <2> QED
    BY <1>5, <1>7, <2>1
<1>10. \A b \in Nat : b < a /\ b <= Len(whole) => SizeFrom(whole, a, b) = 0
  BY <1>5
<1>11. \A b \in Nat : a <= b /\ b <= Len(whole) => 0 < SizeFrom(whole, a, b)
  BY <1>7
<1>12. \A b, c \in Nat : a <= b /\ b < c /\ c <= Len(whole) =>
          /\ SizeFrom(whole, a, b) < SizeFrom(whole, a, c)
          /\ SizeFrom(whole, a, c) = SizeFrom(whole, a, b) + SizeFrom(whole, b + 1, c)
  BY <1>8
<1> QED
  BY <1>9, <1>10, <1>11, <1>12

(* truncate_by_size keeps the longest beginning that fits.                 *)
LEMMA TruncateIs ==
    ASSUME NEW whole, NEW f, NEW k, LogOK(whole, f, k), NEW a, NEW b, Within(whole, a, b),
           NEW limit \in Int
    PROVE  \E m \in Nat :
             /\ m <= b /\ Within(whole, a, m)
             /\ Truncate(Piece(whole, f, k, a, b), limit) = Piece(whole, f, k, a, m)
             /\ \A j \in a..b : j <= m <=> SizeFrom(whole, a, j) <= limit
<1>1. PICK p : p = Piece(whole, f, k, a, b)
  OBVIOUS
<1>2. Consists(p, whole, f, k, a, b)
  BY <1>1, PieceBasics
<1>3. /\ a \in Nat \ {0} /\ b \in Nat /\ b <= Len(whole) /\ whole \in Seq(Size) /\ Len(whole) \in Nat
  BY DEF LogOK, Within
<1>4. /\ Empty(p) = Piece(whole, f, k, a, 0) /\ Within(whole, a, 0)
  <2>1. Within(whole, a, 0)
    BY <1>3 DEF Within
  <2> QED
    BY <1>1, <2>1, EmptyIsPiece
<1>5. /\ p.batches = SubSeq(whole, a, b)
      /\ p.batches = << >> <=> b < a
      /\ Len(p.batches) = IF a <= b THEN b - a + 1 ELSE 0
      /\ p.offset = a
  BY <1>2 DEF Consists
<1>6. \A j \in a..b : j \in Nat /\ a <= j /\ j <= Len(whole) /\ j <= b /\ ~ (j <= 0)
  BY <1>3
<1>7. CASE limit <= 0 \/ p.batches = << >>
  <2>1. Truncate(p, limit) = Empty(p)
    BY <1>7 DEF Truncate
  <2>2. ASSUME NEW j \in a..b PROVE j <= 0 <=> SizeFrom(whole, a, j) <= limit
    <3>1. limit <= 0
      BY <1>3, <1>5, <1>7
    <3>2. 0 < SizeFrom(whole, a, j) /\ SizeFrom(whole, a, j) \in Nat
      BY <1>3, <1>6, SizesAdd
    <3> QED
      BY <1>6, <3>1, <3>2
  <2>3. 0 <= b /\ 0 \in Nat
    BY <1>3
  <2> QED
    BY <1>1, <1>4, <2>1, <2>2, <2>3
<1>8. CASE ~ (limit <= 0 \/ p.batches = << >>)
  <2>1. 0 < limit /\ a <= b
    <3>1. p.batches # << >>
      BY <1>8
    <3>2. ~ (b < a)
      BY <1>5, <3>1
    <3> QED
      BY <1>3, <1>8, <3>2
  <2>2. PICK n \in Nat : n = Len(p.batches) /\ n = b - a + 1
    BY <1>3, <1>5, <2>1
  <2>3. TotalSize(p.batches) = SizeFrom(whole, a, b)
    BY <1>5 DEF SizeFrom
  <2>4. SizeFrom(whole, a, b) \in Nat
    BY <1>3, SizesAdd
  <2>5. CASE limit >= TotalSize(p.batches)
    <3>1. Truncate(p, limit) = p
      BY <1>8, <2>5 DEF Truncate
    <3>2. ASSUME NEW j \in a..b PROVE j <= b <=> SizeFrom(whole, a, j) <= limit
      <4>1. j = b \/ j < b
        BY <1>3, <1>6
      <4>2. SizeFrom(whole, a, j) \in Nat /\ (j < b => SizeFrom(whole, a, j) < SizeFrom(whole, a, b))
        BY <1>3, <1>6, SizesAdd
      <4> QED
        BY <1>6, <2>3, <2>4, <2>5, <4>1, <4>2
    <3>3. b <= b
      BY <1>3
    <3> QED
      BY <1>1, <1>3, <3>1, <3>2, <3>3
  <2>6. CASE ~ (limit >= TotalSize(p.batches))
    <3>1. PICK T : T = {m \in 0..n : TotalSize(SubSeq(p.batches, 1, m)) <= limit}
      OBVIOUS
    <3>2. ASSUME NEW m \in 0..n
          PROVE  TotalSize(SubSeq(p.batches, 1, m)) = SizeFrom(whole, a, a - 1 + m)
      <4>1. PICK d \in Nat : d = a - 1 + m
        BY <1>3
      <4>2. d \in Int /\ d <= b /\ a <= a /\ 1 = a - a + 1 /\ m = d - a + 1
        BY <1>3, <2>2, <4>1
      <4>3. SubSeq(SubSeq(whole, a, b), 1, m) = SubSeq(whole, a, d)
        BY <1>3, <4>2, PartOfPart
      <4> QED
        BY <1>5, <4>1, <4>3 DEF SizeFrom
    <3>3. 0 \in T
      <4>1. 0 \in 0..n /\ a - 1 + 0 = a - 1 /\ a - 1 \in Nat /\ a - 1 < a /\ a - 1 <= Len(whole)
        BY <1>3, <2>1, <2>2
      <4>2. SizeFrom(whole, a, a - 1) = 0
        BY <1>3, <4>1, SizesAdd
      <4>3. TotalSize(SubSeq(p.batches, 1, 0)) = 0
        BY <3>2, <4>1, <4>2
      <4> QED
        BY <2>1, <3>1, <4>1, <4>3
    <3>4. PICK N \in T : \A m \in T : m <= N
      <4>1. CASE T = {0}
        BY <4>1
      <4>2. CASE T # {0}
        <5>1. T \ {0} \in SUBSET (1..n) /\ T \ {0} # {}
          BY <2>2, <3>1, <3>3, <4>2
        <5>2. PICK N \in T \ {0} : \A m \in T \ {0} : m <= N
          BY <5>1, GreatestNat
        <5>3. \A m \in T : m <= N
          BY <5>1, <5>2
        <5> QED
          BY <5>2, <5>3
      <4> QED
        BY <4>1, <4>2
    <3>5. Fitting(p, limit) = N /\ N \in 0..n /\ TotalSize(SubSeq(p.batches, 1, N)) <= limit
      <4>1. T \in SUBSET Int
        BY <3>1
      <4>2. Max(T) = N
        BY <3>4, <4>1, MaxIs
      <4> QED
        BY <2>2, <3>1, <3>4, <4>2 DEF Fitting
    <3>6. PICK m \in Nat : m = a - 1 + N
      BY <1>3, <3>5
    <3>7. m <= b /\ Within(whole, a, m)
      BY <1>3, <2>2, <3>5, <3>6 DEF Within
    <3>8. ASSUME NEW j \in a..b PROVE j <= m <=> SizeFrom(whole, a, j) <= limit
      <4>1. PICK i \in 0..n : i = j - a + 1 /\ j = a - 1 + i /\ i # 0
        BY <1>3, <2>2
      <4>2. TotalSize(SubSeq(p.batches, 1, i)) = SizeFrom(whole, a, j)
        BY <3>2, <4>1
      <4>3. SizeFrom(whole, a, j) <= limit => i <= N
        BY <3>1, <3>4, <4>2
      <4>4. i <= N <=> j <= m
        BY <1>3, <3>5, <3>6, <4>1
      <4>5. ASSUME j <= m PROVE SizeFrom(whole, a, j) <= limit
        <5>1. SizeFrom(whole, a, m) <= limit
          BY <3>2, <3>5, <3>6
        <5>2. j = m \/ j < m
          BY <1>6, <4>5
        <5>3. SizeFrom(whole, a, j) \in Nat /\ SizeFrom(whole, a, m) \in Nat
              /\ (j < m => SizeFrom(whole, a, j) < SizeFrom(whole, a, m))
          <6>1. m <= Len(whole)
            BY <1>3, <3>7
          <6> QED
            BY <1>3, <1>6, <3>6, <6>1, SizesAdd
        <5> QED
          BY <5>1, <5>2, <5>3
      <4> QED
        BY <4>3, <4>4, <4>5
    <3>9. CASE N = 0
      <4>1. Truncate(p, limit) = Piece(whole, f, k, a, 0)
        BY <1>4, <1>8, <2>6, <3>5, <3>9 DEF Truncate
      <4>2. m < a
        BY <1>3, <3>6, <3>9
      <4>3. Piece(whole, f, k, a, m) = Piece(whole, f, k, a, 0)
        BY <3>7, <4>2, EmptyPiece
      <4> QED
        BY <1>1, <3>7, <3>8, <4>1, <4>3
    <3>10. CASE N # 0
      <4>1. p.offset + N - 1 = m
        BY <1>3, <1>5, <3>5, <3>6
      <4>2. Truncate(p, limit) = UpTo(p, m)
        BY <1>8, <2>6, <3>5, <3>10, <4>1 DEF Truncate
      <4>3. m = IF m <= b THEN m ELSE b
        BY <3>7
      <4>4. UpTo(p, m) = Piece(whole, f, k, a, m)
        BY <1>1, <4>3, UpToIs
      <4> QED
        BY <1>1, <3>7, <3>8, <4>2, <4>4
    <3> QED
      BY <3>9, <3>10
  <2> QED
    BY <2>5, <2>6
<1> QED
  BY <1>7, <1>8

(* A page of what loaded, of this size, and the memory make together.      *)
LEMMA PageUnfolds ==
    ASSUME NEW i, NEW limit, NEW loaded, NEW size, NEW memory,
           loaded = IF i + 1 < FirstIn(seq, "finalized") THEN Load(files, i, Fin(limit)) ELSE NewSequence,
           size = TotalSize(loaded.batches),
           memory = Truncate(After(seq, IF HasAny(loaded, "sequenced") THEN LastOf(loaded) ELSE i),
                             limit - size)
    PROVE  Page(i, limit) = IF size >= limit
                            THEN [ok |-> TRUE, batches |-> Truncate(loaded, limit)]
                            ELSE [ok |-> CanExtend(loaded, memory), batches |-> Extend(loaded, memory)]
BY DEF Page

(* The pieces of a page are the longest beginning that fits.               *)
Fits(whole, i, limit, x, y) ==
    /\ x \in Nat \ {0} /\ y \in Nat /\ Within(whole, x, y)
    /\ \A j \in Int : j \in x..y <=> j \in i + 1..Len(whole) /\ SizeFrom(whole, i + 1, j) <= limit

LEMMA FitsUpTo ==
    ASSUME NEW whole, NEW i \in Nat, NEW limit \in Nat, Len(whole) \in Nat,
           NEW x, x = i + 1, NEW m \in Nat, m <= Len(whole),
           \A j \in x..Len(whole) : j <= m <=> SizeFrom(whole, x, j) <= limit
    PROVE  /\ Fits(whole, i, limit, x, m)
           /\ m < x => Fits(whole, i, limit, 1, 0)
<1>1. x \in Nat \ {0} /\ Within(whole, x, m) /\ Within(whole, 1, 0)
  BY DEF Within
<1>2. ASSUME NEW j \in Int
      PROVE  j \in x..m <=> j \in x..Len(whole) /\ SizeFrom(whole, x, j) <= limit
  <2>1. j \in x..m <=> j \in x..Len(whole) /\ j <= m
    BY <1>1
  <2>2. j \in x..Len(whole) => (j <= m <=> SizeFrom(whole, x, j) <= limit)
    OBVIOUS
  <2> QED
    BY <2>1, <2>2
<1>3. m < x => \A j \in Int : ~ (j \in x..m) /\ ~ (j \in 1..0)
  BY <1>1
<1>4. \A j \in Int : j \in x..m <=> j \in i + 1..Len(whole) /\ SizeFrom(whole, i + 1, j) <= limit
  BY <1>2
<1>5. Fits(whole, i, limit, x, m)
  BY <1>1, <1>4 DEF Fits
<1>6. ASSUME m < x PROVE Fits(whole, i, limit, 1, 0)
  <2>1. \A j \in Int : j \in 1..0 <=> j \in i + 1..Len(whole) /\ SizeFrom(whole, i + 1, j) <= limit
    BY <1>3, <1>4, <1>6
  <2> QED
    BY <1>1, <2>1 DEF Fits
<1> QED
  BY <1>5, <1>6

LEMMA NewSequenceIsEmpty ==
    ASSUME NEW whole, NEW f, NEW k, LogOK(whole, f, k)
    PROVE  /\ TotalSize(NewSequence.batches) = 0
           /\ ~ HasAny(NewSequence, "sequenced")
<1>1. NewSequence = Piece(whole, f, k, 1, 0) /\ Within(whole, 1, 0)
  BY NewIsPiece
<1>2. NewSequence.batches = SubSeq(whole, 1, 0) /\ LastOf(NewSequence) = 0
  <2>1. Consists(NewSequence, whole, f, k, 1, 0)
    BY <1>1, PieceBasics
  <2> QED
    BY <2>1 DEF Consists
<1>3. SizeFrom(whole, 1, 0) = 0
  <2>1. whole \in Seq(Size) /\ 0 <= Len(whole) /\ 1 \in Nat \ {0} /\ 0 \in Nat /\ 0 < 1
    BY DEF LogOK
  <2> QED
    BY <2>1, SizesAdd
<1> QED
  BY <1>2, <1>3 DEF SizeFrom, HasAny, LastIn

LEMMA PageIs ==
    ASSUME LogOK(sequenced, finalized, locked), NEW a, NEW e,
           Covers(seq, files, sequenced, finalized, locked, a, e),
           NEW i \in Nat, i <= Len(sequenced), NEW limit \in Nat \ {0}
    PROVE  \E x, y :
             /\ Fits(sequenced, i, limit, x, y)
             /\ Page(i, limit) = [ok |-> TRUE, batches |-> Piece(sequenced, finalized, locked, x, y)]
<1> DEFINE P(u, v) == Piece(sequenced, finalized, locked, u, v)
           S(j) == SizeFrom(sequenced, i + 1, j)
<1>1. PICK L \in Nat : L = Len(sequenced)
  BY CoversBasics
<1>2. PICK q \in Nat : q = e[Len(files)]
  BY CoversBasics
<1>3. /\ a \in Nat \ {0} /\ a <= q + 1 /\ q <= finalized /\ finalized \in Nat /\ finalized <= L
      /\ a <= L + 1 /\ sequenced \in Seq(Size) /\ Within(sequenced, a, L)
  BY <1>1, <1>2, CoversBasics
<1>4. a = 1 \/ a <= q
  BY <1>2 DEF Covers
<1>5. seq = P(a, L) /\ Row(files, sequenced, finalized, locked, e) /\ e[0] = 0
  BY <1>1 DEF Covers
<1>6. PICK x \in Nat \ {0} : x = i + 1
  OBVIOUS
<1>7. /\ \A b \in Nat : b <= L => S(b) \in Nat
      /\ \A b, c \in Nat : x <= b /\ b < c /\ c <= L => S(b) < S(c)
      /\ \A b, c \in Nat : x <= b /\ b < c /\ c <= L => S(c) = S(b) + SizeFrom(sequenced, b + 1, c)
  BY <1>1, <1>3, <1>6, SizesAdd
<1>8. FirstIn(seq, "finalized") = IF Part(a, L, finalized) # 0 THEN a ELSE 0
  <2>1. Consists(seq, sequenced, finalized, locked, a, L)
    BY <1>3, <1>5, PieceBasics
  <2>2. seq.offset = a /\ seq.last["finalized"] = Part(a, L, finalized)
    BY <2>1 DEF Consists
  <2> QED
    BY <2>2 DEF FirstIn, HasAny, LastIn
<1>9. PICK loaded : loaded = IF i + 1 < FirstIn(seq, "finalized")
                             THEN Load(files, i, Fin(limit)) ELSE NewSequence
  OBVIOUS
<1>10. PICK size : size = TotalSize(loaded.batches)
  OBVIOUS
<1>11. PICK memory : memory = Truncate(After(seq, IF HasAny(loaded, "sequenced")
                                                  THEN LastOf(loaded) ELSE i), limit - size)
  OBVIOUS
<1>12. Page(i, limit) = IF size >= limit
                        THEN [ok |-> TRUE, batches |-> Truncate(loaded, limit)]
                        ELSE [ok |-> CanExtend(loaded, memory), batches |-> Extend(loaded, memory)]
  BY <1>9, <1>10, <1>11, PageUnfolds
<1>13. TotalSize(NewSequence.batches) = 0 /\ ~ HasAny(NewSequence, "sequenced")
  BY NewSequenceIsEmpty
<1>14. limit \in Int /\ \A n \in Nat : n \in Int
  OBVIOUS
<1>15. CASE i + 1 < FirstIn(seq, "finalized")
  <2>1. x < a /\ a <= q
    BY <1>3, <1>4, <1>6, <1>8, <1>15
  <2>2. PICK c \in Nat :
          /\ c <= finalized
          /\ loaded = IF c <= i THEN NewSequence ELSE P(i + 1, c)
          /\ c = q \/ ~ Less(Fin(TotalSize(loaded.batches)), Fin(limit))
    BY <1>2, <1>5, <1>9, <1>15, LoadIs
  <2>3. c = q \/ ~ Less(Fin(size), Fin(limit))
    BY <1>10, <2>2
  <2>4. i < c
    <3>1. SUFFICES ASSUME c <= i PROVE FALSE
      OBVIOUS
    <3>2. size = 0
      BY <1>10, <1>13, <2>2, <3>1
    <3>3. Less(Fin(0), Fin(limit)) <=> 0 < limit
      BY <1>14, ComparisonsOfBounds
    <3>4. c = q
      BY <2>3, <3>2, <3>3
    <3> QED
      BY <1>3, <1>6, <2>1, <3>1, <3>4
  <2>5. loaded = P(x, c) /\ x <= c /\ c <= L /\ Within(sequenced, x, c)
    <3>1. loaded = P(i + 1, c)
      BY <2>2, <2>4
    <3>2. x <= c /\ c <= L
      BY <1>3, <1>6, <2>2, <2>4
    <3> QED
      BY <1>1, <1>6, <3>1, <3>2 DEF Within
  <2>6. size = S(c) /\ LastOf(loaded) = c /\ size \in Nat
    <3>1. Consists(loaded, sequenced, finalized, locked, x, c)
      BY <2>5, PieceBasics
    <3>2. loaded.batches = SubSeq(sequenced, x, c) /\ LastOf(loaded) = c
      BY <2>5, <3>1 DEF Consists
    <3>3. size = S(c)
      BY <1>6, <1>10, <3>2 DEF SizeFrom
    <3> QED
      BY <1>7, <2>5, <3>2, <3>3
  <2>7. CASE size >= limit
    <3>1. PICK m \in Nat :
            /\ m <= c /\ Truncate(P(x, c), limit) = P(x, m)
            /\ \A j \in x..c : j <= m <=> SizeFrom(sequenced, x, j) <= limit
      BY <1>14, <2>5, TruncateIs
    <3>2. ASSUME NEW j \in x..L PROVE j <= m <=> S(j) <= limit
      <4>1. CASE j <= c
        <5>1. j \in x..c
          BY <1>1, <2>5, <4>1
        <5>2. j <= m <=> SizeFrom(sequenced, x, j) <= limit
          BY <3>1, <5>1
        <5> QED
          BY <1>6, <5>2
      <4>2. CASE ~ (j <= c)
        <5>1. j \in Nat /\ c < j /\ j <= L
          BY <2>5, <4>2
        <5>2. S(c) < S(j) /\ S(j) \in Nat
          BY <1>7, <2>5, <5>1
        <5> HIDE DEF S
        <5> QED
          BY <2>6, <2>7, <3>1, <5>1, <5>2
      <4> QED
        BY <4>1, <4>2
    <3>3. Fits(sequenced, i, limit, x, m)
      <4>1. m <= Len(sequenced) /\ Len(sequenced) \in Nat /\ limit \in Nat
        BY <1>1, <2>5, <3>1
      <4>2. \A j \in x..Len(sequenced) : j <= m <=> SizeFrom(sequenced, x, j) <= limit
        BY <1>1, <1>6, <3>2
      <4> QED
        BY <1>6, <4>1, <4>2, FitsUpTo
    <3> QED
      BY <1>12, <2>5, <2>7, <3>1, <3>3
  <2>8. CASE ~ (size >= limit)
    <3>1. size < limit
      BY <2>6, <2>8
    <3>2. c = q
      <4>1. Less(Fin(size), Fin(limit)) <=> size < limit
        BY <1>14, <2>6, ComparisonsOfBounds
      <4> QED
        BY <2>3, <3>1, <4>1
    <3>3. HasAny(loaded, "sequenced")
      BY <2>4, <2>6 DEF HasAny, LastIn
    <3>4. PICK y \in Nat : y = c + 1
      OBVIOUS
    <3>5. After(seq, c) = P(y, L) /\ Within(sequenced, y, L)
      <4>1. y = IF a <= c + 1 THEN c + 1 ELSE a
        BY <1>3, <3>2, <3>4
      <4>2. Within(sequenced, a, L)
        BY <1>3
      <4>3. After(P(a, L), c) = P(y, L) /\ Within(sequenced, y, L)
        BY <4>1, <4>2, AfterIs
      <4> QED
        BY <1>5, <4>3
    <3>6. PICK rest \in Int : rest = limit - size
      BY <2>6
    <3>7. memory = Truncate(P(y, L), rest)
      BY <1>11, <2>6, <3>3, <3>5, <3>6
    <3>8. PICK m \in Nat :
            /\ m <= L /\ Within(sequenced, y, m) /\ memory = P(y, m)
            /\ \A j \in y..L : j <= m <=> SizeFrom(sequenced, y, j) <= rest
      BY <3>5, <3>7, TruncateIs
    <3>9. PICK M \in Nat : M = IF m < y THEN c ELSE m
      OBVIOUS
    <3>10. /\ Extend(loaded, memory) = P(x, M) /\ CanExtend(loaded, memory)
           /\ M <= L
      <4>1. CASE m < y
        <5>1. Extend(P(x, c), P(y, m)) = P(x, c) /\ CanExtend(P(x, c), P(y, m))
          BY <2>5, <3>8, <4>1, ExtendEmpty
        <5> QED
          BY <2>5, <3>8, <3>9, <4>1, <5>1
      <4>2. CASE ~ (m < y)
        <5>1. Within(sequenced, c + 1, m) /\ c <= m
          BY <3>4, <3>8, <4>2
        <5>2. /\ Extend(P(x, c), P(c + 1, m)) = P(x, m)
              /\ CanExtend(P(x, c), P(c + 1, m))
          BY <2>2, <2>5, <5>1, ExtendIs
        <5> QED
          BY <2>5, <3>4, <3>8, <3>9, <4>2, <5>2
      <4> QED
        BY <4>1, <4>2
    <3>11. ASSUME NEW j \in x..L PROVE j <= M <=> S(j) <= limit
      <4>1. CASE j <= c
        <5>1. j <= M
          BY <3>4, <3>8, <3>9, <4>1
        <5>2. j \in Nat /\ j <= L /\ x <= j /\ (j = c \/ j < c)
          BY <4>1
        <5>3. S(j) \in Nat /\ (j < c => S(j) < S(c))
          BY <1>7, <2>5, <5>2
        <5> HIDE DEF S
        <5>4. S(j) <= limit
          BY <2>6, <3>1, <5>2, <5>3
        <5> QED
          BY <5>1, <5>4
      <4>2. CASE ~ (j <= c)
        <5>1. j \in Nat /\ c < j /\ j <= L /\ j \in y..L
          BY <2>5, <3>4, <4>2
        <5>2. j <= M <=> j <= m
          BY <3>4, <3>9, <5>1
        <5>3. S(j) = S(c) + SizeFrom(sequenced, c + 1, j)
          BY <1>7, <2>5, <5>1
        <5>4. PICK t : t = SizeFrom(sequenced, y, j)
          OBVIOUS
        <5>5. t \in Nat
          <6>1. y \in Nat \ {0} /\ j <= Len(sequenced)
            BY <1>1, <3>4, <5>1
          <6> QED
            BY <1>3, <5>1, <5>4, <6>1, SizesAdd
        <5>6. S(j) = S(c) + t
          BY <3>4, <5>3, <5>4
        <5>7. j <= m <=> t <= rest
          BY <3>8, <5>1, <5>4
        <5> HIDE DEF S
        <5>8. t <= rest <=> S(j) <= limit
          BY <2>6, <3>6, <5>5, <5>6
        <5> QED
          BY <5>2, <5>7, <5>8
      <4> QED
        BY <4>1, <4>2
    <3>12. Fits(sequenced, i, limit, x, M)
      <4>1. M <= Len(sequenced) /\ Len(sequenced) \in Nat /\ limit \in Nat
        BY <1>1, <3>10
      <4>2. \A j \in x..Len(sequenced) : j <= M <=> SizeFrom(sequenced, x, j) <= limit
        BY <1>1, <1>6, <3>11
      <4> QED
        BY <1>6, <4>1, <4>2, FitsUpTo
    <3>13. Page(i, limit) = [ok |-> CanExtend(loaded, memory), batches |-> Extend(loaded, memory)]
      BY <1>12, <2>8
    <3>14. CanExtend(loaded, memory) = TRUE
      BY <3>10 DEF CanExtend
    <3> QED
      BY <3>10, <3>12, <3>13, <3>14
  <2> QED
    BY <2>7, <2>8
<1>16. CASE ~ (i + 1 < FirstIn(seq, "finalized"))
  <2>1. loaded = NewSequence /\ size = 0 /\ ~ HasAny(loaded, "sequenced")
    BY <1>9, <1>10, <1>13, <1>16
  <2>2. a <= x
    <3>1. SUFFICES ASSUME x < a PROVE FALSE
      BY <1>3
    <3>2. a <= L /\ a <= finalized
      BY <1>3, <1>4, <1>6, <3>1
    <3>3. Part(a, L, finalized) # 0
      BY <1>3, <3>2 DEF Part
    <3> QED
      BY <1>6, <1>8, <1>16, <3>1, <3>3
  <2>3. After(seq, i) = P(x, L) /\ Within(sequenced, x, L)
    <3>1. x = IF a <= i + 1 THEN i + 1 ELSE a
      BY <1>6, <2>2
    <3> QED
      BY <1>3, <1>5, <3>1, AfterIs
  <2>4. limit - 0 = limit
    OBVIOUS
  <2>5. memory = Truncate(P(x, L), limit)
    BY <1>11, <2>1, <2>3, <2>4
  <2>6. PICK m \in Nat :
          /\ m <= L /\ Within(sequenced, x, m) /\ memory = P(x, m)
          /\ \A j \in x..L : j <= m <=> SizeFrom(sequenced, x, j) <= limit
    BY <1>14, <2>3, <2>5, TruncateIs
  <2>7. loaded = P(1, 0) /\ Within(sequenced, 1, 0)
    BY <2>1, NewIsPiece
  <2>8. Fits(sequenced, i, limit, x, m) /\ (m < x => Fits(sequenced, i, limit, 1, 0))
    <3>1. m <= Len(sequenced) /\ Len(sequenced) \in Nat /\ limit \in Nat
      BY <1>1, <2>6
    <3>2. \A j \in x..Len(sequenced) : j <= m <=> SizeFrom(sequenced, x, j) <= limit
      BY <1>1, <2>6
    <3> QED
      BY <1>6, <3>1, <3>2, FitsUpTo
  <2>9. Page(i, limit) = [ok |-> CanExtend(loaded, memory), batches |-> Extend(loaded, memory)]
    BY <1>12, <2>1
  <2>10. CASE m < x
    <3>1. Extend(P(1, 0), P(x, m)) = P(1, 0) /\ CanExtend(P(1, 0), P(x, m))
      BY <2>6, <2>7, <2>10, ExtendEmpty
    <3>2. CanExtend(loaded, memory) = TRUE /\ Extend(loaded, memory) = P(1, 0)
      BY <2>6, <2>7, <3>1 DEF CanExtend
    <3> QED
      BY <2>8, <2>9, <2>10, <3>2
  <2>11. CASE ~ (m < x)
    <3>1. Extend(P(1, 0), P(x, m)) = P(x, m) /\ CanExtend(P(1, 0), P(x, m))
      <4>1. 0 < 1
        OBVIOUS
      <4> QED
        BY <2>6, <2>7, <2>11, <4>1, ExtendEmpty
    <3>2. CanExtend(loaded, memory) = TRUE /\ Extend(loaded, memory) = P(x, m)
      BY <2>6, <2>7, <3>1 DEF CanExtend
    <3> QED
      BY <2>8, <2>9, <3>2
  <2> QED
    BY <2>10, <2>11
<1> QED
  BY <1>15, <1>16

(* A page that is read across chunks and memory is the longest beginning   *)
(* of the rest of the log that fits the limit, in the states that the log  *)
(* has, and joining the parts raises no error: for every border, every     *)
(* size of chunks and every log.                                           *)
THEOREM PagesAreLongest == BatchesSpec => []PageIsLongestFit
<1>1. BatchesInv => PageIsLongestFit
  <2> SUFFICES ASSUME BatchesInv,
                      NEW i \in 0..Len(sequenced), NEW limit \in 1..2 * MaxLen
               PROVE  /\ Page(i, limit).ok
                      /\ Records(Page(i, limit).batches) =
                           {[index |-> j, size |-> sequenced[j], state |-> LogState(j)] :
                               j \in {k \in i + 1..Len(sequenced) :
                                        TotalSize(SubSeq(sequenced, i + 1, k)) <= limit}}
    BY DEF PageIsLongestFit
  <2>1. LogOK(sequenced, finalized, locked)
    BY DEF BatchesInv
  <2>2. PICK a, e : Covers(seq, files, sequenced, finalized, locked, a, e)
    BY DEF BatchesInv
  <2>3. i \in Nat /\ i <= Len(sequenced) /\ limit \in Nat \ {0}
    BY <2>1, LengthAssumption DEF LogOK
  <2>4. PICK x, y :
          /\ Fits(sequenced, i, limit, x, y)
          /\ Page(i, limit) = [ok |-> TRUE, batches |-> Piece(sequenced, finalized, locked, x, y)]
    BY <2>1, <2>2, <2>3, PageIs
  <2>5. Page(i, limit).ok /\ Page(i, limit).batches = Piece(sequenced, finalized, locked, x, y)
    BY <2>4
  <2>6. Within(sequenced, x, y) /\ x \in Int /\ y \in Int
    BY <2>4 DEF Fits
  <2>7. Records(Page(i, limit).batches) =
          {[index |-> j, size |-> sequenced[j], state |-> StateAt(finalized, locked, j)] : j \in x..y}
    BY <2>1, <2>5, <2>6, PieceRecords
  <2>8. x..y = {k \in i + 1..Len(sequenced) : TotalSize(SubSeq(sequenced, i + 1, k)) <= limit}
    <3>1. \A j \in Int : j \in x..y <=> j \in i + 1..Len(sequenced)
                                        /\ TotalSize(SubSeq(sequenced, i + 1, j)) <= limit
      BY <2>4 DEF Fits, SizeFrom
    <3>2. (\A j \in x..y : j \in Int) /\ (\A j \in i + 1..Len(sequenced) : j \in Int)
      OBVIOUS
    <3> QED
      BY <3>1, <3>2
  <2> QED
    BY <2>5, <2>7, <2>8, StateIsLogState
<1> QED
  BY <1>1, BatchesInvariant, PTL
=============================================================================
