--------------------------- MODULE BatchSequences ---------------------------
(***************************************************************************)
(* The BatchSequence of one app: a window of the log with an index offset, *)
(* the batches in it, and the last index of every state but "sequenced".   *)
(* Its operations are operators on records; the actions are the uses that  *)
(* the in-memory database and the snapshot manager make of them.           *)
(*                                                                         *)
(* A batch is its size.  An absent last index is 0, the default with which *)
(* it is always read.                                                      *)
(***************************************************************************)
EXTENDS Integers, Sequences, SequencesExt, FiniteSetsExt

CONSTANTS
    Size,           \* sizes of a body
    ChunkSize,      \* zconfig.SNAPSHOT_CHUNK_SIZE_KB
    Border,         \* zconfig.REMOVE_CHUNK_BORDER
    MaxLen,         \* bound: batches in the log
    MaxRestarts     \* bound: restarts

ASSUME SizeAssumption == Size \subseteq Nat \ {0}
(* With a border of one chunk, one that holds a single batch empties the   *)
(* memory, and the position with it.                                       *)
ASSUME ChunkAssumption == ChunkSize \in Nat \ {0} /\ Border \in Nat \ {0, 1}
ASSUME LengthAssumption == MaxLen \in Nat /\ MaxRestarts \in Nat

VARIABLES
    seq,        \* operational_batch_sequence
    files,      \* the chunks written, in order
    sequenced,  \* history: the batches from index 1
    locked,     \* history: how many of them are locked
    finalized,  \* history: how many of them are finalized
    restarts    \* restarts so far

batchesVars == <<seq, files, sequenced, locked, finalized, restarts>>

-----------------------------------------------------------------------------
(******************************* ExtendedInt ********************************)

Fin(i) == <<0, i>>
NegInf == <<-1, 0>>
PosInf == <<1, 0>>

Less(x, y) == x[1] < y[1] \/ (x[1] = 0 /\ y[1] = 0 /\ x[2] < y[2])
Plus(x, i) == IF x[1] = 0 THEN Fin(x[2] + i) ELSE x
Greater(x, y) == IF Less(x, y) THEN y ELSE x
Smaller(x, y) == IF Less(y, x) THEN y ELSE x

-----------------------------------------------------------------------------
(********************************* States ***********************************)

States == <<"sequenced", "locked", "finalized">>
State == {"sequenced", "locked", "finalized"}
BeforeOrEqual(s, t) ==
    \E i, j \in 1..3 : i <= j /\ States[i] = s /\ States[j] = t

-----------------------------------------------------------------------------
(****************************** BatchSequence *******************************)

NoLast == [locked |-> 0, finalized |-> 0]
NewSequence == [offset |-> 1, batches |-> << >>, last |-> NoLast]
Empty(s) == [offset |-> s.offset, batches |-> << >>, last |-> NoLast]

(* get_last_index_or_default, also without a state. *)
LastOf(s) == IF s.batches = << >> THEN 0 ELSE s.offset + Len(s.batches) - 1
LastIn(s, state) == IF state = "sequenced" THEN LastOf(s) ELSE s.last[state]
HasAny(s, state) == LastIn(s, state) # 0
FirstIn(s, state) == IF HasAny(s, state) THEN s.offset ELSE 0

(* _get_state *)
StateOf(s, i) ==
    CASE i <= s.last.finalized -> "finalized"
      [] i > s.last.finalized /\ i <= s.last.locked -> "locked"
      [] OTHER -> "sequenced"

(* records *)
Records(s) == {[index |-> i, size |-> s.batches[i - s.offset + 1], state |-> StateOf(s, i)] :
                 i \in s.offset..LastOf(s)}

AppendBatch(s, b) == [s EXCEPT !.batches = Append(@, b)]

TotalSize(batches) ==
    LET sum[i \in 0..Len(batches)] == IF i = 0 THEN 0 ELSE sum[i - 1] + batches[i]
    IN  sum[Len(batches)]

(* promote *)
Promote(s, i, state) ==
    LET feasible == Min({i, LastOf(s)})
        Raised(t) == IF BeforeOrEqual(t, state) THEN Max({s.last[t], feasible}) ELSE s.last[t]
    IN  IF feasible <= 0 THEN s
        ELSE [s EXCEPT !.last = [locked |-> Raised("locked"), finalized |-> Raised("finalized")]]

(* Mutant of Slice: the last indices are kept as they are.                 *)
SliceKeepsLast(s, first, past) ==
    LET end == Smaller(past, Fin(s.offset + Len(s.batches)))[2]
    IN  [s EXCEPT !.offset = first,
                  !.batches = SubSeq(@, first - s.offset + 1, end - s.offset)]

(* The batches of s from index first to before index past, where past may  *)
(* be infinite; the states keep what is left of them.                      *)
Slice(s, first, past) ==
    LET end     == Smaller(past, Fin(s.offset + Len(s.batches)))[2]
        batches == SubSeq(s.batches, first - s.offset + 1, end - s.offset)
        last    == first + Len(batches) - 1
        Left(i) == IF batches # << >> /\ i >= first THEN Min({last, i}) ELSE 0
    IN  [offset |-> first, batches |-> batches,
         last |-> [locked |-> Left(s.last.locked), finalized |-> Left(s.last.finalized)]]

(* Mutant of FilterStates: the batch after the last of the state is taken. *)
FilterStatesPast(s, target, exclude, start, end) ==
    LET first == Plus(Greater(start, Fin(s.offset - 1)), 1)
    IN  Slice(s, first[2], Plus(Smaller(end, IF target = "sequenced" THEN PosInf
                                             ELSE Fin(s.last[target])), 2))

(* filter; exclude is "none" if no state is excluded, start and end are    *)
(* infinite if they are not given.                                         *)
FilterStates(s, target, exclude, start, end) ==
    LET targetLast == IF target = "sequenced" THEN PosInf ELSE Fin(LastIn(s, target))
        excluded   == IF exclude = "none" \/ LastIn(s, exclude) = 0
                      THEN NegInf ELSE Fin(LastIn(s, exclude))
        first      == Plus(Greater(Greater(start, excluded), Fin(s.offset - 1)), 1)
        past       == Plus(Smaller(end, targetLast), 1)
    IN  IF \/ exclude # "none" /\ BeforeOrEqual(exclude, target)
           \/ ~ Less(start, end)
           \/ targetLast = Fin(0)
           \/ ~ Less(first, past)
        THEN Empty(s)
        ELSE Slice(s, first[2], past)

(* Mutant of UpTo: the end is left out.                                    *)
UpToBefore(s, i) == FilterStates(s, "sequenced", "none", NegInf, Fin(i - 1))

After(s, i) == FilterStates(s, "sequenced", "none", Fin(i), PosInf)
UpTo(s, i) == FilterStates(s, "sequenced", "none", NegInf, Fin(i))

(* How many batches from the first one on fit into the limit. *)
Fitting(s, limit) ==
    Max({n \in 0..Len(s.batches) : TotalSize(SubSeq(s.batches, 1, n)) <= limit})

(* truncate_by_size *)
Truncate(s, limit) ==
    IF limit <= 0 \/ s.batches = << >> THEN Empty(s)
    ELSE IF limit >= TotalSize(s.batches) THEN s
    ELSE IF Fitting(s, limit) = 0 THEN Empty(s)
    ELSE UpTo(s, s.offset + Fitting(s, limit) - 1)

(* extend raises an error unless what is there is finalized and the other  *)
(* sequence begins where it ends.                                          *)
CanExtend(s, t) ==
    \/ t.batches = << >>
    \/ s.batches = << >>
    \/ LastOf(s) <= s.last.finalized /\ t.offset = LastOf(s) + 1

(* Mutant of Extend: the states of the other sequence are not taken over.  *)
ExtendBatches(s, t) ==
    IF t.batches = << >> THEN s
    ELSE IF s.batches = << >> THEN t
    ELSE [s EXCEPT !.batches = @ \o t.batches]

(* extend *)
Extend(s, t) ==
    IF t.batches = << >> THEN s
    ELSE IF s.batches = << >> THEN t
    ELSE Promote(Promote([s EXCEPT !.batches = @ \o t.batches], t.last.locked, "locked"),
                 t.last.finalized, "finalized")

-----------------------------------------------------------------------------
(********************* The database and the snapshots ***********************)

(* get_latest_chunks_start_index *)
BorderIndex(chunks) ==
    IF Len(chunks) >= Border THEN chunks[Len(chunks) - Border + 1].offset ELSE 0

(* The last index that is in a chunk. *)
Persisted(chunks) == IF chunks = << >> THEN 0 ELSE LastOf(Last(chunks))

(* _store_snapshot *)
Fresh(s, chunks) ==
    FilterStates(s, "sequenced", "none", Fin(Persisted(chunks)), Fin(s.last.finalized))
Stored(s, chunks, minSize) ==
    IF TotalSize(Fresh(s, chunks).batches) < minSize \/ Fresh(s, chunks).batches = << >>
    THEN chunks ELSE Append(chunks, Fresh(s, chunks))

(* The chunks up to the k-th one joined, each without what is up to i.      *)
Joined(chunks, i, k) ==
    LET joined[n \in 0..k] ==
            IF n = 0 THEN NewSequence ELSE Extend(joined[n - 1], After(chunks[n], i))
    IN  joined[k]

(* load_batches: the chunks from the one that holds the batch after i, or  *)
(* i itself, until the limit is reached.                                   *)
Load(chunks, i, limit) ==
    LET pos  == Max({0} \cup {k \in DOMAIN chunks : chunks[k].offset <= Max({1, i})})
        rest == SubSeq(chunks, pos, Len(chunks))
        enough == {k \in DOMAIN rest : ~ Less(Fin(TotalSize(Joined(rest, i, k).batches)), limit)}
    IN  IF pos = 0 THEN NewSequence ELSE Joined(rest, i, Min(enough \cup {Len(rest)}))

(* get_global_operational_batch_sequence when nothing changes meanwhile:   *)
(* the chunks loaded, and the memory unless they reach the limit.          *)
Page(i, limit) ==
    LET loaded == IF i + 1 < FirstIn(seq, "finalized") THEN Load(files, i, Fin(limit)) ELSE NewSequence
        size   == TotalSize(loaded.batches)
        memory == Truncate(After(seq, IF HasAny(loaded, "sequenced") THEN LastOf(loaded) ELSE i),
                           limit - size)
    IN  IF size >= limit THEN [ok |-> TRUE, batches |-> Truncate(loaded, limit)]
        ELSE [ok |-> CanExtend(loaded, memory), batches |-> Extend(loaded, memory)]

BatchesInit ==
    /\ seq = NewSequence /\ files = << >>
    /\ sequenced = << >> /\ locked = 0 /\ finalized = 0 /\ restarts = 0

(* A body is sequenced, or comes with an answer. *)
Insert(b) ==
    /\ Len(sequenced) < MaxLen
    /\ seq' = AppendBatch(seq, b)
    /\ sequenced' = Append(sequenced, b)
    /\ UNCHANGED <<files, locked, finalized, restarts>>

(* promote_batches to "locked". *)
PromoteLocked(i) ==
    /\ locked < i /\ i <= Len(sequenced)
    /\ seq' = Promote(seq, i, "locked")
    /\ locked' = i
    /\ UNCHANGED <<files, sequenced, finalized, restarts>>

(* promote_batches to "finalized": what is fresh is stored if there is     *)
(* enough of it, and what the latest chunks leave is pruned.               *)
PromoteFinalized(i) ==
    LET promoted == Promote(seq, i, "finalized")
        chunks   == Stored(promoted, files, ChunkSize)
    IN  /\ finalized < i /\ i <= Len(sequenced)
        /\ files' = chunks
        /\ seq' = After(promoted, BorderIndex(chunks))
        /\ finalized' = i
        /\ locked' = Max({locked, i})
        /\ UNCHANGED <<sequenced, restarts>>

(* reinitialize_sequenced_batches: the log is cut back to the last lock.   *)
Reinitialize ==
    /\ locked < Len(sequenced)
    /\ seq' = UpTo(seq, seq.last.locked)
    /\ sequenced' = SubSeq(sequenced, 1, locked)
    /\ UNCHANGED <<files, locked, finalized, restarts>>

(* shutdown stores what is finalized; the next start loads the latest of   *)
(* the chunks.                                                             *)
Restart ==
    LET chunks == Stored(seq, files, 0)
    IN  /\ restarts < MaxRestarts
        /\ files' = chunks
        /\ seq' = Load(chunks, BorderIndex(chunks), PosInf)
        /\ sequenced' = SubSeq(sequenced, 1, finalized)
        /\ locked' = finalized
        /\ restarts' = restarts + 1
        /\ UNCHANGED finalized

BatchesNext ==
    \/ \E b \in Size : Insert(b)
    \/ \E i \in 1..MaxLen : PromoteLocked(i) \/ PromoteFinalized(i)
    \/ Reinitialize
    \/ Restart

BatchesSpec == BatchesInit /\ [][BatchesNext]_batchesVars

-----------------------------------------------------------------------------
(******************************** Properties ********************************)

(* A sequence is well formed: the last indices of the states are in their  *)
(* order and within the batches that are there.                            *)
WellFormed(s) ==
    /\ s.offset \in Nat \ {0}
    /\ s.batches \in Seq(Size)
    /\ s.last \in [{"locked", "finalized"} -> Nat]
    /\ s.last.finalized <= s.last.locked
    /\ s.last.locked <= LastOf(s)
    /\ \A t \in {"locked", "finalized"} : s.last[t] = 0 \/ s.offset <= s.last[t]

(* Type invariant: the sequence in memory and the chunks are well formed.  *)
BatchesTypeOK ==
    /\ WellFormed(seq)
    /\ files \in Seq([offset : Nat, batches : Seq(Size), last : [{"locked", "finalized"} -> Nat]])
    /\ \A k \in DOMAIN files : WellFormed(files[k])
    /\ sequenced \in Seq(Size)
    /\ finalized \in Nat /\ locked \in finalized..Len(sequenced)
    /\ restarts \in 0..MaxRestarts

LogState(i) == IF i <= finalized THEN "finalized"
               ELSE IF i <= locked THEN "locked" ELSE "sequenced"

(* Through appends, promotions, cuts, pruning and restarts the memory is a *)
(* window of the log up to its end, every batch in it at its index and in  *)
(* its state.                                                              *)
WindowOfLog ==
    Records(seq) =
        {[index |-> i, size |-> sequenced[i], state |-> LogState(i)] :
            i \in seq.offset..Len(sequenced)}

Bounds == {NegInf, PosInf} \cup {Fin(i) : i \in 0..(MaxLen + 1)}

(* filter returns the batches between the bounds that have reached the     *)
(* target state and not the excluded one, each with its index and state.   *)
FilterSelects ==
    \A target \in State, exclude \in State \cup {"none"},
       start \in Bounds \ {PosInf}, end \in Bounds \ {NegInf} :
        Records(FilterStates(seq, target, exclude, start, end)) =
            {r \in Records(seq) :
                /\ Less(start, Fin(r.index)) /\ ~ Less(end, Fin(r.index))
                /\ BeforeOrEqual(target, r.state)
                /\ exclude = "none" \/ ~ BeforeOrEqual(exclude, r.state)}

(* A page that is read across chunks and memory is the longest beginning   *)
(* of the rest of the log that fits the limit, in the states that the log  *)
(* has, wherever the chunks end and however much has been pruned; joining  *)
(* the parts raises no error.                                              *)
PageIsLongestFit ==
    \A i \in 0..Len(sequenced), limit \in 1..2 * MaxLen :
        LET page == Page(i, limit)
        IN  /\ page.ok
            /\ Records(page.batches) =
                 {[index |-> j, size |-> sequenced[j],
                   state |-> LogState(j)] :
                     j \in {k \in i + 1..Len(sequenced) : TotalSize(SubSeq(sequenced, i + 1, k)) <= limit}}
=============================================================================
