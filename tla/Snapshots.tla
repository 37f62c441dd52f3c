----------------------------- MODULE Snapshots -----------------------------
(***************************************************************************)
(* The finalized batches of one app on one node: chunk files written in    *)
(* the background, pruning of what memory keeps, restarts, and the reading *)
(* of batches across files and memory, one file per await.                 *)
(*                                                                         *)
(* A batch is its index, and every batch has the size of one unit, so that *)
(* the sizes that the code compares are numbers of batches.                *)
(***************************************************************************)
EXTENDS Integers, Sequences, FiniteSets, FiniteSetsExt, SequencesExt

CONSTANTS
    ChunkSize,      \* zconfig.SNAPSHOT_CHUNK_SIZE_KB
    PageSize,       \* zconfig.node_receive_limit_per_window_size_kb
    Border,         \* zconfig.REMOVE_CHUNK_BORDER
    MaxLen,         \* bound: batches
    MaxErrors,      \* bound: reads and writes of a chunk file that fail
    MaxStops        \* bound: shutdowns and crashes

ASSUME SizeAssumption == ChunkSize \in Nat \ {0} /\ PageSize \in Nat \ {0}
(* With a border of 1, memory could be pruned down to nothing. *)
ASSUME BorderAssumption == Border \in Nat /\ Border >= 2
ASSUME LimitAssumption == {MaxLen, MaxErrors, MaxStops} \subseteq Nat

VARIABLES
    up,       \* the process runs
    low,      \* index offset of operational_batch_sequence
    last,     \* its last index, low - 1 if it is empty
    fin,      \* its last finalized index, 0 if none
    chunks,     \* _app_name_to_chunks, with the last index of each chunk
    persisted,  \* _last_persisted_finalized_batch_index
    written,    \* the chunk files that are there
    writing,    \* the chunks that the process pool has still to write, in order
    get,        \* a get_global_operational_batch_sequence under way, or NoGet
    errors,     \* failed reads and writes so far
    stops,      \* shutdowns and crashes so far
    orderly     \* history: each file was written after the ones before it,
                \* no read came before the writes that it has to wait for,
                \* and every start could read the files that it wanted

memory == <<low, last, fin>>
listed == <<chunks, persisted>>
disk == <<written, writing>>
vars == <<up, memory, listed, disk, get, errors, stops, orderly>>

NoGet == [phase |-> "none"]
State == {"sequenced", "finalized"}

(* The indices a + 1, ..., b. *)
Indices(a, b) == [i \in 1..(b - a) |-> a + i]

(* BatchSequence.extend raises ValueError unless q continues p. *)
Joins(p, q) == p = << >> \/ q = << >> \/ Head(q) = Last(p) + 1

(* get_last_index_or_default *)
LastOrZero(p) == IF p = << >> THEN 0 ELSE Last(p)

Init ==
    /\ up = TRUE
    /\ low = 1 /\ last = 0 /\ fin = 0
    /\ chunks = << >> /\ persisted = 0
    /\ written = {} /\ writing = << >>
    /\ get = NoGet
    /\ errors = 0 /\ stops = 0 /\ orderly = TRUE

-----------------------------------------------------------------------------
(*************************** Storing and pruning ***************************)

(* Mutant of BorderIndex: one chunk less is kept. *)
BorderIndexNear(cs) ==
    IF Len(cs) >= Border THEN cs[Len(cs) - Border + 2].first ELSE 0

(* get_latest_chunks_start_index: memory keeps the indices above it. *)
BorderIndex(cs) ==
    IF Len(cs) >= Border THEN cs[Len(cs) - Border + 1].first ELSE 0

(* Mutant of FreshChunk: the last persisted batch is stored once more. *)
FreshChunkAgain(f) == [first |-> Max({persisted, low}), last |-> f]

(* The finalized batches up to f that are in no chunk yet. *)
FreshChunk(f) == [first |-> Max({persisted, low - 1}) + 1, last |-> f]
Fresh(f) == f - FreshChunk(f).first + 1

(* store_batch_sequence lists the chunk and leaves its file to the pool,   *)
(* without waiting for it, however many are being written.                 *)
Store(c) ==
    /\ chunks' = Append(chunks, c) /\ persisted' = c.last
    /\ writing' = Append(writing, c)

(* A batch is appended to the operational sequence. *)
AppendBatch ==
    /\ up /\ last < MaxLen
    /\ last' = last + 1
    /\ UNCHANGED <<up, low, fin, listed, disk, get, errors, stops, orderly>>

(* A switch cuts the sequence at the last locked batch. *)
ReinitializeSequenced(k) ==
    /\ up /\ fin <= k /\ k < last
    /\ last' = Max({k, low - 1})
    /\ UNCHANGED <<up, low, fin, listed, disk, get, errors, stops, orderly>>

(* _prune_old_finalized_batches, with f finalized.  If all batches are     *)
(* below the border, an empty sequence at the old position is left.        *)
Prune(border, f) ==
    /\ low' = IF border < last THEN Max({low, border + 1}) ELSE low
    /\ last' = IF border < last THEN last ELSE low - 1
    /\ fin' = IF border < f THEN f ELSE 0

(* promote_batches to the state finalized: a chunk is stored once it is    *)
(* large enough, and memory is pruned.                                     *)
Finalize(f) ==
    /\ up /\ fin < f /\ low <= f /\ f <= last
    /\ IF Fresh(f) >= ChunkSize THEN Store(FreshChunk(f))
                                ELSE UNCHANGED <<listed, writing>>
    /\ Prune(BorderIndex(chunks'), f)
    /\ UNCHANGED <<up, written, get, errors, stops, orderly>>

-----------------------------------------------------------------------------
(****************************** The process pool ***************************)

(* Its two workers take the tasks in order. *)
Workers == 2
UnderWay == 1..Min({Workers, Len(writing)})

(* The temporary file of a chunk is renamed; a file is named after the     *)
(* first index of its chunk.                                               *)
Renamed(c) == {d \in written : d.first # c.first} \cup {c}

(* The oldest write is done. *)
WriteDone ==
    /\ writing # << >>
    /\ written' = Renamed(Head(writing))
    /\ writing' = Tail(writing)
    /\ UNCHANGED <<up, memory, listed, get, errors, stops, orderly>>

(* The second one is done before it. *)
WriteOvertakes ==
    /\ Len(writing) > 1
    /\ written' = Renamed(writing[2])
    /\ writing' = RemoveAt(writing, 2)
    /\ orderly' = FALSE
    /\ UNCHANGED <<up, memory, listed, get, errors, stops>>

(* A write raises: nobody waits for its task. *)
WriteFails(k) ==
    /\ k \in UnderWay /\ errors < MaxErrors
    /\ writing' = RemoveAt(writing, k)
    /\ errors' = errors + 1 /\ orderly' = FALSE
    /\ UNCHANGED <<up, memory, listed, written, get, stops>>

-----------------------------------------------------------------------------
(*************************** Stopping and starting *************************)

(* The process is gone, with everything in memory; what is being written   *)
(* may still be done or not.                                               *)
Crash ==
    /\ up /\ stops < MaxStops
    /\ up' = FALSE /\ get' = NoGet
    /\ stops' = stops + 1
    /\ UNCHANGED <<memory, listed, disk, errors, orderly>>

(* A signal: what is finalized is stored, whatever its size. *)
Shutdown ==
    /\ up /\ stops < MaxStops
    /\ IF Fresh(fin) > 0 THEN Store(FreshChunk(fin)) ELSE UNCHANGED <<listed, writing>>
    /\ up' = FALSE /\ get' = NoGet
    /\ stops' = stops + 1
    /\ UNCHANGED <<memory, written, errors, orderly>>

(* Mutant of FilePos: the chunk before the one that holds index i. *)
FilePosBefore(cs, i) ==
    CHOOSE p \in 0..Len(cs) : /\ p > 0 => cs[p].first < i
                              /\ p < Len(cs) => i <= cs[p + 1].first

(* _find_file_pos bisects: the chunk that starts at or before index i and  *)
(* is followed by one that starts later, 0 if all start later.             *)
FilePos(cs, i) ==
    CHOOSE p \in 0..Len(cs) : /\ p > 0 => cs[p].first <= i
                              /\ p < Len(cs) => i < cs[p + 1].first

(* Mutant of FilesAfter: index 0 has no case of its own. *)
FilesAfterAsGiven(cs, after) ==
    IF FilePos(cs, after) = 0 THEN << >> ELSE SubSeq(cs, FilePos(cs, after), Len(cs))

(* The chunks that load_batches reads for what comes after an index. *)
FilesAfter(cs, after) ==
    LET pos == FilePos(cs, IF after = 0 THEN 1 ELSE after)
    IN  IF pos = 0 THEN << >> ELSE SubSeq(cs, pos, Len(cs))

(* The files follow one another. *)
Gapless(cs) == \A k \in 1..Len(cs) - 1 : cs[k + 1].first = cs[k].last + 1

(* The chunks that _index_files finds, by their first index: the k-th one  *)
(* has k - 1 others before it.                                             *)
OnDisk ==
    LET before(c) == {d \in written : d.first < c.first}
    IN  [k \in 1..Cardinality(written) |->
            CHOOSE c \in written : Cardinality(before(c)) = k - 1]

(* The indices above the border that are in the files cs. *)
IndicesIn(cs, border) ==
    {i \in border + 1..MaxLen : \E c \in cs : c.first <= i /\ i <= c.last}

(* BatchSequence.extend raises if files overlap or leave a gap. *)
CanExtend(cs, border) ==
    LET read == {c \in cs : c.last > border}
        got == IndicesIn(cs, border)
    IN  /\ \A c, d \in read : c.first < d.first => c.last < d.first
        /\ got # {} => got = Min(got)..Max(got)

(* initialize, which succeeds: the files are indexed, the last one is read *)
(* for its last index, and load_latest_chunks reads those from the border  *)
(* on.  A file that cannot be read counts as empty.  What was still being  *)
(* written is lost.                                                        *)
Start(unread, unknown) ==
    LET border == BorderIndex(OnDisk)
        cs == ToSet(FilesAfter(OnDisk, border))
        got == IndicesIn(cs \ unread, border)
    IN  /\ ~ up
        /\ unread \subseteq cs /\ CanExtend(cs \ unread, border)
        /\ unknown => written # {}
        /\ errors' = errors + Cardinality(unread) + IF unknown THEN 1 ELSE 0
        /\ errors' <= MaxErrors
        /\ orderly' = (orderly /\ unread = {} /\ ~ unknown)
        /\ up' = TRUE
        /\ chunks' = OnDisk
        /\ persisted' = IF written = {} \/ unknown THEN 0 ELSE Last(OnDisk).last
        /\ low' = IF got = {} THEN 1 ELSE Min(got)
        /\ last' = IF got = {} THEN 0 ELSE Max(got)
        /\ fin' = last'
        /\ writing' = << >>
        /\ UNCHANGED <<written, get, stops>>

-----------------------------------------------------------------------------
(********************* get_global_operational_batch_sequence ***************)

(* Mutant of MemoryPage: the end is exclusive. *)
MemoryPageShort(from, state, limit) ==
    LET a == Max({from, low - 1})
        b == IF state = "finalized" THEN fin ELSE last
    IN  Indices(a, Min({b - 1, a + limit}))

(* Mutant of MemoryPage: one batch past the end. *)
MemoryPagePast(from, state, limit) ==
    LET a == Max({from, low - 1})
        b == IF state = "finalized" THEN fin ELSE last
    IN  Indices(a, Min({b + 1, a + limit}))

(* The batches in memory after index from: filter and truncate_by_size. *)
MemoryPage(from, state, limit) ==
    LET a == Max({from, low - 1})
        b == IF state = "finalized" THEN fin ELSE last
    IN  Indices(a, Min({b, a + limit}))

(* The loop of the read: another round through the files if memory starts  *)
(* too late, else the rest comes from memory.                              *)
Continue(g) ==
    LET first == IF fin = 0 THEN 0 ELSE low
        rest == MemoryPage(g.from, g.state, PageSize - Len(g.page))
    IN  IF g.from + 1 < first
        THEN [g EXCEPT !.files = FilesAfter(chunks, g.from), !.part = << >>]
        ELSE IF Joins(g.page, rest)
        THEN [g EXCEPT !.phase = "done", !.page = @ \o rest]
        ELSE [g EXCEPT !.phase = "failed"]

(* A node asks for the batches after an index in a state. *)
BeginGet(after, state) ==
    /\ up /\ get = NoGet
    /\ get' = Continue([phase |-> "reading", after |-> after, state |-> state,
                        had |-> fin, from |-> after, page |-> << >>,
                        part |-> << >>, files |-> << >>])
    /\ UNCHANGED <<up, memory, listed, disk, errors, stops, orderly>>

(* The next round starts after what was collected so far, which is index 0 *)
(* if that is nothing.                                                     *)
NextFrom(g, page) == LastOrZero(page)

(* load_batches goes on with the fresh indices that were read from a file: *)
(* to the next file while there is room, else back to the loop.            *)
WithChunk(g, fresh) ==
    LET part == g.part \o fresh
        page == g.page \o part
    IN  IF ~ Joins(g.part, fresh) \/ ~ Joins(g.page, part)
        THEN [g EXCEPT !.phase = "failed"]
        ELSE IF Tail(g.files) # << >> /\ Len(page) < PageSize
        THEN [g EXCEPT !.part = part, !.files = Tail(@)]
        ELSE IF Len(page) >= PageSize
        THEN [g EXCEPT !.phase = "done", !.page = SubSeq(page, 1, PageSize)]
        ELSE Continue([g EXCEPT !.page = page, !.from = NextFrom(g, page)])

(* _load_file and filter: the indices of chunk c after from, none of them  *)
(* if its file is not there yet.                                           *)
Loaded(c, from) ==
    LET file == {d \in written : d.first = c.first}
    IN  IF file = {} THEN << >>
        ELSE Indices(Max({c.first - 1, from}), (CHOOSE d \in file : TRUE).last)

(* A read is a task of the pool as well: a worker is free for it when at   *)
(* most one of the writes that were submitted before it is not done.       *)
Runs(g) ==
    /\ g.phase = "reading" /\ g.files # << >>
    /\ Cardinality({k \in DOMAIN writing : writing[k] \in ToSet(g.files)}) < Workers

(* The next file is read.  If there was no chunk to read at all, the loop  *)
(* of the code spins.                                                      *)
ReadChunk ==
    /\ Runs(get)
    /\ get' = WithChunk(get, Loaded(Head(get.files), get.from))
    /\ UNCHANGED <<up, memory, listed, disk, errors, stops, orderly>>

(* The read comes before the writes: one answer of the sequencer finalizes *)
(* several chunks in a single step, and they are submitted in later ones.  *)
ReadOvertakes ==
    /\ get.phase = "reading" /\ get.files # << >> /\ ~ Runs(get)
    /\ get' = WithChunk(get, Loaded(Head(get.files), get.from))
    /\ orderly' = FALSE
    /\ UNCHANGED <<up, memory, listed, disk, errors, stops>>

(* An OSError or an undecodable file also reads as empty. *)
ReadFails ==
    /\ Runs(get)
    /\ errors < MaxErrors
    /\ get' = WithChunk(get, << >>)
    /\ errors' = errors + 1
    /\ UNCHANGED <<up, memory, listed, disk, stops, orderly>>

(* The answer or the error goes out. *)
Respond ==
    /\ get.phase \in {"done", "failed"}
    /\ get' = NoGet
    /\ UNCHANGED <<up, memory, listed, disk, errors, stops, orderly>>

-----------------------------------------------------------------------------
Next ==
    \/ AppendBatch
    \/ \E k \in 0..MaxLen : ReinitializeSequenced(k)
    \/ \E f \in 1..MaxLen : Finalize(f)
    \/ WriteDone \/ WriteOvertakes
    \/ \E k \in UnderWay : WriteFails(k)
    \/ Crash \/ Shutdown
    \/ \E unread \in SUBSET written, unknown \in BOOLEAN : Start(unread, unknown)
    \/ \E after \in 0..MaxLen, state \in State : BeginGet(after, state)
    \/ ReadChunk \/ ReadOvertakes \/ ReadFails \/ Respond

Spec == Init /\ [][Next]_vars

(* The process pool finishes its writes, and the loop serves every read. *)
Fairness ==
    /\ WF_vars(WriteDone)
    /\ WF_vars(ReadChunk)
FairSpec == Spec /\ Fairness

-----------------------------------------------------------------------------
(******************************** Properties ********************************)

Index == 0..MaxLen
Chunk == [first : 1..MaxLen, last : 1..MaxLen]
Page == Seq(1..MaxLen)

(* Type invariant: memory and files hold indices that exist. *)
TypeOK ==
    /\ up \in BOOLEAN /\ orderly \in BOOLEAN
    /\ low \in 1..MaxLen + 1 /\ last \in Index /\ fin \in Index
    /\ chunks \in Seq(Chunk) /\ persisted \in Index
    /\ written \subseteq Chunk /\ writing \in Seq(Chunk)
    /\ get \in {NoGet} \cup
         [phase : {"reading", "done", "failed"}, after : Index, state : State,
          had : Index, from : Index, page : Page, part : Page, files : Seq(Chunk)]
    /\ errors \in 0..MaxErrors /\ stops \in 0..MaxStops

(* The indices of an answer follow the one that was asked for. *)
FollowsRequest == get.page = Indices(get.after, get.after + Len(get.page))

(* While every file can be read and nothing in the process pool overtakes  *)
(* a write, no part that is put together raises, and an answer holds the   *)
(* batches right after the index it was asked for, without a gap, although *)
(* chunks are listed and memory is pruned while the files are read, and    *)
(* any number of files is still to be written: what get_batches of         *)
(* node/routers.py asserts, "error in getting batches".                    *)
PageContiguous ==
    errors = 0 /\ orderly => /\ get.phase # "failed"
                             /\ get.phase = "done" => FollowsRequest

(* A read never comes back empty-handed when there were finalized batches  *)
(* after its index from the start, even if files cannot be read: who pages *)
(* through them gets them all.                                             *)
PageProgress ==
    orderly /\ get.phase = "done" /\ get.had > get.after => get.page # << >>

(* What a running node has pruned from memory can be read from a file that *)
(* is already there, unless as many chunks as memory keeps are still being *)
(* written, or one was written before an earlier one.                      *)
PrunedIsWritten ==
    up /\ orderly /\ Len(writing) < Border =>
        \A i \in 1..low - 1 : \E c \in written : c.first <= i /\ i <= c.last

(* Whenever the process stops, with any number of files still to be        *)
(* written, those that are there start at index 1 and have no gap, so that *)
(* it can load them when it starts again.  (If one was written before an   *)
(* earlier one, or could not be written, they have one.)                   *)
FilesGapless ==
    orderly => Gapless(OnDisk) /\ (OnDisk # << >> => Head(OnDisk).first = 1)

(* Every read ends: it does not go round through the files for ever.       *)
ReadEnds == get.phase = "reading" ~> get.phase # "reading" \/ ~ orderly
=============================================================================
