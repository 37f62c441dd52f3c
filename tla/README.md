# zsequencer in TLA+

zsequencer orders batches of transactions. Nodes post batches to one of them,
the *sequencer*, which appends them to a log per app. Nodes poll that log,
report how far they are, and sign *sync points*: a quorum of signatures first
**locks** a prefix of the log and then **finalizes** it. If the sequencer
censors, stalls or is down, nodes dispute it and switch to the next one. This
directory models that protocol and the parts around it: the pool of client
bodies, storage, catching up, time-outs, rate limits, changes of the registered
nodes, restarts, and one application of the finalized log. TLC checks each on
a small instance; TLAPS proves the main safety properties of the protocol.

Paths below are relative to `src/`.

## Inventory

| component | state | operations | interacts with |
|---|---|---|---|
| node polling, `node/tasks.py` | pool of initialized bodies, `is_sequencer_down`, `is_sequencer_censoring` | `send_app_batches` every 50 ms, `sync_with_sequencer` on the answer, `sign_sync_point` on request | PUT to the sequencer, answers, signature requests |
| sequencer intake, `sequencer/routers.py` | `nodes_state` (what each node reported) | `_put_batches`: append, answer with batches, last lock and finalized signatures, record the report | called by polling nodes |
| sequencer rounds, `sequencer/tasks.py`, `common/bls.py` | locked and finalized sync point | `sync_app`: find a sync point, gather signatures, promote, for the lock and then for the finalization | POST `/node/sign_sync_point` to all reporting nodes |
| in-memory database, `common/db.py` | `operational_batch_sequence`, signatures and `next_index` links of batches, `first_finalized_index`, latency queue | `promote_batches`, `insert_sequenced_batch_bodies`, `reinitialize_sequenced_batches`, snapshot and prune | used by all tasks of one event loop |
| batch sequence, `common/batch_sequence.py` | offset, batches, last index of each state | append, extend, promote, filter, truncate | value type of the database |
| snapshots, `common/snapshot_manager.py` | list of chunks, chunk files | store in a process pool, load by index, load the latest at start-up | database |
| dispute and switch, `node/switch.py`, `node/routers.py` | paused flag, `SEQUENCER`, switch lock | `send_dispute_requests`, `post_dispute`, `post_switch_sequencer`, `switch_to_sequencer` | queries of all nodes, batches of the node with the highest lock |
| sequencer discovery, `common/sequencer_manager.py` | `has_received_node_updates` | `init_sequencer`, `reset_sequencer` | `/node/state` of all nodes |
| rate limits, `common/rate_limit.py` | costs within a moving window | `try_acquire`, `get_remaining_capacity` | polling and intake |
| configuration, `config.py` | network states by tag, `NODE`, `SEQUENCER`, `NETWORK_STATUS_TAG` | `fetch_network_state`, `get_network_state` | all; signatures are made and verified under a tag |
| process, `run.py` | event loop, shutdown event | periodic tasks, signal handler | all |
| HTTP interface, `node/routers.py`, `common/utils.py`, `common/auth.py` | none | guards (`sequencer_only`, `not_paused`, `is_synced`), formats, access control | calls all of the above |
| downtime monitor, `examples/downtime_monitoring` | events and state of the monitored node | `monitor_loop`, `process_loop`, `handle_state_change` | posts to and reads from zellular, asks other monitors |

Every node runs all of this in one asyncio loop, so that code between two awaits
is atomic, and nothing else is. The hard behaviours follow from the awaits:

- an answer to a PUT arrives after the node has switched and cut its log;
- a signature round goes on after its sequencer was replaced, with the parent
  index it read when it started;
- the sequencer counts its own signature without having locked;
- nodes switch at different times, and some miss the switch altogether; a call of
  a switch may wait for the lock of another one;
- the send loop goes on while a switch of the same node pauses it;
- a flag or an id that was read before an await is used after it, about another
  sequencer;
- the registry changes while signatures are gathered or verified;
- handlers raise half way: an answer without a lock signature, a promotion
  without a parent index, an answer of which only a part could be verified;
- a sequencer that restarts gives the indices of batches that it lost, but others have, to new ones;
- writes of chunk files run in two workers, and nobody waits for them;
- batches are pruned from memory and chunk files appear while a read goes
  through them file by file; the process may stop in between.

What makes the components correct:

- *protocol as a whole*: nodes never finalize different batches at one index;
  what is finalized is held by a quorum of locks, so that a later sequencer cannot
  replace it; each batch is finalized eventually under a sequencer that works;
- *database*: nothing that is locked changes; finalization signatures link up,
  since the sequencer serves them along these links;
- *switch*: a node leaves it with the highest lock it could get; a sequencer in
  service can serve;
- *snapshots*: what is pruned is on disk, files load again after any stop, a read
  returns exactly the batches after the given index and ends, however many files the
  process pool has still to write;
- *pool*: a body that a client posted stays in the pool, a request or the log until
  it is sequenced or disputed about; only becoming the sequencer clears it;
- *catching up*: a node finalizes what its sequencer has finalized and nothing else, even
  if the sequencer was restarted and lost batches that the node has; a node that polls gets
  all finalized signatures; the synced flag means that it has what was finalized;
- *disputes*: a sequencer that is gone is left, one that replaced it is not;
- *rate limits*: a node is never allowed more than its limit, and one that keeps
  to it is not refused;
- *configuration*: a signature verifies under its tag, at every node alike;
- *monitor*: events are about real changes, and all monitors agree in the end.

## Modules

| module | contents |
|---|---|
| `SyncPoint` | quorums and the rules about sync points as operators on logs and signatures |
| `ZSequencer`, `MCZSequencer` | the protocol: posting, polling, rounds, disputes, switches, resets |
| `FinalizedLog` | abstract specification: one growing log, of which nodes finalize growing prefixes |
| `ZSequencerRestart`, `MCZSequencerRestart` | the protocol with nodes that restart; extends `ZSequencer` |
| `Switch`, `MCSwitch` | disputes and switches with their time-outs, requests and lock; no logs |
| `BatchPool` | the pool of bodies of one node, its requests, flags and disputes, beside a switch |
| `Latency` | the queue of sequencing times |
| `CatchUp` | a follower that is behind: pages, `next_index` links, the synced flag, several apps |
| `Snapshots` | chunk files, pruning, restarts and reads on one node |
| `BatchSequences` | the operations of `common/batch_sequence.py` against a reference |
| `RateLimit` | the moving windows of a follower and of the sequencer |
| `Membership`, `MCMembership` | network states by tag, gatherings and verification while the registry changes |
| `Monitoring` | the downtime monitor |
| `ZSequencerProofs` | proofs about the protocol, without restarts and with them; extends `ZSequencerRestart` |
| `CatchUpProofs`, `SnapshotsProofs`, `SwitchProofs` | proofs about these modules |
| `BatchProofs` | proofs about `BatchPool` and `BatchSequences` |
| `WindowProofs` | proofs about `Latency` and `RateLimit` |
| `QuorumProofs` | proofs about `Membership` and `Monitoring` |
| `SequenceLemmas` | lemmas about numbers, sequences, sets of their elements, and sums |

`ZSequencer` is the centre: the other modules take one part of it and look closer,
at what it leaves out or leaves to chance, with the rest reduced to what that part
can see of it. `ZSequencer` lets any node dispute at any time; `Switch` says when
it does, `BatchPool` and `Latency` for which causes. `ZSequencer` sends whole
logs; `CatchUp` sends pages, `Snapshots` and `BatchSequences` say how pages are read.

### SyncPoint

A log is a sequence of bodies. The chaining hash of index *i* digests the first
*i* bodies, so it is modelled by that prefix (`Prefix`, `Contains`): hashes are
taken to be free of collisions. An aggregated signature is the message that was
signed, chain and parent index; who signed is checked when it is made and not
stored. `CanLock` and `CanFinalize` are the two halves of `promote_batches`, with
its checks in the form of conjuncts; `CanSign` is `sign_sync_point`; `SyncPoints`
is the search for the highest index that a quorum has reported.

### ZSequencer

| variable | code |
|---|---|
| `log[n]`, `locked[n]` | bodies and last locked index of `operational_batch_sequence` |
| `lockSig[n]` | `locked_signature` of the last locked batch, `NoSig` if it has none |
| `certs[n]` | the finalized signatures, in the order of `next_index`; their last one gives the last finalized index |
| `sequencer[n]`, `phase[n]` | `zconfig.SEQUENCER`; `run` when not paused, else the await of `switch_to_sequencer` |
| `reply[n]` | the answer to the PUT that *n* waits for |
| `task[s]` | the `sync_app` that *s* is in: kind, parent index, chain, who is asked, who signed |
| `seqState`, `lckState`, `lockPoint`, `finPoint` | `nodes_state` |
| `disputed`, `inbox` | sequencers disputed so far; switch requests on the way |

| action | code |
|---|---|
| `PostToSequencer` | `put_batches` of `node/routers.py` on the sequencer |
| `Put`, `PutFails` | `send_app_batches` with `_put_batches`; the latter raises `KeyError` after it appended the bodies |
| `ReceiveReply`, `LoseReply` | `sync_with_sequencer`; the exception path of `send_app_batches` |
| `SyncApp`, `SignSyncPoint`, `AggregateLock`, `AggregateFin`, `GatherFails` | `sync_app`, cut at its awaits |
| `Dispute`, `PostSwitch` | `send_dispute_requests`, `post_switch_sequencer`, up to the first await of `switch_to_sequencer` |
| `SwitchAdopt`, `SwitchAbort`, `SwitchReinit`, `SwitchResume` | the rest of `switch_to_sequencer` |
| `ResetSequencer` | `reset_sequencer` on a follower or on a sequencer that nobody polls |

What is abstracted:

- nodes are honest, their clocks are synchronised, and `is_synced` is true;
- one app; no paging, truncation, pruning or restart (`CatchUp`, `Snapshots`,
  `ZSequencerRestart`);
- the pool of initialized bodies (`BatchPool`): a PUT carries any bodies of up to `MaxPost`;
  a client may post again, so repeated and reordered posts are included;
- a PUT and its handler are one action, its answer is a message; so are a
  signature request with its answer, and the queries and fetches of a switch, in
  which any set of peers may fail to answer. A PUT is sent only in phase `run`;
- gathering disputes is one action, and whether a node sees a fault is left to
  chance; a switch request that expired is one that is never taken (`Switch`);
- the ten seconds of inactivity before a sequencer looks for another one (`Switch`);
- timestamps. Those of finalizations increase with synchronised clocks; the one
  consequence that matters is kept: the lock of a peer verifies in a switch only
  until its batch is finalized, because the timestamp is then overwritten.

`ASSUME QuorumAssumption` says that any two quorums share a node. It holds when
`THRESHOLD_PERCENT` is above 50. The default of `settings.py` is 100; the value 40
of `.env.example` does not satisfy it, and nothing here applies to such a network.

### FinalizedLog

`chain` is the log, `upto[n]` how much of it *n* has finalized; a step extends the
chain, moves one node on within it, or both. `ZSequencer` implements it with the longest
finalized prefix of any node as `chain` (`FinalizedLogSpec`).

### ZSequencerRestart

`Restart(n)` keeps what `load_latest_chunks` finds: batches up to some finalized
signature of *n*, which become the locked ones. `Found(n)` is `init_sequencer`.
`forgot` holds the nodes whose `first_finalized_index` is `None` although they
have finalized batches: the finalized signatures in their answers are those for a
node that has some already.

### Switch

`stage[n]` is the await that `run_node_tasks` of *n* is in (`poll`, `reset`, `gather`),
`switching[n]` that of `switch_to_sequencer`, `waiting[n]` the calls that wait for
`_switch_lock`; `left` are the times that remain, in units of the five seconds of
HTTP and aggregation time-outs. `Support` are the nodes whose complaints make a dispute (half of
the threshold), `Quorum` those that make a sequencer's signatures enough; `MCSwitch` derives both from stakes. `Poll*` are the answers of a poll, `Complain`,
`Confirm`, `Gathered`, `GatherFails` the dispute, `PostSwitch` the switch request,
`SwitchCall`, `Synced`, `SyncRaises`, `Resume`, `Release` the switch, `NotesUpdates` and
`FailOver` the inactivity test of a sequencer. What has no await takes no time: `Tick`
waits for it. A call that waits for the lock gets it in the step that releases it;
the query of `FailOver` is one step; a node that leaves the network does not return.

### BatchPool

`pool`, `log`, `lock`, `censoring` and `down` are the node's; `slog` is the log of its
sequencer and `old` that of the one before, which may not know yet; `loop` and `request`
are where the send loop is, `switch` where a switch is. `Send`, `Handle`, `Answer`,
`AnswerRaises`, `Failure` and `NotSequencer` are one iteration of `send_app_batches`. After the last one, an
`IsNotSequencerError`, the sequencer does not count as down; `reset_sequencer` finds
another one (`ResetSequencer`) or none, or the same (`ResetSkipped`). `PostDispute` takes
a body of another node that disputes; `Cut` and `EndSwitch` are the switch. `Missing`
is a set in the code, so it returns to the pool in any order.

### Latency

`Sequenced`, `FinalizedUpTo` and `ResetQueue` are the operations on the queue,
`Answer`, `Adopt`, `Cut`, `EndSwitch`, `FailSwitch` and `ResetSequencer` the code that
calls them. `AnswerRaises` is an answer whose promotion raises after its page was inserted,
before the queue is brought up to date. `since` (when a batch was first tracked), `tracked` (up to where)
and `failed` are history variables.

### CatchUp

The sequencer is its indices: `points` are finalized indices with a signature,
`linked` those with a `next_index`, `ends` the ends of its chunks, from which
`Low`, the first index in memory, follows. `Poll` is a PUT with its answer, the page
(`PageEnd`) and the signatures (`Served`) of `_put_batches`, and what
`sync_with_sequencer` does with them (`Promoted`); `round` is `send_batches` over all apps. Chaining hashes are
modelled by `shared`, the index up to which the follower has the sequencer's batches: `Restart` takes from the
sequencer what it has not finalized, and the follower, if it had that, has other batches there from then on (`Diverged`). It asks and
appends by index all the same, and a signature with another hash is not accepted.

### Snapshots

One app on one node, a batch being its index and all batches having one unit of
size. `low`, `last` and `fin` are the offset, the last index and the last
finalized index of the sequence in memory; `chunks` is the list of chunks and `persisted`
the last index in them, `written` the files that are there, `writing` those that the process
pool has still to write; `get` is a read under way, with the index it
continues from, the page so far and the files still to load. `Finalize` is the
part of `promote_batches` that stores and prunes: it lists a chunk and leaves its file to the pool, however many
wait there already. The pool has two workers, which take what is submitted in order: `WriteDone` is the
oldest write, `WriteOvertakes` the second one if it is done before, `WriteFails` one that raises, which nobody notices.
`Shutdown`, `Crash` and `Start` are the life of the process, in which files may be unreadable at a start:
they count as empty, and the start fails if the rest does not fit together (`CanExtend`). `BeginGet`, `ReadChunk`,
`ReadOvertakes`, `ReadFails` and `Respond` are `get_global_operational_batch_sequence` with
`load_batches`, one file per await. A read is a task of the same pool: it comes after the writes that were submitted before
it, of which at most one is not done then (`Runs`); but one answer may list several chunks in a step, and a read may be submitted
before the tasks that write them have run (`ReadOvertakes`). `orderly` is a history variable: nothing has overtaken a write so far, no write has
failed, and no start has met an unreadable file. `BorderAssumption` (`REMOVE_CHUNK_BORDER` of
2 or more, the default being 2) excludes that memory is pruned to nothing.

### BatchSequences

A batch is its size; sequences, their offset and the last index of each state are
records as in the code, and every operation is an operator. The module keeps a sequence (`seq`)
and the log it is a window of (`sequenced`), applies each operation to both, and `BatchesTypeOK`,
`WindowOfLog`, `FilterSelects` and `PageIsLongestFit` compare them.

### RateLimit

`own` is the limiter that the follower keeps about itself, `other` that of the sequencer
about the follower; an event has an age instead of a time. `Send` takes from the pool
what `own` has room for, `Arrive` charges `other`, `Answered` charges `own` and puts back the bodies that the page
does not reach (`PutBack`), `AnswerFails` charges `own` and then raises; `Refresh`
changes the limit, which the limiters look up only when they charge.

### Membership

`registry[t]` is what the chain says at tag *t*, `states[n]` what *n* has fetched.
`zconfig.NODE` and `zconfig.SEQUENCER` are not copies: they are records of a stored
state, kept here by the tag of that state, and `FetchNetworkState` overwrites them
in place. `BeginRound`, `Answers`, `Aggregate`, `GiveUp` are
`gather_and_aggregate_signatures`, in which the state of the moment and the tag of the
start meet; `Receive` is the verification at another node; `Dispute` a whole dispute.

### Monitoring

One monitored node, several monitors, of which `Watchers` look. `Observe`, `Ask`,
`SignState`, `SendEvent` are a check that finds a change and has it signed, `Sequence`
puts the event into the log, `Process` applies it. Events that two
monitors send come in any order. The downtime that is computed from the events on request is not modelled. The previous event of a monitor is applied before its
next check, as the polling interval is far longer than a finalization.

## Runs

All cfg files say `CHECK_DEADLOCK FALSE`: the bounds make every instance stop.

| run | instance | properties |
|---|---|---|
| `switch` | `ZSequencer`: 3 nodes, n1 with half of the stake, threshold 75, 2 bodies, logs extended up to 1 batch, 1 disputed sequencer | `TypeOK`, `FinalizedAgreement`, `FinalizedHeldByQuorum`, `CheckpointChain`, `LockedPreserved`, `FinalizedLogSpec` |
| `live` | `ZSequencer`: 3 equal nodes, threshold 60, up to 2 batches, no dispute, `FairSpec` | `EventuallyFinalized` |
| `durable` | `ZSequencerRestart`: as `switch`, but n2 has half of the stake and restarts once | `FinalizedAgreement`, **violated** |
| `gone` | `Switch`: 3 nodes with stakes 3, 3 and 4, threshold 67; requests and gatherings take up to 1 unit, a proof is valid for 1, pauses and inactivity take 2; 1 node leaves, 1 switch raises, `FairSpec` | `NoRepeatedSwitch`, `LeavesDisputed`, `LeavesTheGone` |
| `pool` | `BatchPool`: a body of a client, a body of another node, pages of 1, logs up to 2, every fault, 1 switch to another node or to the node itself, or 1 reset, `FairSpec` | `TypeOK`, `NoBodyLost`, `SequencedOrDisputed`, `DownIsDisputed` |
| `queue` | `Latency`: 3 batches, 4 seconds, border of 1 | `TypeOK`, `DelayIsOverdue` |
| `catchup` | `CatchUp`: 2 apps of 2 batches, pages of 1, border 2, one restart or one lost request, `FairSpec` | `TypeOK`, `FinalizedIsTheSequencers`, `SyncedIsCaughtUp`, `FinalizedReachesFollowers` |
| `store` | `Snapshots`: 7 batches, chunks of 2 or more, pages of 3, border 2, 1 stop, 1 failed read or write, any number of writes under way, `FairSpec` | `TypeOK`, `PageContiguous`, `PageProgress`, `PrunedIsWritten`, `FilesGapless`, `ReadEnds` |
| `window` | `BatchSequences`: 5 batches of sizes 1 and 2, chunks of 2, border 2, 1 restart | `BatchesTypeOK`, `WindowOfLog`, `FilterSelects`, `PageIsLongestFit` |
| `rate` | `RateLimit`: 3 bodies of sizes 1 and 2, limits 3 and 4 with 2 changes, a window of 2, 1 lost request, 1 short or raising answer, `FairRateSpec` | `RateTypeOK`, `NoneRefused`, `TakenWithinLimit`, `PoolIsSent` |
| `joins` | `Membership`: 3 equal nodes, threshold 70; n4 may join, n1 and n2 leave, n3 change its stake, 2 changes, 1 signature, `FairSpec` | `TagIsNewest`, `SignatureVerifies`, `SameVerdict`, `OfflineIsLeft` |
| `events` | `Monitoring`: 3 monitors, 2 that watch, 3 time steps, 2 changes, `FairMonitoringSpec` | `EventsReal`, `Converges` |

What each shows, and why its bounds are enough:

- **`switch`** needs three nodes: n1 and one other form a quorum, the third may be left behind, be
  switched late, or become the next sequencer with an empty log. All quorums share n1, the first
  sequencer, which is disputed and which signs without having locked. One batch that
  the sequencer extends is enough for two sequencers to order different bodies at
  one index, which is what agreement is about; late answers and adopted logs make
  logs longer than `MaxLen`, so that locks and finalizations follow one another.
  Longer logs, other stakes and more disputes are covered by the theorems below,
  which hold for all of them. Bodies are symmetric.
- **`live`** has two batches, so that a round extends what another one finalized.
- **`durable`** is the one run that is meant to fail. protocol.rst:138 calls the lock "a
  durable pre-finalization commitment, especially across leader changes". A restart loads
  snapshot chunks, which hold finalized batches only. Here every quorum is n2 and one other node. If n2 locks
  with n1, restarts and then locks another batch with n3 as the new sequencer, n1 and n3 finalize
  different batches at one index. With stakes that make any two quorums overlap outside the nodes
  that restart, agreement is kept (`AgreementThroughRestarts`).
- **`gone`** has three nodes of which n3, with a stake of 4 of 10, can dispute alone and n1 and n2 need a confirmation; any one with
  n3 is a quorum. Time-outs are in force: a late request has expired, a proof that is two ticks old is refused, and
  a pause is longer than a gathering. A node that confirms only complaints about its own sequencer would not be enough for
  `LeavesTheGone`. One node leaves the network and one switch raises. `LeavesTheGone` asks for something if those that
  remain are a quorum, that is, if n1 or n2 leaves, as the sequencer of the moment or as its successor. Polls that a sequencer in service fails to answer (`missed`) are in the
  model and in the theorems, but their bound is 0 here: with one of them and these times the instance exceeds 24 million states.
- **`pool`** has one body whose fate is followed, another one that displaces it from a page
  of one batch, and a switch at any point of its life.
- **`queue`** lets every entry age beyond the border before, during and after a switch, and answers raise at any point.
- **`catchup`** has two apps, since they share `first_finalized_index` and the synced flag, and
  pages of one batch, so that finalization points fall between pages. A restart may come when the follower has one or two
  batches that the sequencer loses, and others take their indices and are finalized.
- **`store`** lists up to three chunks, with all of them still to be written, so that reads start before, in and behind the border
  of memory, and files are written while they are read. Every property but `TypeOK` is claimed for orderly
  histories, in which nothing overtakes a write. **The code does not see to that**: the pool has two workers, so a small chunk may be written before
  a large one that came first, and a write that fails is not noticed. Without the condition TLC finds each of them violated, but for
  `PageProgress`, for which only the proof needs it.
  `PageContiguous` is about reads without failures, of which it says also that no part that is put together raises; `PageProgress` and `ReadEnds`
  hold with a failed read as well. `PrunedIsWritten` needs that less than `REMOVE_CHUNK_BORDER` chunks are still to be written:
  else what is pruned is on its way to the disk, and a crash loses it.
- **`window`** compares every operation with a reference, for every bound of `filter` and every
  page limit, in every state that sequences of calls reach. `Border` is 2 or more, the default
  being 2: with 1, pruning may empty the memory and with it the position.
- **`rate`** lets the limit grow and shrink again, and bodies fill a window exactly or not, and come back in another order.
- **`joins`** has a node that joins in the middle of a gathering, so that the tag of the start and the
  state of the end differ.
- **`events`** has an outage that ends, told by two monitors, so that events about its beginning and its end overtake each other in the log and come twice.

## Documented promises that the code does not keep

The properties above are what the code does keep. Where a document promises more, the
property carries the condition under which it holds; this table lists what was met while
modelling. The models contain these behaviours.

| promise | what the code does |
|---|---|
| protocol.rst:138, locks are durable | `common/db.py:134` loads finalized batches only (run `durable`) |
| protocol.rst:80, a node syncs to the highest known state in a switch | `node/switch.py:345` calls `promote_batches` without `parent_index`; the `KeyError` ends the switch with the peer's batches but not its lock |
| protocol.rst:36, a node receives only newly sequenced transactions | `node/tasks.py:148` appends an answer to whatever the log is by then; after a switch the hashes differ and the node locks nothing more under this sequencer |
| architecture.rst:11, leadership transfers seamlessly | `sequencer/routers.py:88` reads `locked_signature` of a batch that was finalized without a lock: as sequencer the node answers every PUT with an error, after appending the bodies |
| protocol.rst:120, only after a quorum has locked are finalization signatures requested | `common/bls.py:125` adds the sequencer's own signature without a lock. `FinalizedHeldByQuorum` holds all the same: a node stores the signature only if it has the same batches, and then the sequencer that made it is locked |
| protocol.rst:82, a lock in conflict with a finalization is dropped | `common/db.py:383` refuses the finalization and keeps the lock |
| node/routers.py:370, an answer follows the index asked for | `common/snapshot_manager.py:109` takes a chunk file that it cannot read for an empty one, and the answer goes on with the next chunk (`errors` = 0 excludes it); `:158` leaves a file to a pool of two workers and nobody waits for it: if it fails, or a later one is there first, a read skips it in the same way, and after a stop the files cannot be loaded (`orderly` excludes it) |
| protocol.rst:38 and 51, nodes that poll are kept up to date | `sequencer/routers.py:124` raises once the batch to start from is pruned; `common/db.py:59` does not restore `first_finalized_index`, and chunks are stored before their last `next_index`; `common/db.py:396` has one `first_finalized_index` for all apps (`CanGoOn` excludes them); nor does a node that has batches which a restarted sequencer lost ever finalize those that take their place, before it is switched (`Diverged`) |
| common/utils.py:51, a synced node is synced with the sequencer | `node/tasks.py:53` takes a failed request for a finished one, and `:55` compares indices only, whatever the batches are (`SyncedIsCaughtUp` excludes both) |
| protocol.rst:63-65, a node disputes a sequencer that does not respond | `common/db.py:514` reads the first body of an empty pool if the censoring flag outlived its body (`DownIsDisputed` excludes it); `node/switch.py:108` takes the sequencer of the moment for the one that did not respond, so a node that was switched meanwhile disputes the new one, or itself (`LeavesDisputed` excludes the latter) |
| protocol.rst:63-65, the same | `node/tasks.py:112`: a node that is answered "not the sequencer" does not dispute, and if no sequencer can be found it asks the same one for ever (`SequencedOrDisputed` excludes it) |
| protocol.rst:67, exclusion of a node's transactions is a cause of dispute | `node/tasks.py:126` takes for excluded what did not fit into the page, and posts it again |
| protocol.rst:69, so is a finalization that is late | `node/switch.py:220` skips the reset of the latency queue if the switch raises: entries of batches that were cut stay (`failed` in `Latency`); `node/tasks.py:177` is skipped if a promotion raises, and a batch counts from the next answer on (`tracked`) |
| protocol.rst:65, a sequencer that fails to respond may be offline | `node/tasks.py:115` takes any error for that, `BatchesLimitExceededError` included |
| protocol.rst:71, nodes sign to confirm the malfunction | `node/routers.py:176` asks for an issue only about the sequencer that the node follows; about any other it signs unseen |
| common/sequencer_manager.py:148, a sequencer that missed a switch finds the new one | `common/sequencer_manager.py:151` asks only if it was polled before: one that was never polled stays |
| protocol.rst:34, a node sends its initialised transactions | `node/tasks.py:60` reckons with the limit of the last charge, which refused requests never renew; a body above the limit blocks the pool (`Reckons` excludes both) |
| common/bls.py:75, zconfig is locked during a gathering | `common/bls.py:65` adds up stakes as they are when answers come in, under the tag read before (`calm` excludes it) |
| common/bls.py:209, a signature is verified in the state of its tag | `config.py:176` overwrites records of older states in place (`Restaked` excludes it) |
| protocol.rst:63-65 and 71, a sequencer that is gone is replaced | `node/switch.py:149` looks the sequencer up in the latest state: if it has deregistered, `KeyError` ends `run_node_tasks` (`OfflineIsLeft` excludes it) |
| downtime_monitoring.rst:224, downtimes are accurate and consistent | `04_verifiable_monitoring_service.py:248` compares an event with the last one in the log, not in time, so that one "down" that is applied late, after the "up", counts an outage a second time, as one that lasts; `:369` computes the downtime of a past interval before its events are applied. A signed downtime is bounded neither from below nor from above; it is not modelled |

## Fairness

Weak fairness stands for a loop or a handler that goes on, strong fairness for a
message that is not lost every time. Nothing is assumed about clients, faults,
or the moment when a switch or a dispute happens.

- `ZSequencer`: a node keeps polling and a sequencer keeps running `sync_app`
  (`run_node_tasks`, `run_sequencer_tasks`: weak); neither is every answer lost nor
  every signature refused for ever (strong, for `ReceiveReply` and `SignSyncPoint`, since
  `LoseReply` and `GatherFails` may disable them again and again). With
  `MaxDisputes` = 0 there is one sequencer.
- `Snapshots`: the process pool finishes writes and the loop serves reads (weak: neither a write that overtakes nor one that fails is forced).
- `CatchUp`: `send_batches` goes on with rounds and apps, and not every request about an app is lost.
- `BatchPool`: requests end with an answer or a time-out, switches, resets and disputes end, the loop
  sends (weak), and sends a body of a pool that stays non-empty sooner or later, for the window of the
  rate limit moves on (strong).
- `Switch`: loops, time-outs and handlers run, time passes, and a node that is asked and would confirm a dispute
  does so in one of many gatherings (strong, for `Confirm`).
- `RateLimit`: the send loop runs, requests are served, time passes.
- `Membership`: nodes fetch the state every `FETCH_APPS_AND_NODES_INTERVAL`, and dispute again and again.
- `Monitoring`: the loops of the monitors go on, zellular takes every event, and not every answer
  of a monitor is lost or late (strong, for `SignState`).

That all nodes follow one sequencer in the end is not claimed: a dispute about a
sequencer that did nothing wrong can be confirmed, and its successor be disputed in turn.

## Proofs

The theorems hold for all nodes, stakes, rings, bodies, sizes and bounds that satisfy the assumptions of the modules:

| theorem | statement |
|---|---|
| `ZSequencerProofs` `TypeCorrect` | `Spec => [](TypeOK /\ LogInv)` |
| `LocksKept` | `Spec => LockedPreserved` |
| `HeldByQuorums` | `Spec => []FinalizedHeldByQuorum` |
| `Agreement` | `Spec => []FinalizedAgreement` |
| `CheckpointsChained` | `Spec => []CheckpointChain` |
| `Implements` | `Spec => FinalizedLogSpec` |
| `ChainedThroughRestarts` | `SpecRestart => []CheckpointChain` |
| `AgreementThroughRestarts` | `SpecRestart => []FinalizedAgreement`, if any two quorums share a node outside `Restarting` |
| `BatchProofs` `TypeCorrect`, `BodiesKept` | `Spec => []TypeOK`, `Spec => []NoBodyLost` (`BatchPool`) |
| `SequencesAreTyped`, `MemoryIsWindow`, `FilterIsExact`, `PagesAreLongest` | `BatchesSpec => []P` for `BatchesTypeOK`, `WindowOfLog`, `FilterSelects`, `PageIsLongestFit` |
| `WindowProofs` `TypeCorrect`, `DelayExact` | `Spec => []TypeOK`, `Spec => []DelayIsOverdue` (`Latency`) |
| `RatesAreTyped`, `TakenStaysWithinLimit`, `NothingIsRefused` | `RateSpec => []RateTypeOK`, `RateSpec => TakenWithinLimit`, `RateSpec => []NoneRefused` |
| `CatchUpProofs` `TypeCorrect`, `FinalizedAgrees`, `FlagIsEarned` | `Spec => []TypeOK`, `Spec => []FinalizedIsTheSequencers`, `Spec => SyncedIsCaughtUp` |
| `SnapshotsProofs` `TypeCorrect`, `PrunedIsOnDisk`, `FilesLoadable`, `PagesContiguous`, `PagesProgress` | `Spec => []P` for `TypeOK`, `PrunedIsWritten`, `FilesGapless`, `PageContiguous`, `PageProgress` |
| `SwitchProofs` `AlwaysAnother`, `LeavesTheDisputed` | `Spec => NoRepeatedSwitch`, `Spec => LeavesDisputed` |
| `QuorumProofs` `TagsNewest`, `VerdictsAgree`, `SignaturesVerify` | `Spec => []P` for `TagIsNewest`, `SameVerdict`, `SignatureVerifies` |
| `EventsAreReal` | `MonitoringSpec => []EventsReal` |

### The protocol

Agreement follows from what quorums hold: the quorums behind two
finalization signatures share a node, whose locked prefix contains both chains,
so one extends the other. `FinalizedHeldByQuorum` is not inductive. The invariant
`IInv` is `TypeOK` with

- `LogInv`: a lock is within the log, the last finalized index is not above it,
  and the log contains the chain of every finalization signature;
- `QuorumInv(Node)`: a stored finalization signature is held by a quorum (`CertsHeld`), and so
  is one in an answer under way (`ReplyHeld`); who has signed a finalization round under way
  holds its chain (`SignersHold`).

`SignersHold` says nothing of the sequencer's own signature. The step that stores
the signature closes the gap: `AggregateFin` appends it only if the sequencer's
own log contains the chain, and then the chain becomes locked, so the signers
and the sequencer together hold it. Locks persist by `LocksKept`, which carries
all parts over every step (`QuorumInvStep`). Each action has a lemma; the lemmas about
prefixes and `LastIndex` come first. On the instance of `switch`, TLC finds
no violation of `IInv`.

`Implements` shows that `ZSequencer` implements `FinalizedLog`. Initially
nothing is finalized. A step that changes finalized prefixes is one of two actions of one
node (`ReceiveReply`, `AggregateFin`) and moves no other node's; agreement, before and
after the step, makes the longest prefix after it an extension of the one before, of which every
node's is a prefix. All other steps leave the finalized prefixes alone, by `LocksKept`, and map to a stutter.

`CheckpointsChained` says that finalization signatures link up. `CheckpointChain` is not
inductive: `LinkInv` is `TypeOK` and `LogInv` with: the signatures of a node and those in an answer under way
link up (`AllLinked`, `ReplyParent`), and a round's parent index is not above what its sequencer has finalized
(`TaskParent`). `sync_app` reads the parent index before its rounds and stores a signature with it
after them; that is harmless since the last finalized index never goes back, so that either the index
is still the last one, or the new chain is too short to be stored. Quorums play no part.

The theorems about restarts carry both over to `ZSequencerRestart`. A restart forgets locks, so that a quorum that holds a signature
may shrink: `QuorumInv(S)` counts only the members in `S`, here the nodes that are never restarted
(`Steady`), whose locks persist. `LinkInv` holds without a condition, and it is what a restart needs: the
signatures of a node grow, so that the log up to the last stored one contains them all. The condition
on quorums is satisfiable (three nodes, n1 with half of the stake, threshold 75, n3 restarting: on that instance
TLC finds no violation of `SteadyInv`), and necessary in the sense of run `durable`.

### The pool and the latency queue

`NoBodyLost` of `BatchPool` needs `NothingOut`, that a node which waits for no answer has no bodies out: else
the next request would overwrite them. What is sent, returned or cut is a matter of
sets of elements of sequences, for which `SequenceLemmas` has the lemmas.

`DelayIsOverdue` of `Latency` is about the head of the queue only. Its invariant `Tracks` is about all entries: the
last one is for the last batch that was tracked, each has the time of its batch, and no batch between two entries
is older than the later one. An answer that raises moves the log on and leaves the queue where it was (`tracked`): then the
head may be about a batch that is finalized by now, but an overdue batch is still told. It is claimed outside of switches, since a switch that is under way, or
raised before it reset the queue, leaves entries of cut batches behind; the reset restores it.

### Batch sequences

`BatchesInv` of `BatchProofs` says that every sequence is a `Piece` of the log: the batches from one index to another, with the
last locked and finalized index as the log has them, cut off at its end. `Covers`: memory is the piece from some index to the
end of the log, the chunk files are a `Row` of pieces that follow one another and are finalized, and memory begins where they
end or before. Each operation of `batch_sequence.py` is shown to take pieces to the piece that the reference has, so that
the theorems are about every sequence, every bound of `filter` and every page limit that can occur. Memory that is pruned keeps a
batch of the chunks, since `REMOVE_CHUNK_BORDER` is 2 or more: it never becomes a sequence without a position, which
would begin at index 1 again. This is why `Covers` has `a = 1 \/ a <= e[Len(chunks)]`.

`PageIsLongestFit` sums sizes, which `TotalSize` does as a recursive function. That it satisfies its equation on every sequence is proved by
exhibiting a function that does; that a page taken from pieces one after another is the longest that fits is then a matter of `PageIs` and
`SizesAdd` (the size of a piece is that of its parts).

### Rate limits

`RateInv` of `WindowProofs` says that the charges of a limiter are in the order of their ages and that its sum is theirs, so that what it allows is
within the limit (`TakenWithinLimit`); `ExpireIdx`, a binary search in the code, is shown to find the first charge that is kept.

`NoneRefused` compares two windows that move at different times: the follower charges itself when the answer is in, the sequencer
when the request arrives. `LateInv` has `Covered`: what is still in the sequencer's window is, counted from the end, in the follower's
as well, and no older there, if the charge that the follower will make for an answer under way is added (`Charged`). So the
sequencer never has more in its window than the follower reckons with, whatever time passes between.

### Catching up

`SyncedIsCaughtUp` is about the end of a round. Its invariant `Due` says of the round under way: what is due of an app
was finalized by the sequencer before now, and an app of which something is due is still to be polled. The first part
persists since a sequencer keeps its finalized indices through restarts (`SeqFinGrows`); so an answer after which the follower has
all that is finalized *now* leaves nothing due of that app, though it was not computed for the beginning of the round. The flag is set when
no app is left. Where the follower has batches that its sequencer has lost by a restart, the comparison of indices says nothing, and `Due` leaves
the app out.

`FinalizedIsTheSequencers` rests on the comparison of hashes in `promote_batches` (`Promoted`): what is accepted is in the part
that both share, and a restart keeps what the sequencer has finalized, so that the shared part never shrinks below what the follower has finalized.
`_put_batches` serves signatures up to the page's end, and without limit only if the page is empty.

### Files and reads

The invariant of `SnapshotsProofs`, `IInv`, is `StoreOrder` for what is stored and `ReadOrder` for the read under way, both for orderly
histories, with types for all. `FilesInv`: the chunks start at index 1 and follow one another, and the files that are there are those of the
first ones, while all others wait in their order (`HasFiles`), however many they are. A crash therefore leaves a prefix. `MemoryInv`: memory starts
right after the border and what is listed in a chunk is finalized. A read keeps the list of files that it found, whatever is
stored, pruned or cut between its awaits: `Follows` says that the page and the part read so far are contiguous, and that the files left
continue them (`Continues`), of which only the last may not be there yet: a read runs when at most one of its files is still to be
written, and in order that is the last one. So the case to exclude is one in which nothing fresh has been
found and the one file with the next index is not written; pruning stays behind it. `Progresses` is what remains if a file cannot be read.
A step that is not orderly ends all claims but those of types, which hold always.

### Switches

The invariant `SwitchInv` of `SwitchProofs` has two parts beside types. `Waits`: at most one call waits for the lock of a switch, that of the
node's own dispute, while the loop rests, and its sequencer is not the one of the switch before it, since nothing but that switch
can change the sequencer. `Gathers`: while a node gathers confirmations against another node, it follows the disputed
sequencer, or it is paused for longer than the gathering lasts, or it is itself the successor. As a new sequencer it has
to stay in touch with the others (`InTouch`), lest the inactivity test make it look for another sequencer before the gathering is over.

`PatienceAssumption` of `Switch` orders the time-outs as `settings.py` does (5 s for a gathering, 10 s for the
pause and for inactivity) and says that more stake than the threshold is enough too. `NoRepeatedSwitch` holds for any times.
`LeavesDisputed` leaves out a node that disputes itself: it was made the sequencer while its poll failed, and the
poll, the search and the gathering together take longer than the 10 s of inactivity. With one unit for
requests and gatherings and two for pauses and inactivity, as in `gone`, TLC finds that such a node is failed over to another
sequencer and then switches away from that one. On the instance of `gone` it finds no violation of `SwitchInv`.

### Network states

The invariant `StatesInv` of `QuorumProofs` says what the stored states are: the state of a tag is that of the registry at
the tag, but for records that the node has updated in place (`StateOf`). Those are its own and those of its sequencers,
since `zconfig.NODE` and `zconfig.SEQUENCER` are the only records that `fetch_network_state` writes to; a node that disputes
leaves the first sequencer, so that these are at most three records (`Overwritten`), and what is written is what some registry has
for the same node. `SameVerdict` follows if those registries agree about the stakes of the node and of its sequencers: every other part of
the state is as it was fetched, the total and the keys included. `Newest` carries `TagIsNewest`. Neither
needs anything of the rounds but that the tag of a signature is one of the registry.

`SignatureVerifies` is about the rounds. `LeaderInv` says that the state which the sequencer goes by is the registry of its tag: as
its own sequencer it updates only its own record, in the first state, and that record has its current stake. `StakeCounted`
relates the fraction that `gather_and_aggregate_signatures` adds up to the stakes of the tag of the round: the answers are counted
with the stakes of the moment in the total of the moment, and while no stake of a registered node changes, that total only
grows, so that the fraction is at most the part of the signers in the registry of the tag. Enough of it leaves the nonsigners with at
most the rest, which is what the verification asks for. The sums of stakes are those of `SumOn` in `SequenceLemmas`.

### Monitoring

`RealInv` of `QuorumProofs` says that an event is real (`RealEvent`) on its whole way: in the requests for signatures, in what is sent, in
the queue and in the logs of the monitors. A check may be outdated when it asks, so that a request is real only
once another monitor has signed it; an event needs two thirds of the monitors, and `MonitorAssumption` has at least two of
them, since one alone would be a quorum of itself.

Where a proof needs induction over a concrete sequence, it takes the least or the greatest position that violates the
claim (`LeastNat`, `GreatestNat` in `SequenceLemmas`), and over a finite set, a minimal subset that violates it (`MinimalSet`). A
recursive function, and a sum of the community modules, which is a recursive function in a `CHOOSE`, is unfolded after a function that
satisfies its equation has been exhibited.

### Only model-checked

Liveness, which is out of the prover's reach, as `ENABLED` is: `EventuallyFinalized`, `LeavesTheGone`, `SequencedOrDisputed`,
`DownIsDisputed`, `FinalizedReachesFollowers`, `ReadEnds`, `PoolIsSent`, `OfflineIsLeft` and `Converges`. Every invariant and
every action property of the passing runs is the statement of a theorem.

## Not modelled

- HTTP: request validation, access control, versions and formats. The guards
  `sequencer_only`, `not_paused` and `is_synced` are part of the action that they guard; in the
  code they run in a thread pool before the handler, so that a switch may come in between.
  `PUT /node/batches`, which takes batches of several apps and stops halfway
  when the rate limit is reached, is taken as its single PUTs.
- Downtimes that monitors compute and sign on request.
- Faulty nodes: every node runs this code. Keys, signatures and hashes are ideal.
- Node sources and registration on chain (`utils/sub_graph.py`, `utils/nodes_registry.py`): the registry of
  `Membership` is what they return.
- The order book and token examples, the sabotage simulator (test equipment whose effect
  is that of lost answers), the end-to-end tests, logging and key tools: no protocol state.

## Plan

`Switch` shown to implement the switch of `ZSequencer`, with logs: its disputes choose when and why a node of `ZSequencer`
disputes, which is any time there.
