# nitro-rs in TLA+

A specification of the core of nitro-rs, an Arbitrum Nitro node in Rust: how
messages get from L1 into the node's message log, how the log is executed, and
what survives reorgs and crashes. TLC checks small instances; TLAPS proves the
main invariants for every instance.

## The system

| Part | State it keeps | Operations | Hard behaviour |
|---|---|---|---|
| Transaction streamer (`crates/streamer`) | message log, message count, results, all in sled | confirmed append, RPC append, RPC reorg, execution loop | no locks around check-then-write; the engine is awaited between reading a message and storing its result |
| Engine adapter (`crates/node/src/engine_adapter.rs`) | `last_timestamp` in memory | head search, `digest_message` | clock lost by a restart, advanced by failed attempts |
| Store (`crates/db-sled`) | key-value tree | get, put, batch, ordered iteration | a batch is applied one key at a time and is not atomic |
| Inbox tracker (`crates/inbox/src/tracker.rs`) | delayed messages with accumulators, batch metadata, "sequenced" records, two counts, LRU cache | add delayed messages, reorg delayed, add batches and stream them, repair batch count, binary search | several keys per operation; two batches and the streamer's log written one after the other |
| Inbox multiplexer (`crates/inbox/src/multiplexer.rs`) | cursor over a window of batches | `pop` | cached segment number, clock and submessage number between pops |
| Inbox reader (`crates/inbox-reader`) | block window, `caught_up`, in memory | one loop: wait for a block, compare with L1, fetch, hand to the tracker | L1 moves between any two of its calls; each call may fail; windows adapt and walk back; some errors end the task |
| Message RPC (`crates/rpc`) | none | `new_message`, `reorg`, queries | runs concurrently with the reader and the execution loop |
| Batch poster, segment source (`crates/batch-poster`, `crates/node/src/segment_source.rs`) | last delayed count, posting cursor, in memory | build and post a batch | state advanced before the post succeeds; the log and the delayed count belong to other tasks |
| Header reader (`crates/inbox-bridge`) | channel of headers | poll, subscribe | bounded channel |
| Bridges (`crates/inbox-bridge`) | none | counts, accumulators and lookups at a block or a range | may fail, may see another fork than the call before |
| Encodings, configuration, genesis, validator | none, or set once | decoding, start-up | none |

The node starts one reader task and one execution task
(`crates/node/src/service.rs`). The reader is the only caller of the tracker's
mutators; the tracker calls the streamer's confirmed append. RPC handlers call
the streamer's unconfirmed append and its reorg from any thread. The execution
loop reads the log and writes results. They all share the sled tree, without a
lock.

What makes each part correct:

* streamer: no hole below the count; what was counted stays; results are one
  chain built from the log; everything counted is executed;
* tracker: the log is what L1's batches stand for; delayed messages, metadata,
  sequenced records and cache agree; every batch is recorded in the end;
* multiplexer: the cursor yields exactly what a window stands for;
* search: the answer holds the message, or is a batch next to it that holds none;
* reader: its window never passes a block that orders something it does not have,
  also when it finds nothing missing, it catches up, and what it records
  survives failed calls, reorgs and restarts as one chain;
* poster: messages are sent once and in order, within the budget, never back to a
  fork of the log that was rolled back, and a new delayed count is sent.

`PROJECT.json` lists the hazards line by line.

## Modules

| Module | Models |
|---|---|
| `MessageLog` | abstract: an append-only log and the chain of blocks behind it |
| `Streamer` | streamer, engine adapter, store, RPC writers, crashes |
| `StreamerProofs` | theorems about `Streamer`: the log without holes, what callers are promised, the results; `Streamer` implements `MessageLog` |
| `BatchStream` | the meaning of a window of batches in closed form (no state) |
| `Multiplexer` | the multiplexer's cursor |
| `MultiplexerProofs` | theorems about `Multiplexer`: the pops are what `BatchStream` says, the clock, the delayed counter, the count that is recorded |
| `InboxCalls` | what each tracker call does when it runs to its end (no state); uses `BatchStream` |
| `InboxTracker` | L1, the tracker over the store key by key, crashes; checked against `InboxCalls` |
| `InboxTrackerProofs` | theorems about `InboxTracker`: types, the cache agrees with the store |
| `InboxTrackerChainProofs` | what the tracker's records say of each other until a crash; what is recorded is in the log, crashes included; the log is what L1 orders, while nothing is reorged, reread or cut short |
| `InboxReader` | L1's blocks, header task, bridges, the reader's loop; calls `InboxCalls` |
| `InboxReaderProofs` | theorems about `InboxReader` and the lemmas about `InboxCalls` that they need |
| `BatchPoster`, `BatchPosterProofs` | batch poster and segment source, and their theorems |
| `BatchSearch`, `BatchSearchProofs` | the tracker's binary search and its proof |
| `InductionLemmas` | lemmas: least and greatest numbers, running sums, concatenation, counting |
| `MC*` | small instances for TLC |

### Streamer

`messages`, `results` and `messageCount` are the keys of the store. A caller goes
through `rest`, `scan` (it has passed the contiguity check), then `put` or
`delete` and `put`, and back to `rest`; every put and removal of a batch is a
step, so calls interleave and `Crash` may come between any two keys. `Submit` is
`add_messages_and_end_batch_impl` up to its first check. The step that follows
(`DropFeedReorg`, `Reject`, `AllDuplicates`, `StartAppend`, `StartReorg`) has the
duplicate scan, the seeding of `last_delayed_read`, the jump check and the early
returns. The execution loop is `ExecHead`, `ExecDigest`, and then one of
`ExecStore`, `ExecRefused` and `ExecFail`; the step boundary after `ExecDigest`
is the await.

Abstractions:

* A result is the sequence of blocks that its hash commits to, each with the
  message it was built for. The code hands the engine only the timestamp, so the
  message in a block is what the node believes the block to be, not something
  the hash depends on.
* The reads between two awaits of `execute_next_msg` are one step, and so is the
  scan of a call.
* A block hash key or block metadata key is never read by a decision and is left
  out. The batch that `count_duplicate_messages` fills with gas costs is dropped
  by its caller and never written, so duplicates write nothing.
* A call that fails its first check changes nothing and is not a step. Messages
  are decoded without error.
* RPC `reorg` does not compare its index with the count. `ReorgsInLog` says
  whether callers name only indices within the log; it is TRUE where a property
  needs that.

### Multiplexer and BatchStream

One action per outcome of `pop`. `BatchStream` says what a window stands for: for
each batch the segments that are visited, then delayed messages up to
`after_delayed_messages`, an invalid message where a delayed segment finds none
left. It has no cursor and no cache. The L1 block number is treated like the
timestamp and left out; a segment that cannot be decompressed is `"bad"`. A batch
whose whole payload does not decompress fails before the cursor moves and is left
out. An unknown segment yields `Ok(None)`, which the tracker takes for the end of
the window: the expansion is then `"stopped"`, and the messages of the later
batches of the window are lost although the tracker records those batches.

### InboxTracker

`db` maps keys to values; the streamer's log is one key (its own detail is in
`Streamer`). A call computes the list `todo` of its writes and `WriteKey` applies
them one by one, in the code's order: a metadata deletion is a batch of its own
that is written before the caller's. `Crash` drops `todo` and the cache. L1 is
the environment (`L1Delayed`, `L1Batch`, `L1Reorg`); accumulators are the
sequences that they hash. `AddDelayed` may start at a message already held, as
the reader does after a restart, when it reads again from the block of its last
delayed message; `MaxRereads` bounds that. `AddBatches` passes a window from the
batch count on, as the reader's filter does. A window that is refused or skipped
changes nothing but the cache, which `GetBatchMetadata` covers.

`InboxCalls` states the same calls once more on three sequences (delayed messages,
metadata, log). The action property `CallsAreAtomic` says that each call of
`InboxTracker`, once its keys are written, has done what `InboxCalls` says; that
is what lets `InboxReader` use whole calls.

### InboxReader

`chain` is L1, block by block; a block orders at most one delayed message and one
batch. `rd` holds the local variables of `start` and a program counter; the loop
is cut at every await, so `L1Block`, `L1Safe` and `L1Reorg` may come between any
two calls:

| `pc` | Action | Code |
|---|---|---|
| `begin` | `Begin` | height of the turn; no safe block ends the task |
| `wait` | `RecvHeader`, `Tick` | waiting for a header or the timer |
| `wait` | `Count` | delayed count at the height; a surplus is rolled back |
| `acc` | `CompareDelayed` | delayed accumulator |
| `bcount`, `bacc` | `CountBatches`, `CompareBatches` | batch count and accumulator |
| `decide` | `NothingMissing`, `FetchDelayed` | jump past the height, or look up delayed messages |
| `batches`, `data` | `FetchBatches`, `FetchData` | look up batches, then the data of each |
| `backfill`, `add` | `Backfill`, `AddBatches` | missing delayed messages, then the batches that follow |
| `finish` | `Finish` | size and place of the next window, walking back after a reorg |

`Failing` names the kinds of call that may fail and `MaxErrors` how often; each
failure does what the code does with it (taken for 0, for the zero hash, for no
messages, or returned with `?`). `Restart` starts the task with the stored
records. The several requests of one lookup, and the data of all batches of a
window, are one step. The header that waits for room in the full channel is kept
as one more entry. The reader's own subscription never closes while it runs, so
the branch for a closed one is left out, and so are the two batch counters that
are only reported.

### BatchPoster

`ps` holds the poster's remembered delayed count and the segment source's cursor.
`Build` compares and remembers the count, `ReadHead` and `Take` read the log one
message at a time and add up its bytes, `TakenAll` moves the cursor, `Posted` and `PostFails` are the
outcomes of the send; a failed send may have reached L1. The log and the delayed
count are moved by the environment between any two of these. A message is its
size and the fork of the log it is on.

### BatchSearch

One action per branch of the loop. The counts of a history do not decrease; a batch
without messages records the count of the one before. The search takes every batch to
hold a message: where counts are equal it may return, instead of the batch that it
looks for, one without messages that ends at the position or right after it.
`FindsContaining` says this.

## Runs

Passing:

| Run | Instance | Shows |
|---|---|---|
| `streamer_ingest` | reader only, log of 3, appends of up to 2 of 4 messages, 1 crash | `LogContiguous`, `ResultsFollowLog`, `ResultsArePrefix`, `CanonicalTimestamps`, `CommittedImmutable`, `EventuallyExecuted`, refinement of `MessageLog` |
| `streamer_calls` | reader only, log of 4, 1 engine failure, no crash | `TypeOK`, `AcknowledgedIsCounted`, `NoDelayedJump`, `EventuallyExecuted` |
| `streamer_reorg` | RPC appends, a reorg within the log, 1 crash | `LogContiguousAtRest` (unless a reorg and a crash meet), `InitMessageKept` |
| `multiplexer` | all windows of 1 batch with up to 3 segments, of 2 with up to 2 | `PopsExpansion`, `DelayedStepByStep`, `TimeIsSumOfAdvances`, `CountIsRecorded` |
| `batch_search` | up to 6 batches, counts up to 8 | `FindsContaining`, `SearchEnds` |
| `tracker` | 2 delayed messages, 3 batches, no reorg | `LogIsCanonical`, `LogMatchesMetadata`, `EventuallyRecorded` |
| `tracker_reorg` | 1 L1 reorg, 1 re-read, 1 crash | every call is what `InboxCalls` says (`CallsAreAtomic`); until the crash delayed messages, metadata and sequenced records are one chain; at any time `LogCoversMetadata`, `CacheCoherent` |
| `reader` | newest blocks, 3 blocks, 2 delayed messages, 2 batches, channel of 1, 1 failed batch count | `NothingSkipped`, `CountsUpToBlock`, `CatchesUp` |
| `reader_faults` | newest and safe blocks, `delay_blocks` 1, 1 failure of any call, 1 reorg, 1 restart | `RecordsRestOnDelayed`, `OnlySafeRecorded`, `SafeReaderUndisturbed` |
| `poster` | log of 4, budget of 2, 2 moves of the delayed count, 1 reorg, 1 restart, failed posts | `SentInOrder`, `ForkNeverReturns`, `WithinBudget`, `NewCountIsPosted` |

Two runs show where the code and what it says of itself disagree (findings in
`PROJECT.json`, with the quoted lines):

| Run | Property | What happens |
|---|---|---|
| `streamer_stale_result` | `ResultsFollowLogAtRest` | a reorg during the engine call: the old message's result is stored for the new message |
| `reader_data_error` | `CatchesUp` | one failed call for a batch's data ends the reader's task, past the arm that would log it and go on |

The passing runs also mark limits of the code. Raising one bound, or adding one
property, in the named configuration gives a counterexample:

| Change | Property that then fails | Why |
|---|---|---|
| `StreamerReorg.cfg`, the condition on crashes removed | `LogContiguousAtRest` | messages are removed before the count is lowered, key by key |
| `StreamerReorg.cfg`, `ReorgsInLog = FALSE` | `LogContiguousAtRest` | a reorg beyond the end of the log is not refused |
| `StreamerCalls.cfg`, `MaxCrashes = 1` | `NoDelayedJump` | `last_delayed_read` is seeded from the message being checked |
| `StreamerCalls.cfg`, `MaxCrashes = 1`, `NoDelayedJump` removed | `AcknowledgedIsCounted` | a crash before the count; the same append again returns Ok as all duplicates and the count stays behind |
| `StreamerIngest.cfg`, `Confirmers = {}`, `Feeders = {rpc1, rpc2}` | `CommittedImmutable` | two RPC appends pass the contiguity check before either writes |
| `StreamerIngest.cfg`, `MaxFailures = 1` | `CanonicalTimestamps` | see below |
| `Tracker.cfg`, `MaxCrashes = 1` | `LogIsCanonical` | messages are streamed before batches are recorded; after a crash on the first window the "cold-start align" appends it again |
| `Tracker.cfg`, `MaxRereads = 1` | `LogMatchesMetadata` | re-reading delayed messages rolls back metadata, not the log; the next window no longer continues the log |
| `Tracker.cfg`, `Contents` with `<<L2, D>>` | `LogMatchesMetadata` | a delayed segment that no delayed message is left for comes out as an invalid message; the log grows by it, the count that is recorded does not |
| `TrackerReorg.cfg`, `MaxBatches = 3`, `BatchesChained` for `Idle` instead of `Whole` | `BatchesChained` | metadata is deleted in ascending order; after a crash the repaired count keeps a hole below it |
| `TrackerReorg.cfg`, `Contents` `{<<D>>, <<L2>>}` with `D` a delayed segment | `LogCoversMetadata` | a crash between the log and the record; the cold start goes on from the stored delayed count, but the count recorded for the batch is taken from its beginning |
| `ReaderFaults.cfg`, `Locations = {0, 2}`, the condition `2 \notin Locations` removed | `RecordsRestOnDelayed` | a cold start takes the delayed messages that are stored for messages already read; a log that begins with a forced inclusion is then one message short of what is recorded |
| `Reader.cfg`, `MaxRestarts = 1` | `CatchesUp` | the reader starts again at the block of its last delayed message; a batch before it is not found again, or the re-read rolls batches back and the log is then ahead |
| `Reader.cfg`, `MaxBlocks = 1`, `MaxHeight = 4` | `CatchesUp` | a gap longer than `max_blocks_to_read` is never crossed: an empty window does not move |
| `Reader.cfg`, `Failing = {"count"}` | `CatchesUp` | the error counts as 0 messages and everything is rolled back, but not the log |
| `Reader.cfg`, `Failing = {"acc"}` or `{"bacc"}` | `CatchesUp` | the error is taken for a reorg: the reader walks back, and at the first block its task ends |
| `Reader.cfg`, `Failing = {"delayed"}` | `CatchesUp` | the backfill reads the last stored message again, which rolls back the batches that read it |
| `Reader.cfg`, `Failing = {"batches"}` | `CatchesUp` | the error finds no batches; if the window had delayed messages it is passed, and the first batch with it |
| `Reader.cfg`, `Failing = {"header"}` | deadlock | the error ends the task |

More that the models show of the reader and the poster, by reading rather than by
a run: a batch in blobs (location 3) ends the reader's task; a reorg of batches
alone is seen and never repaired, as the filter drops batches that are recorded,
and the walk back ends the task; a reader of newest blocks does not look again at
a block it has passed, so a delayed message that a reorg puts there is found only
by a walk back; a count of batches below the recorded one is taken for nothing
missing; a reader of safe blocks wakes only on new headers and works one block
behind; a window that always fails (a payload that does not decompress) stops
everything after it. The poster builds a batch only when the delayed count
changes, never sends message 0, stops for good at a message larger than the
budget, does not move its cursor back when the log is reorged, starts over from
message 1 after a restart, and takes a missing key for a successful post.

`CountIsRecorded` exempts invalid messages: a batch without messages, or with more
delayed segments than delayed messages, yields one that the metadata does not
count, and the next window is then refused. The recorded count includes delayed
messages, while `crates/inbox-reader/tests/sequencer_ingestion.rs:234` expects 1
for a batch of one L2 message and two delayed ones.

`CanonicalTimestamps` is checked without engine failures. With one, it fails:
`last_timestamp` was already raised by the failed attempt, so the retried block
gets a later timestamp than a node without the failure would give it.

### Bounds

Three or four log entries are enough for an append of two messages after an
earlier one, for a duplicate followed by a new message, and for a reorg that
removes one of two executed messages. The four messages of `MCStreamer` differ in
every field that the code compares: a duplicate with and without a gas cost, a
delayed counter that steps and one that jumps, timestamps that rise and one that
does not. One crash reaches each torn state; a second would start from a state
that the first can already leave. Two delayed messages and two or three batches
are enough for a batch that reads none, one or two delayed messages, before and
after one that does, and for a rollback in the middle. Three segments in one
batch cover every order of a message, a delayed and an advance segment; two
batches cover the cursor's reset.

For the reader three blocks hold a delayed message, a batch and a gap in every
order, and a window of one or two blocks leaves some of them for the next; a
channel of one header fills. One failure, one reorg and one restart meet in one
run, so that a fault may follow another. For the poster a budget of two with
messages of size one and two gives a batch of two messages, a batch that a message
does not fit in, and a batch left empty.

No symmetry is used. `CHECK_DEADLOCK FALSE` is set where the system comes to rest:
L1 has reached its bound and everything is read, the window or the search is
finished, the reader's or the poster's task may have ended. The `reader` run does
check it: its timer always ticks. The streamer's loop never stops, and its deadlock check is on.

### Fairness

* `Streamer`: the loop in `start` calls `execute_next_msg` again whatever it
  returned, so `Execute` is weakly fair; a call that has started is run to its end
  by its thread, so the steps of each writer are weakly fair. `ExecFail`, `Crash`
  and the start of calls are not fair.
* `InboxTracker`: the reader's loop reads on from where it is and calls again
  after an error; a call that has begun writes all its keys. `AddBatches` is
  weakly fair; the formula writes its enabling condition out (`Streamable`)
  because computing ENABLED of the action is slow in TLC. L1 is not fair.
* `InboxReader`: the reader's task is scheduled, its timer ticks, and a call to L1
  is answered or fails. `RpcClient::call` has no timeout, so that last part is an
  assumption on the endpoint. `FairSpec` is weak fairness of `Reader`; `ScheduledSpec` says
  the same with the enabling condition (`CanStep`) and the effect written out, for
  the same reason, and is what the `reader` run uses.
  L1, the header task, failures and restarts are not fair: the timer alone gets
  the reader on.
* `BatchPoster`: the task is scheduled, its timer ticks and its calls are answered;
  weak fairness of its steps. Failed posts and the other tasks are not fair.
* `BatchSearch`: a loop without waiting.

## Proofs

Assumptions are the named ones of the modules: `MessagesAssumption`,
`BoundsAssumption`, `PosterAssumption`, `TrackerAssumption`, `ReaderAssumption` (types
and order of the constants), `HistoriesAssumption` (counts that do not decrease) and
`WindowsAssumption` (a window of batches is not empty, and its delayed counts never
go back, as `add_sequencer_batches` is called by the reader with what L1 orders). The callers, the messages, the
sizes and all bounds are arbitrary. A theorem about `Streamer` that needs to know
who calls says so by a hypothesis:

* `SoleConfirmer`: the inbox reader is the only caller, which is the node when
  nobody uses the message RPCs (`StreamerIngest.cfg`, `StreamerCalls.cfg`);
* `SoleCaller` with `ReorgsInLog`: one caller of any kind, which may append and
  reorg within the log (`StreamerReorg.cfg`);
* none: any callers.

That these cannot be dropped is what the table of counterexamples above shows.

`StreamerProofs`, of the log:

* `TypeCorrect`: `Spec => []TypeOK`. It also says that the puts still to come stay
  inside the index space, which needs the length of the remaining messages in the
  type of a caller.
* `LogIsContiguous`: `Spec => []LogContiguous` for one confirmed caller, or for
  any number of RPC appenders. Not inductive by itself: a caller in `put` writes
  the count later. The strengthening `PendingSafe` says that a call under way has
  every message below the index it has reached, and that a confirmed call has
  reached the count and removes only at or above its index. The first part holds
  under races of appenders since no message is ever removed then; the second needs
  the caller to be alone.
* `CommittedStays`: the action property `CommittedImmutable` for one confirmed
  caller, from the same invariant: the next put and every removal are at or above
  the count.

`StreamerProofs`, of the results, for one confirmed caller:

* `ResultsStayPrefix`, `ResultsStayOnLog`: `[]ResultsArePrefix` and
  `[]ResultsFollowLog`. `ChainInv` adds to the invariants above `ExecSafe`, that
  the index that the loop holds across its await is still the first without a
  result and that the message and the parent it holds still stand in the store,
  and `NothingToDelete`, that the reorg of a confirmed call finds no result. The
  second is why the first survives the steps of a caller.
* `TimestampsStayCanonical`: `[](used.failures = 0 => CanonicalTimestamps)`. The
  invariant `ClockInv` relates the adapter's `last_timestamp`, which a restart
  resets, to the time of the highest block: it is not above it, so the time that
  the loop reaches by its refused attempts is the one that the message alone
  determines.
* `StreamerImplementsLog`: `Spec => ImplementsMessageLog`. The refinement mapping
  is the counted part of the log and the highest result; each step is mapped
  to an append, an execution or a stutter, a step of a crash and of a
  confirmed reorg included.

`StreamerProofs`, of what callers are promised:

* `InitMessageStays`: the action property `InitMessageKept` for any callers: no
  list of removals ever holds index 0 (`InitSafe`). There is always a message at index
  0 once there was one; that it is the same one is not claimed, for two racing RPC
  appends may both write it.
* `WholeAtRest`: `[]LogContiguousAtRest` for one caller of any kind. The invariant
  `CallerInv` follows a reorg through its removals: from then until the count is
  lowered the log may have holes (`Untorn`), but only above the index that the
  call has reached (`AtLog`); both are lost when a crash falls into it, which
  `Quiet` excludes.
* `AcknowledgedStaysCounted`, `DelayedNeverJumps`: `[](used.crashes = 0 =>
  AcknowledgedIsCounted)` and the same for `NoDelayedJump`, for one confirmed
  caller. `CleanInv` says that until a crash nothing is stored at or above the
  count but by a call under way, so a call never meets a duplicate, and that the
  delayed counters of what is still to be put follow on the log.

`BatchPosterProofs`, without any hypothesis:

* `PosterTypeCorrect`: the types, and that messages are held only while a batch is
  being built.
* `BatchesFit`: `[]WithinBudget`. The loop's counter of bytes is the running total
  of what it has taken (`BudgetInv`), so the total of a batch exists and ends
  within the budget.
* `MessagesSentInOrder`: `[]SentInOrder`. `OrderInv` says that what is taken
  follows on `Base`, the cursor before it moved, and that until a restart all up to
  `Base` was sent, unless the task has ended or has no key: the cursor moves before
  the send, and it is only the end of the task after a failed send that keeps a
  later batch from leaving a gap.
* `ForksNeverReturn`: `[]ForkNeverReturns`. A reorg may come between any two messages
  that are taken, so one batch may hold messages of two forks. `LogInv` says that the
  log is ordered by fork and that from the index of a message that was taken on it has
  nothing older, through appends and reorgs; with the order of the indices
  (`OrderInv`) the message that is taken next is of the same fork or a later one.

`BatchSearchProofs`:

* `SearchIsCorrect`: `Spec => []FindsContaining`, batches without messages included.
  The strengthening `SearchInv` keeps the answer between the bounds:
  `counts[low - 1] < pos < counts[high]`.

`InboxTrackerProofs`, without any hypothesis:

* `TrackerTypeCorrect`: every key holds what its prefix says, and so does every
  write of the call under way. That the message counts of a window are numbers
  takes that the running sum of its definition exists (`SumExists`).
* `CacheStaysCoherent`: `[]CacheCoherent`, at every instant and through crashes. Not
  inductive by itself: a call that deletes metadata has dropped the entries before
  the store changes, and one that records batches fills the cache after it.
  `CacheInv` says that a cached entry is the store's record, below the batch count,
  and that no write still to come touches it (`EntryHolds`); that an entry still to
  come is what its key will hold by then (`EntryToCome`); and that the entries come
  after all writes to the store (`CacheLast`).

`InboxTrackerChainProofs`, until the first crash:

* `DelayedStayChained`, `BatchesStayChained`, `BatchesStayOnDelayed`,
  `SequencedStaysExact`: `[]DelayedChained`, `[]BatchesChained`,
  `[]BatchesRestOnDelayed` and `[]SequencedExact`. `ChainInv` looks not at the store
  but at what it will hold when the call under way has written all its keys
  (`Result`): `WriteKey` does not change that, and a call changes all of it at once.
  On it `RecordsGood` relates the delayed messages, the metadata and the sequenced
  index. All are needed together: a call that replaces delayed messages from an
  index on looks up in the sequenced index the first batch that read one
  of them, and `RollbackIsExact` shows that what it removes is exactly the batches
  that rest on what is gone, because the delayed counts of the recorded batches
  never decrease (`L1Ordered` where they come from) and the index has every one
  that grows. It follows that `get_batch_count` finds nothing to repair.

`InboxTrackerChainProofs`, of the log:

* `LogCoversRecords`: `[]LogCoversMetadata`, through crashes, rereads and reorgs of
  L1, for batches of which each begins with a
  message of the sequencer's own, before any delayed one, and has no segment of an
  unknown kind (`OwnFirst`). The contents of both tracker runs are such batches; that
  the first part is needed is shown in the table of counterexamples. The property is
  not inductive by itself, because the cold start of `AddBatches` does not look at
  the metadata but counts from what the log's last message has read. `LogInv` says
  that the k-th message of the log has read fewer than k delayed messages
  (`LogRoom`), now and when the write of the log that is still to come is done
  (`LogComes`); that this write comes before those of the metadata; and that each
  record, stored or still to come, counts at least one message and no more than that
  log has (`CountedIn`). So a window that is accepted on a recorded batch continues a
  log that is at least as long as that batch says, and a cold start appends to one
  that is at least as long as its delayed count. `OwnSlots` and `VisibleSplits` turn
  the slots of `BatchStream` into the tracker's count (L2 segments and the delayed
  span), `WindowIsWhole` and `WindowSizes` add them up over a window, and
  `WindowFits` and `CountsFit` compare the sums with what is appended.
* `LogStaysCanonical`: `[](Undisturbed => LogIsCanonical)`, for the same batches.
  `Undisturbed` says that L1 has not been reorged, no delayed message read again and
  no call cut short so far, which is all that `Tracker.cfg` allows; the table of
  counterexamples has the runs without it. The strengthening `InOrder` speaks of the
  store as the call under way will leave it: its delayed messages and batches mirror
  L1's (`Mirrors`), its log is what the batches recorded stand for (`StandsFor`), and
  the log now is how that log begins. `WindowMakes` and `WindowStands` show that a
  window's expansion is the sum of what each batch makes by itself, read from the
  count of the batch before it, and that this does not depend on where L1 was cut
  into windows; `WindowAccepted` that the checks after the append cannot fail, so
  that no message is appended whose batch is then refused; `StandsForMore` that
  messages posted later change nothing; `AllExpands` and `StandsForBegins` that
  `Canonical` begins with it.
* `LogStaysCounted`: `[](Undisturbed /\ SegmentsFit => LogMatchesMetadata)`. The
  tracker counts a batch by its L2 segments and its delayed span, the multiplexer by
  its slots. `WindowCounts` shows the two to be the same number where no batch has
  more delayed segments than delayed messages (`SegmentsFit`), as a sequencer posts
  them and as in `Tracker.cfg`; a batch that has more breaks the property (same table).

`MultiplexerProofs`, for windows of any number of batches and segments:

* `MuxTypeCorrect`: the cursor stays in its window, and the cached segment in its
  batch.
* `TimesAreSums`: `[]TimeIsSumOfAdvances`. `ClockIs` says that the cached clock is
  the sum of the advances of the batch up to the cached segment, cut off at
  `TimeLimit`; saturating at each advance and at the end is the same.
* `DelayedComeStepByStep`: `[]DelayedStepByStep`, from `ReadIs`: the counter of the
  last message is the count read.
* `CountsAreRecorded`: `[]CountIsRecorded`, for a window that starts where the last
  one ended. `CountIs` says that what was yielded, the invalid ones left out, is
  what is recorded for the batches before the cursor, the L2 segments passed and
  the delayed messages read since. `CursorIs` finds the segments passed (`Done`)
  from the three cached numbers, which only together say where the cursor is.
* `PopsAreExpansion`: `[]PopsExpansion`. `BatchStream` gives a batch as many slots as
  it has visible segments and delayed messages left over. `PopIs` says that each
  pop so far took one slot, that the count read is what the delayed slots so far
  asked for, up to the batch's own count, and that what was popped is the batches
  before the cursor and the slots so far of the one at it. `NextSlot` shows that the
  loop over segments stops at the segment of the next slot, `LastSlot` that the
  test which `pop` makes before it moves to the next batch is true at the last slot
  and at no other. This is the whole correctness of the cache: the closed form has
  no cursor.

`InboxReaderProofs`, for both read modes, any number of failures, reorgs of L1
between any two calls, and restarts:

* `ReaderInvariant`: `[]Inv`. `ChainOK` says what L1 orders (its delayed counts do not
  go back), `RecordsOK` that the records are one chain, each on a prefix of the
  stored delayed messages, `ReaderOK` that what the reader has fetched is in the order
  of some fork of L1. A window that was fetched on one fork and is added to records
  of another is refused, or continues them: that is why the accumulators are
  compared, and the proof of `AddBatchesInv` is the case analysis. `LogOK` bounds the
  delayed counter of a log entry by its index, from which a recorded message count is
  within the log where no batch is a forced inclusion.
* `RecordsAlwaysRest`: `[]RecordsRestOnDelayed`, from that. That the recorded batches
  have their messages in the log is claimed only for an L1 without forced inclusions
  (`2 \notin Locations`); with them it fails (the table of counterexamples). The rest
  of the property holds for every L1.
* `OnlySafeIsRecorded`: `[]OnlySafeRecorded`. A reader of safe blocks holds, and has
  fetched, only what is in the safe part of L1 (`WithinSafe`), which no reorg
  replaces.

`Inv` was checked with TLC on the instance of `ReaderFaults.cfg` (2,220,531 states), and
once more with `Locations = {0, 2}`; `PopInv` on that of `Multiplexer.cfg` (135,257).

`InductionLemmas` replaces induction, which needs an operator as a parameter: the set of
counterexamples has a least number, from the library's theorem that strict inclusion
of finite sets is well founded. It also has what the proofs about windows take from
the community modules: `FlattenSeq`, `IsPrefix`, and how many of a set of numbers
there are up to a bound.

Each strengthened invariant was checked with TLC on a small instance before it was
proved; `InOrder` and `CountedInv` on that of `Tracker.cfg` with the contents
`<<L2, D>>` and `<<L2, D, L2, D>>` added (360,137 states).

Only model-checked:

* liveness (`EventuallyExecuted`, `EventuallyRecorded`, `SearchEnds`, `CatchesUp`,
  `NewCountIsPosted`), which the prover cannot do;
* the property that relates the tracker's calls to `InboxCalls` (`CallsAreAtomic`);
* `NothingSkipped`, `CountsUpToBlock` and `SafeReaderUndisturbed` of the reader, which hold where few calls fail and nothing
  is restarted (the table of counterexamples);
* the tracker's records after a crash, which do not always fit together (the same
  table): of its theorems only those of `InboxTrackerProofs` and `LogCoversRecords`
  go beyond a crash.

## Not modelled

JSON, RLP and ABI decoding, compression and message encodings (byte layouts);
configuration, genesis and wiring (run once); the validator (a placeholder); the
feed server (accepts connections only); reth (external: it builds a block when the
timestamp is later than the parent's); sled I/O errors; the read-only queries of
the RPC backend; the search for the init message at first start (a single scan,
nothing runs beside it); `reorg_batches_to_db` and
snap sync (no caller); legacy delayed keys (never written).

## Plan

Done: `Streamer`, `BatchPoster`, `Multiplexer`, `BatchSearch` and `InboxReader` with
their proofs, `MessageLog`, `BatchStream`, `InboxCalls`, and `InboxTracker` with the
proofs about its records. What is left is to prove more, in this order:

1. `InboxTracker`: `CallsAreAtomic`, from `ChainInv` and what `WindowResult` says of
   the keys that a call leaves.
2. `InboxReader`: `NothingSkipped` and `CountsUpToBlock`, for instances where only the
   batch count may fail.
