---------------------------- MODULE InboxTracker ----------------------------
(***************************************************************************)
(* The inbox tracker (crates/inbox/src/tracker.rs): what the node records  *)
(* of L1's delayed messages and sequencer batches, and how batches become  *)
(* messages of the streamer's log.  One task, the inbox reader, calls it.  *)
(*                                                                         *)
(* A call computes what it will write and then writes it key by key (a     *)
(* sled batch is no more atomic than that), so a crash may come between    *)
(* any two keys.  The hash accumulators of L1 are the sequences they hash. *)
(* The streamer's append is one step here; Streamer has its detail.        *)
(* Legacy delayed keys and parent-chain-block keys are never written, snap *)
(* sync is never configured and reorg_batches_to_db has no caller: left    *)
(* out.  The metadata cache keeps everything (1000 entries in the code).   *)
(***************************************************************************)
EXTENDS InboxCalls

CONSTANTS
  Bodies,       \* delayed messages, as far as their hash tells them apart
  Contents,     \* what a batch may hold: sequences of segments
  Absent,       \* no such key
  MaxDelayed,   \* bound: delayed messages on L1
  MaxBatches,   \* bound: batches on L1
  MaxLog,       \* bound: messages in the log
  MaxReorgs,    \* bound: reorgs of L1
  MaxRereads,   \* bound: calls that go back over delayed messages already held
  MaxCrashes    \* bound: crashes of the node

\* What L1 holds: a batch is posted on the first after delayed messages.
Segments == [kind : {"l2", "bad", "delayed", "advance", "empty", "unknown"}, by : Nat]
Batches == [id : Nat, segs : Contents, after : 0 .. MaxDelayed, delayedAcc : Seq(Bodies)]

\* What the tracker stores: a delayed message with the accumulator before it, and
\* BatchMetadata.
StoredDelayed == [before : Seq(Bodies), body : Bodies]
BatchMetadata == [acc : Seq(Batches), messages : Nat, delayed : 0 .. MaxDelayed]

ASSUME TrackerAssumption ==
  /\ {MaxDelayed, MaxBatches, MaxLog, MaxReorgs, MaxRereads, MaxCrashes} \subseteq Nat
  /\ Contents \subseteq Seq(Segments)
  /\ Absent \notin Nat \cup StoredDelayed \cup BatchMetadata

VARIABLES
  l1,      \* L1: the delayed messages and the batches posted so far
  db,      \* the keys the tracker reads and writes, see Keys
  cache,   \* batch_meta_cache
  todo,    \* the writes of the call under way, in order
  used     \* how much of each bound is spent

vars == <<l1, db, cache, todo, used>>

Positions == 0 .. MaxDelayed - 1
Numbers == 0 .. MaxBatches - 1

\* RLP_DELAYED_MESSAGE_PREFIX, SEQUENCER_BATCH_META_PREFIX and
\* DELAYED_SEQUENCED_PREFIX keys, the two counts, and the streamer's log.
Delayed(i) == <<"delayed", i>>
Meta(n) == <<"meta", n>>
Sequenced(c) == <<"sequenced", c>>
DelayedCount == <<"delayedCount">>
BatchCount == <<"batchCount">>
Log == <<"log">>

\* An entry of the cache, which a call fills as it writes its keys.
CacheEntry(n) == <<"cache", n>>

Keys == {Delayed(i) : i \in Positions} \cup {Meta(n) : n \in Numbers}
        \cup {Sequenced(c) : c \in 1 .. MaxDelayed} \cup {DelayedCount, BatchCount, Log}

Put(key, val) == <<[key |-> key, val |-> val]>>

\* The removals, in key order, of the keys of the prefix from first to last:
\* delete_starting_at.  The code passes over one that is not there, which removing
\* it does not change.
DeleteRange(prefix, first, last) ==
  [k \in 1 .. last - first + 1 |-> [key |-> <<prefix, first + k - 1>>, val |-> Absent]]

(***************************************************************************)
(* L1.                                                                     *)
(***************************************************************************)

\* The accumulators after n delayed messages and after n batches.
DelayedAcc(n) == SubSeq(l1.delayed, 1, n)
BatchAcc(n) == SubSeq(l1.batches, 1, n)

L1Delayed(body) ==
  /\ Len(l1.delayed) < MaxDelayed
  /\ l1' = [l1 EXCEPT !.delayed = Append(@, body)]
  /\ UNCHANGED <<db, cache, todo, used>>

\* The sequencer posts a batch; its delayed count never goes back.
L1Batch(segs, after) ==
  /\ Len(l1.batches) < MaxBatches
  /\ after \in 0 .. Len(l1.delayed)
  /\ l1.batches # <<>> => after >= l1.batches[Len(l1.batches)].after
  /\ l1' = [l1 EXCEPT !.batches =
              Append(@, [id |-> Len(l1.batches), segs |-> segs, after |-> after,
                         delayedAcc |-> DelayedAcc(after)])]
  /\ UNCHANGED <<db, cache, todo, used>>

\* L1 keeps d delayed messages and n batches, which read no more than those d.
L1Reorg(d, n) ==
  /\ used.reorgs < MaxReorgs
  /\ d <= Len(l1.delayed)
  /\ n <= Len(l1.batches)
  /\ d < Len(l1.delayed) \/ n < Len(l1.batches)
  /\ \A k \in 1 .. n : l1.batches[k].after <= d
  /\ l1' = [delayed |-> DelayedAcc(d), batches |-> BatchAcc(n)]
  /\ used' = [used EXCEPT !.reorgs = @ + 1]
  /\ UNCHANGED <<db, cache, todo>>

(***************************************************************************)
(* Delayed messages.                                                       *)
(***************************************************************************)

Idle == todo = <<>>

\* get_delayed_acc
HasDelayed(i) == i \in Positions /\ db[Delayed(i)] # Absent
get_delayed_acc(i) == Append(db[Delayed(i)].before, db[Delayed(i)].body)

\* delete_batch_metadata_starting_at: the keys, and what is left of the cache.
MetaDeletes(first) == DeleteRange("meta", first, MaxBatches - 1)

\* Mutant: the cache is left alone.
CacheKept(first) == cache

CacheBelow(first) ==
  [n \in Numbers |-> IF n >= first /\ db[Meta(n)] # Absent THEN Absent ELSE cache[n]]

\* Mutant: the batch that read the first new message itself is kept.
FirstSequencedLate(first) ==
  LET keys == {c \in first + 2 .. MaxDelayed : db[Sequenced(c)] # Absent}
  IN  IF keys = {} THEN {} ELSE {db[Sequenced(CHOOSE c \in keys : \A e \in keys : c <= e)]}

\* reorg_seq_batches_to_count: the batch under the first key at or above
\* first + 1, if any.
FirstSequenced(first) ==
  LET keys == {c \in first + 1 .. MaxDelayed : db[Sequenced(c)] # Absent}
  IN  IF keys = {} THEN {} ELSE {db[Sequenced(CHOOSE c \in keys : \A e \in keys : c <= e)]}

\* Mutant: the records of the batches that read what is replaced are kept.
WritesKeepSequenced(first, count, puts) ==
  puts \o DeleteRange("delayed", count, MaxDelayed - 1) \o Put(DelayedCount, count)

\* The caller's batch with its puts: what is above the new count goes, then
\* the count, then the records of the batches that read what is replaced.
DelayedWrites(first, count, puts) ==
  puts
  \o DeleteRange("delayed", count, MaxDelayed - 1)
  \o Put(DelayedCount, count)
  \o DeleteRange("sequenced", first + 1, MaxDelayed)

\* set_delayed_count_reorg_and_write_batch; the metadata of the batches that are
\* rolled back is deleted at once, in a batch of its own.
SetDelayedCount(first, count, puts) ==
  LET batches == FirstSequenced(first)
  IN  IF batches = {}
      THEN /\ todo' = DelayedWrites(first, count, puts)
           /\ cache' = cache
      ELSE \E n \in batches :
             /\ todo' = MetaDeletes(n) \o DelayedWrites(first, count, puts)
                        \o Put(BatchCount, n)
             /\ cache' = CacheBelow(n)

\* A call that starts below the stored count spends the bound.
Reread(first) ==
  /\ first < db[DelayedCount] => used.rereads < MaxRereads
  /\ used' = [used EXCEPT !.rereads = IF first < db[DelayedCount] THEN @ + 1 ELSE @]

\* Mutant: any stored message will do as the one before.
FollowsAny(first) == first > 0 => HasDelayed(first - 1)

\* The message before the first is there and L1's accumulator agrees with it.
Follows(first) ==
  first > 0 => HasDelayed(first - 1) /\ get_delayed_acc(first - 1) = DelayedAcc(first)

\* The messages first .. last, each with the accumulator before it.
DelayedPuts(first, last) ==
  [k \in 1 .. last - first + 1 |->
     [key |-> Delayed(first + k - 1),
      val |-> [before |-> DelayedAcc(first + k - 1), body |-> l1.delayed[first + k]]]]

\* add_delayed_messages for the L1 messages first .. last; each is checked
\* against the accumulator of the one before it.
AddDelayed(first, last) ==
  /\ Idle
  /\ first <= last
  /\ last < Len(l1.delayed)
  /\ Follows(first)
  /\ Reread(first)
  /\ SetDelayedCount(first, last + 1, DelayedPuts(first, last))
  /\ UNCHANGED <<l1, db>>

\* reorg_delayed_to, which the reader calls with L1's count when that is lower.
ReorgDelayed ==
  /\ Idle
  /\ Len(l1.delayed) < db[DelayedCount]
  /\ SetDelayedCount(Len(l1.delayed), Len(l1.delayed), <<>>)
  /\ UNCHANGED <<l1, db, used>>

(***************************************************************************)
(* Batches.                                                                *)
(***************************************************************************)

\* get_batch_count lowers the stored count to the last batch with metadata.
Repaired ==
  IF \E n \in 1 .. db[BatchCount] : db[Meta(n - 1)] # Absent
  THEN CHOOSE n \in 1 .. db[BatchCount] :
         /\ db[Meta(n - 1)] # Absent
         /\ \A k \in n + 1 .. db[BatchCount] : db[Meta(k - 1)] = Absent
  ELSE 0

GetBatchCount ==
  /\ Idle
  /\ Repaired # db[BatchCount]
  /\ todo' = Put(BatchCount, Repaired)
  /\ UNCHANGED <<l1, db, cache, used>>

\* get_batch_metadata, from the cache or else the store.
get_batch_metadata(n) == IF cache[n] # Absent THEN cache[n] ELSE db[Meta(n)]

\* The metadata before batch first.
PrevMeta(first) == IF first = 0 THEN NoBatch ELSE get_batch_metadata(first - 1)

\* The window continues the log, or the log has messages while no batch is
\* recorded ("cold-start align").  Otherwise the window is skipped:
\* find_inbox_batch_containing_message never answers with a batch that is not
\* recorded yet, and first is one.
ColdStart(first) == first = 0 /\ Len(db[Log]) > 0
Aligned(first) == ColdStart(first) \/ Len(db[Log]) = PrevMeta(first).messages

\* Mutant: every window starts at the newest delayed message.
MuxStartAtCount(first) == db[DelayedCount]

\* delayed_messages_read for the multiplexer.
MuxStart(first) == IF ColdStart(first) THEN db[DelayedCount] ELSE PrevMeta(first).delayed

\* The stored delayed messages are the ones that batch b was posted on.
DelayedAgree(b) ==
  b.after > 0 => HasDelayed(b.after - 1) /\ get_delayed_acc(b.after - 1) = b.delayedAcc

\* Mutant: the previous batch's accumulator is not compared.
AcceptedUnchained(first, last) == \A n \in first .. last : DelayedAgree(l1.batches[n + 1])

\* The checks of add_sequencer_batches: the batches follow the recorded one, and
\* each agrees with the stored delayed messages.
Accepted(first, last) ==
  /\ PrevMeta(first).acc = BatchAcc(first)
  /\ \A n \in first .. last : DelayedAgree(l1.batches[n + 1])

\* The delayed count after batch n, for n from the last recorded batch on.
DelayedUpTo(first, n) == IF n < first THEN PrevMeta(first).delayed ELSE l1.batches[n + 1].after

\* The message counts of batches first .. last, each on that of the batch before.
MessageCounts(first, last) ==
  LET count[n \in first - 1 .. last] ==
        IF n = first - 1 THEN PrevMeta(first).messages
        ELSE MessageCount([messages |-> count[n - 1], delayed |-> DelayedUpTo(first, n - 1)],
                          l1.batches[n + 1])
  IN  count

\* The metadata of batch n of the batches first .. last.
NewMeta(first, last, n) ==
  [acc |-> BatchAcc(n + 1),
   messages |-> MessageCounts(first, last)[n],
   delayed |-> DelayedUpTo(first, n)]

\* Two writes for each of the batches first .. last: its metadata, and the batch
\* under its delayed count.  One that reads no delayed message has only the first,
\* which is written again here.
RecordWrites(first, last) ==
  [k \in 1 .. 2 * (last - first + 1) |->
     LET n == first + (k - 1) \div 2
     IN  IF k % 2 = 0 /\ DelayedUpTo(first, n) > DelayedUpTo(first, n - 1)
         THEN [key |-> Sequenced(DelayedUpTo(first, n)), val |-> n]
         ELSE [key |-> Meta(n), val |-> NewMeta(first, last, n)]]

CacheWrites(first, last) ==
  [k \in 1 .. last - first + 1 |->
     [key |-> CacheEntry(first + k - 1), val |-> NewMeta(first, last, first + k - 1)]]

\* The writes of add_sequencer_batches once its checks have passed.
BatchWrites(first, last) ==
  MetaDeletes(last + 1)
  \o DeleteRange("sequenced", PrevMeta(first).delayed + 1, MaxDelayed)
  \o RecordWrites(first, last)
  \o Put(BatchCount, last + 1)
  \o CacheWrites(first, last)

KnownDelayed == {i \in Positions : HasDelayed(i)}
KnownBodies == [i \in KnownDelayed |-> db[Delayed(i)].body]

\* Mutant: the batches are recorded before their messages are in the log.
WritesRecordFirst(first, last, out) ==
  (IF Accepted(first, last) THEN BatchWrites(first, last) ELSE <<>>)
  \o Put(Log, db[Log] \o out)

\* The messages go to the log; the batches are checked and recorded after that.
WindowWrites(first, last, out) ==
  Put(Log, db[Log] \o out)
  \o IF Accepted(first, last) THEN BatchWrites(first, last) ELSE <<>>

\* What the multiplexer makes of the L1 batches first .. last.
Stream(first, last) ==
  ExpandAll(SubSeq(l1.batches, first + 1, last + 1), MuxStart(first), KnownDelayed)

\* The multiplexer reports no error and finds a message, and the streamer takes
\* what it found.
Taken(stream) ==
  /\ stream.ends # "error"
  /\ stream.out # <<>>
  /\ StreamerAccepts(db[Log], stream.out)
  /\ Len(db[Log]) + Len(stream.out) <= MaxLog

\* The window up to last goes through: the reader passes the batches from
\* get_batch_count on, it continues the log and its messages are taken.
Streamable(last) ==
  LET first == db[BatchCount]
  IN  /\ Idle
      /\ Repaired = first
      /\ first <= last
      /\ last < Len(l1.batches)
      /\ Aligned(first)
      /\ Taken(Stream(first, last))

\* add_sequencer_batches_and_stream for the L1 batches up to last.
AddBatches(last) ==
  LET first == db[BatchCount]
  IN  /\ Streamable(last)
      /\ todo' = WindowWrites(first, last, Resolved(Stream(first, last).out, KnownBodies))
      /\ cache' = [n \in Numbers |->
                     IF Accepted(first, last) /\ n > last /\ db[Meta(n)] # Absent THEN Absent
                     ELSE IF n = first - 1 THEN get_batch_metadata(n)
                     ELSE cache[n]]
      /\ UNCHANGED <<l1, db, used>>

\* get_batch_metadata by the reader's loop, which compares the accumulator of a
\* recorded batch with L1's, and by the probes of the search.
GetBatchMetadata(n) ==
  /\ Idle
  /\ n < db[BatchCount]
  /\ cache[n] = Absent
  /\ db[Meta(n)] # Absent
  /\ cache' = [cache EXCEPT ![n] = db[Meta(n)]]
  /\ UNCHANGED <<l1, db, todo, used>>

\* The next key of the call under way is written; the cache is filled last.
WriteKey ==
  /\ todo # <<>>
  /\ LET op == todo[1]
     IN  IF op.key[1] = "cache"
         THEN cache' = [cache EXCEPT ![op.key[2]] = op.val] /\ db' = db
         ELSE db' = [db EXCEPT ![op.key] = op.val] /\ cache' = cache
  /\ todo' = Tail(todo)
  /\ UNCHANGED <<l1, used>>

\* A crash between two keys; initialize finds its keys and writes nothing.
Crash ==
  /\ used.crashes < MaxCrashes
  /\ todo # <<>>
  /\ todo' = <<>>
  /\ cache' = [n \in Numbers |-> Absent]
  /\ used' = [used EXCEPT !.crashes = @ + 1]
  /\ UNCHANGED <<l1, db>>

\* An empty store after initialize.
Init ==
  /\ l1 = [delayed |-> <<>>, batches |-> <<>>]
  /\ db = [key \in Keys |-> CASE key \in {DelayedCount, BatchCount} -> 0
                              [] key = Log -> <<>>
                              [] OTHER -> Absent]
  /\ cache = [n \in Numbers |-> Absent]
  /\ todo = <<>>
  /\ used = [reorgs |-> 0, rereads |-> 0, crashes |-> 0]

Reader ==
  \/ \E first, last \in Positions : AddDelayed(first, last)
  \/ ReorgDelayed
  \/ GetBatchCount
  \/ \E n \in Numbers : GetBatchMetadata(n) \/ AddBatches(n)
  \/ WriteKey

Next ==
  \/ \E body \in Bodies : L1Delayed(body)
  \/ \E segs \in Contents, after \in 0 .. MaxDelayed : L1Batch(segs, after)
  \/ \E d \in 0 .. MaxDelayed, n \in 0 .. MaxBatches : L1Reorg(d, n)
  \/ Reader
  \/ Crash

Spec == Init /\ [][Next]_vars

\* The reader's loop reads on from where it is and calls again after an error,
\* and a call that has begun writes all its keys.  The last conjunct is weak
\* fairness of AddBatches with its enabling condition written out.
Fairness ==
  /\ WF_vars(WriteKey)
  /\ WF_vars(\E last \in Positions : AddDelayed(db[DelayedCount], last))
  /\ \/ []<>(\A last \in Numbers : ~Streamable(last))
     \/ []<><<\E last \in Numbers : AddBatches(last)>>_vars

FairSpec == Spec /\ Fairness

(***************************************************************************)
(* Properties.                                                             *)
(***************************************************************************)

Recorded == 0 .. Repaired - 1

\* Between calls, and no call was cut short by a crash.
Whole == Idle /\ used.crashes = 0

\* The messages that L1's batches stand for.
Canonical ==
  Resolved(ExpandAll(l1.batches, 0, Positions).out,
           [i \in 0 .. Len(l1.delayed) - 1 |-> l1.delayed[i + 1]])

\* The log is always the beginning of the messages that L1 orders: no message is
\* lost, repeated or made up by the way the tracker cuts L1 into windows.
LogIsCanonical == IsPrefix(db[Log], Canonical)

\* Between calls the log ends where the last recorded batch says it does: what
\* the next window is compared with ("non-contiguous append").
LogMatchesMetadata ==
  Idle => Len(db[Log]) = IF Repaired = 0 THEN 0 ELSE db[Meta(Repaired - 1)].messages

\* A batch is recorded only when its messages are in the log, so a crash never
\* leaves a record of messages that the node does not have.
LogCoversMetadata ==
  \A n \in Recorded : db[Meta(n)] # Absent => db[Meta(n)].messages <= Len(db[Log])

\* Until a crash, every batch below the count that get_batch_count answers has its
\* metadata, and they are one chain of L1 batches, through reorgs of L1.
BatchesChained ==
  Whole => \A n \in Recorded :
            /\ db[Meta(n)] # Absent
            /\ Len(db[Meta(n)].acc) = n + 1
            /\ n > 0 => db[Meta(n - 1)].acc = SubSeq(db[Meta(n)].acc, 1, n)

\* Between calls exactly the delayed messages below the count are stored, and
\* their accumulators are one chain, through reorgs of L1 and messages read
\* again.
DelayedChained ==
  Whole => \A i \in Positions :
            /\ HasDelayed(i) <=> i < db[DelayedCount]
            /\ i < db[DelayedCount] => Len(db[Delayed(i)].before) = i
            /\ 0 < i /\ i < db[DelayedCount] => db[Delayed(i)].before = get_delayed_acc(i - 1)

\* Every recorded batch was posted on the delayed messages that are stored now:
\* replacing delayed messages rolls back each batch that read one of them.
BatchesRestOnDelayed ==
  Whole => \A n \in Recorded :
            LET b == db[Meta(n)].acc[n + 1]
            IN  b.after <= db[DelayedCount] /\ DelayedAgree(b)

\* The batch recorded for a delayed count is the one that reached it first, and
\* there is one for every batch that read delayed messages.
SequencedExact ==
  Whole =>
    \A c \in 1 .. MaxDelayed, n \in Numbers :
      db[Sequenced(c)] = n <=>
        /\ n \in Recorded
        /\ db[Meta(n)].delayed = c
        /\ n > 0 => db[Meta(n - 1)].delayed < c

\* At every instant a cached entry is what the store holds.
CacheCoherent == \A n \in Numbers : cache[n] # Absent => cache[n] = db[Meta(n)]

\* What a key that holds old is left with by the writes w.
LastWrite(w, key, old) ==
  LET writes == {k \in 1 .. Len(w) : w[k].key = key}
  IN  IF writes = {} THEN old ELSE w[CHOOSE k \in writes : \A j \in writes : j <= k].val

\* What a key holds once the call under way has written all its keys.
Settles(key) == LastWrite(todo, key, db[key])

Settled ==
  [delayed |-> [i \in 1 .. Settles(DelayedCount) |-> Settles(Delayed(i - 1)).body],
   metas |-> [n \in 1 .. Settles(BatchCount) |-> Settles(Meta(n - 1))],
   log |-> Settles(Log)]

\* A call of InboxCalls takes the records from tr to after.
CallTakes(tr, after) ==
  \/ \E first, last \in 0 .. Len(l1.delayed) - 1 :
       after = add_delayed_messages(tr, DelayedAcc(first),
                                    SubSeq(l1.delayed, first + 1, last + 1)).tr
  \/ /\ Len(l1.delayed) < Len(tr.delayed)
     /\ after = reorg_delayed_to(tr, Len(l1.delayed))
  \/ \E last \in Len(tr.metas) + 1 .. Len(l1.batches) :
       after = add_sequencer_batches_and_stream(tr, BatchAcc(Len(tr.metas)),
                 SubSeq(l1.batches, Len(tr.metas) + 1, last)).tr

\* Until a crash, the keys that the tracker writes, in several batches and over
\* keys left by earlier calls and earlier forks of L1, leave the records that
\* the call promises: the delayed messages, the batches that survive them and
\* the log change together or not at all.
CallsAreAtomic ==
  [][used'.crashes = 0 => Settled' = Settled \/ CallTakes(Settled, Settled')]_vars

\* Every batch that L1 orders is eventually recorded.
EventuallyRecorded == \A n \in Numbers : (Len(l1.batches) > n) ~> (db[BatchCount] > n)

=============================================================================
