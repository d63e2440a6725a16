---------------------------- MODULE InboxReader ----------------------------
(***************************************************************************)
(* The inbox reader (crates/inbox-reader/src/reader.rs) with what it works *)
(* between: the blocks of L1, the header task                              *)
(* (crates/inbox-bridge/src/header_reader.rs), the two bridges that look   *)
(* L1 up (eth_delayed.rs, eth_sequencer.rs) and the tracker's calls        *)
(* (InboxCalls).  A turn of the reader's loop waits for a block, compares  *)
(* counts and accumulators with L1's at that height, and fetches what is   *)
(* missing from a window of blocks whose size adapts.                      *)
(*                                                                         *)
(* The reader is cut where it awaits an answer, so L1 may move between any *)
(* two of its calls.  Block 0 of L1 is empty.  L1 orders at most one       *)
(* delayed message and one batch in a block.  Blocks that are safe stay.   *)
(* A crash in the middle of a tracker call is in InboxTracker; here a      *)
(* restart comes between calls.  Counters that are only reported           *)
(* (last_read_batch_count, last_seen_batch_count) are left out.            *)
(***************************************************************************)
EXTENDS InboxCalls

CONSTANTS
  Modes,            \* read_mode: "latest", or "safe" for it and "finalized"
  FirstBlock,       \* first_message_block
  DelayBlocks,      \* delay_blocks
  MinBlocks,        \* min_blocks_to_read
  DefaultBlocks,    \* default_blocks_to_read
  TargetMessages,   \* target_messages_read
  MaxBlocks,        \* max_blocks_to_read
  Cap,              \* headers that the channel holds (64 in the code)
  Bodies,           \* delayed messages, as far as their hash tells them apart
  Locations,        \* where the data of L1's batches is: subset of 0 .. 3
  Failing,          \* the kinds of call to L1 that may fail, see Calls
  MaxHeight,        \* bound: blocks of L1
  MaxDelayed,       \* bound: delayed messages on L1
  MaxBatches,       \* bound: batches on L1
  MaxLog,           \* bound: messages in the log
  MaxErrors,        \* bound: failed calls
  MaxReorgs,        \* bound: reorgs of L1
  MaxRestarts       \* bound: restarts of the node

\* header: eth_blockNumber and tagged blocks; count, acc, bcount, bacc: the
\* counts and accumulators; delayed, batches: the lookups; data: batch data.
Calls == {"header", "count", "acc", "bcount", "bacc", "delayed", "batches", "data"}

ASSUME ReaderAssumption ==
  /\ Modes \subseteq {"latest", "safe"}
  /\ {FirstBlock, MinBlocks, Cap} \subseteq Nat \ {0}
  /\ {DelayBlocks, DefaultBlocks, TargetMessages, MaxBlocks, MaxHeight, MaxDelayed,
      MaxBatches, MaxLog, MaxErrors, MaxReorgs, MaxRestarts} \subseteq Nat
  /\ MinBlocks <= MaxBlocks
  /\ Locations \subseteq 0 .. 3
  /\ Failing \subseteq Calls

VARIABLES
  mode,       \* read_mode
  chain,      \* L1's blocks: chain[h] is what block h orders
  safe,       \* the number of L1's safe block
  headers,    \* the header channel; past Cap, the header that waits to be sent
  announced,  \* the header task's last
  tr,         \* the tracker's records, see InboxCalls
  rd,         \* the reader's local variables, see Start
  caughtUp,   \* caught_up
  used        \* how much of each bound is spent

vars == <<mode, chain, safe, headers, announced, tr, rd, caughtUp, used>>

Least(a, b) == IF a < b THEN a ELSE b
Most(a, b) == IF a > b THEN a ELSE b
Minus(a, b) == IF a > b THEN a - b ELSE 0

(***************************************************************************)
(* L1.                                                                     *)
(***************************************************************************)

\* The delayed messages, and the batches, of the blocks up to h.
DelayedAt(h) == FlattenSeq([k \in 1 .. Least(h, Len(chain)) |-> chain[k].delayed])
BatchesAt(h) == FlattenSeq([k \in 1 .. Least(h, Len(chain)) |-> chain[k].batches])

Empty == [delayed |-> <<>>, batches |-> <<>>]

\* What block h may order after the delayed messages and the batches before: a
\* batch reads at least what the one before it did, and one without data of its
\* own (location 2, a forced inclusion) reads more.
Blocks(h, delayed, batches) ==
  LET read == IF batches = <<>> THEN 0 ELSE batches[Len(batches)].after
      msgs == {<<>>} \cup (IF Len(delayed) < MaxDelayed
                           THEN {<<[at |-> h, body |-> b]>> : b \in Bodies} ELSE {})
      Batch(m, loc, after) ==
        [id |-> Len(batches), at |-> h, loc |-> loc, after |-> after,
         segs |-> IF loc = 2 THEN <<>> ELSE <<[kind |-> "l2", by |-> 0]>>,
         delayedAcc |-> SubSeq(delayed \o m, 1, after)]
  IN  {[delayed |-> m, batches |-> <<>>] : m \in msgs}
      \cup IF Len(batches) = MaxBatches THEN {}
           ELSE {[delayed |-> c[1], batches |-> <<Batch(c[1], c[2], c[3])>>] :
                   c \in {c \in msgs \X Locations \X (0 .. MaxDelayed) :
                            /\ read <= c[3] /\ c[3] <= Len(delayed) + Len(c[1])
                            /\ c[2] = 2 => read < c[3]}}

L1Block ==
  /\ Len(chain) < MaxHeight
  /\ \E b \in Blocks(Len(chain) + 1, DelayedAt(Len(chain)), BatchesAt(Len(chain))) :
       chain' = Append(chain, b)
  /\ UNCHANGED <<mode, safe, headers, announced, tr, rd, caughtUp, used>>

L1Safe(h) ==
  /\ mode = "safe"
  /\ safe < h
  /\ h <= Len(chain)
  /\ safe' = h
  /\ UNCHANGED <<mode, chain, headers, announced, tr, rd, caughtUp, used>>

\* L1 replaces the blocks from h on, none of them safe, by as many others.
L1Reorg(h) ==
  /\ used.reorgs < MaxReorgs
  /\ safe < h
  /\ h <= Len(chain)
  /\ \E b \in Blocks(h, DelayedAt(h - 1), BatchesAt(h - 1)) \ {chain[h]} :
       chain' = [k \in 1 .. Len(chain) |-> IF k < h THEN chain[k] ELSE IF k = h THEN b ELSE Empty]
  /\ used' = [used EXCEPT !.reorgs = @ + 1]
  /\ UNCHANGED <<mode, safe, headers, announced, tr, rd, caughtUp>>

\* A call to L1 is answered, or fails.
Answered(call, ok) ==
  \/ ok /\ used' = used
  \/ /\ ~ok
     /\ call \in Failing
     /\ used.errors < MaxErrors
     /\ used' = [used EXCEPT !.errors = @ + 1]

(***************************************************************************)
(* The header task: it polls the number of the newest block and sends the  *)
(* ones above its last.  It does not poll while send waits for room.       *)
(***************************************************************************)

PollHeader ==
  /\ rd.pc # "ended"
  /\ Len(headers) <= Cap
  /\ announced < Len(chain)
  /\ announced' = Len(chain)
  /\ headers' = Append(headers, Len(chain))
  /\ UNCHANGED <<mode, chain, safe, tr, rd, caughtUp, used>>

(***************************************************************************)
(* The reader waits for a block.                                           *)
(***************************************************************************)

\* get_next_block_to_read, and the loop's variables when it starts: the window
\* is the blocks from .. to, found says what is wrong at height, got counts the
\* messages fetched, batches are those fetched and prior those before them on L1,
\* check is the count compared.
Start(delayed) ==
  [pc |-> "begin",
   from |-> IF delayed = <<>> THEN FirstBlock
            ELSE Most(delayed[Len(delayed)].at, FirstBlock),
   fetch |-> DefaultBlocks, height |-> 0, to |-> 0, found |-> {}, check |-> 0,
   got |-> 0, prior |-> <<>>, batches |-> <<>>]

\* The loop's next turn, with a window of fetch blocks from from on.
Turn(from, fetch) == [Start(<<>>) EXCEPT !.from = from, !.fetch = fetch]

\* start returns an error, which the node drops: its task is over.
Ended == [Turn(0, 0) EXCEPT !.pc = "ended"]

\* Mutant: the newest block is read in every mode.
TipNewest == Len(chain)

\* The height to read to: last_header, or latest_safe_block_nr.
Tip == IF mode = "latest" THEN Len(chain) ELSE safe

\* The height was read; no answer, or no safe block, ends the task.
HeightRead(ok) == ok /\ (mode = "safe" => safe > 0)

Begin ==
  /\ rd.pc = "begin"
  /\ \E ok \in BOOLEAN :
       /\ Answered("header", ok)
       /\ rd' = IF HeightRead(ok)
                THEN [rd EXCEPT !.pc = "wait", !.height = Tip,
                                !.from = IF mode = "safe" /\ @ > safe + 1 THEN safe ELSE @]
                ELSE Ended
  /\ UNCHANGED <<mode, chain, safe, headers, announced, tr, caughtUp>>

Ready ==
  IF mode = "latest" THEN rd.height >= rd.from + DelayBlocks + MinBlocks - 1
  ELSE rd.from < rd.height

RecvHeader ==
  /\ rd.pc = "wait"
  /\ ~Ready
  /\ headers # <<>>
  /\ headers' = Tail(headers)
  /\ \/ /\ mode = "latest"
        /\ rd' = [rd EXCEPT !.height = headers[1]]
        /\ used' = used
     \/ /\ mode = "safe"
        /\ \E ok \in BOOLEAN :
             /\ Answered("header", ok)
             /\ rd' = IF HeightRead(ok) THEN [rd EXCEPT !.height = safe] ELSE Ended
  /\ UNCHANGED <<mode, chain, safe, announced, tr, caughtUp>>

\* check_delay_ms; only "latest" has it.
Tick ==
  /\ rd.pc = "wait"
  /\ ~Ready
  /\ mode = "latest"
  /\ \E ok \in BOOLEAN :
       /\ Answered("header", ok)
       /\ rd' = IF ok THEN [rd EXCEPT !.height = Len(chain)] ELSE Ended
  /\ UNCHANGED <<mode, chain, safe, headers, announced, tr, caughtUp>>

(***************************************************************************)
(* It compares its records with L1's at height.                            *)
(***************************************************************************)

\* The height that the turn works at: delay_blocks below, but no lower than the
\* first block.
WindowHeight ==
  IF mode = "latest" THEN Most(Minus(rd.height, DelayBlocks), FirstBlock) ELSE rd.height

\* What the bridges answer about block h.  An accumulator stands for the sequence
\* that it hashes; L1 has none of a message or batch that it does not have, and
\* the error is taken for the zero hash.
get_message_count(h) == Len(DelayedAt(h))
get_batch_count(h) == Len(BatchesAt(h))
DelayedAccumulator(n, h) == IF n <= get_message_count(h) THEN SubSeq(DelayedAt(h), 1, n) ELSE <<>>
BatchAccumulator(n, h) == IF n <= get_batch_count(h) THEN SubSeq(BatchesAt(h), 1, n) ELSE <<>>

\* L1 counts n delayed messages at h: the records are cut to that, or messages
\* are missing.
DelayedCounted(h, n) ==
  LET ours == Len(tr.delayed)
  IN  /\ tr' = IF ours > n THEN reorg_delayed_to(tr, n) ELSE tr
      /\ rd' = [rd EXCEPT !.pc = IF Least(ours, n) > 0 THEN "acc" ELSE "bcount",
                          !.height = h,
                          !.from = IF mode = "latest" THEN Least(@, h) ELSE @,
                          !.found = IF ours < n THEN {"missingDelayed"} ELSE {},
                          !.check = Least(ours, n)]

\* delayed_bridge.get_message_count: an error is taken for 0.
Count ==
  /\ rd.pc = "wait"
  /\ Ready
  /\ \E ok \in BOOLEAN :
       /\ Answered("count", ok)
       /\ DelayedCounted(WindowHeight,
            IF ok /\ WindowHeight <= Len(chain) THEN get_message_count(WindowHeight) ELSE 0)
  /\ UNCHANGED <<mode, chain, safe, headers, announced, caughtUp>>

\* delayed_bridge.get_accumulator of the last message compared.
CompareDelayed ==
  /\ rd.pc = "acc"
  /\ \E ok \in BOOLEAN :
       /\ Answered("acc", ok)
       /\ rd' = [rd EXCEPT !.pc = "bcount",
                           !.found = IF ok /\ SubSeq(tr.delayed, 1, rd.check)
                                             = DelayedAccumulator(rd.check, rd.height)
                                     THEN @ ELSE @ \cup {"reorgingDelayed"}]
  /\ UNCHANGED <<mode, chain, safe, headers, announced, tr, caughtUp>>

\* L1 counts n batches at height.
BatchesCounted(n) ==
  LET ours == Len(tr.metas)
  IN  rd' = [rd EXCEPT !.pc = IF Least(ours, n) > 0 THEN "bacc" ELSE "decide",
                       !.found = IF ours < n THEN @ \cup {"missingBatches"} ELSE @,
                       !.check = Least(ours, n)]

\* sequencer_inbox.get_batch_count: after an error the reader looks for batches.
CountBatches ==
  /\ rd.pc = "bcount"
  /\ \E ok \in BOOLEAN :
       /\ Answered("bcount", ok)
       /\ IF ok /\ rd.height <= Len(chain) THEN BatchesCounted(get_batch_count(rd.height))
          ELSE rd' = [rd EXCEPT !.pc = "decide", !.found = @ \cup {"missingBatches"}]
  /\ UNCHANGED <<mode, chain, safe, headers, announced, tr, caughtUp>>

\* sequencer_inbox.get_accumulator of the last batch compared.
CompareBatches ==
  /\ rd.pc = "bacc"
  /\ \E ok \in BOOLEAN :
       /\ Answered("bacc", ok)
       /\ rd' = [rd EXCEPT !.pc = "decide",
                           !.found = IF ok /\ tr.metas[rd.check].acc
                                             = BatchAccumulator(rd.check, rd.height)
                                     THEN @ ELSE @ \cup {"reorgingBatches"}]
  /\ UNCHANGED <<mode, chain, safe, headers, announced, tr, caughtUp>>

\* "nothing missing; advancing"
NothingMissing ==
  /\ rd.pc = "decide"
  /\ rd.found = {}
  /\ rd' = Turn(rd.height + 1, DefaultBlocks)
  /\ caughtUp' = (caughtUp \/ mode = "latest")
  /\ UNCHANGED <<mode, chain, safe, headers, announced, tr, used>>

(***************************************************************************)
(* It fetches what is missing from a window of blocks.                     *)
(***************************************************************************)

\* lookup_messages_in_range: a message of the blocks first .. last is added after
\* those of the blocks before.  What the tracker then holds, and how many.
DelayedIn(first, last) ==
  SubSeq(DelayedAt(last), Len(DelayedAt(first - 1)) + 1, Len(DelayedAt(last)))

AddDelayedIn(first, last) == add_delayed_messages(tr, DelayedAt(first - 1), DelayedIn(first, last))

\* Mutant: the window ends one block later than what was compared.
ToBlockPast == rd.from + rd.fetch

\* to_block
ToBlock == Least(rd.from + rd.fetch, rd.height)

FetchDelayed ==
  /\ rd.pc = "decide"
  /\ rd.found # {}
  /\ \/ /\ rd.found \cap {"missingDelayed", "reorgingDelayed"} = {}
        /\ rd' = [rd EXCEPT !.pc = "batches", !.to = ToBlock]
        /\ UNCHANGED <<tr, used>>
     \/ /\ rd.found \cap {"missingDelayed", "reorgingDelayed"} # {}
        /\ \E ok \in BOOLEAN :
             LET added == AddDelayedIn(rd.from, ToBlock)
             IN  /\ Answered("delayed", ok)
                 /\ tr' = IF ok THEN added.tr ELSE tr
                 /\ rd' = [rd EXCEPT !.pc = "batches", !.to = ToBlock,
                             !.got = IF ok /\ added.ok
                                     THEN Len(DelayedIn(rd.from, ToBlock)) ELSE 0]
  /\ UNCHANGED <<mode, chain, safe, headers, announced, caughtUp>>

BatchesIn(first, last) ==
  SubSeq(BatchesAt(last), Len(BatchesAt(first - 1)) + 1, Len(BatchesAt(last)))

\* lookup_batches_in_range, when batches are missing; an error finds none.
BatchesFound(ok) ==
  IF ok /\ rd.found \cap {"missingBatches", "reorgingBatches"} # {}
  THEN BatchesIn(rd.from, rd.to)
  ELSE <<>>

FetchBatches ==
  /\ rd.pc = "batches"
  /\ \E ok \in BOOLEAN :
       /\ rd.found \cap {"missingBatches", "reorgingBatches"} = {} => ok
       /\ Answered("batches", ok)
       /\ rd' = [rd EXCEPT !.pc = IF BatchesFound(ok) = <<>> THEN "finish" ELSE "data",
                           !.batches = BatchesFound(ok),
                           !.prior = IF BatchesFound(ok) = <<>> THEN <<>> ELSE BatchesAt(rd.from - 1)]
  /\ UNCHANGED <<mode, chain, safe, headers, announced, tr, caughtUp>>

\* The delayed messages that the batches fetched read are stored.
Supplied(batches) == \A k \in 1 .. Len(batches) : batches[k].after <= Len(tr.delayed)

OnL1(b) == b \in Range(BatchesAt(Len(chain)))

\* The data of every batch: from its transaction (location 0, which may still be
\* found after a reorg), from an event of its block (1), none (2).  A batch in
\* blobs (3), or an error, ends the task.
FetchData ==
  /\ rd.pc = "data"
  /\ \E ok \in BOOLEAN :
       /\ \/ Answered("data", ok)
          \/ /\ ~ok
             /\ \E b \in Range(rd.batches) : b.loc = 0 /\ ~OnL1(b)
             /\ used' = used
       /\ rd' = IF ok /\ \A b \in Range(rd.batches) : b.loc # 3 /\ (b.loc = 1 => OnL1(b))
                THEN [rd EXCEPT !.pc = IF Supplied(rd.batches) THEN "add" ELSE "backfill"]
                ELSE Ended
  /\ UNCHANGED <<mode, chain, safe, headers, announced, tr, caughtUp>>

\* The delayed messages that a batch reads and that are not stored are looked up
\* from the block of the last one stored on.
BackfillStart ==
  IF tr.delayed = <<>> THEN rd.from ELSE Most(tr.delayed[Len(tr.delayed)].at, FirstBlock)

Backfill ==
  /\ rd.pc = "backfill"
  /\ \E ok \in BOOLEAN :
       /\ Answered("delayed", ok)
       /\ tr' = IF ok THEN AddDelayedIn(BackfillStart, rd.batches[Len(rd.batches)].at).tr ELSE tr
  /\ rd' = [rd EXCEPT !.pc = "add"]
  /\ UNCHANGED <<mode, chain, safe, headers, announced, caughtUp>>

\* get_prev_block_for_reorg
PrevBlock(from, back) == Most(Minus(from, back), FirstBlock)

\* filtered: the fetched batches from the expected one on.  Those of a range of
\* blocks are consecutive.
Filtered(expected) ==
  IF rd.batches[1].id > expected THEN <<>>
  ELSE SubSeq(rd.batches, expected - rd.batches[1].id + 1, Len(rd.batches))

\* The batches that L1 ordered before those.
Before(expected) == rd.prior \o SubSeq(rd.batches, 1, expected - rd.batches[1].id)

\* add_sequencer_batches_and_stream for those batches gave added; an error is
\* only logged.
AddFollowing(bs, added) ==
  /\ Len(added.tr.log) <= MaxLog
  /\ tr' = added.tr
  /\ rd' = [rd EXCEPT !.pc = "finish", !.got = IF added.ok THEN @ + Len(bs) ELSE @]

\* No fetched batch is the expected one: if they are all later ones, the window
\* moves back, unless no batch is recorded yet.
NoneFollow(expected) ==
  /\ tr' = tr
  /\ rd' = IF expected > 0 /\ rd.batches[1].id > expected
           THEN [rd EXCEPT !.pc = "finish", !.from = PrevBlock(@, rd.fetch), !.fetch = MinBlocks]
           ELSE [rd EXCEPT !.pc = "finish"]

AddTo(expected, bs) ==
  IF bs = <<>> THEN NoneFollow(expected)
  ELSE AddFollowing(bs, add_sequencer_batches_and_stream(tr, Before(expected), bs))

AddBatches ==
  /\ rd.pc = "add"
  /\ AddTo(Len(tr.metas), Filtered(Len(tr.metas)))
  /\ UNCHANGED <<mode, chain, safe, headers, announced, caughtUp, used>>

\* Mutant: the window does not grow after a window without messages.
ResizedOnlyDown(fetch, got) ==
  LET fifth == (fetch + 4) \div 5
  IN  Most(IF got >= (TargetMessages * 3) \div 2 THEN fetch - fifth ELSE fetch, MinBlocks)

\* blocks_to_fetch after a window that had got messages: a fifth more after none,
\* a fifth less after more than half over the target.
Resized(fetch, got) ==
  LET fifth == (fetch + 4) \div 5
      next == IF got = 0 THEN fetch + fifth
              ELSE IF got >= (TargetMessages * 3) \div 2 THEN fetch - fifth
              ELSE fetch
  IN  Least(Most(next, MinBlocks), MaxBlocks)

\* Mutant: the next window starts at the newest block that was compared.
NextWindowAtHeight(fetch) == Turn(IF rd.got > 0 THEN rd.height + 1 ELSE rd.from, fetch)

\* The next window starts after this one if a message was found in it.
NextWindow(fetch) == Turn(IF rd.got > 0 THEN rd.to + 1 ELSE rd.from, fetch)

\* After a reorg the reader walks back, and ends at the first block.
WalkBack(fetch) ==
  IF rd.from <= FirstBlock THEN Ended ELSE Turn(PrevBlock(rd.from, fetch), MinBlocks)

Finish ==
  /\ rd.pc = "finish"
  /\ rd' = IF rd.found \cap {"reorgingDelayed", "reorgingBatches"} # {}
           THEN WalkBack(Resized(rd.fetch, rd.got))
           ELSE NextWindow(Resized(rd.fetch, rd.got))
  /\ UNCHANGED <<mode, chain, safe, headers, announced, tr, caughtUp, used>>

(***************************************************************************)
(* The specification.                                                      *)
(***************************************************************************)

\* The node starts again with its database.
Restart ==
  /\ used.restarts < MaxRestarts
  /\ rd' = Start(tr.delayed)
  /\ headers' = <<>>
  /\ announced' = 0
  /\ caughtUp' = FALSE
  /\ used' = [used EXCEPT !.restarts = @ + 1]
  /\ UNCHANGED <<mode, chain, safe, tr>>

Init ==
  /\ mode \in Modes
  /\ chain = <<>>
  /\ safe = 0
  /\ headers = <<>>
  /\ announced = 0
  /\ tr = Fresh
  /\ rd = Start(<<>>)
  /\ caughtUp = FALSE
  /\ used = [errors |-> 0, reorgs |-> 0, restarts |-> 0]

Compare == Count \/ CompareDelayed \/ CountBatches \/ CompareBatches \/ NothingMissing
Fetch == FetchDelayed \/ FetchBatches \/ FetchData \/ Backfill \/ AddBatches \/ Finish

Reader == Begin \/ RecvHeader \/ Tick \/ Compare \/ Fetch

Next ==
  \/ L1Block
  \/ \E h \in 1 .. MaxHeight : L1Safe(h) \/ L1Reorg(h)
  \/ PollHeader
  \/ Reader
  \/ Restart

Spec == Init /\ [][Next]_vars

\* The reader has a step to take: its task lives and does not wait for a block
\* that L1 does not have.
CanStep ==
  /\ rd.pc # "ended"
  /\ rd.pc = "wait" => \/ Ready
                       \/ headers # <<>>
                       \/ mode = "latest" /\ rd.height # Len(chain)

\* The reader's task is scheduled and its calls are answered, with an answer or
\* an error; its timer ticks.
FairSpec == Spec /\ WF_vars(Reader)

\* The same with the enabling condition of Reader and its effect written out,
\* which TLC evaluates faster.
ScheduledSpec ==
  /\ Spec
  /\ []<>~CanStep \/ []<><<rd' # rd \/ Len(headers') < Len(headers)>>_vars

(***************************************************************************)
(* Properties.                                                             *)
(***************************************************************************)

\* The messages that the batches stand for.
Canonical(batches, delayed) ==
  Resolved(ExpandAll(batches, 0, 0 .. Len(delayed) - 1).out,
           [i \in 0 .. Len(delayed) - 1 |-> delayed[i + 1]])

\* All that the blocks up to h order is stored, recorded and in the log.
Covered(h) ==
  /\ IsPrefix(DelayedAt(h), tr.delayed)
  /\ Len(tr.metas) >= Len(BatchesAt(h))
  /\ IsPrefix(Canonical(BatchesAt(h), DelayedAt(h)), tr.log)

\* The reader never moves its window past a block that orders a delayed message
\* or a batch it does not have, however the windows cut L1.
NothingSkipped == rd.pc # "ended" => Covered(rd.from - 1)

\* recent_parent_chain_block_to_msg
MsgsUpTo(h) ==
  LET upTo == SelectSeq(tr.metas, LAMBDA m : m.acc[Len(m.acc)].at <= h)
  IN  IF upTo = <<>> THEN 0 ELSE upTo[Len(upTo)].messages

\* The message count reported for a block of L1 (get_safe_msg_count) is exactly
\* what the recorded batches up to that block amount to.
CountsUpToBlock ==
  \A h \in 0 .. MaxHeight :
    LET n == Least(Len(tr.metas), Len(BatchesAt(h)))
    IN  MsgsUpTo(h) = Len(Canonical(SubSeq(BatchesAt(h), 1, n), DelayedAt(MaxHeight)))

\* Through faults and reorgs of L1 the recorded batches are one chain of L1's and
\* each was posted on the delayed messages that are stored.  Its messages are in
\* the log, unless L1 has forced inclusions: a cold start takes the delayed
\* messages stored for read, and a log that began with a forced inclusion may be
\* one message short of them.
RecordsRestOnDelayed ==
  \A n \in 1 .. Len(tr.metas) :
    /\ Len(tr.metas[n].acc) = n
    /\ n > 1 => tr.metas[n - 1].acc = SubSeq(tr.metas[n].acc, 1, n - 1)
    /\ IsPrefix(tr.metas[n].acc[n].delayedAcc, tr.delayed)
    /\ 2 \notin Locations => tr.metas[n].messages <= Len(tr.log)

\* A reader of safe blocks holds what is in them and nothing else, so no reorg of
\* L1 reaches its records, whatever calls fail and whenever it restarts.
OnlySafeRecorded ==
  mode = "safe" =>
    /\ IsPrefix(tr.delayed, DelayedAt(safe))
    /\ IsPrefix(LastMeta(tr).acc, BatchesAt(safe))

\* While no call fails it skips nothing, takes nothing back and goes on, through
\* reorgs of L1.
SafeReaderUndisturbed ==
  [][mode = "safe" /\ used'.errors = 0 /\ used'.restarts = 0 =>
       /\ rd'.pc # "ended" => Covered(rd'.from - 1)
       /\ IsPrefix(tr.delayed, tr'.delayed)
       /\ IsPrefix(tr.metas, tr'.metas)
       /\ rd'.pc = "ended" => rd.pc = "ended" \/ safe = 0 \/ \E b \in Range(rd.batches) : b.loc = 3]_vars

\* As many delayed messages and batches are recorded as the blocks up to h order.
Reached(h) ==
  /\ Len(tr.delayed) >= Cardinality({k \in 1 .. Least(h, Len(chain)) : chain[k].delayed # <<>>})
  /\ Len(tr.metas) >= Cardinality({k \in 1 .. Least(h, Len(chain)) : chain[k].batches # <<>>})

\* Whatever L1 orders reaches the node, once L1 is delay_blocks past it.
CatchesUp ==
  \A h \in FirstBlock .. MaxHeight :
    (Len(chain) >= h + DelayBlocks + MinBlocks - 1) ~> Reached(h)

=============================================================================
