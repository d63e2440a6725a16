---------------------------- MODULE BatchPoster ----------------------------
(***************************************************************************)
(* The batch poster (crates/batch-poster/src/poster.rs) and the segment    *)
(* source it takes messages from (crates/node/src/segment_source.rs).      *)
(* Every tick it compares the tracker's delayed count with the last one it *)
(* posted; when that moved it asks L1 for the bounds of the batch, takes   *)
(* messages of the streamer's log up to a budget of bytes, and sends the   *)
(* batch.  The log and the delayed count move meanwhile: they belong to    *)
(* other tasks.                                                            *)
(*                                                                         *)
(* A message is known by its size and the fork of the log that it is on.   *)
(* The encoding of the batch, its bounds and its price decide nothing and  *)
(* are left out; L1 that cannot tell the bounds only leaves them open.     *)
(***************************************************************************)
EXTENDS Integers, Sequences

CONSTANTS
  Sizes,        \* sizes of messages, in bytes
  Budget,       \* max_bytes
  HasKey,       \* poster_private_key_hex is configured
  MaxLog,       \* bound: messages in the log
  MaxDelayed,   \* bound: the delayed count
  MaxMoves,     \* bound: moves of the delayed count
  MaxReorgs,    \* bound: reorgs of the log
  MaxRestarts   \* bound: restarts of the node

ASSUME PosterAssumption ==
  /\ Sizes \subseteq Nat
  /\ HasKey \in BOOLEAN
  /\ {Budget, MaxLog, MaxDelayed, MaxMoves, MaxReorgs, MaxRestarts} \subseteq Nat

VARIABLES
  log,           \* the streamer's messages, message i at i + 1
  delayedCount,  \* get_delayed_count of the tracker
  ps,            \* the poster and its segment source, see Start
  sent,          \* the batches that reached L1, in order
  used           \* how much of each bound is spent

vars == <<log, delayedCount, ps, sent, used>>

(***************************************************************************)
(* The other tasks.                                                        *)
(***************************************************************************)

Message(size) == [size |-> size, fork |-> used.reorgs]

AppendMessage(size) ==
  /\ Len(log) < MaxLog
  /\ log' = Append(log, Message(size))
  /\ UNCHANGED <<delayedCount, ps, sent, used>>

\* The streamer's log is rolled back to n messages.
ReorgLog(n) ==
  /\ used.reorgs < MaxReorgs
  /\ n < Len(log)
  /\ log' = SubSeq(log, 1, n)
  /\ used' = [used EXCEPT !.reorgs = @ + 1]
  /\ UNCHANGED <<delayedCount, ps, sent>>

\* The inbox reader adds delayed messages or rolls them back.
MoveDelayed(n) ==
  /\ used.moves < MaxMoves
  /\ n # delayedCount
  /\ delayedCount' = n
  /\ used' = [used EXCEPT !.moves = @ + 1]
  /\ UNCHANGED <<log, ps, sent>>

(***************************************************************************)
(* The poster.                                                             *)
(***************************************************************************)

NoCount == -1

\* last is last_after_delayed, cursor is last_posted_msg_idx, head the head index
\* that the loop runs to, segs the messages taken, with their index, and bytes
\* their size, the loop's used.
Start == [pc |-> "tick", last |-> NoCount, cursor |-> 0, head |-> 0, segs |-> <<>>,
          bytes |-> 0]

\* Mutant: only a count that grew gives a batch.
BuildWhenGrown ==
  /\ ps.pc = "tick"
  /\ delayedCount > ps.last
  /\ ps' = [ps EXCEPT !.pc = "bounds", !.last = delayedCount]
  /\ UNCHANGED <<log, delayedCount, sent, used>>

\* build_batch_bytes: a count that was posted before gives no batch.  The new one
\* is remembered before the batch is built.
Build ==
  /\ ps.pc = "tick"
  /\ delayedCount # ps.last
  /\ ps' = [ps EXCEPT !.pc = "bounds", !.last = delayedCount]
  /\ UNCHANGED <<log, delayedCount, sent, used>>

\* get_head_message_index: u64::MAX for an empty log, above every index.
HeadIndex == IF log = <<>> THEN MaxLog ELSE Len(log) - 1

\* resolve_l1_bounds has answered, or failed and left the bounds open;
\* next_segments starts.
ReadHead ==
  /\ ps.pc = "bounds"
  /\ ps' = [ps EXCEPT !.pc = "take", !.head = HeadIndex]
  /\ UNCHANGED <<log, delayedCount, sent, used>>

\* The message that the loop is at; its key may be gone since the head was read.
At == ps.cursor + 1 + Len(ps.segs)
There == At <= ps.head /\ At < Len(log)

MessageAt == log[At + 1]

\* Mutant: each message is held against the whole budget.
FitsAlone == There /\ MessageAt.size <= Budget

Fits == There /\ ps.bytes + MessageAt.size <= Budget

Take ==
  /\ ps.pc = "take"
  /\ Fits
  /\ ps' = [ps EXCEPT !.segs = Append(@, [idx |-> At, msg |-> MessageAt]),
                      !.bytes = @ + MessageAt.size]
  /\ UNCHANGED <<log, delayedCount, sent, used>>

\* Mutant: the cursor goes to the head that was seen.
CursorToHead == IF ps.segs = <<>> THEN ps.cursor ELSE ps.head

\* Mutant: the cursor is not moved past what is taken.
CursorStays == ps.cursor

\* last_taken
Cursor == ps.cursor + Len(ps.segs)

\* The loop ends at its head, at a message that is gone or at one that does not
\* fit; the cursor moves before the batch is sent.
TakenAll ==
  /\ ps.pc = "take"
  /\ ~Fits
  /\ ps' = [ps EXCEPT !.pc = "post", !.cursor = Cursor, !.head = 0,
                      !.bytes = 0]
  /\ UNCHANGED <<log, delayedCount, sent, used>>

Batch == [after |-> ps.last, segs |-> ps.segs]

\* post_to_l1 answers: without a key it sends nothing, and that is no error.
Posted ==
  /\ ps.pc = "post"
  /\ ps' = [ps EXCEPT !.pc = "tick", !.segs = <<>>]
  /\ sent' = IF HasKey THEN Append(sent, Batch) ELSE sent
  /\ UNCHANGED <<log, delayedCount, used>>

\* Mutant: the task goes on with the next tick.
GoesOn == [ps EXCEPT !.pc = "tick", !.segs = <<>>]

\* start returns the error, and the node drops it.
Ends == [ps EXCEPT !.pc = "ended", !.segs = <<>>]

\* send_transaction fails, before or after the transaction reached L1.
PostFails ==
  /\ ps.pc = "post"
  /\ HasKey
  /\ ps' = Ends
  /\ sent' \in {sent, Append(sent, Batch)}
  /\ UNCHANGED <<log, delayedCount, used>>

\* Nothing of the poster's state is stored.
Restart ==
  /\ used.restarts < MaxRestarts
  /\ ps' = Start
  /\ used' = [used EXCEPT !.restarts = @ + 1]
  /\ UNCHANGED <<log, delayedCount, sent>>

Init ==
  /\ log = <<>>
  /\ delayedCount = 0
  /\ ps = Start
  /\ sent = <<>>
  /\ used = [moves |-> 0, reorgs |-> 0, restarts |-> 0]

Poster == Build \/ ReadHead \/ Take \/ TakenAll \/ Posted

Next ==
  \/ \E size \in Sizes : AppendMessage(size)
  \/ \E n \in 0 .. MaxLog : ReorgLog(n)
  \/ \E n \in 0 .. MaxDelayed : MoveDelayed(n)
  \/ Poster
  \/ PostFails
  \/ Restart

Spec == Init /\ [][Next]_vars

\* The task is scheduled, its timer ticks and its calls to L1 are answered.
FairSpec == Spec /\ WF_vars(Poster)

(***************************************************************************)
(* Properties.                                                             *)
(***************************************************************************)

\* Messages by index from 1 on, none twice, none before its turn, none left out.
InOrder(batches) ==
  \A k \in 1 .. Len(batches) : \A i \in 1 .. Len(batches[k].segs) :
    /\ batches[k].segs[i].idx >= 1
    /\ \A l \in 1 .. k : \A j \in 1 .. Len(batches[l].segs) :
         l < k \/ j < i => batches[l].segs[j].idx < batches[k].segs[i].idx
    /\ \A n \in 1 .. batches[k].segs[i].idx :
         \E l \in 1 .. k : \E j \in 1 .. Len(batches[l].segs) : batches[l].segs[j].idx = n

\* Until a restart, L1 gets the messages in order, though the cursor moves before a
\* batch is sent and a batch that is not sent is not kept: the error that loses it
\* also ends the task.
SentInOrder == used.restarts = 0 => InOrder(sent)

\* A reorg of the log may come between any two messages of a batch, or between two
\* batches, and what was taken before it stays.  L1 then gets messages of two forks,
\* but until a restart it never gets one of a fork that was rolled back after one of
\* the fork that replaced it.
ForkNeverReturns ==
  used.restarts = 0 =>
    \A k \in 1 .. Len(sent) : \A i \in 1 .. Len(sent[k].segs) :
      \A l \in 1 .. k : \A j \in 1 .. Len(sent[l].segs) :
        l < k \/ j < i => sent[l].segs[j].msg.fork <= sent[k].segs[i].msg.fork

\* The sizes of messages, added up one by one, stay within the budget.
FitTogether(segs) ==
  \E total \in [0 .. Len(segs) -> 0 .. Budget] :
    /\ total[0] = 0
    /\ \A i \in 1 .. Len(segs) : total[i] = total[i - 1] + segs[i].msg.size

\* No batch is over the budget, whatever sizes meet in it.
WithinBudget == \A k \in 1 .. Len(sent) : FitTogether(sent[k].segs)

\* A delayed count that stays is posted, or the poster's task has ended.
NewCountIsPosted ==
  \A n \in 0 .. MaxDelayed :
    (delayedCount = n) ~> \/ delayedCount # n
                          \/ ps.pc = "ended"
                          \/ sent # <<>> /\ sent[Len(sent)].after = n

=============================================================================
