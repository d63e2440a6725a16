----------------------------- MODULE InboxCalls -----------------------------
(***************************************************************************)
(* What the calls of the inbox tracker (crates/inbox/src/tracker.rs) do to *)
(* its records when each runs to its end, as operators on a record tr:     *)
(*   delayed   the delayed messages stored                                 *)
(*   metas     the metadata of the batches recorded, batch n at n + 1      *)
(*   log       the streamer's messages                                     *)
(* InboxTracker writes the same calls key by key and is checked against    *)
(* these; InboxReader calls them.  An accumulator of L1 is the sequence    *)
(* that it hashes.                                                         *)
(***************************************************************************)
EXTENDS BatchStream

Fresh == [delayed |-> <<>>, metas |-> <<>>, log |-> <<>>]

(***************************************************************************)
(* Delayed messages.                                                       *)
(***************************************************************************)

\* Mutant: the batches that read what is replaced stay recorded.
MetasKept(metas, first) == metas

\* The batches before the first that reads a delayed message from first on.
RolledBack(metas, first) ==
  LET over == {n \in 1 .. Len(metas) : metas[n].delayed > first}
  IN  IF over = {} THEN metas
      ELSE SubSeq(metas, 1, (CHOOSE n \in over : \A m \in over : n <= m) - 1)

\* set_delayed_count_reorg_and_write_batch: msgs replace everything from first on.
SetDelayed(tr, first, msgs) ==
  [tr EXCEPT !.delayed = SubSeq(@, 1, first) \o msgs, !.metas = RolledBack(@, first)]

reorg_delayed_to(tr, count) == SetDelayed(tr, count, <<>>)

\* The messages before the first new one are stored, with L1's accumulator.
ExtendsStored(tr, before) == IsPrefix(before, tr.delayed)

\* add_delayed_messages, which fails when ExtendsStored does not hold.
add_delayed_messages(tr, before, msgs) ==
  IF msgs # <<>> /\ ExtendsStored(tr, before)
  THEN [ok |-> TRUE, tr |-> SetDelayed(tr, Len(before), msgs)]
  ELSE [ok |-> FALSE, tr |-> tr]

(***************************************************************************)
(* Batches.  A batch has the fields of BatchStream and delayedAcc, the     *)
(* delayed messages that it was posted on.                                 *)
(***************************************************************************)

NoBatch == [acc |-> <<>>, messages |-> 0, delayed |-> 0]
LastMeta(tr) == IF tr.metas = <<>> THEN NoBatch ELSE tr.metas[Len(tr.metas)]

\* The log has messages and no batch is recorded ("cold-start align").
StartsCold(tr) == tr.metas = <<>> /\ tr.log # <<>>

\* The window continues the log; if not it is skipped.
Continues(tr) == StartsCold(tr) \/ Len(tr.log) = LastMeta(tr).messages

\* delayed_messages_read for the multiplexer.
ReadSoFar(tr) == IF StartsCold(tr) THEN Len(tr.delayed) ELSE LastMeta(tr).delayed

\* The streamer refuses messages that skip a delayed one.
StreamerAccepts(log, out) ==
  \A k \in 1 .. Len(out) :
    out[k].read <= 1 + (IF k > 1 THEN out[k - 1].read
                        ELSE IF log = <<>> THEN 0 ELSE log[Len(log)].read)

\* Streamed messages, with the content of the delayed messages they stand for.
Resolved(out, bodies) ==
  [k \in 1 .. Len(out) |->
     IF out[k].kind = "delayed" THEN [out[k] EXCEPT !.id = <<bodies[out[k].id[1]]>>]
     ELSE out[k]]

\* Mutant: the batches before do not count.
CountAlone(prev, b) == L2Count(b) + Span(b, prev.delayed)

\* msg_count_for_batch
MessageCount(prev, b) == prev.messages + L2Count(b) + Span(b, prev.delayed)

\* The metadata of the batches bs, which follow the batches before.
MetasFor(prev, before, bs) ==
  LET meta[k \in 0 .. Len(bs)] ==
        IF k = 0 THEN prev
        ELSE [acc |-> before \o SubSeq(bs, 1, k),
              messages |-> MessageCount(meta[k - 1], bs[k]),
              delayed |-> bs[k].after]
  IN  [k \in 1 .. Len(bs) |-> meta[k]]

\* The checks of add_sequencer_batches: the accumulator of the batch before, and
\* those of the delayed messages that each batch was posted on.
Chained(tr, before, bs) ==
  /\ LastMeta(tr).acc = before
  /\ \A k \in 1 .. Len(bs) : IsPrefix(bs[k].delayedAcc, tr.delayed)

\* The messages are in the log; the batches are recorded if they pass.
Streamed(tr, before, bs, out) ==
  IF Chained(tr, before, bs)
  THEN [ok |-> TRUE, tr |-> [tr EXCEPT !.log = @ \o out,
                                       !.metas = @ \o MetasFor(LastMeta(tr), before, bs)]]
  ELSE [ok |-> FALSE, tr |-> [tr EXCEPT !.log = @ \o out]]

\* What is done with the stream that the multiplexer made of the batches.
StreamWindow(tr, before, bs, stream) ==
  IF stream.ends = "error" THEN [ok |-> FALSE, tr |-> tr]
  ELSE IF stream.out = <<>> THEN [ok |-> TRUE, tr |-> tr]
  ELSE IF StreamerAccepts(tr.log, stream.out)
  THEN Streamed(tr, before, bs,
                Resolved(stream.out, [i \in 0 .. Len(tr.delayed) - 1 |-> tr.delayed[i + 1]]))
  ELSE [ok |-> FALSE, tr |-> tr]

\* add_sequencer_batches_and_stream for the batches bs, the first of which is the
\* one after the last recorded; a window that does not continue the log is
\* skipped, and that is no error.
add_sequencer_batches_and_stream(tr, before, bs) ==
  IF Continues(tr)
  THEN StreamWindow(tr, before, bs,
                    ExpandAll(bs, ReadSoFar(tr), 0 .. Len(tr.delayed) - 1))
  ELSE [ok |-> TRUE, tr |-> tr]

=============================================================================
