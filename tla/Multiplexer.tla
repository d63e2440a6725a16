---------------------------- MODULE Multiplexer ----------------------------
(***************************************************************************)
(* The inbox multiplexer (crates/inbox/src/multiplexer.rs) over the        *)
(* tracker's backend: a cursor over a window of batches that each pop      *)
(* moves to the next message.  cached_msg is the batch at pos, its absence *)
(* the cursor's initial values.  The L1 block number is advanced and       *)
(* clamped exactly as the timestamp is and is left out; so are the payload *)
(* bytes and their decompression, whose outcome is the segment's kind.     *)
(***************************************************************************)
EXTENDS BatchStream

CONSTANTS
  Windows,    \* the windows of batches that the tracker may pass; a batch also
              \* has the fields min and max, its timestamp bounds
  MaxKnown,   \* bound: delayed messages held by the tracker
  TimeLimit   \* u64::MAX, where the clock saturates

Segments == [kind : {"l2", "bad", "delayed", "advance", "empty", "unknown"}, by : Nat]
Batches == [id : Nat, segs : Seq(Segments), after : Nat, min : Nat, max : Nat]

\* A window is not empty, and L1's count of delayed messages never goes back.
ASSUME WindowsAssumption ==
  /\ MaxKnown \in Nat
  /\ TimeLimit \in Nat
  /\ \A w \in Windows :
       /\ w \in Seq(Batches)
       /\ w # <<>>
       /\ \A j, k \in 1 .. Len(w) : j <= k => w[j].after <= w[k].after

VARIABLES
  batches,    \* the window
  known,      \* the delayed messages that the tracker holds
  start,      \* delayed_messages_read as given to new()
  pos,        \* batch_idx, from 1
  within,     \* pos_within
  read,       \* delayed_messages_read
  segNum,     \* cached_segment_num
  subNum,     \* cached_submessage_number
  clock,      \* cached_segment_timestamp
  out,        \* the messages popped so far, with their timestamps
  status      \* how the tracker's loop over pop stands

cursor == <<pos, within, read, segNum, subNum, clock>>
vars == <<batches, known, start, cursor, out, status>>

\* The batch at the cursor, and a segment of it, from 0 as in the code.
seq == batches[pos]
seg(i) == seq.segs[i + 1]
SegLen == Len(seq.segs)

Least(S) == CHOOSE n \in S : \A m \in S : n <= m

Saturate(n) == IF n > TimeLimit THEN TimeLimit ELSE n

\* u64::clamp
Clamp(n, lo, hi) == IF n < lo THEN lo ELSE IF n > hi THEN hi ELSE n

\* Segments from segNum up to i that the loop of get_next_msg counts.
Submessages(i) == Cardinality({j \in segNum .. i - 1 : Visible(seg(j))})

\* Where the loop of get_next_msg stops: at the first segment that is neither
\* empty nor an advance once the target number of them is behind, or at the end.
NextSegment ==
  Least({i \in segNum .. SegLen :
           i < SegLen => Visible(seg(i)) /\ subNum + Submessages(i) >= within})

\* Mutant: the clock reached by the pops before is forgotten.
NextClockRestarts ==
  LET advance[i \in segNum .. NextSegment] ==
        IF i = segNum THEN 0
        ELSE IF seg(i - 1).kind = "advance" THEN Saturate(advance[i - 1] + seg(i - 1).by)
        ELSE advance[i - 1]
  IN  advance[NextSegment]

\* The clock there; each advance adds its amount with saturating_add.
NextClock ==
  LET advance[i \in segNum .. NextSegment] ==
        IF i = segNum THEN clock
        ELSE IF seg(i - 1).kind = "advance" THEN Saturate(advance[i - 1] + seg(i - 1).by)
        ELSE advance[i - 1]
  IN  advance[NextSegment]

\* The segment to act on; past the end a delayed one is assumed.
Kind == IF NextSegment < SegLen THEN seg(NextSegment).kind ELSE "delayed"

\* Mutants: delayed segments that follow are overlooked; delayed messages left
\* for the end of the batch are.
LastIfNoL2(newRead) ==
  /\ newRead >= seq.after
  /\ \A i \in NextSegment + 1 .. SegLen - 1 : seg(i).kind \notin {"l2", "bad"}
LastIfNoSegment(newRead) ==
  \A i \in NextSegment + 1 .. SegLen - 1 : ~Item(seg(i))

\* is_cached_segment_last, with the delayed count as get_next_msg left it.
is_cached_segment_last(newRead) ==
  /\ newRead >= seq.after
  /\ \A i \in NextSegment + 1 .. SegLen - 1 : ~Item(seg(i))

advance_seq_msg ==
  /\ pos' = pos + 1
  /\ read' = seq.after
  /\ within' = 0
  /\ segNum' = 0
  /\ subNum' = 0
  /\ clock' = 0

advance_submsg(newRead) ==
  /\ pos' = pos
  /\ read' = newRead
  /\ within' = within + 1
  /\ segNum' = NextSegment
  /\ subNum' = subNum + Submessages(NextSegment)
  /\ clock' = NextClock

\* The rest of pop once get_next_msg has returned.
Advance(newRead) ==
  /\ IF is_cached_segment_last(newRead) THEN advance_seq_msg
                                        ELSE advance_submsg(newRead)
  /\ UNCHANGED <<batches, known, start>>

\* pop found a batch; the tracker's loop is still running.
Peeked == status = "running" /\ pos <= Len(batches)

Emit(msg, time) ==
  /\ out' = Append(out, [msg |-> msg, time |-> time])
  /\ status' = status

PopL2 ==
  /\ Peeked
  /\ Kind = "l2"
  /\ Emit([kind |-> "l2", id |-> <<seq.id, NextSegment + 1>>, read |-> read],
          Clamp(NextClock, seq.min, seq.max))
  /\ Advance(read)

\* A delayed message keeps the timestamp it was sent with, written here as 0.
PopDelayed ==
  /\ Peeked
  /\ Kind = "delayed"
  /\ read < seq.after
  /\ read \in known
  /\ Emit([kind |-> "delayed", id |-> <<read>>, read |-> read + 1], 0)
  /\ Advance(read + 1)

PopInvalid ==
  /\ Peeked
  /\ Kind = "delayed"
  /\ read >= seq.after
  /\ Emit([kind |-> "invalid", id |-> <<seq.id>>, read |-> seq.after], seq.max)
  /\ Advance(read)

\* The payload cannot be decompressed or the delayed message is not there: the
\* error ends the tracker's call.
PopError ==
  /\ Peeked
  /\ Kind = "bad" \/ (Kind = "delayed" /\ read < seq.after /\ read \notin known)
  /\ status' = "error"
  /\ out' = out
  /\ Advance(read)

\* Ok(None): the tracker's loop ends, whatever the window still holds.
PopUnknown ==
  /\ Peeked
  /\ Kind = "unknown"
  /\ status' = "stopped"
  /\ out' = out
  /\ Advance(read)

\* peek_sequencer_inbox fails past the last batch.
PopEnd ==
  /\ status = "running"
  /\ pos > Len(batches)
  /\ status' = "whole"
  /\ UNCHANGED <<batches, known, start, cursor, out>>

Init ==
  /\ batches \in Windows
  /\ known \in {0 .. n - 1 : n \in 0 .. MaxKnown}
  /\ start \in 0 .. MaxKnown
  /\ pos = 1
  /\ within = 0
  /\ read = start
  /\ segNum = 0
  /\ subNum = 0
  /\ clock = 0
  /\ out = <<>>
  /\ status = "running"

Next == PopL2 \/ PopDelayed \/ PopInvalid \/ PopError \/ PopUnknown \/ PopEnd

Spec == Init /\ [][Next]_vars

(***************************************************************************)
(* Properties.                                                             *)
(***************************************************************************)

Expansion == ExpandAll(batches, start, known)

Popped == [k \in 1 .. Len(out) |-> out[k].msg]

\* What has been popped is always the beginning of what the window stands for,
\* and when the loop ends it is all of it: the cached cursor skips nothing,
\* repeats nothing and stops exactly where the window's meaning does.
PopsExpansion ==
  /\ Len(out) <= Len(Expansion.out)
  /\ Popped = SubSeq(Expansion.out, 1, Len(out))
  /\ status # "running" => Popped = Expansion.out /\ status = Expansion.ends

\* Whenever the window continues where the previous one ended, each message
\* reads at most one delayed message more than the one before, and delayed
\* messages come out in order, each once: what the streamer demands.
DelayedStepByStep ==
  start <= batches[1].after =>
    \A k \in 1 .. Len(out) :
      LET before == IF k = 1 THEN start ELSE out[k - 1].msg.read
      IN  /\ out[k].msg.read \in {before, before + 1}
          /\ out[k].msg.kind = "delayed" <=> out[k].msg.read = before + 1
          /\ out[k].msg.kind = "delayed" => out[k].msg.id = <<before>>

\* The sum of all advances before segment i of batch b.
AdvancesBefore(b, i) ==
  LET total[j \in 1 .. i] ==
        IF j = 1 THEN 0
        ELSE total[j - 1] + (IF b.segs[j - 1].kind = "advance" THEN b.segs[j - 1].by ELSE 0)
  IN  total[i]

\* The timestamp of a message is the sum of all advances before it in its own
\* batch, clamped to the batch's bounds, however many pops the cursor took to
\* get there.
TimeIsSumOfAdvances ==
  \A k \in 1 .. Len(out) :
    out[k].msg.kind = "l2" =>
      \E n \in 1 .. Len(batches) :
        /\ out[k].msg.id[1] = batches[n].id
        /\ out[k].time = Clamp(Saturate(AdvancesBefore(batches[n], out[k].msg.id[2])),
                               batches[n].min, batches[n].max)

\* The count that add_sequencer_batches records for the window (the messages of
\* all its batches: l2_count plus the increase of the delayed count).
RecordedCount ==
  LET count[k \in 0 .. Len(batches)] ==
        IF k = 0 THEN 0
        ELSE count[k - 1] + L2Count(batches[k])
             + Span(batches[k], IF k = 1 THEN start ELSE batches[k - 1].after)
  IN  count[Len(batches)]

\* The recorded count is the number of messages streamed, which the tracker
\* compares it with before the next window ("non-contiguous append"), but for
\* the invalid ones: a batch that yields one puts the two counts out of step.
CountIsRecorded ==
  status = "whole" /\ start <= batches[1].after =>
    RecordedCount = Cardinality({k \in 1 .. Len(out) : out[k].msg.kind # "invalid"})

=============================================================================
