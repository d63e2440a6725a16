---------------------------- MODULE BatchStream ----------------------------
(***************************************************************************)
(* What a window of sequencer batches means: the messages that it stands   *)
(* for, without the cursor that the multiplexer keeps.  The module states  *)
(* the result in closed form; Multiplexer has the code's loop and is       *)
(* checked against it, InboxTracker uses it.                               *)
(*                                                                         *)
(* A batch is a record with the fields id, segs and after                  *)
(* (after_delayed_messages).  A segment is a record with a field kind:     *)
(*   "l2"       a message, plain or in brotli that can be decoded          *)
(*   "bad"      a brotli message that cannot                               *)
(*   "delayed"  read one delayed message                                   *)
(*   "advance"  move the clock (its field by says how far)                 *)
(*   "empty"    a segment of no bytes                                      *)
(*   "unknown"  any other kind byte                                        *)
(***************************************************************************)
EXTENDS Integers, Sequences, FiniteSets, SequencesExt

\* The segments that carry a message.
Item(seg) == seg.kind \in {"l2", "bad", "delayed"}

\* The segments that the cursor stops at.
Visible(seg) == Item(seg) \/ seg.kind = "unknown"

\* How many delayed messages the batch reads when read were read before it.
Span(b, read) == IF b.after > read THEN b.after - read ELSE 0

DelayedBefore(b, i) == Cardinality({j \in 1 .. i - 1 : b.segs[j].kind = "delayed"})

\* The places of the visible segments, and their beginning up to the last one
\* that carries a message (or the first, when none does).
VisibleAt(b) ==
  LET places == {i \in 1 .. Len(b.segs) : Visible(b.segs[i])}
  IN  [k \in 1 .. Cardinality(places) |->
         CHOOSE i \in places : Cardinality({j \in places : j <= i}) = k]

Trimmed(b, visible) ==
  LET items == {k \in 1 .. Len(visible) : Item(b.segs[visible[k]])}
  IN  SubSeq(visible, 1, IF items = {} THEN 1 ELSE CHOOSE k \in items : \A j \in items : j <= k)

\* The segments visited, 0 being the delayed segment assumed past the end: all
\* of them and as many 0 as there are delayed messages left, else up to the
\* last one that carries a message.
Slots(b, read) ==
  LET left == Span(b, read) - DelayedBefore(b, Len(b.segs) + 1)
  IN  IF left > 0 THEN VisibleAt(b) \o [k \in 1 .. left |-> 0]
      ELSE IF VisibleAt(b) = <<>> THEN <<0>>
      ELSE Trimmed(b, VisibleAt(b))

\* How many delayed segments come before slot k.
SlotsBefore(b, slots, k) ==
  IF slots[k] # 0 THEN DelayedBefore(b, slots[k])
  ELSE DelayedBefore(b, Len(b.segs) + 1) + Cardinality({j \in 1 .. k - 1 : slots[j] = 0})

\* What slot i gives when before delayed segments come before it and the batch
\* reads span delayed messages from read on; a bad or unknown segment gives no
\* message, only its kind.
SlotGives(b, read, span, i, before) ==
  IF i # 0 /\ b.segs[i].kind = "l2"
    THEN [kind |-> "l2", id |-> <<b.id, i>>,
          read |-> read + (IF before < span THEN before ELSE span)]
  ELSE IF i # 0 /\ b.segs[i].kind \in {"bad", "unknown"}
    THEN [kind |-> b.segs[i].kind, id |-> <<b.id, i>>, read |-> read]
  ELSE IF before < span
    THEN [kind |-> "delayed", id |-> <<read + before>>, read |-> read + before + 1]
  ELSE [kind |-> "invalid", id |-> <<b.id>>, read |-> b.after]

SlotMessages(b, read, slots) ==
  [k \in 1 .. Len(slots) |->
     SlotGives(b, read, Span(b, read), slots[k], SlotsBefore(b, slots, k))]

\* The messages before the first that ends the expansion, and how it ends:
\* "whole", "stopped" at an unknown segment, or "error" at a bad one or at a
\* delayed message that is not among the known ones.
Until(msgs, known) ==
  LET ends == {k \in 1 .. Len(msgs) :
                 \/ msgs[k].kind \in {"bad", "unknown"}
                 \/ msgs[k].kind = "delayed" /\ msgs[k].id[1] \notin known}
  IN  IF ends = {} THEN [out |-> msgs, ends |-> "whole"]
      ELSE LET k == CHOOSE k \in ends : \A j \in ends : k <= j
           IN  [out |-> SubSeq(msgs, 1, k - 1),
                ends |-> IF msgs[k].kind = "unknown" THEN "stopped" ELSE "error"]

\* The messages of one batch.
Expand(b, read, known) == Until(SlotMessages(b, read, Slots(b, read)), known)

\* Nothing follows a batch that does not end whole.
Joined(each) ==
  LET ends == {k \in 1 .. Len(each) : each[k].ends # "whole"}
      n == IF ends = {} THEN Len(each) ELSE CHOOSE k \in ends : \A j \in ends : k <= j
  IN  [out |-> FlattenSeq([k \in 1 .. n |-> each[k].out]),
       ends |-> IF ends = {} THEN "whole" ELSE each[n].ends]

\* The messages of a window: each batch starts at the after of the one before.
ExpandAll(batches, read, known) ==
  Joined([k \in 1 .. Len(batches) |->
            Expand(batches[k], IF k = 1 THEN read ELSE batches[k - 1].after, known)])

\* Mutant: delayed segments are counted as messages of their own.
L2CountWithDelayed(b) == Cardinality({i \in 1 .. Len(b.segs) : Item(b.segs[i])})

\* l2_count: the segments that add_sequencer_batches counts.
L2Count(b) == Cardinality({i \in 1 .. Len(b.segs) : b.segs[i].kind \in {"l2", "bad"}})

=============================================================================
