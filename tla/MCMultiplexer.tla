--------------------------- MODULE MCMultiplexer ---------------------------
EXTENDS Multiplexer

Kinds == {"l2", "bad", "delayed", "empty", "unknown"}

SomeSegments == {[kind |-> k, by |-> 0] : k \in Kinds} \cup {[kind |-> "advance", by |-> 2]}

\* Segments of the batches that a sequencer posts.
PlainSegments == {s \in SomeSegments : s.kind \in {"l2", "delayed", "advance"}}

SeqsUpTo(S, n) == UNION {[1 .. m -> S] : m \in 0 .. n}

Batch(i, segs, after) == [id |-> i, segs |-> segs, after |-> after, min |-> 1, max |-> 3]

\* One batch of up to three segments, after any number of delayed messages.
OneBatch == {<<Batch(1, s, d)>> : s \in SeqsUpTo(SomeSegments, 3), d \in 0 .. MaxKnown}

\* Two batches of up to two segments each; the delayed count never goes back.
TwoBatches ==
  {<<Batch(1, s, d), Batch(2, t, e)>> :
     s \in SeqsUpTo(PlainSegments, 2), t \in SeqsUpTo(SomeSegments, 2),
     d \in 0 .. MaxKnown, e \in 0 .. MaxKnown}

AllWindows ==
  OneBatch \cup {w \in TwoBatches : w[1].after <= w[2].after}

=============================================================================
