--------------------------- MODULE MCInboxTracker ---------------------------
EXTENDS InboxTracker

L2 == [kind |-> "l2", by |-> 0]
D == [kind |-> "delayed", by |-> 0]
A == [kind |-> "advance", by |-> 1]

\* Batches as a sequencer posts them: at least one message of its own, and
\* delayed segments only for delayed messages that it adds.
OneL2 == {<<L2>>}
PostedContents == {<<L2>>, <<A, L2, L2>>}

=============================================================================
