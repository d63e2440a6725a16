--------------------------- MODULE MCBatchPoster ---------------------------
EXTENDS BatchPoster

\* Two messages of one size fit in a batch, a third or a large one may not.
SmallSizes == {1, 2}

=============================================================================
