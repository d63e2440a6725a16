--------------------------- MODULE MCBatchSearch ---------------------------
EXTENDS BatchSearch

CONSTANT MaxCount

\* Every history within the bounds, with batches that hold no message.
SmallHistories ==
  UNION {{h \in [0 .. n - 1 -> 0 .. MaxCount] : \A i, j \in 0 .. n - 1 : i < j => h[i] <= h[j]} :
         n \in 0 .. MaxBatches}

SmallPositions == 0 .. MaxCount + 1

=============================================================================
