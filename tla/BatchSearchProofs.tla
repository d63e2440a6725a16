-------------------------- MODULE BatchSearchProofs --------------------------
(***************************************************************************)
(* What the search finds in every history of message counts, of any        *)
(* length, with and without batches that hold no message.                  *)
(***************************************************************************)
EXTENDS BatchSearch, TLAPS

\* A history as the search uses it: its domain is an initial segment and its
\* values never decrease.
LEMMA HistoryShape ==
  ASSUME NEW h \in Histories
  PROVE  /\ DOMAIN h \subseteq Nat
         /\ \A i \in DOMAIN h : h[i] \in Nat
         /\ \A i \in DOMAIN h, j \in Nat : j <= i => j \in DOMAIN h
         /\ \A i, j \in DOMAIN h : i < j => h[i] <= h[j]
<1>1. PICK n \in 0 .. MaxBatches :
        /\ h \in [0 .. n - 1 -> Nat]
        /\ \A i, j \in 0 .. n - 1 : i < j => h[i] <= h[j]
  BY HistoriesAssumption
<1>2. n \in Nat
  BY HistoriesAssumption
<1>3. DOMAIN h = 0 .. n - 1
  BY <1>1
<1> QED
  BY <1>1, <1>2, <1>3

\* The middle of two indexes lies between them.
LEMMA Middle ==
  ASSUME NEW l \in Nat, NEW h \in Nat, l <= h
  PROVE  /\ (l + h) \div 2 \in Nat
         /\ l <= (l + h) \div 2
         /\ (l + h) \div 2 <= h
         /\ l < h => (l + h) \div 2 < h
OBVIOUS

\* While the loop runs its middle is a batch between the bounds.
LEMMA MidIsBatch ==
  ASSUME SearchInv, pc = "loop"
  PROVE  /\ mid \in Batches
         /\ low <= mid
         /\ mid <= high
         /\ low \in Nat
         /\ high \in Nat
         /\ mid \in Nat
         /\ counts[mid] \in Nat
<1>1. /\ low \in Batches
      /\ high \in Batches
      /\ low <= high
  BY DEF SearchInv
<1>2. /\ low \in Nat
      /\ high \in Nat
  BY <1>1, HistoryShape DEF SearchInv, Batches
<1>3. /\ mid \in Nat
      /\ low <= mid
      /\ mid <= high
  BY <1>1, <1>2, Middle DEF mid
<1>4. mid \in Batches
  BY <1>1, <1>3, HistoryShape DEF SearchInv, Batches
<1> QED
  BY <1>2, <1>3, <1>4, HistoryShape DEF SearchInv, Batches

\* The two bounds of an iteration that goes on, and what it returns when they
\* meet.
LEMMA NarrowKeeps ==
  ASSUME SearchInv, pc = "loop", NEW l \in Batches, NEW h \in Batches, l <= h,
         pos < counts[h], l > 0 => counts[l - 1] < pos, Narrow(l, h)
  PROVE  SearchInv' /\ FindsContaining'
<1>1. /\ counts \in Histories
      /\ pos \in Nat
      /\ counts' = counts
      /\ pos' = pos
      /\ low' = l
      /\ high' = h
      /\ Batches' = Batches
  BY DEF SearchInv, Narrow, Batches
<1>2. SearchInv'
  BY <1>1 DEF SearchInv
<1>3. CASE h = l
  <2>1. /\ pc' = "found"
        /\ answer' = h
    BY <1>3 DEF Narrow
  <2>2. h \in Nat
    BY <1>1, HistoryShape DEF Batches
  <2>3. h > 0 => h - 1 \in Batches
    BY <1>1, <2>2, HistoryShape DEF Batches
  <2>4. h > 0 => counts[h - 1] \in Nat
    BY <1>1, <2>3, HistoryShape DEF Batches
  <2>5. Contains(answer)'
    BY <1>1, <1>3, <2>1, <2>2, <2>4 DEF Contains
  <2> QED
    BY <1>2, <2>1, <2>5 DEF FindsContaining
<1>4. CASE h # l
  <2>1. pc' = "loop"
    BY <1>4 DEF Narrow
  <2> QED
    BY <1>2, <2>1 DEF FindsContaining
<1> QED
  BY <1>2, <1>3, <1>4

\* A step that returns batch i, which holds the message or none.
LEMMA ReturnKeeps ==
  ASSUME SearchInv, NEW i, Return(i),
         Contains(i) \/ (WithoutMessage(i) /\ counts[i] \in {pos, pos + 1})
  PROVE  SearchInv' /\ FindsContaining'
<1>1. /\ counts' = counts
      /\ pos' = pos
      /\ pc' = "found"
      /\ answer' = i
      /\ Batches' = Batches
  BY DEF Return, Batches
<1>2. SearchInv'
  BY <1>1 DEF SearchInv
<1>3. (Contains(answer) \/ (WithoutMessage(answer) /\ counts[answer] \in {pos, pos + 1}))'
  BY <1>1 DEF Contains, WithoutMessage
<1> QED
  BY <1>1, <1>2, <1>3 DEF FindsContaining

\* One step of the search.
LEMMA SearchStep ==
  ASSUME SearchInv, FindsContaining, [Next]_vars
  PROVE  SearchInv' /\ FindsContaining'
<1>1. CASE NotFound
  <2>1. /\ counts' = counts
        /\ pos' = pos
        /\ pc' = "none"
        /\ Batches' = Batches
    BY <1>1 DEF NotFound, Batches
  <2>2. SearchInv'
    BY <2>1 DEF SearchInv
  <2>3. ASSUME NEW i \in Batches PROVE ~Contains(i)
    <3>1. PICK n \in 0 .. MaxBatches : counts \in [0 .. n - 1 -> Nat]
      BY HistoriesAssumption DEF SearchInv
    <3>2. n \in Nat /\ Batches = 0 .. n - 1
      BY <3>1, HistoriesAssumption DEF Batches
    <3>3. Last(n - 1)
      BY <2>3, <3>2 DEF Last
    <3>4. counts[n - 1] <= pos
      BY <1>1, <3>2, <3>3 DEF NotFound, Last
    <3>5. i = n - 1 \/ counts[i] <= counts[n - 1]
      BY <2>3, <3>2, HistoryShape DEF SearchInv, Batches
    <3>6. counts[i] \in Nat /\ counts[n - 1] \in Nat
      BY <2>3, <3>1, <3>2
    <3> QED
      BY <3>4, <3>5, <3>6 DEF Contains, SearchInv
  <2> QED
    BY <2>1, <2>2, <2>3 DEF FindsContaining, Contains
<1>2. ASSUME NEW i \in Batches, Start(i)
      PROVE  SearchInv' /\ FindsContaining'
  <2>1. /\ counts' = counts
        /\ pos' = pos
        /\ pc' = "loop"
        /\ low' = 0
        /\ high' = i
        /\ Batches' = Batches
        /\ pos < counts[i]
    <3>1. counts[i] \in Nat /\ pos \in Nat
      BY <1>2, HistoryShape DEF SearchInv, Batches
    <3> QED
      BY <1>2, <3>1 DEF Start, Batches
  <2>2. i \in Nat /\ 0 \in Batches
    BY <1>2, HistoryShape DEF SearchInv, Batches
  <2> QED
    BY <1>2, <2>1, <2>2 DEF SearchInv, FindsContaining
<1>3. CASE EndsBefore
  <2>1. pc = "loop" /\ counts[mid] < pos /\ Narrow(mid + 1, high)
    BY <1>3 DEF EndsBefore
  <2>2. mid # high
    BY <2>1, MidIsBatch DEF SearchInv
  <2>3. mid + 1 <= high
    BY <2>1, <2>2, MidIsBatch
  <2>4. mid + 1 \in Batches
    BY <2>1, <2>3, MidIsBatch, HistoryShape DEF SearchInv, Batches
  <2>5. (mid + 1) - 1 = mid
    BY <2>1, MidIsBatch
  <2> QED
    BY <2>1, <2>3, <2>4, <2>5, NarrowKeeps DEF SearchInv
<1>4. CASE EndsAt
  <2>1. pc = "loop" /\ counts[mid] = pos /\ Return(mid + 1)
    BY <1>4 DEF EndsAt
  <2>2. mid # high
    BY <2>1, MidIsBatch DEF SearchInv
  <2>3. mid + 1 \in Batches
    BY <2>1, <2>2, MidIsBatch, HistoryShape DEF SearchInv, Batches
  <2>4. counts[mid] <= counts[mid + 1] /\ counts[mid + 1] \in Nat
    BY <2>1, <2>3, MidIsBatch, HistoryShape DEF SearchInv, Batches
  <2>5. (mid + 1) - 1 = mid
    BY <2>1, MidIsBatch
  <2>6. Contains(mid + 1) \/ (WithoutMessage(mid + 1) /\ counts[mid + 1] \in {pos, pos + 1})
    BY <2>1, <2>3, <2>4, <2>5, MidIsBatch DEF Contains, WithoutMessage
  <2> QED
    BY <2>1, <2>6, ReturnKeeps
<1>5. CASE Holds
  <2>1. /\ pc = "loop"
        /\ counts[mid] > pos
        /\ counts[mid] = pos + 1 \/ mid = low
        /\ Return(mid)
    BY <1>5 DEF Holds
  <2>2. mid > 0 => mid - 1 \in Batches
    BY <2>1, MidIsBatch, HistoryShape DEF SearchInv, Batches
  <2>3. mid > 0 => counts[mid - 1] \in Nat /\ counts[mid - 1] <= counts[mid]
    BY <2>1, <2>2, MidIsBatch, HistoryShape DEF SearchInv, Batches
  <2>4. pos \in Nat /\ counts[mid] \in Nat
    BY <2>1, MidIsBatch DEF SearchInv
  <2>5. CASE counts[mid] = pos + 1
    <3>1. mid > 0 => counts[mid - 1] <= pos \/ counts[mid - 1] = counts[mid]
      BY <2>3, <2>4, <2>5
    <3>2. Contains(mid) \/ (WithoutMessage(mid) /\ counts[mid] \in {pos, pos + 1})
      BY <2>1, <2>4, <2>5, <3>1, MidIsBatch DEF Contains, WithoutMessage
    <3> QED
      BY <2>1, <3>2, ReturnKeeps
  <2>6. CASE mid = low
    <3>1. mid > 0 => counts[mid - 1] <= pos
      BY <2>1, <2>3, <2>4, <2>6 DEF SearchInv
    <3>2. Contains(mid)
      BY <2>1, <2>4, <3>1, MidIsBatch DEF Contains
    <3> QED
      BY <2>1, <3>2, ReturnKeeps
  <2> QED
    BY <2>1, <2>5, <2>6
<1>6. CASE EndsAfter
  <2>1. pc = "loop" /\ counts[mid] > pos + 1 /\ Narrow(low, mid)
    BY <1>6 DEF EndsAfter
  <2>2. pos < counts[mid]
    BY <2>1, MidIsBatch DEF SearchInv
  <2> QED
    BY <2>1, <2>2, MidIsBatch, NarrowKeeps DEF SearchInv
<1>7. CASE UNCHANGED vars
  BY <1>7 DEF vars, SearchInv, FindsContaining, Contains, WithoutMessage, Batches
<1> QED
  BY <1>1, <1>2, <1>3, <1>4, <1>5, <1>6, <1>7 DEF Next

\* find_inbox_batch_containing_message returns the batch that holds the message, or
\* next to it one that holds no message, and answers that there is none only when
\* there is none.
THEOREM SearchIsCorrect == Spec => []FindsContaining
<1>1. Init => SearchInv /\ FindsContaining
  BY HistoriesAssumption DEF Init, SearchInv, FindsContaining
<1>2. SearchInv /\ FindsContaining /\ [Next]_vars => SearchInv' /\ FindsContaining'
  BY SearchStep
<1> QED
  BY <1>1, <1>2, PTL DEF Spec
=============================================================================
